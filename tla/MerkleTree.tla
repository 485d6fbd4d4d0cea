----------------------------- MODULE MerkleTree -----------------------------
(***************************************************************************)
(* The client-side incremental Merkle tree of tests/utils/merkle-tree.ts,  *)
(* with the hashing helpers of tests/utils/hash.ts.                        *)
(*                                                                         *)
(* A hash is a symbolic term: Hash(x) is SHA-256 of the bytes x, and       *)
(* HashLeftRight(l, r) is SHA-256 of the two children concatenated in      *)
(* byte order.  Because hashLeftRight sorts its two inputs before hashing, *)
(* the term keeps the children as an unordered set; no two different     *)
(* terms stand for the same digest (collision freedom).                   *)
(*                                                                         *)
(* Code indices are 0-based; the leaf log `leaves` is a TLA+ sequence, so  *)
(* code index k is position k+1.  filledSubtrees and ZeroTree are          *)
(* functions on the code's level numbers 0..Levels-1.                      *)
(***************************************************************************)
EXTENDS Integers, Sequences

SeqX == INSTANCE SequencesExt

CONSTANTS
  Levels,     \* the tree depth passed to the constructor (8 in storage.ts and relay.ts)
  Seed,       \* the seeds buffer the zero values are derived from
  Values      \* the byte strings callers insert (model values)

ASSUME Levels \in Nat \ {0}
ASSUME Seed \notin Values

VARIABLES
  root,            \* this.root
  filledSubtrees,  \* this.filledSubtrees
  nextIndex,       \* this.nextIndex
  leaves,          \* this.leaves: local-only log of leaf hashes
  result           \* outcome of the last call: "ok" or the error it threw

tree == <<root, filledSubtrees, nextIndex, leaves>>
vars == <<root, filledSubtrees, nextIndex, leaves, result>>

Lv == 0 .. Levels - 1
Capacity == 2 ^ Levels

-----------------------------------------------------------------------------
(* hash.ts *)

Hash(x) == [sha256 |-> x]
HashLeftRight(l, r) == [sha256Sorted |-> {l, r}]

\* hashPairs: hash consecutive pairs of an even-length layer
HashPairs(layer) ==
  [j \in 1 .. Len(layer) \div 2 |-> HashLeftRight(layer[2 * j - 1], layer[2 * j])]

-----------------------------------------------------------------------------
(* calcZeros: zeroTree[0] = H(H(seeds) || H(seeds)), zeroTree[i] =        *)
(* H(zeroTree[i-1] || zeroTree[i-1]); emptyValue = zeroTree[0].           *)

RECURSIVE ZeroAt(_)
ZeroAt(i) ==
  IF i = 0 THEN HashLeftRight(Hash(Seed), Hash(Seed))
           ELSE HashLeftRight(ZeroAt(i - 1), ZeroAt(i - 1))

ZeroTree == [i \in Lv |-> ZeroAt(i)]
EmptyValue == ZeroTree[0]

AsLeaf(val) == Hash(val)

-----------------------------------------------------------------------------
(* Pure path helpers: computePath, isValidPath, verifyLeaf.  A path is    *)
(* the sequence of nodes from the leaf (position 1) to the top.           *)

RECURSIVE ComputePath(_, _)
ComputePath(proof, leaf) ==
  IF proof = <<>> THEN <<leaf>>
  ELSE <<leaf>> \o ComputePath(Tail(proof), HashLeftRight(leaf, Head(proof)))

IsValidPath(path, r) == Len(path) # 0 /\ SeqX!Last(path) = r

VerifyLeaf(proof, r, leaf) == IsValidPath(ComputePath(proof, leaf), r)

-----------------------------------------------------------------------------
(* Proof construction (getIndexForLeaf, getProofForLeafAtIndex).          *)

\* the index of the first equal leaf; -1 stands for the code's `undefined`
GetIndexForLeaf(leaf) == SeqX!SelectInSeq(leaves, LAMBDA x : x = leaf) - 1

\* a proof entry read from outside a layer is `undefined` in the code
Undefined == [undefined |-> TRUE]

\* layer i of the brute-force rebuild, padded to even length with
\* zeroTree[i] (the code pads the array it has already stored in layers)
RECURSIVE LayerAt(_, _)
LayerAt(ls, i) ==
  LET layer == IF i = 0 THEN ls ELSE HashPairs(LayerAt(ls, i - 1))
  IN IF Len(layer) % 2 # 0 THEN Append(layer, ZeroTree[i]) ELSE layer

\* layer[j] in the code: undefined outside the array
At(layer, j) == IF j \in DOMAIN layer THEN layer[j] ELSE Undefined

\* Mutant: until_leaf read as a count of leaves, slice(0, until_leaf).
GetProofForLeafAtIndexCount(forLeaf, untilLeaf) ==
  IF leaves = <<>> THEN [k \in 1 .. Levels |-> ZeroTree[k - 1]]
  ELSE IF forLeaf = -1 THEN [k \in 1 .. Levels |-> Undefined]
  ELSE
    LET ls == SubSeq(leaves, 1, IF untilLeaf < Len(leaves) THEN untilLeaf ELSE Len(leaves))
        idx(i) == forLeaf \div (2 ^ i)
    IN [k \in 1 .. Levels |->
          IF idx(k - 1) % 2 = 0 THEN At(LayerAt(ls, k - 1), idx(k - 1) + 2)
                                ELSE At(LayerAt(ls, k - 1), idx(k - 1))]

GetProofForLeafAtIndex(forLeaf, untilLeaf) ==
  IF leaves = <<>> THEN [k \in 1 .. Levels |-> ZeroTree[k - 1]]
  ELSE IF forLeaf = -1 THEN [k \in 1 .. Levels |-> Undefined]
  ELSE
    LET ls == SubSeq(leaves, 1, IF untilLeaf + 1 < Len(leaves) THEN untilLeaf + 1 ELSE Len(leaves))
        idx(i) == forLeaf \div (2 ^ i)
    IN [k \in 1 .. Levels |->
          IF idx(k - 1) % 2 = 0 THEN At(LayerAt(ls, k - 1), idx(k - 1) + 2)
                                ELSE At(LayerAt(ls, k - 1), idx(k - 1))]

\* Mutant: the leaf looked up by the raw value, not by asLeaf(val).
GetProofForRawValue(val) ==
  GetProofForLeafAtIndex(GetIndexForLeaf(val), nextIndex)

GetProofFor(val) == GetProofForLeafAtIndex(GetIndexForLeaf(AsLeaf(val)), nextIndex)

\* the proofs a caller can obtain for val: getProofFor, or
\* getProofForCommitment against the root left by any leaf from val's own
\* index onwards (for_leaf > until_leaf throws)
ProofsFor(val) ==
  LET i == GetIndexForLeaf(AsLeaf(val))
  IN IF i = -1 THEN {GetProofFor(val)}
     ELSE {GetProofForLeafAtIndex(i, u) : u \in i .. nextIndex}

-----------------------------------------------------------------------------
(* insert: the level walk, as a recursion over (level, index, hash,       *)
(* filledSubtrees); it yields the final hash and the updated cache.       *)

RECURSIVE InsertWalk(_, _, _, _)
InsertWalk(i, currentIndex, currentLevelHash, fs) ==
  IF i = Levels THEN <<currentLevelHash, fs>>
  ELSE IF currentIndex % 2 = 0
    THEN InsertWalk(i + 1, currentIndex \div 2,
                    HashLeftRight(currentLevelHash, ZeroTree[i]),
                    [fs EXCEPT ![i] = currentLevelHash])
    ELSE InsertWalk(i + 1, currentIndex \div 2,
                    HashLeftRight(fs[i], currentLevelHash), fs)

Init ==
  /\ root = ZeroTree[Levels - 1]
  /\ filledSubtrees = [i \in Lv |-> ZeroTree[i]]
  /\ nextIndex = 0
  /\ leaves = <<>>
  /\ result = "ok"

\* Mutant: the capacity check written `>` instead of `>=`.
InsertPastCapacity(val) ==
  LET leaf == AsLeaf(val)
      walk == InsertWalk(0, nextIndex, leaf, filledSubtrees)
  IN /\ nextIndex <= Capacity
     /\ leaves' = Append(leaves, leaf)
     /\ filledSubtrees' = walk[2]
     /\ root' = walk[1]
     /\ nextIndex' = nextIndex + 1
     /\ result' = "ok"

\* Mutant: the walk starts from the incremented index.
InsertAtNextSlot(val) ==
  LET leaf == AsLeaf(val)
      walk == InsertWalk(0, nextIndex + 1, leaf, filledSubtrees)
  IN /\ nextIndex < Capacity
     /\ leaves' = Append(leaves, leaf)
     /\ filledSubtrees' = walk[2]
     /\ root' = walk[1]
     /\ nextIndex' = nextIndex + 1
     /\ result' = "ok"

Insert(val) ==
  LET leaf == AsLeaf(val)
      walk == InsertWalk(0, nextIndex, leaf, filledSubtrees)
  IN /\ nextIndex < Capacity
     /\ leaves' = Append(leaves, leaf)
     /\ filledSubtrees' = walk[2]
     /\ root' = walk[1]
     /\ nextIndex' = nextIndex + 1
     /\ result' = "ok"

\* insert on a full tree throws before touching any field
InsertWhenFull(val) ==
  /\ nextIndex >= Capacity
  /\ result' = "TreeFull"
  /\ UNCHANGED tree

\* replaceLeaf: both paths are computed first (an `undefined` proof entry
\* makes Buffer.concat throw a TypeError), then the proof is checked
\* against the current root, and only then is any field written.
\* Mutant: replaceLeaf without the filledSubtrees refresh loop.
ReplaceLeafKeepCache(proof, originalLeaf, newLeaf) ==
  LET originalPath == ComputePath(proof, originalLeaf)
      newPath == ComputePath(proof, newLeaf)
      at == GetIndexForLeaf(originalLeaf)
  IN \/ /\ \E k \in DOMAIN proof : proof[k] = Undefined
        /\ result' = "TypeError"
        /\ UNCHANGED tree
     \/ /\ \A k \in DOMAIN proof : proof[k] # Undefined
        /\ ~IsValidPath(originalPath, root)
        /\ result' = "InvalidProof"
        /\ UNCHANGED tree
     \/ /\ \A k \in DOMAIN proof : proof[k] # Undefined
        /\ IsValidPath(originalPath, root)
        /\ root' = SeqX!Last(newPath)
        /\ leaves' = IF at = -1 THEN leaves ELSE [leaves EXCEPT ![at + 1] = newLeaf]
        /\ result' = "ok"
        /\ UNCHANGED <<nextIndex, filledSubtrees>>

ReplaceLeaf(proof, originalLeaf, newLeaf) ==
  LET originalPath == ComputePath(proof, originalLeaf)
      newPath == ComputePath(proof, newLeaf)
      at == GetIndexForLeaf(originalLeaf)
  IN \/ /\ \E k \in DOMAIN proof : proof[k] = Undefined
        /\ result' = "TypeError"
        /\ UNCHANGED tree
     \/ /\ \A k \in DOMAIN proof : proof[k] # Undefined
        /\ ~IsValidPath(originalPath, root)
        /\ result' = "InvalidProof"
        /\ UNCHANGED tree
     \/ /\ \A k \in DOMAIN proof : proof[k] # Undefined
        /\ IsValidPath(originalPath, root)
        /\ filledSubtrees' = [i \in Lv |->
              IF originalPath[i + 1] = filledSubtrees[i] THEN newPath[i + 1]
                                                         ELSE filledSubtrees[i]]
        /\ root' = SeqX!Last(newPath)
        /\ leaves' = IF at = -1 THEN leaves ELSE [leaves EXCEPT ![at + 1] = newLeaf]
        /\ result' = "ok"
        /\ UNCHANGED nextIndex

Remove(proof, val) == ReplaceLeaf(proof, AsLeaf(val), EmptyValue)

Replace(proof, originalVal, newVal) ==
  ReplaceLeaf(proof, AsLeaf(originalVal), AsLeaf(newVal))

-----------------------------------------------------------------------------
(* Callers.  Next lets a caller pass any value.  NextDistinct is the      *)
(* discipline of the callers in storage.ts and relay.ts: a value is never *)
(* inserted (or written by replace) while a leaf already holds it, since  *)
(* each is a fresh commitment or a signature hash of a live account.      *)

Present(val) == \E k \in 1 .. Len(leaves) : leaves[k] = AsLeaf(val)

Next ==
  \/ \E v \in Values : Insert(v) \/ InsertWhenFull(v)
  \/ \E v \in Values : \E p \in ProofsFor(v) : Remove(p, v)
  \/ \E v, w \in Values : \E p \in ProofsFor(v) : Replace(p, v, w)

NextDistinct ==
  \/ \E v \in Values : ~Present(v) /\ (Insert(v) \/ InsertWhenFull(v))
  \/ \E v \in Values : \E p \in ProofsFor(v) : Remove(p, v)
  \/ \E v, w \in Values : ~Present(w) /\ \E p \in ProofsFor(v) : Replace(p, v, w)

Spec == Init /\ [][Next]_vars
SpecDistinct == Init /\ [][NextDistinct]_vars

-----------------------------------------------------------------------------
(* Properties *)

LeafValues == {AsLeaf(v) : v \in Values} \cup {EmptyValue}

TypeOK ==
  /\ nextIndex \in 0 .. Capacity
  /\ leaves \in Seq(LeafValues)
  /\ DOMAIN filledSubtrees = Lv
  /\ result \in {"ok", "TreeFull", "InvalidProof", "TypeError"}

\* Every position of the leaf log, removed ones included, has a proof from
\* getProofForLeafAtIndex that verifyLeaf accepts against the incremental
\* root: the root kept by insert/replaceLeaf is the root of the leaves.
ProofsValid ==
  \A k \in 1 .. Len(leaves) :
    VerifyLeaf(GetProofForLeafAtIndex(k - 1, nextIndex), root, leaves[k])

\* After any mix of inserts and replaceLeaf calls, filledSubtrees[i] holds
\* the node at level i of the rebuilt tree at the last even position
\* reached so far, so the next insert pairs with the right sibling.
\* replaceLeaf updates the cache by value equality, not by position.
FilledSubtreesMatchLeaves ==
  nextIndex > 0 =>
    \A i \in Lv :
      LET p == 2 * (((nextIndex - 1) \div (2 ^ i)) \div 2)
      IN filledSubtrees[i] = LayerAt(leaves, i)[p + 1]

\* The data model of the tree: the root is the root of the full tree in
\* which every unfilled position holds the zero value of its level, so
\* it is a function of the leaves alone.
PaddedRoot(ls) ==
  LET Pad(layer, i) ==
        CASE layer = <<>>          -> <<ZeroTree[i], ZeroTree[i]>>
          [] Len(layer) % 2 # 0    -> Append(layer, ZeroTree[i])
          [] OTHER                 -> layer
      RECURSIVE Up(_, _)
      Up(layer, i) == IF i = Levels THEN layer[1] ELSE Up(HashPairs(Pad(layer, i)), i + 1)
  IN Up(ls, 0)

RootIsPaddedTreeRoot == root = PaddedRoot(leaves)

=============================================================================
