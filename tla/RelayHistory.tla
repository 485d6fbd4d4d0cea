---------------------------- MODULE RelayHistory ----------------------------
(***************************************************************************)
(* The relay's local history tree (tests/utils/relay.ts createRelay: a     *)
(* MerkleTree of its own seeds).  The relay tests insert each transfer's   *)
(* commitment into it once the transfer is confirmed                       *)
(* (instructions/relay.ts), and nothing ever replaces a leaf.             *)
(*                                                                         *)
(* A commitment is a PDA of the recent root, transcript, destination and  *)
(* amount, so no two transfers insert the same value.  A proof for a      *)
(* commitment is meant for a root the tree had, not only the latest:       *)
(* getProofForCommitment(commitment, index) rebuilds the tree from the    *)
(* leaves up to `index`.  Two history variables record what the tree was: *)
(* `roots[n]` is the root right after the n-th insert, `inserted[n]` the   *)
(* leaf that insert appended.                                              *)
(***************************************************************************)
EXTENDS MerkleTree

VARIABLES
  roots,     \* history: the root after each insert
  inserted   \* history: each leaf as inserted

hist == <<roots, inserted>>
relayVars == <<vars, hist>>

Commitments == {inserted[n] : n \in DOMAIN inserted}

\* relay.history.insert(commitment) after a confirmed transfer
HistoryInsert(v) ==
  /\ AsLeaf(v) \notin Commitments
  /\ \/ /\ Insert(v)
        /\ roots' = Append(roots, root')
        /\ inserted' = Append(inserted, AsLeaf(v))
     \/ /\ InsertWhenFull(v)
        /\ UNCHANGED hist

RelayInit == Init /\ roots = <<>> /\ inserted = <<>>

RelayNext == \E v \in Values : HistoryInsert(v)

RelaySpec == RelayInit /\ [][RelayNext]_relayVars

-----------------------------------------------------------------------------
(* Properties *)

\* getProofForCommitment for the root the tree had when leaf u was the
\* last one inserted: for every leaf k <= u that still holds what was
\* inserted there, the proof rebuilt from the first u+1 leaves verifies
\* against that earlier root, even after later inserts have changed the
\* frontier cache and the root.
HistoricalProofsValid ==
  \A k, u \in 0 .. nextIndex - 1 :
    k <= u /\ leaves[k + 1] = inserted[k + 1] =>
      VerifyLeaf(GetProofForLeafAtIndex(k, u), roots[u + 1], leaves[k + 1])

=============================================================================
