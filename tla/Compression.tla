---------------------------- MODULE Compression ----------------------------
(***************************************************************************)
(* The compression bridge of tests/utils/storage.ts: compressVirtualAccount*)
(* and decompressVirtualAccount, driving a local mirror of the on-chain   *)
(* memory tree (createStorage: a MerkleTree) and the remote program.      *)
(*                                                                         *)
(* State: the slab (SlabMemory, written only by the remote program), the  *)
(* local tree L, the on-chain tree R that the remote program keeps with   *)
(* the same algorithm, and storage.compressed.  Each call is one step:    *)
(* the test awaits every call, so calls never overlap; inside a call the  *)
(* local effects happen first, then the RPC, which the program either     *)
(* applies in full or rejects (its checks follow the spec, section 4.5),  *)
(* or which is lost in transit with nothing applied.                      *)
(*                                                                         *)
(* History variables: `live` is the set of records whose compression the  *)
(* chain accepted and that were not decompressed since; `op` is the call  *)
(* of the last step.                                                      *)
(***************************************************************************)
EXTENDS Integers, Sequences, SlabMemory, TLC

CONSTANTS
  Levels,      \* createStorage: levels of the memory tree
  Seed         \* the tree's seeds

VARIABLES
  lroot, lfs, lnext, lleaves, lres,   \* storage.memoryState
  rroot, rfs, rnext, rleaves,         \* the on-chain tree
  compressed,  \* storage.compressed: va_hash -> {va, sig}
  outcome,     \* how the last call ended: "ok" or what it threw
  live,        \* history: records compressed on chain, not decompressed
  decompressed, \* history: va hashes decompressed and not compressed since
  op           \* history: [kind, h] of the last call

\* hash.ts hash(): the same term as MerkleTree's Hash
TreeHash(x) == [sha256 |-> x]

\* the account a slot can decode to, hence all signature hashes
Decodable == Records \cup {ZeroRecord, Garbage}

\* hash(va.pack()); the signer's ed25519 signature over it; and
\* hash(sig || va_hash), the value inserted into the tree
VaHash(va) == TreeHash([packed |-> Pack(va)])
Sig(vh) == [ed25519 |-> vh]
SigHash(va) == TreeHash([sig |-> Sig(VaHash(va)), vaHash |-> VaHash(va)])

SigHashes == {SigHash(va) : va \in Decodable}
VaHashes == {VaHash(va) : va \in Decodable}

L == INSTANCE MerkleTree
       WITH root <- lroot, filledSubtrees <- lfs, nextIndex <- lnext,
            leaves <- lleaves, result <- lres, Values <- SigHashes
R == INSTANCE MerkleTree
       WITH root <- rroot, filledSubtrees <- rfs, nextIndex <- rnext,
            leaves <- rleaves, result <- outcome, Values <- SigHashes

local == <<lroot, lfs, lnext, lleaves, lres>>
remote == <<rroot, rfs, rnext, rleaves>>
hist == <<live, decompressed>>
bridgeVars == <<slabVars, local, remote, compressed, outcome, hist, op>>

NoOp == [kind |-> "none", h |-> VaHash(ZeroRecord)]

-----------------------------------------------------------------------------
(* The remote program (spec-modelled).                                    *)

\* systemAccountCompress(index, sig): the slot must hold an account whose
\* packed hash the signature signs; the program appends hash(sig||hash)
\* to its tree and frees the slot.  A full on-chain tree rejects the
\* call: R!Insert is then disabled and only the failing branches remain.
RemoteCompress(index, va) ==
  /\ stored[index] # NoRecord
  /\ stored[index] = va
  /\ R!Insert(SigHash(va))
  /\ Free(index)

\* systemAccountDecompress(index, packed, proof, sig): the proof must take
\* hash(sig||hash(packed)) to the on-chain root and the slot must be
\* empty; the leaf becomes the empty value and the record is written.
RemoteAcceptsDecompress(index, va, proof) ==
  /\ stored[index] = NoRecord
  /\ \A k \in DOMAIN proof : proof[k] # R!Undefined
  /\ R!VerifyLeaf(proof, rroot, R!AsLeaf(SigHash(va)))
  /\ Placements(0, Len(Pack(va))) # {}

\* A call the program refuses throws RpcRejected; any call may instead be
\* lost (an expired blockhash, a dropped connection) and throw RpcLost,
\* with nothing applied on chain either way.
RpcFails(rejected) ==
  \/ rejected /\ outcome' = "RpcRejected"
  \/ outcome' = "RpcLost"

CompressRejected(index, va) == stored[index] # va \/ rnext >= R!Capacity

RemoteDecompress(index, va, proof) ==
  /\ RemoteAcceptsDecompress(index, va, proof)
  /\ R!Remove(proof, SigHash(va))
  /\ Write(index, va)

-----------------------------------------------------------------------------
(* compressVirtualAccount(env, memory, memory_index, storage) *)

\* Mutant: the map keyed by the signature hash instead of va_hash.
CompressKeyedBySig(index) ==
  LET va == GetAccount(index)
  IN \/ /\ va = Truncated
        /\ outcome' = "DecodeError"
        /\ op' = [NoOp EXCEPT !.kind = "compress"]
        /\ UNCHANGED <<slabVars, local, remote, compressed, hist>>
     \/ /\ va # Truncated
        /\ op' = [kind |-> "compress", h |-> VaHash(va)]
        /\ compressed' = (SigHash(va) :> va) @@ compressed
        /\ \/ /\ L!InsertWhenFull(SigHash(va))
              /\ outcome' = "TreeFull"
              /\ UNCHANGED <<slabVars, remote, hist>>
           \/ /\ L!Insert(SigHash(va))
              /\ \/ /\ RemoteCompress(index, va)
                    /\ live' = live \cup {va}
                    /\ decompressed' = decompressed \ {VaHash(va)}
                 \/ /\ RpcFails(CompressRejected(index, va))
                    /\ UNCHANGED <<slabVars, remote, hist>>

CompressVirtualAccount(index) ==
  LET va == GetAccount(index)
  IN \/ /\ va = Truncated
        /\ outcome' = "DecodeError"
        /\ op' = [NoOp EXCEPT !.kind = "compress"]
        /\ UNCHANGED <<slabVars, local, remote, compressed, hist>>
     \/ /\ va # Truncated
        /\ op' = [kind |-> "compress", h |-> VaHash(va)]
        /\ compressed' = (VaHash(va) :> va) @@ compressed
        /\ \/ /\ L!InsertWhenFull(SigHash(va))
              /\ outcome' = "TreeFull"
              /\ UNCHANGED <<slabVars, remote, hist>>
           \/ /\ L!Insert(SigHash(va))
              /\ \/ /\ RemoteCompress(index, va)
                    /\ live' = live \cup {va}
                    /\ decompressed' = decompressed \ {VaHash(va)}
                 \/ /\ RpcFails(CompressRejected(index, va))
                    /\ UNCHANGED <<slabVars, remote, hist>>

-----------------------------------------------------------------------------
(* decompressVirtualAccount(env, memory, memory_index, storage, va_hash)   *)

\* Mutant: the local remove dropped; the RPC is sent with the proof.
DecompressSkipLocalRemove(h, index) ==
  /\ op' = [kind |-> "decompress", h |-> h]
  /\ \/ /\ h \notin DOMAIN compressed
        /\ outcome' = "NotCompressed"
        /\ UNCHANGED <<slabVars, local, remote, compressed, hist>>
     \/ /\ h \in DOMAIN compressed
        /\ LET va == compressed[h]
               proof == L!GetProofFor(SigHash(va))
           IN \/ /\ RemoteDecompress(index, va, proof)
                 /\ live' = live \ {va}
                 /\ decompressed' = decompressed \cup {h}
                 /\ UNCHANGED local
              \/ /\ RpcFails(~RemoteAcceptsDecompress(index, va, proof))
                 /\ UNCHANGED <<slabVars, local, remote, hist>>
        /\ UNCHANGED compressed

DecompressVirtualAccount(h, index) ==
  /\ op' = [kind |-> "decompress", h |-> h]
  /\ \/ /\ h \notin DOMAIN compressed
        /\ outcome' = "NotCompressed"
        /\ UNCHANGED <<slabVars, local, remote, compressed, hist>>
     \/ /\ h \in DOMAIN compressed
        /\ LET va == compressed[h]
               proof == L!GetProofFor(SigHash(va))
           IN /\ L!Remove(proof, SigHash(va))
              /\ \/ /\ lres' # "ok"
                    /\ outcome' = lres'
                    /\ UNCHANGED <<slabVars, remote, hist>>
                 \/ /\ lres' = "ok"
                    /\ RemoteDecompress(index, va, proof)
                    /\ live' = live \ {va}
                    /\ decompressed' = decompressed \cup {h}
                 \/ /\ lres' = "ok"
                    /\ RpcFails(~RemoteAcceptsDecompress(index, va, proof))
                    /\ UNCHANGED <<slabVars, remote, hist>>
        /\ UNCHANGED compressed

-----------------------------------------------------------------------------
(* Other instructions create accounts in the slab (the remote program).   *)

CreateAccount(index, r) ==
  /\ Write(index, r)
  /\ outcome' = "ok"
  /\ op' = [kind |-> "create", h |-> VaHash(r)]
  /\ UNCHANGED <<local, remote, compressed, hist>>

BridgeInit ==
  /\ SlabInit
  /\ L!Init
  /\ R!Init
  /\ compressed = <<>>
  /\ live = {}
  /\ decompressed = {}
  /\ op = NoOp

BridgeNext ==
  \/ \E s \in Slots, r \in Records : CreateAccount(s, r)
  \/ \E s \in Slots : CompressVirtualAccount(s)
  \/ \E h \in VaHashes, s \in Slots : DecompressVirtualAccount(h, s)

BridgeSpec == BridgeInit /\ [][BridgeNext]_bridgeVars

RpcErrors == {"RpcRejected", "RpcLost"}

\* Any caller over a network that delivers every call: failed RPCs are
\* the program's rejections only.
ReliableNext == BridgeNext /\ outcome' # "RpcLost"

\* Any caller whose every RPC is delivered and accepted by the program:
\* the only calls that end without reaching the chain are the ones the
\* bridge itself throws in.
AcceptedNext == BridgeNext /\ outcome' \notin RpcErrors

\* The tests' own use of the bridge (instructions/system.ts): accounts
\* are distinct, a test compresses the index that holds its account,
\* decompresses only a hash it still holds (data_hash, cleared after the
\* decompress) into an empty index, and every RPC is delivered and
\* accepted.
InUse(r) == r \in live \/ \E s \in Slots : stored[s] = r

CarefulNext ==
  \/ \E s \in Slots, r \in Records : ~InUse(r) /\ CreateAccount(s, r)
  \/ \E s \in Slots :
       stored[s] # NoRecord /\ CompressVirtualAccount(s) /\ outcome' \notin RpcErrors
  \/ \E va \in live, s \in Slots :
       stored[s] = NoRecord /\ DecompressVirtualAccount(VaHash(va), s)
       /\ outcome' \notin RpcErrors

CarefulSpec == BridgeInit /\ [][CarefulNext]_bridgeVars

-----------------------------------------------------------------------------
(* Properties *)

BridgeTypeOK ==
  /\ DOMAIN compressed \subseteq VaHashes
  /\ \A h \in DOMAIN compressed : compressed[h] \in Decodable /\ VaHash(compressed[h]) = h
  /\ live \subseteq Records
  /\ outcome \in {"ok", "TreeFull", "InvalidProof", "TypeError", "NotCompressed",
                  "DecodeError", "RpcRejected", "RpcLost"}

\* checkStorageState after every compress and decompress: the local tree
\* (root, filled subtrees, next index) equals the on-chain tree.  Both
\* calls change the local tree before the RPC is sent.
LocalMirrorsChain ==
  /\ lroot = rroot
  /\ lfs = rfs
  /\ lnext = rnext

\* Every record compressed on chain and not yet decompressed can be
\* brought back: the proof the local tree builds for its signature hash
\* is accepted against the on-chain root.
CompressedRecoverable ==
  \A va \in live :
    R!VerifyLeaf(L!GetProofFor(SigHash(va)), rroot, R!AsLeaf(SigHash(va)))

\* Decompressing a hash whose account is not compressed on chain fails
\* with NotCompressedError (spec section 8).  decompressVirtualAccount
\* never deletes the `compressed` entry of an account it brought back,
\* and compressVirtualAccount sets the entry before the local insert,
\* which throws on a full tree: in both cases the entry outlives the
\* account's presence in the tree.
DecompressOfNotCompressed ==
  [][ op'.kind = "decompress" /\ op'.h \notin {VaHash(va) : va \in live}
      => outcome' = "NotCompressed" ]_bridgeVars

=============================================================================
