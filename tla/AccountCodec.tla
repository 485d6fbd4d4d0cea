---------------------------- MODULE AccountCodec ----------------------------
(***************************************************************************)
(* The tagged virtual-account codec of tests/memory/accounts.ts, at the    *)
(* granularity of memory pages.                                            *)
(*                                                                         *)
(* A record is its variant tag (0 durable nonce, 1 timelock, 2 relay) and  *)
(* an abstract payload `id`; records with the same tag and id have the     *)
(* same bytes.  pack() writes the tag byte then the fixed-width payload;   *)
(* the slab stores those bytes in DATA_LEN-byte pages, so pack is          *)
(* modelled as the sequence of page-sized chunks it fills, chunk k being   *)
(* [rec |-> r, part |-> k].  A page never written holds ZeroChunk.         *)
(***************************************************************************)
EXTENDS Integers, Sequences

CONSTANTS
  Ids,         \* payload contents (strings)
  ChunkCount   \* ChunkCount[v]: pages one packed record of variant v fills

Variants == 0 .. 2

ASSUME ChunkCount \in [Variants -> Nat \ {0}]

Records == [variant : Variants, id : Ids]

\* the all-zero bytes of a never-written page; its first byte reads as tag 0
ZeroRecord == [variant |-> 0, id |-> "zero"]
ZeroChunk == [rec |-> ZeroRecord, part |-> 1]

\* what the decoder yields from bytes that are not one packed record
Garbage == [variant |-> 0, id |-> "garbage"]
\* the deserializer reads past the end of a too-short buffer and throws
Truncated == [variant |-> -1, id |-> "truncated"]

\* VirtualAccount.pack: tag byte || payload, laid out over pages
Pack(r) == [k \in 1 .. ChunkCount[r.variant] |-> [rec |-> r, part |-> k]]

\* new VirtualAccount(data): read the tag from byte 0, deserialize
\* data.slice(1, LEN + 1).  An all-zero buffer decodes as a durable nonce
\* of zero keys; a buffer whose first page is not the start of a record
\* decodes to nonsense.
Decode(cs) ==
  LET tag == IF cs[1].part = 1 THEN cs[1].rec.variant ELSE 0
      need == ChunkCount[tag]
      body == SubSeq(cs, 1, need)
  IN CASE Len(cs) < need                             -> Truncated
       [] \A k \in 1 .. need : body[k] = ZeroChunk   -> ZeroRecord
       [] cs[1].part = 1 /\ body = Pack(cs[1].rec)   -> cs[1].rec
       [] OTHER                                      -> Garbage

=============================================================================
