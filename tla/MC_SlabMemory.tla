--------------------------- MODULE MC_SlabMemory ---------------------------
(* Model-checking instance of SlabMemory.                                 *)
EXTENDS SlabMemory, TLC

\* pages per record: nonce (65 bytes) and timelock (77 bytes) take three
\* 32-byte pages and a relay record (129 bytes) five; the model gives the
\* variants 1, 2 and 3 pages, so that chains of one, two and three pages
\* share a sector of three pages
MC_ChunkCount == (0 :> 1 @@ 1 :> 2 @@ 2 :> 3)
=============================================================================
