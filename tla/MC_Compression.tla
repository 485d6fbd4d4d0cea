-------------------------- MODULE MC_Compression --------------------------
(* Model-checking instance of Compression.                                *)
EXTENDS Compression

CONSTANTS s0

\* pages per record, scaled from 65, 77 and 129 bytes over 32-byte pages
MC_ChunkCount == (0 :> 1 @@ 1 :> 2 @@ 2 :> 3)
=============================================================================
