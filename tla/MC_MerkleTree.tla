--------------------------- MODULE MC_MerkleTree ---------------------------
(* Model-checking instance of MerkleTree: small depth, a few values.      *)
EXTENDS MerkleTree, TLC

CONSTANTS v1, v2, v3, s0

MC_Values == {v1, v2, v3}
MC_Symmetry == Permutations(MC_Values)
=============================================================================
