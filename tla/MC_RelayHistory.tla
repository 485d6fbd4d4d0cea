--------------------------- MODULE MC_RelayHistory ---------------------------
(* Model-checking instance of RelayHistory: five commitments, a tree of    *)
(* four leaves, so the fifth insert throws TreeFull.                      *)
EXTENDS RelayHistory, TLC

CONSTANTS c1, c2, c3, c4, c5, s0

MC_Values == {c1, c2, c3, c4, c5}
=============================================================================
