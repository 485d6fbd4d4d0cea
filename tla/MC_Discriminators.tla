------------------------- MODULE MC_Discriminators -------------------------
(* The script on IDLs built from a few names of each table, a name the    *)
(* tables do not list, and, in the prototype run, "constructor".          *)
EXTENDS Discriminators

\* withdraw (14) and unlock (15) are adjacent in the table; transfer is an
\* instruction the table does not list
MC_IdlInstructions == {"init_vm", "withdraw", "unlock", "transfer"}
MC_ProtoInstructions == {"init_vm", "constructor"}
MC_IdlAccounts == {"CodeVmAccount", "MemoryAccount", "ProofAccount"}
=============================================================================
