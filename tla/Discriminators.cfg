\* IDLs of up to 3 distinct instructions from 4 names and up to 3 distinct
\* accounts from 3 names, each list possibly holding an unlisted name.
CONSTANTS
  IdlInstructions <- MC_IdlInstructions
  IdlAccounts <- MC_IdlAccounts
  MaxEntries = 3
SPECIFICATION Spec
CHECK_DEADLOCK FALSE
INVARIANTS
  OutputFollowsTables
