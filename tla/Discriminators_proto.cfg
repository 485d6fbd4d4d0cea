\* An IDL with an instruction named constructor.
CONSTANTS
  IdlInstructions <- MC_ProtoInstructions
  IdlAccounts <- MC_IdlAccounts
  MaxEntries = 2
INIT Init
NEXT Next
CHECK_DEADLOCK FALSE
INVARIANT
  OutputFollowsTables
