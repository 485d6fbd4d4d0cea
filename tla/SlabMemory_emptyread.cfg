\* getAccount of an empty slot: one sector of three pages, two slots.
CONSTANTS
  Slots = {0, 1}
  SectorIds = {0}
  NumPages = 3
  Ids = {"a", "b"}
  ChunkCount <- MC_ChunkCount
INIT SlabInit
NEXT SlabNext
INVARIANT EmptySlotReadIsNotAnotherAccount
