\* One sector of three pages, two slots,
\* one- to three-page records with two payloads each.
CONSTANTS
  Slots = {0, 1}
  SectorIds = {0}
  NumPages = 3
  Ids = {"a", "b"}
  ChunkCount <- MC_ChunkCount
INIT SlabInit
NEXT SlabNext
INVARIANTS
  ReadRoundTrip
