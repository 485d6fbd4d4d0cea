\* Every RPC delivered and accepted; a depth-1 tree (2 leaves) fills after
\* two compressions.
CONSTANTS
  s0 = s0
  Levels = 1
  Seed = s0
  Slots = {0, 1}
  SectorIds = {0}
  NumPages = 3
  Ids = {"a"}
  ChunkCount <- MC_ChunkCount
INIT BridgeInit
NEXT AcceptedNext
PROPERTY
  DecompressOfNotCompressed
