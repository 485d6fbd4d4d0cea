\* Any caller: compress of any slot, decompress into any slot, over a
\* network that delivers every call; the program may reject a call.
CONSTANTS
  s0 = s0
  Levels = 2
  Seed = s0
  Slots = {0, 1}
  SectorIds = {0}
  NumPages = 3
  Ids = {"a"}
  ChunkCount <- MC_ChunkCount
INIT BridgeInit
NEXT ReliableNext
INVARIANT LocalMirrorsChain
