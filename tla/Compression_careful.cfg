\* The bridge as the tests drive it: distinct accounts, compress of live
\* slots, decompress into empty slots, delivered RPCs.  A depth-2 tree
\* (4 leaves) fills after four compressions, so TreeFull is reached.
CONSTANTS
  s0 = s0
  Levels = 2
  Seed = s0
  Slots = {0, 1}
  SectorIds = {0}
  NumPages = 3
  Ids = {"a"}
  ChunkCount <- MC_ChunkCount
INIT BridgeInit
NEXT CarefulNext
INVARIANTS
  BridgeTypeOK
  LocalMirrorsChain
  CompressedRecoverable
