\* The MerkleTree class contract: any caller value, duplicates included.
CONSTANTS
  v1 = v1
  v2 = v2
  v3 = v3
  s0 = s0
  Levels = 2
  Seed = s0
  Values <- MC_Values
SPECIFICATION Spec
INVARIANT ProofsValid
