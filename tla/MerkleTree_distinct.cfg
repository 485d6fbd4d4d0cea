\* The tree as storage.ts and relay.ts drive it: no value inserted twice
\* while live.  Depth 3 (8 leaves) so the tree fills, removes reach every
\* position of the cache, and TreeFull happens.
CONSTANTS
  v1 = v1
  v2 = v2
  v3 = v3
  s0 = s0
  Levels = 3
  Seed = s0
  Values <- MC_Values
SPECIFICATION SpecDistinct
INVARIANTS
  TypeOK
  ProofsValid
  FilledSubtreesMatchLeaves
