\* The data-model invariant of the spec: the root is that of the full tree
\* with every unfilled position at its zero value.
CONSTANTS
  v1 = v1
  v2 = v2
  v3 = v3
  s0 = s0
  Levels = 2
  Seed = s0
  Values <- MC_Values
SPECIFICATION SpecDistinct
INVARIANT RootIsPaddedTreeRoot
