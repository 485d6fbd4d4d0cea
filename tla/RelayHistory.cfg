\* Insert-only, as the relay tests drive the tree: every order of five
\* distinct commitments into a depth-2 tree, which fills after four.
CONSTANTS
  c1 = c1
  c2 = c2
  c3 = c3
  c4 = c4
  c5 = c5
  s0 = s0
  Levels = 2
  Seed = s0
  Values <- MC_Values
INIT RelayInit
NEXT RelayNext
CHECK_DEADLOCK FALSE
INVARIANT
  HistoricalProofsValid
