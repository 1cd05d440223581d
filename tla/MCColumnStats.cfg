SPECIFICATION Spec
CONSTANTS
  Top = 2
  NoField = NoField
  C = 2
  G = 2
  Files <- MCFiles
  Limits <- MCLimits
  Projections <- MCProjections
INVARIANTS
  StatsInv
  NothingStale
  BoundsHold
  ExactMeansEqual
  UncutAgrees
CHECK_DEADLOCK FALSE
