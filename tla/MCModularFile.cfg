SPECIFICATION Spec
CONSTANTS
  Top = 2
  NoField = NoField
  Inputs <- MCInputs
  Options <- MCOptions
  CopyBuffer = 2
  MaxRuns = 2
INVARIANTS AcceptedIsWhole SeeksLand PageBoundsKept WroteUnlessFull FailsEarly
CHECK_DEADLOCK FALSE
