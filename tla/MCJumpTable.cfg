SPECIFICATION Spec
CONSTANTS
  ByteBits = 3
  MaxRuns = 2
  Inputs <- MCInputs
INVARIANTS SameFields OffsetsLand PointerTrue ResolversAgree Opens
\* A refused file is not converted further.
CHECK_DEADLOCK FALSE
