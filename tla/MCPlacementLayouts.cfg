SPECIFICATION LayoutSpec
CONSTANTS
  ByteBits = 3
  WordBits = 7
  AccBits = 9
  Window = 3
  Shapes <- MCShapes
  DictLens = {1, 2}
  PageLens = {3, 6}
  Windows <- MCWindows
  RowLimit = 2
  Base = 4
  Pad = 3
INVARIANTS
  Fidelity RowsCovered NoNeedlessPage
\* The comparison of the last layout ends the run, and so does an empty answer.
CHECK_DEADLOCK FALSE
