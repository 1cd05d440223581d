SPECIFICATION ArraySpec
CONSTANTS
  ByteBits = 3
  WordBits = 6
  AccBits = 9
  Window = 3
  MaxDomain = 5
  Arrays <- MCArrays
  Between <- MCBetween
  After <- MCAfter
INVARIANTS
  RoundTrip ReadsInside
\* The reader of a sparse array ends.
CHECK_DEADLOCK FALSE
