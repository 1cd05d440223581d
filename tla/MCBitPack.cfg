SPECIFICATION Spec
CONSTANTS
  ByteBits = 3
  WordBits = 5
  AccBits = 9
  Window = 3
  MaxLen = 4
  Batches <- MCBatches
  Tails <- MCTails
INVARIANTS PackInv WindowInside PackedAsStated ReadBack
\* A list without values is packed, and then there is nothing to ask for.
CHECK_DEADLOCK FALSE
