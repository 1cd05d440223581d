SPECIFICATION NamesSpec
CONSTANTS
  Schemas <- NestedSchemas
  Names <- MCNames
  LowerText <- MCLowerText
  Nul <- MCNul
  Hashes <- MCHashes
  ByteBits = 2
  DiscUnit = 4
  FieldIds <- MCFieldIds
INVARIANTS
  HashAsWalk
CHECK_DEADLOCK FALSE
