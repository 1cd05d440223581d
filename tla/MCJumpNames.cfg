SPECIFICATION NamesSpec
CONSTANTS
  Schemas <- MCSchemas
  Names <- MCNames
  LowerText <- MCLowerText
  Nul <- MCNul
  Hashes <- MCHashes
  ByteBits = 2
  DiscUnit = 4
  FieldIds <- MCFieldIds
INVARIANTS
  ParentEncloses
  PathsDistinguish
  PathsResolvable
  ShortCutAgrees
  FieldIdsFound
CHECK_DEADLOCK FALSE
