SPECIFICATION Spec
CONSTANTS
  Schemas <- EmptyGroupSchemas
  Names <- MCNames
  LowerText <- MCLowerText
  Nul <- MCNul
  Hashes <- MCHashes
  DiscUnit <- MCDiscUnit
  Queries <- MCQueries
INVARIANTS
  EveryLeafResolvesToItself
CHECK_DEADLOCK FALSE
