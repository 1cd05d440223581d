SPECIFICATION Spec
CONSTANTS
  Schemas <- MCSchemas
  Names <- MCNames
  LowerText <- MCLowerText
  Nul <- MCNul
  Hashes <- MCHashes
  DiscUnit <- MCDiscUnit
  Queries <- MCQueries
INVARIANTS
  ProbeChain
  SpareSlot
  PathRebuilt
  ResolveFirst
PROPERTIES
  IndexBuilt
  LookupAnswered
  ImplementsNameMap
CHECK_DEADLOCK FALSE
