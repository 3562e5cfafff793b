SPECIFICATION TableSpec
CONSTANTS
  INIT_BUCKETS = 2
  Names <- DistinctNames
  hash_str <- DistinctHash
  MaxScopes = 3
  MaxEntries = 3
INVARIANT ChainsSound
PROPERTY ImplementsScopes
CHECK_DEADLOCK FALSE
