SPECIFICATION TableSpec
CONSTANTS
  INIT_BUCKETS = 32
  Names <- PrefixNames
  hash_str <- PrefixHash
  MaxScopes = 1
  MaxEntries = 2
PROPERTY RefusedIfFound
CHECK_DEADLOCK FALSE
