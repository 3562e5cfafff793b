SPECIFICATION Spec
CONSTANTS
  INIT_BUCKETS = 32
  VEC_INIT_ALLOC = 32
  Names <- AllNames
  hash_str <- Hash
  Programs <- ManyFunctions
INVARIANT CalleeLive
CHECK_DEADLOCK FALSE
