SPECIFICATION Spec
CONSTANTS
  INIT_BUCKETS = 32
  VEC_INIT_ALLOC = 32
  Names <- AllNames
  hash_str <- Hash
  Programs <- BareReturn
INVARIANT WrongStmtSet
CHECK_DEADLOCK FALSE
