SPECIFICATION Spec
CONSTANTS
  INIT_BUCKETS = 32
  VEC_INIT_ALLOC = 32
  Names <- AllNames
  hash_str <- Hash
  Programs <- AllPrograms
INVARIANTS TypeOK IInv MeaningPreserved OperandSizes SingleAssignment CalleeLive
PROPERTIES FilledInOnce ImplementsBon
CHECK_DEADLOCK FALSE
