CONSTANTS
  ChunkSz = 4
  PoolMax = 24
  VEC_INIT_ALLOC = 1
  MaxVectors = 2
  ItemSizes = {3}
  InitSizes = {1}
  Items = {a, b}
  Unset = Unset
  Objects = {7}
  Requests <- MCRequests
SPECIFICATION VectorSpec
INVARIANTS TypeOK WithinPool ChunkAligned BlocksAccessible RefusalJustified VectorsApart OnlyRemoveOverruns
PROPERTIES ImplementsArena ImplementsLists
CHECK_DEADLOCK FALSE
