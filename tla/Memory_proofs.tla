--------------------------- MODULE Memory_proofs ---------------------------
(***************************************************************************)
(* For every chunk size, pool size and set of requests: the pool never     *)
(* hands out a byte it has not opened, and it implements the arena.        *)
(*                                                                         *)
(* For every pool, every size of items and any number of vectors: the      *)
(* vectors only use the pool as its specification allows, so what was      *)
(* proved of the pool holds with vectors in it; their blocks stay apart;   *)
(* each is the list of what its own operations made of it; and the one     *)
(* access that may leave the open chunks is vector_remove's.               *)
(***************************************************************************)
EXTENDS Vectors, TLAPS

-----------------------------------------------------------------------------
(***************************************************************************)
(* The memory pool.                                                        *)
(***************************************************************************)

(* size_needed rounds up to a whole number of chunks, by less than one.    *)
LEMMA SizeNeeded ==
  ASSUME NEW requested \in Nat
  PROVE  /\ size_needed(requested) \in Nat
         /\ requested <= size_needed(requested)
         /\ size_needed(requested) < requested + ChunkSz
         /\ \E n \in Nat : size_needed(requested) = n * ChunkSz
<1>1. PICK q \in Nat, r \in 0 .. ChunkSz - 1 :
        /\ q = (requested + ChunkSz - 1) \div ChunkSz
        /\ requested + ChunkSz - 1 = ChunkSz * q + r
  <2> DEFINE a == requested + ChunkSz - 1
  <2>1. a \in Nat
    BY PoolAssumption
  <2> HIDE DEF a
  <2>2. a \div ChunkSz \in Nat /\ a % ChunkSz \in 0 .. ChunkSz - 1
    BY <2>1, PoolAssumption, Z3
  <2>3. a = ChunkSz * (a \div ChunkSz) + (a % ChunkSz)
    BY <2>1, PoolAssumption, Z3
  <2> QED BY <2>1, <2>2, <2>3 DEF a
<1>2. ChunkSz * q \in Nat /\ ChunkSz * q = q * ChunkSz
  BY PoolAssumption
<1>3. size_needed(requested) = ChunkSz * q
  BY <1>1 DEF size_needed
<1> QED
  BY <1>1, <1>2, <1>3, PoolAssumption

-----------------------------------------------------------------------------
(* The inductive invariant: the properties of MemPool, with accessibility  *)
(* strengthened from the blocks to everything below pool->alloc, and the   *)
(* bound of RefusalJustified with what it rests on.                        *)
AllOpened == \A o \in 0 .. alloc - 1 : Opened(o)
Aligned == \E n \in Nat : alloc = n * ChunkSz
IInv == TypeOK /\ WithinPool /\ AllOpened /\ Aligned /\ RefusalJustified

LEMMA InitIInv == mempool_init => IInv
<1> SUFFICES ASSUME mempool_init PROVE IInv
  OBVIOUS
<1> USE PoolAssumption DEF mempool_init
<1>1. TypeOK
  BY DEF TypeOK, Ranges, Range
<1>2. WithinPool
  BY DEF WithinPool
<1>3. AllOpened
  BY DEF AllOpened, Opened, Range
<1>4. Aligned
  <2>1. alloc = 1 * ChunkSz
    OBVIOUS
  <2> QED BY <2>1 DEF Aligned
<1>5. RefusalJustified
  BY DEF RefusalJustified
<1> QED
  BY <1>1, <1>2, <1>3, <1>4, <1>5 DEF IInv

LEMMA NextIInv == IInv /\ [Next]_vars => IInv'
<1> SUFFICES ASSUME IInv, [Next]_vars PROVE IInv'
  OBVIOUS
<1> USE PoolAssumption
<1>1. ASSUME NEW amount \in Requests, status = "ok", AllocFromChunk(amount)
      PROVE  IInv'
  <2> amount \in Nat
    OBVIOUS
  <2> USE <1>1 DEF AllocFromChunk, HandOut, must_grow, IInv
  <2>1. TypeOK'
    BY DEF TypeOK, Ranges, Range
  <2>2. WithinPool'
    BY DEF WithinPool, TypeOK, Ranges, Range
  <2>3. AllOpened' /\ Aligned'
    BY DEF AllOpened, Opened, Aligned
  <2>4. RefusalJustified'
    BY DEF RefusalJustified
  <2> QED
    BY <2>1, <2>2, <2>3, <2>4
<1>2. ASSUME NEW amount \in Requests, status = "ok", AllocGrowing(amount)
      PROVE  IInv'
  <2> DEFINE needed == size_needed(amount)
  <2>0. /\ amount \in Nat /\ needed \in Nat /\ amount <= needed
        /\ \E n \in Nat : needed = n * ChunkSz
    BY SizeNeeded
  <2>a. /\ alloc' = alloc + needed /\ alloc + needed <= PoolMax
        /\ size' = size + amount
        /\ blocks' = blocks \cup {Range(size, size + amount)}
        /\ UNCHANGED <<status, rejected>>
        /\ \/ rw' = rw \cup {Range(alloc, alloc + needed)} /\ UNCHANGED lost
           \/ lost' = lost \cup {Range(alloc, alloc + needed)} /\ UNCHANGED rw
    BY <1>2 DEF AllocGrowing, HandOut, Mprotect
  <2> HIDE DEF needed
  <2>1. TypeOK'
    BY <2>0, <2>a DEF IInv, TypeOK, Ranges, Range
  <2>2. WithinPool'
    BY <2>0, <2>a DEF IInv, WithinPool, TypeOK, Ranges, Range
  <2>3. AllOpened'
    <3> SUFFICES ASSUME NEW o \in 0 .. alloc' - 1 PROVE Opened(o)'
      BY DEF AllOpened
    <3>1. CASE o < alloc
      <4>1. Opened(o)
        BY <3>1, <2>0, <2>a DEF IInv, AllOpened, TypeOK
      <4> QED BY <4>1, <2>a DEF Opened
    <3>2. CASE alloc <= o
      <4>1. Range(alloc, alloc + needed) \in (rw \cup lost)'
        BY <2>a
      <4>2. alloc <= o /\ o < alloc + needed
        BY <3>2, <2>0, <2>a DEF IInv, TypeOK
      <4> QED BY <4>1, <4>2 DEF Opened, Range
    <3> QED BY <3>1, <3>2, <2>0, <2>a DEF IInv, TypeOK
  <2>4. Aligned'
    <3>1. PICK m \in Nat, n \in Nat : alloc = m * ChunkSz /\ needed = n * ChunkSz
      BY <2>0 DEF IInv, Aligned
    <3>2. alloc' = (m + n) * ChunkSz /\ m + n \in Nat
      BY <3>1, <2>a
    <3> QED BY <3>2 DEF Aligned
  <2>5. RefusalJustified'
    BY <1>2, <2>a DEF RefusalJustified
  <2> QED
    BY <2>1, <2>2, <2>3, <2>4, <2>5 DEF IInv
<1>3. ASSUME NEW amount \in Requests, status = "ok", AllocFails(amount)
      PROVE  IInv'
  <2>0. /\ amount \in Nat /\ size_needed(amount) \in Nat
        /\ size_needed(amount) < amount + ChunkSz
    BY SizeNeeded
  <2> USE <1>3 DEF AllocFails, IInv
  <2>1. TypeOK' /\ WithinPool' /\ AllOpened' /\ Aligned'
    BY <2>0 DEF TypeOK, WithinPool, AllOpened, Opened, Aligned
  <2>2. RefusalJustified'
    BY <2>0 DEF RefusalJustified, must_grow, TypeOK
  <2> QED
    BY <2>1, <2>2
<1>4. CASE UNCHANGED vars
  BY <1>4 DEF vars, IInv, TypeOK, WithinPool, AllOpened, Opened, Aligned,
              RefusalJustified
<1> QED
  BY <1>1, <1>2, <1>3, <1>4 DEF Next, mempool_alloc

LEMMA InvariantHolds == Spec => []IInv
  BY InitIInv, NextIInv, PTL DEF Spec

(* The pool's fields and the record of what it gave out keep their types   *)
(* (helper.h:32-36).                                                       *)
THEOREM PoolTyped == Spec => []TypeOK
<1>1. IInv => TypeOK
  BY DEF IInv
<1> QED
  BY <1>1, InvariantHolds, PTL

(* mempool_alloc never hands out memory past the chunks it opened, and     *)
(* those never pass the end of the mapping (helper.c:116-129).             *)
THEOREM PoolBounds == Spec => [](TypeOK /\ WithinPool)
<1>1. IInv => TypeOK /\ WithinPool
  BY DEF IInv
<1> QED
  BY <1>1, InvariantHolds, PTL

(* Every byte handed out was the subject of a mprotect (helper.c:116-129). *)
THEOREM PoolAccessible == Spec => []BlocksAccessible
<1>1. IInv => BlocksAccessible
  <2> SUFFICES ASSUME IInv, NEW b \in blocks, NEW o \in b.lo .. b.hi - 1
               PROVE  Opened(o)
    BY DEF BlocksAccessible
  <2>1. o \in 0 .. alloc - 1
    BY DEF IInv, WithinPool, TypeOK, Ranges
  <2> QED BY <2>1 DEF IInv, AllOpened
<1> QED
  BY <1>1, InvariantHolds, PTL

(* Each mprotect starts on a chunk boundary (helper.c:123).                *)
THEOREM PoolAligned == Spec => []ChunkAligned
<1>1. IInv => ChunkAligned
  <2> SUFFICES ASSUME IInv PROVE ChunkAligned
    OBVIOUS
  <2>1. PICK n \in Nat : alloc = n * ChunkSz
    BY DEF IInv, Aligned
  <2>2. n <= n * ChunkSz
    BY PoolAssumption
  <2> QED BY <2>1, <2>2 DEF ChunkAligned, IInv, TypeOK
<1> QED
  BY <1>1, InvariantHolds, PTL

(* "out of memory in mmap pool" means it: less than the refused request    *)
(* and a chunk is wasted (helper.c:118-122).                               *)
THEOREM PoolRefusals == Spec => []RefusalJustified
<1>1. IInv => RefusalJustified
  BY DEF IInv
<1> QED
  BY <1>1, InvariantHolds, PTL

-----------------------------------------------------------------------------
(* A step of the pool is a step of the arena: the new block starts at      *)
(* pool->size, where every earlier block has ended.                        *)
LEMMA StepIsArenaStep ==
  IInv /\ IInv' /\ [Next]_vars => [ArenaOfPool!Next]_(ArenaOfPool!vars)
<1> SUFFICES ASSUME IInv, IInv', [Next]_vars
             PROVE  [ArenaOfPool!Next]_(ArenaOfPool!vars)
  OBVIOUS
<1> USE PoolAssumption
<1>1. ASSUME NEW amount \in Requests, status = "ok", HandOut(amount)
      PROVE  ArenaOfPool!Next
  <2> DEFINE block == Range(size, size + amount)
  <2>1. size \in 0 .. PoolMax /\ block.hi <= PoolMax /\ block.lo = size
        /\ block = [lo |-> size, hi |-> size + amount]
    BY <1>1 DEF HandOut, IInv, TypeOK, WithinPool, Range
  <2>2. \A b \in blocks : ArenaOfPool!Disjoint(b, block)
    BY <2>1 DEF IInv, WithinPool, ArenaOfPool!Disjoint
  <2>3. blocks' = blocks \cup {block} /\ UNCHANGED status
    BY <1>1 DEF HandOut
  <2> HIDE DEF block
  <2>4. ArenaOfPool!Grant(amount)
    BY <2>1, <2>2, <2>3 DEF ArenaOfPool!Grant
  <2> QED BY <1>1, <2>4 DEF ArenaOfPool!Next
<1>2. ASSUME NEW amount \in Requests, status = "ok", AllocFails(amount)
      PROVE  ArenaOfPool!Next
  BY <1>2 DEF AllocFails, ArenaOfPool!Next, ArenaOfPool!Refuse
<1>3. CASE UNCHANGED vars
  BY <1>3 DEF vars, ArenaOfPool!vars
<1> QED
  BY <1>1, <1>2, <1>3 DEF Next, mempool_alloc, AllocFromChunk, AllocGrowing

(* The pool gives its users fresh blocks, disjoint from all earlier ones,  *)
(* and never moves one (helper.h:36-44).                                   *)
THEOREM PoolIsArena == Spec => ImplementsArena
<1>1. mempool_init => ArenaOfPool!Init
  BY DEF mempool_init, ArenaOfPool!Init
<1> QED
  BY <1>1, InvariantHolds, StepIsArenaStep, PTL
     DEF Spec, ImplementsArena, ArenaOfPool!Spec

-----------------------------------------------------------------------------
(***************************************************************************)
(* The vectors.                                                            *)
(***************************************************************************)

Vecs == [it_sz : ItemSizes, items : Nat, alloc : Nat \ {0}, data : Nat]

(* The inductive invariant: the pool's, the types of the vectors' fields   *)
(* and where their blocks lie.                                             *)
VecsTyped == vecs \in Seq(Vecs)
VInv == IInv /\ VecsTyped /\ VectorsApart

-----------------------------------------------------------------------------
(***************************************************************************)
(* What one call of mempool_alloc does.                                    *)
(***************************************************************************)

LEMMA AllocIsPoolStep ==
  ASSUME NEW amount \in Requests, mempool_alloc(amount)
  PROVE  Next
BY DEF Next

(* A block that is handed out starts at the old size and ends at the new.  *)
LEMMA AllocHandsOut ==
  ASSUME IInv, NEW amount \in Requests, mempool_alloc(amount), status' = "ok"
  PROVE  /\ size' = size + amount
         /\ blocks' = blocks \cup {Range(size, size + amount)}
<1> status = "ok" /\ "internal_err" # "ok"
  BY DEF mempool_alloc
<1>1. CASE AllocFromChunk(amount)
  BY <1>1 DEF AllocFromChunk, HandOut
<1>2. CASE AllocGrowing(amount)
  BY <1>2 DEF AllocGrowing, HandOut
<1>3. CASE AllocFails(amount)
  BY <1>3 DEF AllocFails
<1> QED
  BY <1>1, <1>2, <1>3 DEF mempool_alloc

(* A refused allocation leaves the blocks alone.                           *)
LEMMA AllocRefused ==
  ASSUME NEW amount \in Requests, mempool_alloc(amount), status' # "ok"
  PROVE  blocks' = blocks /\ size' = size
<1> status = "ok"
  BY DEF mempool_alloc
<1>1. CASE AllocFromChunk(amount)
  BY <1>1 DEF AllocFromChunk, HandOut
<1>2. CASE AllocGrowing(amount)
  BY <1>2 DEF AllocGrowing, HandOut
<1>3. CASE AllocFails(amount)
  BY <1>3 DEF AllocFails
<1> QED
  BY <1>1, <1>2, <1>3 DEF mempool_alloc

(* Blocks are never given back, whether the allocation succeeds or not.    *)
LEMMA AllocKeepsBlocks ==
  ASSUME IInv, NEW amount \in Requests, mempool_alloc(amount)
  PROVE  blocks \subseteq blocks' /\ size \in Nat /\ size' \in Nat /\ size <= size'
<1> size \in Nat /\ amount \in Nat
  BY PoolAssumption DEF IInv, TypeOK
<1>1. CASE status' = "ok"
  BY <1>1, AllocHandsOut
<1>2. CASE status' # "ok"
  BY <1>2, AllocRefused
<1> QED
  BY <1>1, <1>2

LEMMA PoolInvariantKept ==
  ASSUME IInv, [Next]_vars
  PROVE  IInv'
BY NextIInv

LEMMA BelowBelow ==
  ASSUME NEW s \in Nat, NEW a \in Nat, NEW m \in Nat, s + 1 < a, a <= m
  PROVE  s <= m
OBVIOUS

LEMMA FarBelow ==
  ASSUME NEW o \in Nat, NEW s \in Nat, NEW a \in Nat, o < s, s + 1 < a
  PROVE  o \in 0 .. a - 1
OBVIOUS

(* Bytes below the size of the pool are accessible unless an mprotect      *)
(* failed.                                                                 *)
LEMMA BelowSizeAccessible ==
  ASSUME IInv', lost' = {}, NEW touched,
         \A b \in touched : b \in Nat /\ b < size'
  PROVE  Accessible(touched)
<1> SUFFICES ASSUME NEW o \in touched
             PROVE  \E r \in rw' : r.lo <= o /\ o < r.hi
  BY DEF Accessible
<1>0. size' \in Nat /\ alloc' \in Nat /\ size' + 1 < alloc'
  BY DEF IInv, WithinPool, TypeOK
<1>1. o \in 0 .. alloc' - 1
  <2>1. o \in Nat /\ o < size'
    OBVIOUS
  <2> QED BY <1>0, <2>1, FarBelow, Zenon
<1>2. Opened(o)'
  BY <1>1 DEF IInv, AllOpened
<1> QED
  BY <1>2 DEF Opened

-----------------------------------------------------------------------------
(***************************************************************************)
(* One vector.                                                             *)
(***************************************************************************)

(* The product of a number of items and their size, which the solvers take *)
(* as a number without looking inside.                                     *)
LEMMA ItemBytes ==
  ASSUME NEW it_sz \in ItemSizes, NEW n \in Nat
  PROVE  /\ it_sz \in Nat \ {0}
         /\ n * it_sz \in Nat
         /\ n <= n * it_sz
         /\ (2 * n) * it_sz = n * it_sz * 2
         /\ (n + 1) * it_sz = n * it_sz + it_sz
<1>1. it_sz \in Nat /\ it_sz >= 1
  BY VectorAssumption
<1>2. PICK j \in Nat : it_sz = 1 + j
  <2>1. it_sz - 1 \in Nat /\ it_sz = 1 + (it_sz - 1)
    BY <1>1
  <2> QED BY <2>1
<1>3. n * it_sz = n + n * j /\ n * j \in Nat
  BY <1>2
<1> QED
  BY <1>1, <1>3

LEMMA ItemBytesGrow ==
  ASSUME NEW it_sz \in ItemSizes, NEW n \in Nat, NEW m \in Nat, n <= m
  PROVE  n * it_sz <= m * it_sz
<1>1. it_sz \in Nat
  BY VectorAssumption
<1>2. PICK k \in Nat : m = n + k
  <2>1. m - n \in Nat /\ m = n + (m - n)
    OBVIOUS
  <2> QED BY <2>1
<1>3. m * it_sz = n * it_sz + k * it_sz /\ k * it_sz \in Nat /\ n * it_sz \in Nat
  BY <1>1, <1>2
<1> QED
  BY <1>3

LEMMA VecFields ==
  ASSUME VecsTyped, NEW v \in Live
  PROVE  /\ v \in 1 .. Len(vecs) /\ Live = 1 .. Len(vecs) /\ Len(vecs) \in Nat
         /\ vecs[v] \in Vecs
         /\ vecs[v].it_sz \in ItemSizes /\ vecs[v].it_sz \in Nat \ {0}
         /\ vecs[v].items \in Nat /\ vecs[v].alloc \in Nat \ {0} /\ vecs[v].data \in Nat
<1>1. v \in 1 .. Len(vecs) /\ Live = 1 .. Len(vecs) /\ Len(vecs) \in Nat
  BY DEF VecsTyped, Live
<1>2. vecs[v] \in Vecs
  BY <1>1 DEF VecsTyped
<1> QED
  BY <1>1, <1>2, VectorAssumption DEF Vecs

(* Where a vector lies: inside what the pool has handed out.               *)
LEMMA VecPlace ==
  ASSUME VInv, NEW v \in Live
  PROVE  /\ size \in Nat /\ size <= PoolMax
         /\ End(vecs[v]) \in Nat
         /\ End(vecs[v]) = vecs[v].data + vecs[v].alloc * vecs[v].it_sz
         /\ vecs[v].alloc * vecs[v].it_sz \in Nat
         /\ End(vecs[v]) <= size
         /\ vecs[v].items <= vecs[v].alloc
<1>1. /\ vecs[v].it_sz \in ItemSizes /\ vecs[v].data \in Nat /\ vecs[v].alloc \in Nat
  BY VecFields DEF VInv
<1>2. vecs[v].alloc * vecs[v].it_sz \in Nat
  BY <1>1, ItemBytes
<1>3. size \in Nat /\ alloc \in Nat /\ size + 1 < alloc /\ alloc <= PoolMax /\ PoolMax \in Nat
  BY PoolAssumption DEF VInv, IInv, TypeOK, WithinPool
<1>4. Range(vecs[v].data, End(vecs[v])) \in blocks /\ vecs[v].items <= vecs[v].alloc
  BY DEF VInv, VectorsApart
<1>5. End(vecs[v]) <= size
  BY <1>4 DEF VInv, IInv, WithinPool, Range
<1>6. size <= PoolMax
  BY <1>3
<1> QED
  BY <1>1, <1>2, <1>3, <1>4, <1>5, <1>6 DEF End

(* The amount vector_resize asks for is one the pool is asked for.         *)
LEMMA ResizeRequest ==
  ASSUME VInv, NEW v \in Live
  PROVE  vecs[v].alloc * vecs[v].it_sz * 2 \in Requests
<1> DEFINE n == vecs[v].alloc
           it_sz == vecs[v].it_sz
<1>1. n \in Nat /\ n >= 1 /\ it_sz \in ItemSizes /\ vecs[v].data \in Nat
  BY VecFields DEF VInv
<1>2. /\ size \in Nat /\ size <= PoolMax /\ n * it_sz \in Nat
      /\ vecs[v].data + n * it_sz <= size
  BY VecPlace
<1>3. n <= n * it_sz
  BY <1>1, ItemBytes
<1> HIDE DEF n, it_sz
<1>4. PoolMax \in Nat
  BY PoolAssumption
<1>5. n * it_sz <= PoolMax
  BY <1>1, <1>2, <1>4
<1>6. n \in 1 .. PoolMax
  BY <1>1, <1>2, <1>3, <1>4, <1>5
<1>7. n * it_sz * 2 \in Requests
  BY <1>1, <1>5, <1>6, VectorAssumption, Zenon
<1> QED
  BY <1>7 DEF n, it_sz

LEMMA ResizeIsPoolStep ==
  ASSUME VInv, NEW v \in Live, resize_alloc(vecs[v])
  PROVE  /\ [Next]_vars
         /\ blocks \subseteq blocks' /\ size' \in Nat /\ size <= size'
<1>1. CASE Full(vecs[v])
  <2>1. mempool_alloc(vecs[v].alloc * vecs[v].it_sz * 2)
    BY <1>1 DEF resize_alloc
  <2> QED BY <2>1, ResizeRequest, AllocIsPoolStep, AllocKeepsBlocks DEF VInv
<1>2. CASE ~Full(vecs[v])
  <2>1. UNCHANGED vars
    BY <1>2 DEF resize_alloc
  <2> QED BY <2>1, VecPlace DEF vars
<1> QED
  BY <1>1, <1>2

(* After vector_resize there is room for one more item, either where the   *)
(* vector was or in the block just handed out.                             *)
LEMMA RoomMade ==
  ASSUME VInv, NEW v \in Live, resize_alloc(vecs[v]), status' = "ok",
         NEW w, w = WithRoom(vecs[v])
  PROVE  /\ w \in Vecs
         /\ w.it_sz = vecs[v].it_sz /\ w.items = vecs[v].items
         /\ w.items + 1 <= w.alloc
         /\ Range(w.data, End(w)) \in blocks'
         /\ \/ w.data = vecs[v].data /\ End(w) = End(vecs[v])
            \/ w.data = size
<1> DEFINE vec == vecs[v]
<1>0. /\ vec \in Vecs /\ vec.it_sz \in ItemSizes
      /\ vec.items \in Nat /\ vec.alloc \in Nat \ {0} /\ vec.data \in Nat
  BY VecFields DEF VInv
<1>p. /\ size \in Nat /\ vec.items <= vec.alloc /\ Range(vec.data, End(vec)) \in blocks
  BY VecPlace DEF VInv, VectorsApart
<1>1. CASE Full(vec)
  <2>1. w = [vec EXCEPT !.data = size, !.alloc = 2 * vec.alloc]
    BY <1>1 DEF WithRoom
  <2>2. /\ w.it_sz = vec.it_sz /\ w.items = vec.items
        /\ w.alloc = 2 * vec.alloc /\ w.data = size
        /\ w \in Vecs
    <3> DEFINE z == 2 * vec.alloc
    <3>1. z \in Nat \ {0}
      BY <1>0
    <3> HIDE DEF z
    <3>2. w = [vec EXCEPT !.data = size, !.alloc = z]
      BY <2>1 DEF z
    <3>3. /\ w.it_sz = vec.it_sz /\ w.items = vec.items /\ w.alloc = z /\ w.data = size
          /\ w \in Vecs
      BY <3>1, <3>2, <1>0, <1>p DEF Vecs
    <3> QED BY <3>3 DEF z
  <2>3. w.items + 1 <= w.alloc
    BY <2>2, <1>0, <1>p
  <2>4. mempool_alloc(vec.alloc * vec.it_sz * 2)
    BY <1>1 DEF resize_alloc
  <2>5. blocks' = blocks \cup {Range(size, size + vec.alloc * vec.it_sz * 2)}
    BY <2>4, ResizeRequest, AllocHandsOut DEF VInv
  <2>6. End(w) = size + vec.alloc * vec.it_sz * 2
    <3>1. (2 * vec.alloc) * vec.it_sz = vec.alloc * vec.it_sz * 2
      BY <1>0, ItemBytes
    <3>2. End(w) = size + (2 * vec.alloc) * vec.it_sz
      BY <2>2 DEF End
    <3> QED BY <3>1, <3>2, Zenon
  <2> QED
    BY <2>2, <2>3, <2>5, <2>6
<1>2. CASE ~Full(vec)
  <2>1. w = vec /\ UNCHANGED vars
    BY <1>2 DEF WithRoom, resize_alloc
  <2>2. vec.items + 1 <= vec.alloc
    BY <1>2, <1>0 DEF Full
  <2> QED
    BY <2>1, <2>2, <1>0, <1>p DEF vars
<1> QED
  BY <1>1, <1>2

-----------------------------------------------------------------------------
(***************************************************************************)
(* All vectors.                                                            *)
(***************************************************************************)

(* An operation that leaves the vectors alone leaves them apart.           *)
LEMMA ApartUnchanged ==
  ASSUME VInv, blocks \subseteq blocks', UNCHANGED vecs
  PROVE  VecsTyped' /\ VectorsApart'
BY DEF VInv, VecsTyped, VectorsApart, Live, End

(* One that changes the vector v leaves them apart, if the new place is    *)
(* the old one or fresh.                                                   *)
LEMMA ApartChanged ==
  ASSUME VInv, blocks \subseteq blocks', NEW v \in Live, NEW w \in Vecs,
         w.items <= w.alloc, Range(w.data, End(w)) \in blocks',
         \/ w.data = vecs[v].data /\ End(w) = End(vecs[v])
         \/ w.data = size,
         vecs' = With(v, w)
  PROVE  VecsTyped' /\ VectorsApart'
<1>0. vecs \in Seq(Vecs) /\ v \in 1 .. Len(vecs) /\ Live = 1 .. Len(vecs)
  BY VecFields DEF VInv, VecsTyped
<1>1. vecs' \in Seq(Vecs) /\ Len(vecs') = Len(vecs)
  BY <1>0 DEF With
<1>2. Live' = Live
  BY <1>0, <1>1 DEF Live
<1>3. vecs'[v] = w /\ \A u \in Live \ {v} : vecs'[u] = vecs[u]
  BY <1>0 DEF With
<1>4. ASSUME NEW u \in Live \ {v}
      PROVE  End(w) <= vecs[u].data \/ End(vecs[u]) <= w.data
  <2>1. CASE w.data = vecs[v].data /\ End(w) = End(vecs[v])
    BY <2>1 DEF VInv, VectorsApart
  <2>2. CASE w.data = size
    BY <2>2, VecPlace
  <2> QED BY <2>1, <2>2
<1>5. ASSUME NEW u \in Live
      PROVE  /\ vecs'[u].items <= vecs'[u].alloc
             /\ Range(vecs'[u].data, End(vecs'[u])) \in blocks'
             /\ \A t \in Live \ {u} : \/ End(vecs'[u]) <= vecs'[t].data
                                      \/ End(vecs'[t]) <= vecs'[u].data
  <2>1. CASE u = v
    BY <2>1, <1>3, <1>4
  <2>2. CASE u # v
    <3>1. vecs'[u] = vecs[u]
      BY <2>2, <1>3
    <3>2. /\ vecs[u].items <= vecs[u].alloc
          /\ Range(vecs[u].data, End(vecs[u])) \in blocks
          /\ \A t \in Live \ {u} : \/ End(vecs[u]) <= vecs[t].data
                                   \/ End(vecs[t]) <= vecs[u].data
      BY DEF VInv, VectorsApart
    <3> QED BY <2>2, <3>1, <3>2, <1>3, <1>4
  <2> QED BY <2>1, <2>2
<1>6. VectorsApart'
  BY <1>2, <1>5 DEF VectorsApart, End
<1> QED
  BY <1>1, <1>6 DEF VecsTyped

(* A new vector lies in the block just handed out.                         *)
LEMMA ApartAppended ==
  ASSUME VInv, blocks \subseteq blocks', NEW w \in Vecs,
         w.items <= w.alloc, Range(w.data, End(w)) \in blocks', w.data = size,
         vecs' = Append(vecs, w)
  PROVE  VecsTyped' /\ VectorsApart'
<1>0. vecs \in Seq(Vecs) /\ Live = 1 .. Len(vecs) /\ Len(vecs) \in Nat
  BY DEF VInv, VecsTyped, Live
<1> DEFINE n == Len(vecs) + 1
<1>1. vecs' \in Seq(Vecs) /\ Len(vecs') = n /\ n \in Nat
  BY <1>0
<1>2. Live' = Live \cup {n} /\ n \notin Live
  BY <1>0, <1>1 DEF Live
<1>3. vecs'[n] = w /\ \A u \in Live : vecs'[u] = vecs[u]
  BY <1>0
<1> HIDE DEF n
<1>4. ASSUME NEW u \in Live PROVE End(vecs[u]) <= w.data
  BY VecPlace
<1>5. ASSUME NEW u \in Live'
      PROVE  /\ vecs'[u].items <= vecs'[u].alloc
             /\ Range(vecs'[u].data, End(vecs'[u])) \in blocks'
             /\ \A t \in Live' \ {u} : \/ End(vecs'[u]) <= vecs'[t].data
                                       \/ End(vecs'[t]) <= vecs'[u].data
  <2>1. CASE u = n
    BY <2>1, <1>2, <1>3, <1>4
  <2>2. CASE u \in Live
    <3>1. /\ vecs[u].items <= vecs[u].alloc
          /\ Range(vecs[u].data, End(vecs[u])) \in blocks
          /\ \A t \in Live \ {u} : \/ End(vecs[u]) <= vecs[t].data
                                   \/ End(vecs[t]) <= vecs[u].data
      BY <2>2 DEF VInv, VectorsApart
    <3> QED BY <2>2, <3>1, <1>2, <1>3, <1>4
  <2> QED BY <2>1, <2>2, <1>2
<1>6. VectorsApart'
  BY <1>5 DEF VectorsApart, End
<1> QED
  BY <1>1, <1>6 DEF VecsTyped

-----------------------------------------------------------------------------
(***************************************************************************)
(* What an operation touches.                                              *)
(***************************************************************************)

LEMMA BytesBelow ==
  ASSUME NEW lo \in Nat, NEW n \in Nat, NEW s \in Nat, lo + n <= s,
         NEW b \in Bytes(lo, n)
  PROVE  b \in Nat /\ b < s
BY DEF Bytes

(* The slots from i on and the room for one more are inside the vector.    *)
LEMMA SlotsInside ==
  ASSUME NEW w \in Vecs, w.items + 1 <= w.alloc, NEW i \in 0 .. w.items,
         NEW s \in Nat, End(w) <= s
  PROVE  /\ Slot(w, i) \in Nat /\ Behind(w, i) \in Nat /\ w.it_sz \in Nat
         /\ Slot(w, i) + (Behind(w, i) + w.it_sz) <= s
         /\ Slot(w, i) + w.it_sz <= s
<1> DEFINE z == w.it_sz
           d == w.data
           n == w.items
           k == w.alloc
<1>1. /\ z \in ItemSizes /\ z \in Nat /\ d \in Nat /\ n \in Nat /\ k \in Nat
      /\ i \in 0 .. n /\ n + 1 <= k
  BY VectorAssumption DEF Vecs
<1> HIDE DEF z, d, n, k
<1>a. i \in Nat /\ n - i \in Nat
  BY <1>1
<1>2. i * z \in Nat /\ (n - i) * z \in Nat /\ (n + 1) * z = n * z + z /\ n * z \in Nat
  BY <1>1, <1>a, ItemBytes
<1>3. i * z + (n - i) * z = n * z
  <2>1. PICK j \in Nat : n = i + j
    <3>1. n - i \in Nat /\ n = i + (n - i)
      BY <1>1, <1>a
    <3> QED BY <3>1
  <2>2. n - i = j
    BY <1>1, <1>a, <2>1
  <2>3. (i + j) * z = i * z + j * z
    BY <1>1, <1>a, <2>1
  <2> QED BY <2>1, <2>2, <2>3
<1>4. (n + 1) * z <= k * z /\ k * z \in Nat
  <2>1. n + 1 \in Nat
    BY <1>1, <1>a
  <2> QED BY <1>1, <1>a, <2>1, ItemBytesGrow, ItemBytes
<1>5. d + k * z <= s
  BY DEF End, d, k, z
<1>6. /\ Slot(w, i) = d + i * z /\ Behind(w, i) = (n - i) * z
  BY DEF Slot, Behind, d, n, z
<1>7. /\ d + i * z \in Nat
      /\ (d + i * z) + ((n - i) * z + z) <= s
      /\ (d + i * z) + z <= s
  BY <1>1, <1>a, <1>2, <1>3, <1>4, <1>5
<1> QED
  BY <1>1, <1>a, <1>2, <1>6, <1>7 DEF z

(* The copy of vector_resize stays inside the old and the new block.       *)
LEMMA ResizeInside ==
  ASSUME VInv, NEW v \in Live, resize_alloc(vecs[v]), status' = "ok",
         NEW b \in ResizeTouches(vecs[v])
  PROVE  b \in Nat /\ b < size'
<1> DEFINE vec == vecs[v]
           u == vec.items * vec.it_sz
           a == vec.alloc * vec.it_sz
<1>0. /\ vec.it_sz \in ItemSizes /\ vec.items \in Nat /\ vec.alloc \in Nat
      /\ vec.data \in Nat
  BY VecFields DEF VInv
<1>1. u \in Nat /\ a \in Nat /\ u <= a
  <2>1. vec.items <= vec.alloc
    BY VecPlace
  <2> QED BY <1>0, <2>1, ItemBytes, ItemBytesGrow
<1>2. size \in Nat /\ vec.data + a <= size
  BY VecPlace
<1>3. CASE Full(vec)
  <2>1. mempool_alloc(a * 2)
    BY <1>3 DEF resize_alloc
  <2>2. size' = size + a * 2
    BY <2>1, ResizeRequest, AllocHandsOut DEF VInv
  <2>3. b \in Bytes(size, u) \/ b \in Bytes(vec.data, u)
    BY <1>3 DEF ResizeTouches, Used
  <2> HIDE DEF u, a
  <2>4. /\ size + u <= size + a * 2 /\ vec.data + u <= size + a * 2
        /\ size + a * 2 \in Nat
    BY <1>0, <1>1, <1>2
  <2>5. b \in Nat /\ b < size + a * 2
    BY <1>0, <1>1, <1>2, <2>3, <2>4, BytesBelow
  <2> QED BY <2>2, <2>5
<1>4. CASE ~Full(vec)
  BY <1>4 DEF ResizeTouches
<1> QED
  BY <1>3, <1>4

(* Whatever an operation computes, it ends with the vectors unchanged or   *)
(* with those it computed.                                                 *)
LEMMA FinishApart ==
  ASSUME VInv, blocks \subseteq blocks',
         NEW op, NEW vs, NEW m, NEW touched, Finish(op, vs, m, touched),
         (status' = "ok" /\ vecs' = vs) => (VecsTyped' /\ VectorsApart')
  PROVE  VecsTyped' /\ VectorsApart'
<1>1. CASE UNCHANGED vecs
  BY <1>1, ApartUnchanged
<1>2. CASE status' = "ok" /\ vecs' = vs
  BY <1>2
<1> QED
  BY <1>1, <1>2 DEF Finish, vector_vars

(* An operation that stays below the size of the pool cannot fault, unless *)
(* an mprotect failed.                                                     *)
LEMMA FinishInside ==
  ASSUME IInv', fault = "none",
         NEW op, NEW vs, NEW m, NEW touched, Finish(op, vs, m, touched),
         status' = "ok" => \A b \in touched : b \in Nat /\ b < size'
  PROVE  OnlyRemoveOverruns'
<1> SUFFICES ASSUME fault' # "none", lost' = {} PROVE FALSE
  BY DEF OnlyRemoveOverruns
<1>1. status' = "ok" /\ ~Accessible(touched)
  BY DEF Finish, vector_vars
<1>2. \A b \in touched : b \in Nat /\ b < size'
  BY <1>1
<1> QED
  BY <1>1, <1>2, BelowSizeAccessible

-----------------------------------------------------------------------------
(***************************************************************************)
(* The operations.                                                         *)
(***************************************************************************)

Good == [Next]_vars /\ VInv' /\ OnlyRemoveOverruns'

LEMMA GoodParts ==
  ASSUME VInv, [Next]_vars, VecsTyped', VectorsApart', OnlyRemoveOverruns'
  PROVE  Good
BY PoolInvariantKept DEF Good, VInv

(* vector_init and vector_init_size.                                       *)
LEMMA CreateGood ==
  ASSUME VInv, fault = "none", NEW it_sz \in ItemSizes, NEW n \in Nat,
         NEW k \in Nat \ {0}, n <= k, it_sz * k \in Requests,
         mempool_alloc(it_sz * k),
         Finish("init", Append(vecs, NewVector(it_sz, n, k)), mem, {})
  PROVE  Good
<1> DEFINE w == NewVector(it_sz, n, k)
<1>1. [Next]_vars /\ blocks \subseteq blocks' /\ size \in Nat
  BY AllocIsPoolStep, AllocKeepsBlocks DEF VInv
<1>2. IInv'
  BY <1>1, PoolInvariantKept DEF VInv
<1>3. /\ w \in Vecs /\ w.items = n /\ w.alloc = k /\ w.data = size /\ w.it_sz = it_sz
  BY <1>1 DEF NewVector, Vecs
<1> HIDE DEF w
<1>4. ASSUME status' = "ok", vecs' = Append(vecs, w)
      PROVE  VecsTyped' /\ VectorsApart'
  <2>1. blocks' = blocks \cup {Range(size, size + it_sz * k)}
    BY <1>4, AllocHandsOut DEF VInv
  <2>2. End(w) = size + k * it_sz
    BY <1>3 DEF End
  <2>3. k * it_sz = it_sz * k
    BY VectorAssumption
  <2>4. Range(w.data, End(w)) \in blocks'
    BY <1>3, <2>1, <2>2, <2>3, Zenon
  <2>5. w.items <= w.alloc
    BY <1>3
  <2> QED BY <1>1, <1>3, <1>4, <2>4, <2>5, ApartAppended
<1>5. VecsTyped' /\ VectorsApart'
  BY <1>1, <1>4, FinishApart DEF w
<1>6. OnlyRemoveOverruns'
  BY <1>2, FinishInside
<1> QED
  BY <1>1, <1>5, <1>6, GoodParts

(* vector_push, vector_alloc and vector_insert.                            *)
LEMMA GrowGood ==
  ASSUME VInv, fault = "none", NEW v \in Live, resize_alloc(vecs[v]),
         NEW w, w = WithRoom(vecs[v]), NEW i \in 0 .. vecs[v].items,
         NEW op, NEW m, NEW touched, Finish(op, OneMore(v), m, touched),
         \A b \in touched : \/ b \in ResizeTouches(vecs[v])
                            \/ b \in Bytes(Slot(w, i), w.it_sz)
                            \/ b \in Bytes(Slot(w, i), Behind(w, i) + w.it_sz)
  PROVE  Good
<1>1. [Next]_vars /\ blocks \subseteq blocks' /\ size' \in Nat
  BY ResizeIsPoolStep
<1>2. IInv'
  BY <1>1, PoolInvariantKept DEF VInv
<1>3. ASSUME status' = "ok", vecs' = OneMore(v)
      PROVE  VecsTyped' /\ VectorsApart'
  <2> DEFINE x == [w EXCEPT !.items = @ + 1]
  <2>1. /\ w \in Vecs /\ w.items + 1 <= w.alloc
        /\ Range(w.data, End(w)) \in blocks'
        /\ \/ w.data = vecs[v].data /\ End(w) = End(vecs[v])
           \/ w.data = size
    BY <1>3, RoomMade
  <2>2. /\ x \in Vecs /\ x.items = w.items + 1 /\ x.alloc = w.alloc
        /\ x.data = w.data /\ x.it_sz = w.it_sz
    BY <2>1 DEF Vecs
  <2>3. vecs' = With(v, x)
    BY <1>3 DEF OneMore
  <2> HIDE DEF x
  <2>4. End(x) = End(w)
    BY <2>2 DEF End
  <2>5. /\ x.items <= x.alloc /\ Range(x.data, End(x)) \in blocks'
        /\ \/ x.data = vecs[v].data /\ End(x) = End(vecs[v])
           \/ x.data = size
    BY <2>1, <2>2, <2>4
  <2> QED BY <1>1, <2>2, <2>3, <2>5, ApartChanged
<1>4. VecsTyped' /\ VectorsApart'
  BY <1>1, <1>3, FinishApart
<1>5. ASSUME status' = "ok", NEW b \in touched
      PROVE  b \in Nat /\ b < size'
  <2>1. CASE b \in ResizeTouches(vecs[v])
    BY <2>1, <1>5, ResizeInside
  <2>2. CASE b \notin ResizeTouches(vecs[v])
    <3>1. /\ w \in Vecs /\ w.items + 1 <= w.alloc /\ w.items = vecs[v].items
          /\ Range(w.data, End(w)) \in blocks'
      BY <1>5, RoomMade
    <3>2. End(w) <= size'
      BY <1>2, <3>1 DEF IInv, WithinPool, Range
    <3>3. /\ Slot(w, i) \in Nat /\ Behind(w, i) \in Nat /\ w.it_sz \in Nat
          /\ Slot(w, i) + (Behind(w, i) + w.it_sz) <= size'
          /\ Slot(w, i) + w.it_sz <= size'
      BY <1>1, <3>1, <3>2, SlotsInside
    <3>4. Behind(w, i) + w.it_sz \in Nat
      BY <3>3
    <3> QED BY <1>1, <2>2, <3>3, <3>4, BytesBelow
  <2> QED BY <2>1, <2>2
<1>6. OnlyRemoveOverruns'
  BY <1>2, <1>5, FinishInside
<1> QED
  BY <1>1, <1>4, <1>6, GoodParts

LEMMA RemoveGood ==
  ASSUME VInv, fault = "none", NEW v \in Live, NEW i \in 0 .. vecs[v].items - 1,
         vector_remove(v, i)
  PROVE  Good
<1> DEFINE vec == vecs[v]
           w == [vec EXCEPT !.items = @ - 1]
           touched == Bytes(Slot(vec, i), Behind(vec, i) + vec.it_sz)
           m == Moved(mem, Slot(vec, i), Slot(vec, i + 1), Behind(vec, i))
<1>1. UNCHANGED vars /\ Finish("remove", With(v, w), m, touched)
  BY DEF vector_remove
<1>2. /\ vec \in Vecs /\ vec.items \in Nat /\ vec.alloc \in Nat /\ vec.items <= vec.alloc
      /\ size \in Nat /\ End(vec) <= size /\ Range(vec.data, End(vec)) \in blocks
  BY VecFields, VecPlace DEF VInv, VectorsApart
<1>3. blocks' = blocks /\ size' = size /\ IInv'
  BY <1>1, PoolInvariantKept DEF vars, VInv
<1>4. ASSUME vecs' = With(v, w)
      PROVE  VecsTyped' /\ VectorsApart'
  <2>1. vec.items - 1 \in Nat /\ vec.items - 1 <= vec.alloc
    BY <1>2
  <2>2. /\ w \in Vecs /\ w.items = vec.items - 1 /\ w.alloc = vec.alloc
        /\ w.data = vec.data /\ w.it_sz = vec.it_sz
    BY <1>2, <2>1 DEF Vecs
  <2> HIDE DEF w
  <2>3. End(w) = End(vec)
    BY <2>2 DEF End
  <2>4. w.items <= w.alloc /\ Range(w.data, End(w)) \in blocks'
    BY <1>2, <1>3, <2>1, <2>2, <2>3
  <2> QED BY <1>3, <1>4, <2>2, <2>3, <2>4, ApartChanged
<1>5. VecsTyped' /\ VectorsApart'
  <2> HIDE DEF w, m, touched
  <2> QED BY <1>1, <1>3, <1>4, FinishApart
<1>6. OnlyRemoveOverruns'
  <2> HIDE DEF w, m
  <2>1. CASE vec.items = vec.alloc
    <3>1. CASE fault' = "none"
      BY <3>1 DEF OnlyRemoveOverruns
    <3>2. CASE fault' # "none"
      <4>1. fault' = "remove" /\ vecs' = vecs
        BY <1>1, <3>2 DEF Finish, vector_vars
      <4> QED BY <2>1, <4>1 DEF OnlyRemoveOverruns, Live
    <3> QED BY <3>1, <3>2
  <2>2. CASE vec.items # vec.alloc
    <3>1. vec.items + 1 <= vec.alloc /\ i \in 0 .. vec.items
      BY <1>2, <2>2
    <3>2. /\ Slot(vec, i) \in Nat /\ Behind(vec, i) \in Nat /\ vec.it_sz \in Nat
          /\ Slot(vec, i) + (Behind(vec, i) + vec.it_sz) <= size
      BY <1>2, <3>1, SlotsInside
    <3>3. Behind(vec, i) + vec.it_sz \in Nat
      BY <3>2
    <3>4. \A b \in touched : b \in Nat /\ b < size'
      BY <1>2, <1>3, <3>2, <3>3, BytesBelow
    <3> HIDE DEF touched
    <3> QED BY <1>1, <1>3, <3>4, FinishInside
  <2> QED BY <2>1, <2>2
<1> QED
  BY <1>1, <1>5, <1>6, GoodParts

LEMMA StoreGood ==
  ASSUME VInv, fault = "none", NEW v \in Live, NEW i \in Nat, NEW x,
         vector_idx(v, i, x)
  PROVE  Good
<1> DEFINE vec == vecs[v]
           touched == Bytes(Slot(vec, i), vec.it_sz)
           m == Stored(mem, Slot(vec, i), x, vec.it_sz)
<1>1. UNCHANGED vars /\ Finish("idx", vecs, m, touched) /\ i < vec.items
  BY DEF vector_idx
<1>2. /\ vec.items \in Nat /\ vec.alloc \in Nat /\ vec.items <= vec.alloc
      /\ vec.it_sz \in ItemSizes /\ vec.it_sz \in Nat /\ vec.data \in Nat
      /\ size \in Nat /\ vec.data + vec.alloc * vec.it_sz <= size
      /\ vec.alloc * vec.it_sz \in Nat
  BY VecFields, VecPlace DEF VInv
<1>3. blocks' = blocks /\ size' = size /\ IInv'
  BY <1>1, PoolInvariantKept DEF vars, VInv
<1>4. VecsTyped' /\ VectorsApart'
  <2>1. vecs' = vecs
    BY <1>1 DEF Finish, vector_vars
  <2> QED BY <1>3, <2>1, ApartUnchanged
<1>5. \A b \in touched : b \in Nat /\ b < size'
  <2> DEFINE z == vec.it_sz
             k == vec.alloc
  <2>1. /\ i * z \in Nat /\ (i + 1) * z = i * z + z
    BY <1>2, ItemBytes
  <2>2. (i + 1) * z <= k * z
    <3>1. i + 1 \in Nat /\ i + 1 <= k
      BY <1>1, <1>2
    <3> QED BY <1>2, <3>1, ItemBytesGrow
  <2>3. Slot(vec, i) = vec.data + i * z
    BY DEF Slot
  <2> HIDE DEF z
  <2>4. vec.data + i * z \in Nat /\ (vec.data + i * z) + z <= size /\ z \in Nat
    BY <1>2, <2>1, <2>2 DEF z
  <2>5. touched = Bytes(vec.data + i * z, z)
    BY <2>3 DEF z
  <2> QED BY <1>2, <1>3, <2>4, <2>5, BytesBelow
<1>6. OnlyRemoveOverruns'
  <2> HIDE DEF m, touched
  <2> QED BY <1>1, <1>3, <1>5, FinishInside
<1> QED
  BY <1>1, <1>4, <1>6, GoodParts

-----------------------------------------------------------------------------
(***************************************************************************)
(* All steps.                                                              *)
(***************************************************************************)

LEMMA EditGood ==
  ASSUME VInv, fault = "none", Edit
  PROVE  Good
<1> PICK v \in Live :
      \/ vector_alloc(v)
      \/ \E x \in Items : vector_push(v, x)
      \/ \E i \in 0 .. vecs[v].items, x \in Items : vector_insert(v, i, x)
      \/ \E i \in 0 .. vecs[v].items - 1 : vector_remove(v, i)
      \/ \E i \in 0 .. vecs[v].items, x \in Items : vector_idx(v, i, x)
  BY DEF Edit
<1> DEFINE w == WithRoom(vecs[v])
<1>0. vecs[v].items \in Nat /\ vecs[v].items \in 0 .. vecs[v].items
  <2>1. vecs[v].items \in Nat
    BY VecFields DEF VInv
  <2> QED BY <2>1
<1>w. w.items = vecs[v].items
  BY VecFields DEF VInv, WithRoom, Vecs
<1> HIDE DEF w
<1>1. CASE vector_alloc(v)
  <2>1. /\ resize_alloc(vecs[v])
        /\ Finish("alloc", OneMore(v), ResizedMem(vecs[v]), ResizeTouches(vecs[v]))
    BY <1>1 DEF vector_alloc
  <2> QED BY <2>1, <1>0, GrowGood
<1>2. ASSUME NEW x \in Items, vector_push(v, x)
      PROVE  Good
  <2> DEFINE at == Slot(w, vecs[v].items)
             touched == ResizeTouches(vecs[v]) \cup Bytes(at, w.it_sz)
             m == Stored(ResizedMem(vecs[v]), at, x, w.it_sz)
  <2>1. resize_alloc(vecs[v]) /\ Finish("push", OneMore(v), m, touched)
    BY <1>2, <1>w DEF vector_push, w
  <2>2. \A b \in touched : \/ b \in ResizeTouches(vecs[v])
                           \/ b \in Bytes(at, w.it_sz)
    OBVIOUS
  <2> HIDE DEF m, touched
  <2> QED BY <2>1, <2>2, <1>0, GrowGood DEF w
<1>3. ASSUME NEW i \in 0 .. vecs[v].items, NEW x \in Items, vector_insert(v, i, x)
      PROVE  Good
  <2> DEFINE shifted == Moved(ResizedMem(vecs[v]), Slot(w, i + 1), Slot(w, i), Behind(w, i))
             touched == ResizeTouches(vecs[v]) \cup Bytes(Slot(w, i), Behind(w, i) + w.it_sz)
             m == Stored(shifted, Slot(w, i), x, w.it_sz)
  <2>1. resize_alloc(vecs[v]) /\ Finish("insert", OneMore(v), m, touched)
    BY <1>3 DEF vector_insert, w
  <2>2. \A b \in touched : \/ b \in ResizeTouches(vecs[v])
                           \/ b \in Bytes(Slot(w, i), Behind(w, i) + w.it_sz)
    OBVIOUS
  <2> HIDE DEF m, touched
  <2> QED BY <2>1, <2>2, GrowGood DEF w
<1>4. ASSUME NEW i \in 0 .. vecs[v].items - 1, vector_remove(v, i)
      PROVE  Good
  BY <1>4, RemoveGood
<1>5. ASSUME NEW i \in 0 .. vecs[v].items, NEW x \in Items, vector_idx(v, i, x)
      PROVE  Good
  <2>1. i \in Nat
    BY <1>0
  <2> QED BY <1>5, <2>1, StoreGood
<1> QED
  BY <1>1, <1>2, <1>3, <1>4, <1>5

LEMMA InitialiseGood ==
  ASSUME VInv, fault = "none", Initialise
  PROVE  Good
<1> PICK it_sz \in ItemSizes :
      vector_init(it_sz) \/ \E n \in InitSizes : vector_init_size(it_sz, n)
  BY DEF Initialise
<1>1. CASE vector_init(it_sz)
  <2>1. /\ VEC_INIT_ALLOC \in Nat \ {0} /\ 0 \in Nat /\ 0 <= VEC_INIT_ALLOC
        /\ it_sz * VEC_INIT_ALLOC \in Requests
    BY VectorAssumption
  <2> QED BY <1>1, <2>1, CreateGood DEF vector_init
<1>2. ASSUME NEW n \in InitSizes, vector_init_size(it_sz, n)
      PROVE  Good
  <2>1. n \in Nat /\ n \in Nat \ {0} /\ n <= n /\ it_sz * n \in Requests
    BY VectorAssumption
  <2> QED BY <1>2, <2>1, CreateGood DEF vector_init_size
<1> QED
  BY <1>1, <1>2

LEMMA AllocateGood ==
  ASSUME VInv, OnlyRemoveOverruns, fault = "none", NEW amount \in Objects, Allocate(amount)
  PROVE  Good
<1>1. amount \in Requests /\ mempool_alloc(amount) /\ UNCHANGED vector_vars
  BY VectorAssumption DEF Allocate
<1>2. [Next]_vars /\ blocks \subseteq blocks'
  BY <1>1, AllocIsPoolStep, AllocKeepsBlocks DEF VInv
<1>3. VecsTyped' /\ VectorsApart'
  BY <1>1, <1>2, ApartUnchanged DEF vector_vars
<1>4. OnlyRemoveOverruns'
  BY <1>1 DEF vector_vars, OnlyRemoveOverruns
<1> QED
  BY <1>2, <1>3, <1>4, GoodParts

LEMMA StutterGood ==
  ASSUME VInv, OnlyRemoveOverruns, UNCHANGED all_vars
  PROVE  Good
<1>1. UNCHANGED vars /\ UNCHANGED vecs /\ UNCHANGED fault /\ UNCHANGED blocks
      /\ UNCHANGED lost
  BY DEF all_vars, vector_vars, vars
<1>2. VecsTyped' /\ VectorsApart'
  BY <1>1, ApartUnchanged
<1>3. OnlyRemoveOverruns'
  BY <1>1 DEF OnlyRemoveOverruns, Live
<1> QED
  BY <1>1, <1>2, <1>3, GoodParts

LEMMA VectorInitGood ==
  ASSUME VectorInit
  PROVE  mempool_init /\ VInv /\ OnlyRemoveOverruns
<1>1. IInv
  BY InitIInv DEF VectorInit
<1>2. VecsTyped /\ Live = {}
  BY DEF VectorInit, VecsTyped, Live
<1> QED
  BY <1>1, <1>2 DEF VectorInit, VInv, VectorsApart, OnlyRemoveOverruns

LEMMA VectorStepGood ==
  ASSUME VInv, OnlyRemoveOverruns, [VectorNext]_all_vars
  PROVE  Good
<1>1. CASE VectorNext
  <2>1. fault = "none"
    BY <1>1 DEF VectorNext, Running
  <2> QED
    BY <1>1, <2>1, InitialiseGood, EditGood, AllocateGood DEF VectorNext
<1> QED
  BY <1>1, StutterGood

LEMMA VectorInvariants == VectorSpec => [](VInv /\ OnlyRemoveOverruns)
<1>1. VectorInit => VInv /\ OnlyRemoveOverruns
  BY VectorInitGood
<1>2. (VInv /\ OnlyRemoveOverruns) /\ [VectorNext]_all_vars
        => (VInv /\ OnlyRemoveOverruns)'
  BY VectorStepGood DEF Good
<1> QED
  BY <1>1, <1>2, PTL DEF VectorSpec

(* Vectors that grow, by doubling, in a pool that others use too           *)
(* (helper.c:134-199) ask it for nothing but what its specification        *)
(* allows: every theorem about the pool holds of it.                       *)
THEOREM VectorsUsePool == VectorSpec => Spec
<1>1. VectorInit => mempool_init
  BY VectorInitGood
<1>2. VInv /\ OnlyRemoveOverruns /\ [VectorNext]_all_vars => [Next]_vars
  BY VectorStepGood DEF Good
<1> QED
  BY <1>1, <1>2, VectorInvariants, PTL DEF VectorSpec, Spec

(* However often they grow, no vector reaches into another's block, and    *)
(* each has room for its items in a block of its own (helper.c:152-158).   *)
THEOREM VectorsStayApart == VectorSpec => []VectorsApart
<1>1. VInv => VectorsApart
  BY DEF VInv
<1> QED
  BY <1>1, VectorInvariants, PTL

(* Unless an mprotect fails, nothing but vector_remove of a full vector    *)
(* (helper.c:168-172) touches a byte outside the open chunks.              *)
THEOREM OverrunsOnlyInRemove == VectorSpec => []OnlyRemoveOverruns
  BY VectorInvariants, PTL

-----------------------------------------------------------------------------
(***************************************************************************)
(* Items in memory: what a slot reads as, and that the slots of a vector   *)
(* follow each other without overlap.                                      *)
(***************************************************************************)

Held == Items \cup {Unset}

ReadItem(m, at, z) ==
  LET found == {x \in Items : \A k \in 0 .. z - 1 : m[at + k] = <<x, k>>}
  IN IF found = {} THEN Unset ELSE CHOOSE x \in found : TRUE

Content(m, w) == [i \in 1 .. w.items |-> ReadItem(m, Slot(w, i - 1), w.it_sz)]

LEMMA ReadHeld ==
  ASSUME NEW m, NEW at, NEW z
  PROVE  ReadItem(m, at, z) \in Held
<1> DEFINE found == {x \in Items : \A k \in 0 .. z - 1 : m[at + k] = <<x, k>>}
<1>1. found \subseteq Items
  OBVIOUS
<1>2. ReadItem(m, at, z) = IF found = {} THEN Unset ELSE CHOOSE x \in found : TRUE
  BY DEF ReadItem
<1> HIDE DEF found
<1>3. CASE found = {}
  BY <1>2, <1>3 DEF Held
<1>4. CASE found # {}
  <2>1. (CHOOSE x \in found : TRUE) \in found
    BY <1>4
  <2> QED BY <1>1, <1>2, <1>4, <2>1 DEF Held
<1> QED
  BY <1>3, <1>4

(* The same bytes read as the same item, wherever they are.                *)
LEMMA ReadSame ==
  ASSUME NEW m, NEW n, NEW at, NEW to, NEW z,
         \A k \in 0 .. z - 1 : m[at + k] = n[to + k]
  PROVE  ReadItem(m, at, z) = ReadItem(n, to, z)
<1> DEFINE f == {x \in Items : \A k \in 0 .. z - 1 : m[at + k] = <<x, k>>}
           g == {x \in Items : \A k \in 0 .. z - 1 : n[to + k] = <<x, k>>}
<1>1. f = g
  OBVIOUS
<1>2. /\ ReadItem(m, at, z) = IF f = {} THEN Unset ELSE CHOOSE x \in f : TRUE
      /\ ReadItem(n, to, z) = IF g = {} THEN Unset ELSE CHOOSE x \in g : TRUE
  BY DEF ReadItem
<1> HIDE DEF f, g
<1> QED
  BY <1>1, <1>2

(* An item that was stored is the one that is read.                        *)
LEMMA ReadStored ==
  ASSUME NEW m, NEW at \in Nat, NEW z \in Nat \ {0}, NEW x \in Items,
         \A k \in 0 .. z - 1 : m[at + k] = <<x, k>>
  PROVE  ReadItem(m, at, z) = x
<1> DEFINE found == {y \in Items : \A k \in 0 .. z - 1 : m[at + k] = <<y, k>>}
<1>1. x \in found
  OBVIOUS
<1>2. ASSUME NEW y \in found PROVE y = x
  <2>1. 0 \in 0 .. z - 1
    OBVIOUS
  <2>2. m[at + 0] = <<x, 0>> /\ m[at + 0] = <<y, 0>>
    BY <2>1
  <2> QED BY <2>2
<1>3. ReadItem(m, at, z) = IF found = {} THEN Unset ELSE CHOOSE y \in found : TRUE
  BY DEF ReadItem
<1> HIDE DEF found
<1>4. (CHOOSE y \in found : TRUE) \in found
  BY <1>1
<1> QED
  BY <1>1, <1>2, <1>3, <1>4

(* Fresh memory reads as no item.                                          *)
LEMMA ReadFresh ==
  ASSUME NEW m, NEW at \in Nat, NEW z \in Nat \ {0},
         \A k \in 0 .. z - 1 : m[at + k] = <<Unset, 0>>
  PROVE  ReadItem(m, at, z) = Unset
<1> DEFINE found == {y \in Items : \A k \in 0 .. z - 1 : m[at + k] = <<y, k>>}
<1>1. ASSUME NEW y \in found PROVE FALSE
  <2>1. 0 \in 0 .. z - 1
    OBVIOUS
  <2>2. m[at + 0] = <<Unset, 0>> /\ m[at + 0] = <<y, 0>>
    BY <2>1
  <2> QED BY <2>2, VectorAssumption
<1>2. ReadItem(m, at, z) = IF found = {} THEN Unset ELSE CHOOSE y \in found : TRUE
  BY DEF ReadItem
<1> HIDE DEF found
<1> QED
  BY <1>1, <1>2

(* Two sequences with the same items are the same.                         *)
LEMMA SameItems ==
  ASSUME NEW S, NEW s \in Seq(S), NEW t \in Seq(S), Len(s) = Len(t),
         \A i \in 1 .. Len(s) : s[i] = t[i]
  PROVE  s = t
OBVIOUS

LEMMA ContentSeq ==
  ASSUME NEW m, NEW w \in Vecs
  PROVE  /\ Content(m, w) \in Seq(Held)
         /\ Len(Content(m, w)) = w.items /\ w.items \in Nat
         /\ \A i \in 1 .. w.items :
              Content(m, w)[i] = ReadItem(m, Slot(w, i - 1), w.it_sz)
<1>1. w.items \in Nat
  BY DEF Vecs
<1>2. \A i \in 1 .. w.items : ReadItem(m, Slot(w, i - 1), w.it_sz) \in Held
  BY ReadHeld
<1> QED
  BY <1>1, <1>2 DEF Content

LEMMA SlotNumbers ==
  ASSUME NEW w \in Vecs, NEW i \in Nat
  PROVE  /\ w.it_sz \in Nat \ {0} /\ w.it_sz \in ItemSizes
         /\ Slot(w, i) \in Nat /\ w.data <= Slot(w, i) /\ w.data \in Nat
         /\ Slot(w, i + 1) = Slot(w, i) + w.it_sz
<1> DEFINE z == w.it_sz
<1>1. z \in ItemSizes /\ w.data \in Nat /\ z \in Nat \ {0}
  BY VectorAssumption DEF Vecs
<1>2. i * z \in Nat /\ (i + 1) * z = i * z + z
  BY <1>1, ItemBytes
<1>3. Slot(w, i) = w.data + i * z /\ Slot(w, i + 1) = w.data + (i + 1) * z
  BY DEF Slot
<1> HIDE DEF z
<1>4. /\ w.data + i * z \in Nat /\ w.data <= w.data + i * z
      /\ w.data + (i + 1) * z = (w.data + i * z) + z
  BY <1>1, <1>2
<1> QED
  BY <1>1, <1>3, <1>4 DEF z

LEMMA SlotsInOrder ==
  ASSUME NEW w \in Vecs, NEW i \in Nat, NEW j \in Nat, i < j
  PROVE  Slot(w, i) + w.it_sz <= Slot(w, j)
<1> DEFINE z == w.it_sz
<1>1. z \in ItemSizes /\ w.data \in Nat /\ z \in Nat
  BY VectorAssumption DEF Vecs
<1>2. i + 1 \in Nat /\ i + 1 <= j
  OBVIOUS
<1>3. (i + 1) * z <= j * z /\ (i + 1) * z \in Nat /\ j * z \in Nat
  BY <1>1, <1>2, ItemBytesGrow, ItemBytes
<1>4. Slot(w, i + 1) = w.data + (i + 1) * z /\ Slot(w, j) = w.data + j * z
  BY DEF Slot
<1>5. w.data + (i + 1) * z <= w.data + j * z
  BY <1>1, <1>3
<1> QED
  BY <1>4, <1>5, SlotNumbers

(* The bytes behind a slot end where the items end.                        *)
LEMMA BehindSlot ==
  ASSUME NEW w \in Vecs, NEW i \in 0 .. w.items
  PROVE  /\ Behind(w, i) \in Nat /\ i \in Nat /\ w.items \in Nat
         /\ Slot(w, i) + Behind(w, i) = Slot(w, w.items)
<1> DEFINE z == w.it_sz
           n == w.items
<1>0. n \in Nat /\ w.data \in Nat
  BY DEF Vecs
<1>1. z \in ItemSizes /\ z \in Nat /\ i \in Nat
  <2>1. z \in ItemSizes /\ z \in Nat
    BY SlotNumbers
  <2>2. i \in Nat
    BY <1>0
  <2> QED BY <2>1, <2>2
<1>2. PICK j \in Nat : n = i + j
  <2>1. n - i \in Nat /\ n = i + (n - i)
    BY <1>0, <1>1
  <2> QED BY <2>1
<1>3. n - i = j
  BY <1>0, <1>1, <1>2
<1>4. (i + j) * z = i * z + j * z /\ i * z \in Nat /\ j * z \in Nat
  BY <1>0, <1>1, <1>2
<1>5. Slot(w, i) = w.data + i * z /\ Behind(w, i) = j * z /\ Slot(w, n) = w.data + n * z
  BY <1>3 DEF Slot, Behind
<1> HIDE DEF z, n
<1>6. w.data + n * z = (w.data + i * z) + j * z
  BY <1>0, <1>1, <1>2, <1>4
<1> QED
  BY <1>0, <1>1, <1>4, <1>5, <1>6 DEF n

(* A slot with room lies inside the vector.                                *)
LEMMA SlotBelowEnd ==
  ASSUME NEW w \in Vecs, NEW i \in Nat, i < w.alloc
  PROVE  Slot(w, i) + w.it_sz <= End(w) /\ End(w) \in Nat
<1>1. w.alloc \in Nat /\ w.data \in Nat
  BY DEF Vecs
<1>2. End(w) = Slot(w, w.alloc)
  BY DEF End, Slot
<1> QED
  BY <1>1, <1>2, SlotsInOrder, SlotNumbers

LEMMA SlotsGrow ==
  ASSUME NEW w \in Vecs, NEW i \in Nat, NEW j \in Nat, i <= j
  PROVE  Slot(w, i) <= Slot(w, j)
<1>1. Slot(w, i) \in Nat /\ Slot(w, j) \in Nat /\ w.it_sz \in Nat
  BY SlotNumbers
<1>2. CASE i = j
  BY <1>1, <1>2
<1>3. CASE i < j
  BY <1>1, <1>3, SlotsInOrder
<1> QED
  BY <1>2, <1>3

-----------------------------------------------------------------------------
(***************************************************************************)
(* What the copies of an operation do to the items of a vector.            *)
(***************************************************************************)

Memory(m) == DOMAIN m = 0 .. PoolMax - 1

(* The memory n is m, but for what lies in the block of the vector w.      *)
Within(m, n, w) ==
  /\ Memory(n)
  /\ \A o \in 0 .. PoolMax - 1 : o < w.data \/ End(w) <= o => n[o] = m[o]

LEMMA StoredBytes ==
  ASSUME NEW m, Memory(m), NEW at, NEW x, NEW z
  PROVE  /\ Memory(Stored(m, at, x, z))
         /\ \A o \in 0 .. PoolMax - 1 :
              Stored(m, at, x, z)[o] = IF o \in Bytes(at, z) THEN <<x, o - at>> ELSE m[o]
BY DEF Stored, Memory

LEMMA MovedBytes ==
  ASSUME NEW m, Memory(m), NEW to, NEW from, NEW c
  PROVE  /\ Memory(Moved(m, to, from, c))
         /\ \A o \in 0 .. PoolMax - 1 :
              Moved(m, to, from, c)[o]
                = IF o \in Bytes(to, c) THEN m[from + (o - to)] ELSE m[o]
BY DEF Moved, Memory

(* A byte of a slot inside the pool.                                       *)
LEMMA SlotByte ==
  ASSUME NEW w \in Vecs, End(w) <= PoolMax, NEW i \in Nat, i < w.alloc,
         NEW k \in 0 .. w.it_sz - 1
  PROVE  /\ Slot(w, i) + k \in 0 .. PoolMax - 1
         /\ k \in Nat /\ k < w.it_sz
         /\ w.data <= Slot(w, i) + k /\ Slot(w, i) + k < End(w)
<1>1. /\ Slot(w, i) \in Nat /\ w.it_sz \in Nat /\ w.data \in Nat /\ End(w) \in Nat
      /\ w.data <= Slot(w, i) /\ Slot(w, i) + w.it_sz <= End(w)
  BY SlotNumbers, SlotBelowEnd
<1>2. PoolMax \in Nat
  BY PoolAssumption
<1> DEFINE s == Slot(w, i)
           z == w.it_sz
           e == End(w)
<1> HIDE DEF s, z, e
<1>3. /\ s + k \in 0 .. PoolMax - 1
      /\ k \in Nat /\ k < z /\ w.data <= s + k /\ s + k < e
  BY <1>1, <1>2 DEF s, z, e
<1> QED
  BY <1>3 DEF s, z, e

(* An item written into a slot is read from it, and from no other slot.    *)
LEMMA StoreInSlot ==
  ASSUME NEW m, Memory(m), NEW w \in Vecs, End(w) <= PoolMax,
         NEW j \in Nat, j < w.alloc, NEW x \in Items,
         NEW n, n = Stored(m, Slot(w, j), x, w.it_sz)
  PROVE  /\ Within(m, n, w)
         /\ ReadItem(n, Slot(w, j), w.it_sz) = x
         /\ \A i \in Nat : i < w.alloc /\ i # j =>
              ReadItem(n, Slot(w, i), w.it_sz) = ReadItem(m, Slot(w, i), w.it_sz)
<1> DEFINE s == Slot(w, j)
           z == w.it_sz
<1>0. /\ s \in Nat /\ z \in Nat \ {0} /\ w.data \in Nat /\ w.data <= s
      /\ s + z <= End(w) /\ End(w) \in Nat /\ PoolMax \in Nat
  BY SlotNumbers, SlotBelowEnd, PoolAssumption
<1>1. /\ Memory(n)
      /\ \A o \in 0 .. PoolMax - 1 :
           n[o] = IF o \in Bytes(s, z) THEN <<x, o - s>> ELSE m[o]
  BY StoredBytes
<1>2. Within(m, n, w)
  <2> HIDE DEF s, z
  <2>1. ASSUME NEW o \in 0 .. PoolMax - 1, o < w.data \/ End(w) <= o
        PROVE  n[o] = m[o]
    <3>1. o \notin Bytes(s, z)
      BY <1>0, <2>1 DEF Bytes
    <3> QED BY <1>1, <3>1
  <2> QED BY <1>1, <2>1 DEF Within
<1>3. ReadItem(n, s, z) = x
  <2>1. ASSUME NEW k \in 0 .. z - 1 PROVE n[s + k] = <<x, k>>
    <3>1. s + k \in 0 .. PoolMax - 1 /\ k \in Nat
      BY SlotByte
    <3> HIDE DEF s, z
    <3>2. s + k \in Bytes(s, z) /\ (s + k) - s = k
      BY <1>0, <3>1 DEF Bytes
    <3> QED BY <1>1, <3>1, <3>2
  <2>2. \A k \in 0 .. z - 1 : n[s + k] = <<x, k>>
    BY <2>1
  <2> HIDE DEF s, z
  <2>3. s \in Nat /\ z \in Nat \ {0}
    BY <1>0
  <2> QED BY <2>2, <2>3, ReadStored, ZenonT(60)
<1>4. ASSUME NEW i \in Nat, i < w.alloc, i # j
      PROVE  ReadItem(n, Slot(w, i), z) = ReadItem(m, Slot(w, i), z)
  <2> DEFINE t == Slot(w, i)
  <2>0. t \in Nat /\ (t + z <= s \/ s + z <= t)
    <3>1. i < j \/ j < i
      BY <1>4
    <3> QED BY <3>1, SlotsInOrder, SlotNumbers
  <2>1. ASSUME NEW k \in 0 .. z - 1 PROVE n[t + k] = m[t + k]
    <3>1. t + k \in 0 .. PoolMax - 1 /\ k \in Nat /\ k < z
      BY <1>4, SlotByte
    <3> HIDE DEF s, z, t
    <3>2. t + k \notin Bytes(s, z)
      BY <1>0, <2>0, <3>1 DEF Bytes
    <3> QED BY <1>1, <3>1, <3>2
  <2> HIDE DEF t
  <2>2. ReadItem(n, t, z) = ReadItem(m, t, z)
    BY <2>1, ReadSame
  <2> QED BY <2>2 DEF t
<1> QED
  BY <1>2, <1>3, <1>4

(* memmove of vector_insert: from the slot i on, every item is one slot    *)
(* further.                                                                *)
LEMMA MoveUp ==
  ASSUME NEW m, Memory(m), NEW w \in Vecs, End(w) <= PoolMax, w.items + 1 <= w.alloc,
         NEW i \in 0 .. w.items,
         NEW n, n = Moved(m, Slot(w, i + 1), Slot(w, i), Behind(w, i))
  PROVE  /\ Within(m, n, w)
         /\ \A j \in Nat : j < i =>
              ReadItem(n, Slot(w, j), w.it_sz) = ReadItem(m, Slot(w, j), w.it_sz)
         /\ \A j \in Nat : i <= j /\ j < w.items =>
              ReadItem(n, Slot(w, j + 1), w.it_sz) = ReadItem(m, Slot(w, j), w.it_sz)
<1> DEFINE s == Slot(w, i)
           r == Slot(w, i + 1)
           c == Behind(w, i)
           z == w.it_sz
           l == Slot(w, w.items)
<1>n. i \in Nat /\ w.items \in Nat /\ i + 1 \in Nat /\ w.alloc \in Nat /\ i < w.alloc
  BY DEF Vecs
<1>0. /\ s \in Nat /\ r = s + z /\ c \in Nat /\ s + c = l /\ l \in Nat
      /\ z \in Nat \ {0} /\ w.data \in Nat /\ w.data <= s
      /\ l + z <= End(w) /\ End(w) \in Nat /\ PoolMax \in Nat
  <2>1. w.items < w.alloc
    BY <1>n
  <2> QED BY <1>n, <2>1, SlotNumbers, SlotBelowEnd, BehindSlot, PoolAssumption
<1>1. /\ Memory(n)
      /\ \A o \in 0 .. PoolMax - 1 :
           n[o] = IF o \in Bytes(r, c) THEN m[s + (o - r)] ELSE m[o]
  BY MovedBytes
<1>2. Within(m, n, w)
  <2> HIDE DEF s, r, c, z, l
  <2>1. ASSUME NEW o \in 0 .. PoolMax - 1, o < w.data \/ End(w) <= o
        PROVE  n[o] = m[o]
    <3>1. o \notin Bytes(r, c)
      BY <1>0, <2>1 DEF Bytes
    <3> QED BY <1>1, <3>1
  <2> QED BY <1>1, <2>1 DEF Within
<1>3. ASSUME NEW j \in Nat, j < i
      PROVE  ReadItem(n, Slot(w, j), z) = ReadItem(m, Slot(w, j), z)
  <2> DEFINE t == Slot(w, j)
  <2>0. t \in Nat /\ t + z <= s
    BY <1>3, <1>n, SlotsInOrder, SlotNumbers
  <2>1. ASSUME NEW k \in 0 .. z - 1 PROVE n[t + k] = m[t + k]
    <3>0. j < w.alloc
      BY <1>3, <1>n
    <3>1. t + k \in 0 .. PoolMax - 1 /\ k \in Nat /\ k < z
      BY <3>0, SlotByte
    <3> HIDE DEF s, r, c, z, l, t
    <3>2. t + k \notin Bytes(r, c)
      BY <1>0, <2>0, <3>1 DEF Bytes
    <3> QED BY <1>1, <3>1, <3>2
  <2> HIDE DEF t
  <2>2. ReadItem(n, t, z) = ReadItem(m, t, z)
    BY <2>1, ReadSame
  <2> QED BY <2>2 DEF t
<1>4. ASSUME NEW j \in Nat, i <= j, j < w.items
      PROVE  ReadItem(n, Slot(w, j + 1), z) = ReadItem(m, Slot(w, j), z)
  <2> DEFINE t == Slot(w, j)
             q == Slot(w, j + 1)
  <2>0. j + 1 \in Nat /\ j + 1 < w.alloc /\ j + 1 <= w.items
    BY <1>4, <1>n
  <2>a. t \in Nat /\ q = t + z /\ s <= t /\ q <= l
    BY <1>4, <1>n, <2>0, SlotsGrow, SlotNumbers
  <2>1. ASSUME NEW k \in 0 .. z - 1 PROVE n[q + k] = m[t + k]
    <3>1. q + k \in 0 .. PoolMax - 1 /\ k \in Nat /\ k < z
      BY <2>0, SlotByte
    <3> HIDE DEF s, r, c, z, l, t, q
    <3>2. q + k \in Bytes(r, c) /\ s + ((q + k) - r) = t + k
      BY <1>0, <2>a, <3>1 DEF Bytes
    <3> QED BY <1>1, <3>1, <3>2
  <2> HIDE DEF t, q
  <2>2. ReadItem(n, q, z) = ReadItem(m, t, z)
    BY <2>1, ReadSame
  <2> QED BY <2>2 DEF t, q
<1> QED
  BY <1>2, <1>3, <1>4

(* memmove of vector_remove: the items behind the slot i are one slot      *)
(* nearer; what it reads behind the last item ends behind the last item.   *)
LEMMA MoveDown ==
  ASSUME NEW m, Memory(m), NEW w \in Vecs, End(w) <= PoolMax, w.items <= w.alloc,
         NEW i \in 0 .. w.items - 1,
         NEW n, n = Moved(m, Slot(w, i), Slot(w, i + 1), Behind(w, i))
  PROVE  /\ Within(m, n, w)
         /\ \A j \in Nat : j < i =>
              ReadItem(n, Slot(w, j), w.it_sz) = ReadItem(m, Slot(w, j), w.it_sz)
         /\ \A j \in Nat : i <= j /\ j + 1 < w.items =>
              ReadItem(n, Slot(w, j), w.it_sz) = ReadItem(m, Slot(w, j + 1), w.it_sz)
<1> DEFINE s == Slot(w, i)
           r == Slot(w, i + 1)
           c == Behind(w, i)
           z == w.it_sz
           l == Slot(w, w.items)
<1>n. /\ i \in Nat /\ w.items \in Nat /\ i + 1 \in Nat /\ w.alloc \in Nat
      /\ i < w.items /\ i < w.alloc /\ i \in 0 .. w.items
  BY DEF Vecs
<1>0. /\ s \in Nat /\ r = s + z /\ c \in Nat /\ s + c = l /\ l \in Nat
      /\ z \in Nat \ {0} /\ w.data \in Nat /\ w.data <= s
      /\ l <= End(w) /\ End(w) \in Nat /\ PoolMax \in Nat
  <2>1. End(w) = Slot(w, w.alloc)
    BY DEF End, Slot
  <2>2. Slot(w, w.items) <= Slot(w, w.alloc) /\ Slot(w, w.alloc) \in Nat
    BY <1>n, SlotsGrow, SlotNumbers
  <2> QED BY <1>n, <2>1, <2>2, SlotNumbers, BehindSlot, PoolAssumption
<1>1. /\ Memory(n)
      /\ \A o \in 0 .. PoolMax - 1 :
           n[o] = IF o \in Bytes(s, c) THEN m[r + (o - s)] ELSE m[o]
  BY MovedBytes
<1>2. Within(m, n, w)
  <2> HIDE DEF s, r, c, z, l
  <2>1. ASSUME NEW o \in 0 .. PoolMax - 1, o < w.data \/ End(w) <= o
        PROVE  n[o] = m[o]
    <3>1. o \notin Bytes(s, c)
      BY <1>0, <2>1 DEF Bytes
    <3> QED BY <1>1, <3>1
  <2> QED BY <1>1, <2>1 DEF Within
<1>3. ASSUME NEW j \in Nat, j < i
      PROVE  ReadItem(n, Slot(w, j), z) = ReadItem(m, Slot(w, j), z)
  <2> DEFINE t == Slot(w, j)
  <2>0. t \in Nat /\ t + z <= s
    BY <1>3, <1>n, SlotsInOrder, SlotNumbers
  <2>1. ASSUME NEW k \in 0 .. z - 1 PROVE n[t + k] = m[t + k]
    <3>0. j < w.alloc
      BY <1>3, <1>n
    <3>1. t + k \in 0 .. PoolMax - 1 /\ k \in Nat /\ k < z
      BY <3>0, SlotByte
    <3> HIDE DEF s, r, c, z, l, t
    <3>2. t + k \notin Bytes(s, c)
      BY <1>0, <2>0, <3>1 DEF Bytes
    <3> QED BY <1>1, <3>1, <3>2
  <2> HIDE DEF t
  <2>2. ReadItem(n, t, z) = ReadItem(m, t, z)
    BY <2>1, ReadSame
  <2> QED BY <2>2 DEF t
<1>4. ASSUME NEW j \in Nat, i <= j, j + 1 < w.items
      PROVE  ReadItem(n, Slot(w, j), z) = ReadItem(m, Slot(w, j + 1), z)
  <2> DEFINE t == Slot(w, j)
             q == Slot(w, j + 1)
  <2>0. j + 1 \in Nat /\ j < w.alloc /\ j + 1 <= w.items
    BY <1>4, <1>n
  <2>a. t \in Nat /\ q = t + z /\ s <= t /\ q <= l
    BY <1>4, <1>n, <2>0, SlotsGrow, SlotNumbers
  <2>1. ASSUME NEW k \in 0 .. z - 1 PROVE n[t + k] = m[q + k]
    <3>1. t + k \in 0 .. PoolMax - 1 /\ k \in Nat /\ k < z
      BY <2>0, SlotByte
    <3> HIDE DEF s, r, c, z, l, t, q
    <3>2. t + k \in Bytes(s, c) /\ r + ((t + k) - s) = q + k
      BY <1>0, <2>a, <3>1 DEF Bytes
    <3> QED BY <1>1, <3>1, <3>2
  <2> HIDE DEF t, q
  <2>2. ReadItem(n, t, z) = ReadItem(m, q, z)
    BY <2>1, ReadSame
  <2> QED BY <2>2 DEF t, q
<1> QED
  BY <1>2, <1>3, <1>4

(* The copy of vector_resize: the same items in another block.             *)
LEMMA CopyItems ==
  ASSUME NEW m, Memory(m), NEW w \in Vecs, w.items <= w.alloc,
         NEW u \in Vecs, u.it_sz = w.it_sz, u.items = w.items, u.items <= u.alloc,
         End(u) <= PoolMax,
         NEW n, n = Moved(m, u.data, w.data, Used(w))
  PROVE  Within(m, n, u) /\ Content(n, u) = Content(m, w)
<1> DEFINE a == u.data
           b == w.data
           c == Used(w)
           z == w.it_sz
<1>n. w.items \in Nat /\ w.alloc \in Nat /\ u.alloc \in Nat
  BY DEF Vecs
<1>s. /\ a \in Nat /\ b \in Nat /\ c \in Nat /\ Slot(u, w.items) = a + c
      /\ End(u) \in Nat /\ PoolMax \in Nat
  <2>1. a \in Nat /\ b \in Nat
    BY DEF Vecs
  <2>2. c \in Nat
    BY <1>n, SlotNumbers, ItemBytes DEF Used
  <2>3. Slot(u, w.items) = a + c
    BY DEF Slot, Used
  <2>4. 0 \in Nat /\ 0 < u.alloc
    BY DEF Vecs
  <2>5. End(u) \in Nat
    BY <2>4, SlotBelowEnd
  <2> QED BY <2>1, <2>2, <2>3, <2>5, PoolAssumption
<1>e. a + c <= End(u)
  <2>1. End(u) = Slot(u, u.alloc)
    BY DEF End, Slot
  <2>2. Slot(u, w.items) <= Slot(u, u.alloc)
    BY <1>n, SlotsGrow
  <2> QED BY <1>s, <2>1, <2>2
<1>1. /\ Memory(n)
      /\ \A o \in 0 .. PoolMax - 1 :
           n[o] = IF o \in Bytes(a, c) THEN m[b + (o - a)] ELSE m[o]
  BY MovedBytes
<1>2. Within(m, n, u)
  <2> HIDE DEF c
  <2>1. ASSUME NEW o \in 0 .. PoolMax - 1, o < u.data \/ End(u) <= o
        PROVE  n[o] = m[o]
    <3>1. o \notin Bytes(a, c)
      BY <1>s, <1>e, <2>1 DEF Bytes
    <3> QED BY <1>1, <3>1
  <2> QED BY <1>1, <2>1 DEF Within
<1>3. ASSUME NEW j \in Nat, j < w.items
      PROVE  ReadItem(n, Slot(u, j), z) = ReadItem(m, Slot(w, j), z)
  <2> DEFINE t == Slot(w, j)
             q == Slot(u, j)
             p == j * z
  <2>0. j < u.alloc /\ p \in Nat /\ z \in Nat
    <3>1. j < u.alloc
      BY <1>3, <1>n
    <3> QED BY <3>1, SlotNumbers, ItemBytes
  <2>a. t = b + p /\ q = a + p
    BY DEF Slot
  <2>b. q + z <= a + c
    BY <1>3, <1>n, <1>s, SlotsInOrder
  <2>1. ASSUME NEW k \in 0 .. z - 1 PROVE n[q + k] = m[t + k]
    <3>1. q + k \in 0 .. PoolMax - 1 /\ k \in Nat /\ k < z
      BY <2>0, SlotByte
    <3> HIDE DEF a, b, c, z, t, q, p
    <3>2. q + k \in Bytes(a, c) /\ b + ((q + k) - a) = t + k
      BY <1>s, <2>0, <2>a, <2>b, <3>1 DEF Bytes
    <3> QED BY <1>1, <3>1, <3>2
  <2> HIDE DEF t, q
  <2>2. ReadItem(n, q, z) = ReadItem(m, t, z)
    BY <2>1, ReadSame
  <2> QED BY <2>2 DEF t, q
<1>4. Content(n, u) = Content(m, w)
  <2>1. ASSUME NEW i \in 1 .. w.items
        PROVE  ReadItem(n, Slot(u, i - 1), u.it_sz) = ReadItem(m, Slot(w, i - 1), w.it_sz)
    <3>1. i - 1 \in Nat /\ i - 1 < w.items
      BY <1>n
    <3> QED BY <1>3, <3>1
  <2> QED BY <2>1 DEF Content
<1> QED
  BY <1>2, <1>4

-----------------------------------------------------------------------------
(***************************************************************************)
(* What the operations do to the sequence of a vector.                     *)
(***************************************************************************)

(* A sequence with an item put in, and one with an item taken out.         *)
LEMMA InsertedSeq ==
  ASSUME NEW S, NEW s \in Seq(S), NEW x \in S, NEW i \in 1 .. Len(s) + 1,
         NEW t \in Seq(S), Len(t) = Len(s) + 1, t[i] = x,
         \A j \in 1 .. i - 1 : t[j] = s[j],
         \A j \in i .. Len(s) : t[j + 1] = s[j]
  PROVE  t = SubSeq(s, 1, i - 1) \o <<x>> \o SubSeq(s, i, Len(s))
<1> DEFINE a == SubSeq(s, 1, i - 1)
           b == SubSeq(s, i, Len(s))
<1>1. i \in Nat /\ Len(s) \in Nat /\ i - 1 \in Nat
  OBVIOUS
<1>2. /\ a \in Seq(S) /\ Len(a) = i - 1
      /\ \A j \in 1 .. i - 1 : a[j] = s[j]
  OBVIOUS
<1>3. /\ b \in Seq(S) /\ Len(b) = Len(s) - i + 1
      /\ \A j \in 1 .. Len(b) : b[j] = s[j + i - 1]
  OBVIOUS
<1> HIDE DEF a, b
<1>4. <<x>> \in Seq(S) /\ Len(<<x>>) = 1 /\ <<x>>[1] = x
  OBVIOUS
<1> DEFINE c == a \o <<x>>
<1>5. /\ c \in Seq(S) /\ Len(c) = i /\ c[i] = x
      /\ \A j \in 1 .. i - 1 : c[j] = a[j]
  BY <1>1, <1>2, <1>4
<1> HIDE DEF c
<1> DEFINE d == c \o b
<1>6. /\ d \in Seq(S) /\ Len(d) = Len(s) + 1
      /\ \A j \in 1 .. i : d[j] = c[j]
      /\ \A j \in i + 1 .. Len(s) + 1 : d[j] = b[j - i]
  BY <1>1, <1>3, <1>5
<1> HIDE DEF d
<1>7. ASSUME NEW j \in 1 .. Len(t) PROVE t[j] = d[j]
  <2>1. CASE j < i
    BY <1>1, <1>2, <1>5, <1>6, <2>1
  <2>2. CASE j = i
    BY <1>1, <1>5, <1>6, <2>2
  <2>3. CASE j > i
    <3>1. j - 1 \in i .. Len(s) /\ (j - 1) + 1 = j
      BY <1>1, <2>3
    <3>2. t[j] = s[j - 1]
      BY <3>1
    <3>3. j - i \in 1 .. Len(b) /\ (j - i) + i - 1 = j - 1
      BY <1>1, <1>3, <2>3
    <3>4. d[j] = b[j - i] /\ b[j - i] = s[j - 1]
      BY <1>1, <1>3, <1>6, <2>3, <3>3
    <3> QED BY <3>2, <3>4
  <2> QED BY <1>1, <2>1, <2>2, <2>3
<1>8. t = d
  BY <1>6, <1>7, SameItems
<1> QED
  BY <1>8 DEF d, c, a, b

LEMMA RemovedSeq ==
  ASSUME NEW S, NEW s \in Seq(S), NEW i \in 1 .. Len(s),
         NEW t \in Seq(S), Len(t) = Len(s) - 1,
         \A j \in 1 .. i - 1 : t[j] = s[j],
         \A j \in i .. Len(s) - 1 : t[j] = s[j + 1]
  PROVE  t = SubSeq(s, 1, i - 1) \o SubSeq(s, i + 1, Len(s))
<1> DEFINE a == SubSeq(s, 1, i - 1)
           b == SubSeq(s, i + 1, Len(s))
<1>1. i \in Nat /\ Len(s) \in Nat /\ i - 1 \in Nat
  OBVIOUS
<1>2. /\ a \in Seq(S) /\ Len(a) = i - 1
      /\ \A j \in 1 .. i - 1 : a[j] = s[j]
  OBVIOUS
<1>3. /\ b \in Seq(S) /\ Len(b) = Len(s) - i
      /\ \A j \in 1 .. Len(b) : b[j] = s[j + i]
  OBVIOUS
<1> HIDE DEF a, b
<1> DEFINE d == a \o b
<1>6. /\ d \in Seq(S) /\ Len(d) = Len(s) - 1
      /\ \A j \in 1 .. i - 1 : d[j] = a[j]
      /\ \A j \in i .. Len(s) - 1 : d[j] = b[j - (i - 1)]
  <2>1. d \in Seq(S) /\ Len(d) = Len(s) - 1
    <3>0. a \in Seq(S) /\ b \in Seq(S)
      BY <1>2, <1>3
    <3>1. d \in Seq(S) /\ Len(d) = Len(a) + Len(b)
      BY <3>0
    <3>2. Len(a) + Len(b) = Len(s) - 1
      BY <1>1, <1>2, <1>3
    <3> QED BY <3>1, <3>2
  <2>2. \A j \in 1 .. i - 1 : d[j] = a[j]
    BY <1>1, <1>2, <1>3
  <2>3. ASSUME NEW j \in i .. Len(s) - 1 PROVE d[j] = b[j - (i - 1)]
    <3>1. j \in 1 .. Len(a) + Len(b) /\ j > Len(a) /\ j - Len(a) = j - (i - 1)
      BY <1>1, <1>2, <1>3
    <3>2. d[j] = b[j - Len(a)]
      BY <1>2, <1>3, <3>1, SMTT(60)
    <3> QED BY <3>1, <3>2
  <2> QED BY <2>1, <2>2, <2>3
<1> HIDE DEF d
<1>7. ASSUME NEW j \in 1 .. Len(t) PROVE t[j] = d[j]
  <2>1. CASE j < i
    BY <1>1, <1>2, <1>6, <2>1, SMTT(60)
  <2>3. CASE j >= i
    <3>1. j \in i .. Len(s) - 1
      BY <1>1, <2>3
    <3>2. t[j] = s[j + 1]
      BY <3>1
    <3>3. j - (i - 1) \in 1 .. Len(b) /\ (j - (i - 1)) + i = j + 1
      BY <1>1, <1>3, <3>1
    <3>4. d[j] = b[j - (i - 1)] /\ b[j - (i - 1)] = s[j + 1]
      BY <1>3, <1>6, <3>1, <3>3
    <3> QED BY <3>2, <3>4
  <2> QED BY <1>1, <2>1, <2>3
<1>8. t = d
  BY <1>6, <1>7, SameItems
<1> QED
  BY <1>8 DEF d, a, b

(* The vector w with another number of items.                              *)
LEMMA WithItems ==
  ASSUME NEW w \in Vecs, NEW n \in Nat, NEW u, u = [w EXCEPT !.items = n]
  PROVE  /\ u \in Vecs /\ u.items = n /\ u.alloc = w.alloc
         /\ u.data = w.data /\ u.it_sz = w.it_sz /\ End(u) = End(w)
         /\ \A i : Slot(u, i) = Slot(w, i)
<1>1. /\ u \in Vecs /\ u.items = n /\ u.alloc = w.alloc
      /\ u.data = w.data /\ u.it_sz = w.it_sz
  BY DEF Vecs
<1> QED
  BY <1>1 DEF End, Slot

(* vector_alloc: a last item, whatever the memory there reads as.          *)
LEMMA AllocContent ==
  ASSUME NEW m, NEW w \in Vecs, NEW u, u = [w EXCEPT !.items = w.items + 1]
  PROVE  \E x \in Held : Content(m, u) = Append(Content(m, w), x)
<1> DEFINE x == ReadItem(m, Slot(w, w.items), w.it_sz)
           s == Content(m, w)
           t == Content(m, u)
<1>1. w.items \in Nat /\ w.items + 1 \in Nat /\ x \in Held
  BY ReadHeld DEF Vecs
<1>2. /\ u \in Vecs /\ u.items = w.items + 1 /\ u.it_sz = w.it_sz
      /\ \A i : Slot(u, i) = Slot(w, i)
  BY <1>1, WithItems
<1>3. /\ s \in Seq(Held) /\ Len(s) = w.items
      /\ \A i \in 1 .. w.items : s[i] = ReadItem(m, Slot(w, i - 1), w.it_sz)
  BY ContentSeq
<1>4. /\ t \in Seq(Held) /\ Len(t) = w.items + 1
      /\ \A i \in 1 .. w.items + 1 : t[i] = ReadItem(m, Slot(w, i - 1), w.it_sz)
  <2>1. /\ t \in Seq(Held) /\ Len(t) = u.items
        /\ \A i \in 1 .. u.items : t[i] = ReadItem(m, Slot(u, i - 1), u.it_sz)
    BY <1>2, ContentSeq
  <2> HIDE DEF t
  <2>2. ASSUME NEW i \in 1 .. w.items + 1
        PROVE  t[i] = ReadItem(m, Slot(w, i - 1), w.it_sz)
    <3>1. t[i] = ReadItem(m, Slot(u, i - 1), u.it_sz)
      BY <1>2, <2>1
    <3>2. Slot(u, i - 1) = Slot(w, i - 1) /\ u.it_sz = w.it_sz
      BY <1>2
    <3> QED BY <3>1, <3>2, Zenon
  <2> QED BY <1>2, <2>1, <2>2
<1>5. t[w.items + 1] = x
  <2>1. w.items + 1 \in 1 .. w.items + 1 /\ (w.items + 1) - 1 = w.items
    BY <1>1
  <2> QED BY <1>4, <2>1
<1> HIDE DEF s, t, x
<1>6. t = Append(s, x)
  BY <1>1, <1>3, <1>4, <1>5
<1> QED
  BY <1>1, <1>6 DEF s, t

(* vector_push: the pushed item is the last.                               *)
LEMMA PushContent ==
  ASSUME NEW m, Memory(m), NEW w \in Vecs, End(w) <= PoolMax, w.items + 1 <= w.alloc,
         NEW x \in Items,
         NEW n, n = Stored(m, Slot(w, w.items), x, w.it_sz),
         NEW u, u = [w EXCEPT !.items = w.items + 1]
  PROVE  Within(m, n, w) /\ Content(n, u) = Append(Content(m, w), x)
<1> DEFINE s == Content(m, w)
           t == Content(n, u)
           k == w.items
<1>1. k \in Nat /\ k + 1 \in Nat /\ x \in Held /\ w.alloc \in Nat /\ k < w.alloc
  BY DEF Vecs, Held
<1>2. /\ u \in Vecs /\ u.items = k + 1 /\ u.it_sz = w.it_sz
      /\ \A i : Slot(u, i) = Slot(w, i)
  BY <1>1, WithItems
<1>3. /\ s \in Seq(Held) /\ Len(s) = k
      /\ \A i \in 1 .. k : s[i] = ReadItem(m, Slot(w, i - 1), w.it_sz)
  BY ContentSeq
<1>4. /\ t \in Seq(Held) /\ Len(t) = k + 1
      /\ \A i \in 1 .. k + 1 : t[i] = ReadItem(n, Slot(w, i - 1), w.it_sz)
  <2>1. /\ t \in Seq(Held) /\ Len(t) = u.items
        /\ \A i \in 1 .. u.items : t[i] = ReadItem(n, Slot(u, i - 1), u.it_sz)
    BY <1>2, ContentSeq
  <2> HIDE DEF t
  <2>2. ASSUME NEW i \in 1 .. k + 1
        PROVE  t[i] = ReadItem(n, Slot(w, i - 1), w.it_sz)
    <3>1. t[i] = ReadItem(n, Slot(u, i - 1), u.it_sz)
      BY <1>2, <2>1
    <3>2. Slot(u, i - 1) = Slot(w, i - 1) /\ u.it_sz = w.it_sz
      BY <1>2
    <3> QED BY <3>1, <3>2, Zenon
  <2> QED BY <1>2, <2>1, <2>2
<1>5. /\ Within(m, n, w)
      /\ ReadItem(n, Slot(w, k), w.it_sz) = x
      /\ \A i \in Nat : i < w.alloc /\ i # k =>
           ReadItem(n, Slot(w, i), w.it_sz) = ReadItem(m, Slot(w, i), w.it_sz)
  BY <1>1, StoreInSlot
<1>6. t[k + 1] = x
  <2>1. k + 1 \in 1 .. k + 1 /\ (k + 1) - 1 = k
    BY <1>1
  <2> QED BY <1>4, <1>5, <2>1
<1>7. ASSUME NEW i \in 1 .. k PROVE t[i] = s[i]
  <2>1. i - 1 \in Nat /\ i - 1 < w.alloc /\ i - 1 # k /\ i \in 1 .. k + 1
    BY <1>1
  <2> QED BY <1>3, <1>4, <1>5, <2>1
<1> HIDE DEF s, t, k
<1>8. t = Append(s, x)
  BY <1>1, <1>3, <1>4, <1>6, <1>7
<1> QED
  BY <1>5, <1>8 DEF s, t

(* An item written through the pointer of vector_idx replaces one.         *)
LEMMA StoreContent ==
  ASSUME NEW m, Memory(m), NEW w \in Vecs, End(w) <= PoolMax, w.items <= w.alloc,
         NEW j \in Nat, j < w.items, NEW x \in Items,
         NEW n, n = Stored(m, Slot(w, j), x, w.it_sz)
  PROVE  Within(m, n, w) /\ Content(n, w) = [Content(m, w) EXCEPT ![j + 1] = x]
<1> DEFINE s == Content(m, w)
           t == Content(n, w)
           k == w.items
<1>1. k \in Nat /\ x \in Held /\ w.alloc \in Nat /\ j < w.alloc /\ j + 1 \in 1 .. k
  BY DEF Vecs, Held
<1>3. /\ s \in Seq(Held) /\ Len(s) = k
      /\ \A i \in 1 .. k : s[i] = ReadItem(m, Slot(w, i - 1), w.it_sz)
  BY ContentSeq
<1>4. /\ t \in Seq(Held) /\ Len(t) = k
      /\ \A i \in 1 .. k : t[i] = ReadItem(n, Slot(w, i - 1), w.it_sz)
  BY ContentSeq
<1>5. /\ Within(m, n, w)
      /\ ReadItem(n, Slot(w, j), w.it_sz) = x
      /\ \A i \in Nat : i < w.alloc /\ i # j =>
           ReadItem(n, Slot(w, i), w.it_sz) = ReadItem(m, Slot(w, i), w.it_sz)
  BY <1>1, StoreInSlot
<1>6. t[j + 1] = x
  <2>1. (j + 1) - 1 = j
    OBVIOUS
  <2> QED BY <1>1, <1>4, <1>5, <2>1
<1>7. ASSUME NEW i \in 1 .. k, i # j + 1 PROVE t[i] = s[i]
  <2>1. i - 1 \in Nat /\ i - 1 < w.alloc /\ i - 1 # j
    BY <1>1, <1>7
  <2> QED BY <1>3, <1>4, <1>5, <2>1
<1> HIDE DEF s, t, k
<1> DEFINE d == [s EXCEPT ![j + 1] = x]
<1>8. d \in Seq(Held) /\ Len(d) = k /\ \A i \in 1 .. k : d[i] = IF i = j + 1 THEN x ELSE s[i]
  BY <1>1, <1>3
<1> HIDE DEF d
<1>9. \A i \in 1 .. k : t[i] = d[i]
  BY <1>6, <1>7, <1>8
<1>10. t = d
  BY <1>4, <1>8, <1>9, SameItems
<1> QED
  BY <1>5, <1>10 DEF s, t, d

LEMMA WithinTwice ==
  ASSUME NEW m, NEW p, NEW n, NEW w, Within(m, p, w), Within(p, n, w)
  PROVE  Within(m, n, w)
BY DEF Within

(* The sequence t is s with the item x put in before the i-th.              *)
Inserted(s, i, x, t) == t = SubSeq(s, 1, i - 1) \o <<x>> \o SubSeq(s, i, Len(s))

(* vector_insert: the item is put in before the i-th.                      *)
LEMMA InsertContent ==
  ASSUME NEW m, Memory(m), NEW w \in Vecs, End(w) <= PoolMax, w.items + 1 <= w.alloc,
         NEW i \in 0 .. w.items, NEW x \in Items,
         NEW n, n = Stored(Moved(m, Slot(w, i + 1), Slot(w, i), Behind(w, i)),
                           Slot(w, i), x, w.it_sz),
         NEW u, u = [w EXCEPT !.items = w.items + 1]
  PROVE  /\ Within(m, n, w)
         /\ Inserted(Content(m, w), i + 1, x, Content(n, u))
<1> PICK p : p = Moved(m, Slot(w, i + 1), Slot(w, i), Behind(w, i))
  OBVIOUS
<1> PICK s : s = Content(m, w)
  OBVIOUS
<1> DEFINE t == Content(n, u)
           k == w.items
           z == w.it_sz
<1>1. /\ k \in Nat /\ k + 1 \in Nat /\ x \in Held /\ w.alloc \in Nat
      /\ i \in Nat /\ i <= k /\ k < w.alloc /\ i < w.alloc
  BY DEF Vecs, Held
<1>2. /\ u \in Vecs /\ u.items = k + 1 /\ u.it_sz = z
      /\ \A j : Slot(u, j) = Slot(w, j)
  BY <1>1, WithItems
<1>3. /\ s \in Seq(Held) /\ Len(s) = k
      /\ \A j \in 1 .. k : s[j] = ReadItem(m, Slot(w, j - 1), z)
  BY ContentSeq
<1>4. /\ t \in Seq(Held) /\ Len(t) = k + 1
      /\ \A j \in 1 .. k + 1 : t[j] = ReadItem(n, Slot(w, j - 1), z)
  <2>1. /\ t \in Seq(Held) /\ Len(t) = u.items
        /\ \A j \in 1 .. u.items : t[j] = ReadItem(n, Slot(u, j - 1), u.it_sz)
    BY <1>2, ContentSeq
  <2> HIDE DEF t
  <2>2. ASSUME NEW j \in 1 .. k + 1
        PROVE  t[j] = ReadItem(n, Slot(w, j - 1), z)
    <3>1. t[j] = ReadItem(n, Slot(u, j - 1), u.it_sz)
      BY <1>2, <2>1
    <3>2. Slot(u, j - 1) = Slot(w, j - 1) /\ u.it_sz = z
      BY <1>2
    <3> HIDE DEF z
    <3> QED BY <3>1, <3>2, Zenon
  <2> QED BY <1>2, <2>1, <2>2
<1>5. /\ Within(m, p, w)
      /\ \A j \in Nat : j < i => ReadItem(p, Slot(w, j), z) = ReadItem(m, Slot(w, j), z)
      /\ \A j \in Nat : i <= j /\ j < k =>
           ReadItem(p, Slot(w, j + 1), z) = ReadItem(m, Slot(w, j), z)
  BY MoveUp
<1>6. /\ Within(p, n, w)
      /\ ReadItem(n, Slot(w, i), z) = x
      /\ \A j \in Nat : j < w.alloc /\ j # i =>
           ReadItem(n, Slot(w, j), z) = ReadItem(p, Slot(w, j), z)
  <2>1. Memory(p)
    BY <1>5 DEF Within
  <2> QED BY <1>1, <2>1, StoreInSlot
<1>7. Within(m, n, w)
  BY <1>5, <1>6, WithinTwice
<1> HIDE DEF t, k, z
<1>8. t[i + 1] = x
  <2>1. i + 1 \in 1 .. k + 1 /\ (i + 1) - 1 = i
    BY <1>1
  <2> QED BY <1>4, <1>6, <2>1
<1>9. ASSUME NEW j \in 1 .. (i + 1) - 1 PROVE t[j] = s[j]
  <2>1. j - 1 \in Nat /\ j - 1 < i /\ j - 1 < w.alloc /\ j - 1 # i
        /\ j \in 1 .. k + 1 /\ j \in 1 .. k
    BY <1>1
  <2> QED BY <1>3, <1>4, <1>5, <1>6, <2>1
<1>10. ASSUME NEW j \in i + 1 .. Len(s) PROVE t[j + 1] = s[j]
  <2>1. /\ j - 1 \in Nat /\ i <= j - 1 /\ j - 1 < k /\ (j - 1) + 1 = j
        /\ j \in Nat /\ j < w.alloc /\ j # i
        /\ j + 1 \in 1 .. k + 1 /\ (j + 1) - 1 = j /\ j \in 1 .. k
    BY <1>1, <1>3, SMTT(60)
  <2>2. ReadItem(p, Slot(w, (j - 1) + 1), z) = ReadItem(m, Slot(w, j - 1), z)
    BY <1>5, <2>1
  <2>3. ReadItem(n, Slot(w, j), z) = ReadItem(p, Slot(w, j), z)
    BY <1>6, <2>1
  <2>4. t[j + 1] = ReadItem(n, Slot(w, (j + 1) - 1), z) /\ s[j] = ReadItem(m, Slot(w, j - 1), z)
    BY <1>3, <1>4, <2>1
  <2> QED BY <2>1, <2>2, <2>3, <2>4
<1>11. i + 1 \in 1 .. Len(s) + 1 /\ Len(t) = Len(s) + 1
  BY <1>1, <1>3, <1>4
<1>12. t = SubSeq(s, 1, (i + 1) - 1) \o <<x>> \o SubSeq(s, i + 1, Len(s))
  BY <1>1, <1>3, <1>4, <1>8, <1>9, <1>10, <1>11, InsertedSeq
<1> QED
  BY <1>7, <1>12 DEF t, Inserted

(* The sequence t is s with the i-th item taken out.                       *)
Removed(s, i, t) == t = SubSeq(s, 1, i - 1) \o SubSeq(s, i + 1, Len(s))

(* vector_remove: the i-th item is taken out.                              *)
LEMMA RemoveContent ==
  ASSUME NEW m, Memory(m), NEW w \in Vecs, End(w) <= PoolMax, w.items <= w.alloc,
         NEW i \in 0 .. w.items - 1,
         NEW n, n = Moved(m, Slot(w, i), Slot(w, i + 1), Behind(w, i)),
         NEW u, u = [w EXCEPT !.items = w.items - 1]
  PROVE  Within(m, n, w) /\ Removed(Content(m, w), i + 1, Content(n, u))
<1> PICK s : s = Content(m, w)
  OBVIOUS
<1> DEFINE t == Content(n, u)
           k == w.items
           z == w.it_sz
<1>1. k \in Nat /\ k - 1 \in Nat /\ i \in Nat /\ i < k
  BY DEF Vecs
<1>2. /\ u \in Vecs /\ u.items = k - 1 /\ u.it_sz = z
      /\ \A j : Slot(u, j) = Slot(w, j)
  BY <1>1, WithItems
<1>3. /\ s \in Seq(Held) /\ Len(s) = k
      /\ \A j \in 1 .. k : s[j] = ReadItem(m, Slot(w, j - 1), z)
  BY ContentSeq
<1>4. /\ t \in Seq(Held) /\ Len(t) = k - 1
      /\ \A j \in 1 .. k - 1 : t[j] = ReadItem(n, Slot(w, j - 1), z)
  <2>1. /\ t \in Seq(Held) /\ Len(t) = u.items
        /\ \A j \in 1 .. u.items : t[j] = ReadItem(n, Slot(u, j - 1), u.it_sz)
    BY <1>2, ContentSeq
  <2> HIDE DEF t
  <2>2. ASSUME NEW j \in 1 .. k - 1
        PROVE  t[j] = ReadItem(n, Slot(w, j - 1), z)
    <3>1. t[j] = ReadItem(n, Slot(u, j - 1), u.it_sz)
      BY <1>2, <2>1
    <3>2. Slot(u, j - 1) = Slot(w, j - 1) /\ u.it_sz = z
      BY <1>2
    <3> HIDE DEF z
    <3> QED BY <3>1, <3>2, Zenon
  <2> QED BY <1>2, <2>1, <2>2
<1>5. /\ Within(m, n, w)
      /\ \A j \in Nat : j < i => ReadItem(n, Slot(w, j), z) = ReadItem(m, Slot(w, j), z)
      /\ \A j \in Nat : i <= j /\ j + 1 < k =>
           ReadItem(n, Slot(w, j), z) = ReadItem(m, Slot(w, j + 1), z)
  BY MoveDown
<1> HIDE DEF t, k, z
<1>9. ASSUME NEW j \in 1 .. (i + 1) - 1 PROVE t[j] = s[j]
  <2>1. j - 1 \in Nat /\ j - 1 < i /\ j \in 1 .. k - 1 /\ j \in 1 .. k
    BY <1>1
  <2> QED BY <1>3, <1>4, <1>5, <2>1
<1>10. ASSUME NEW j \in i + 1 .. Len(s) - 1 PROVE t[j] = s[j + 1]
  <2>1. /\ j - 1 \in Nat /\ i <= j - 1 /\ (j - 1) + 1 < k /\ (j - 1) + 1 = j
        /\ j \in 1 .. k - 1 /\ j + 1 \in 1 .. k /\ (j + 1) - 1 = j
    BY <1>1, <1>3
  <2>2. ReadItem(n, Slot(w, j - 1), z) = ReadItem(m, Slot(w, (j - 1) + 1), z)
    BY <1>5, <2>1
  <2>3. t[j] = ReadItem(n, Slot(w, j - 1), z) /\ s[j + 1] = ReadItem(m, Slot(w, (j + 1) - 1), z)
    BY <1>3, <1>4, <2>1
  <2> QED BY <2>1, <2>2, <2>3
<1>11. i + 1 \in 1 .. Len(s) /\ Len(t) = Len(s) - 1
  BY <1>1, <1>3, <1>4
<1>12. t = SubSeq(s, 1, (i + 1) - 1) \o SubSeq(s, (i + 1) + 1, Len(s))
  BY <1>1, <1>3, <1>4, <1>9, <1>10, <1>11, RemovedSeq
<1> QED
  BY <1>5, <1>12 DEF t, Removed

(* What is written into one block leaves the items of other blocks alone.  *)
LEMMA ContentOutside ==
  ASSUME NEW m, NEW n, NEW w \in Vecs, w.data \in Nat, End(w) \in Nat, Within(m, n, w),
         NEW t \in Vecs, t.items <= t.alloc, End(t) <= PoolMax,
         End(t) <= w.data \/ End(w) <= t.data
  PROVE  Content(n, t) = Content(m, t)
<1>1. ASSUME NEW i \in 1 .. t.items
      PROVE  ReadItem(n, Slot(t, i - 1), t.it_sz) = ReadItem(m, Slot(t, i - 1), t.it_sz)
  <2> DEFINE a == Slot(t, i - 1)
             z == t.it_sz
  <2>0. i - 1 \in Nat /\ i - 1 < t.alloc
    BY DEF Vecs
  <2>1. ASSUME NEW k \in 0 .. z - 1 PROVE n[a + k] = m[a + k]
    <3>1. /\ a + k \in 0 .. PoolMax - 1 /\ t.data <= a + k /\ a + k < End(t)
          /\ t.data \in Nat /\ End(t) \in Nat /\ a + k \in Nat
      <4>1. /\ a + k \in 0 .. PoolMax - 1 /\ t.data <= a + k /\ a + k < End(t)
        BY <2>0, SlotByte
      <4>2. t.data \in Nat /\ End(t) \in Nat
        BY <2>0, SlotBelowEnd DEF Vecs
      <4> HIDE DEF a
      <4> QED BY <4>1, <4>2
    <3> HIDE DEF a, z
    <3>2. a + k < w.data \/ End(w) <= a + k
      BY <3>1
    <3> QED BY <3>1, <3>2 DEF Within
  <2> HIDE DEF a, z
  <2>2. ReadItem(n, a, z) = ReadItem(m, a, z)
    BY <2>1, ReadSame
  <2> QED BY <2>2 DEF a, z
<1> QED
  BY <1>1 DEF Content

-----------------------------------------------------------------------------
(***************************************************************************)
(* Every step of the vectors is one of the lists, or none at all.          *)
(***************************************************************************)

(* The memory no block was handed out of is as mmap left it.               *)
MemFresh ==
  /\ Memory(mem)
  /\ \A o \in size .. PoolMax - 1 : mem[o] = <<Unset, 0>>

Contents(m, vs) == [v \in DOMAIN vs |-> Content(m, vs[v])]

(* The ways one operation changes a list.                                  *)
EditOf(s, t) ==
  \/ \E x \in Held : t = Append(s, x)
  \/ \E i \in 1 .. Len(s) + 1, x \in Items :
       t = SubSeq(s, 1, i - 1) \o <<x>> \o SubSeq(s, i, Len(s))
  \/ \E i \in DOMAIN s : t = SubSeq(s, 1, i - 1) \o SubSeq(s, i + 1, Len(s))
  \/ \E i \in DOMAIN s, x \in Items : t = [s EXCEPT ![i] = x]

Sim == [ListsOfVectors!Next]_(ListsOfVectors!vars)

LEMMA ListsAreContents ==
  /\ [v \in Live |-> ListOf(vecs[v])] = Contents(mem, vecs)
  /\ [v \in Live |-> ListOf(vecs[v])]' = Contents(mem', vecs')
BY DEF ListOf, ItemAt, ReadItem, Content, Contents, Live

LEMMA SimEnd ==
  ASSUME Running, ~Running', Contents(mem', vecs') = Contents(mem, vecs)
  PROVE  Sim
BY ListsAreContents
   DEF Sim, ListsOfVectors!Next, ListsOfVectors!End

LEMMA SimStutter ==
  ASSUME Running' = Running, Contents(mem', vecs') = Contents(mem, vecs)
  PROVE  Sim
BY ListsAreContents DEF Sim, ListsOfVectors!vars

LEMMA SimEdit ==
  ASSUME Running, Running', NEW v \in Live, NEW s, NEW t,
         s = Contents(mem, vecs)[v], EditOf(s, t),
         Contents(mem', vecs') = [Contents(mem, vecs) EXCEPT ![v] = t]
  PROVE  Sim
<1> PICK l : l = [u \in Live |-> ListOf(vecs[u])]
  OBVIOUS
<1>1. l = Contents(mem, vecs) /\ [u \in Live |-> ListOf(vecs[u])]' = Contents(mem', vecs')
  BY ListsAreContents
<1>2. l[v] = s /\ DOMAIN l = Live
  BY <1>1
<1>3. [u \in Live |-> ListOf(vecs[u])]' = [l EXCEPT ![v] = t]
  BY <1>1
<1>4. ListsOfVectors!Edit(v)
  <2>1. ListsOfVectors!Become(v, t)
    BY <1>3 DEF ListsOfVectors!Become
  <2>2. CASE \E x \in Held : t = Append(s, x)
    BY <1>2, <2>1, <2>2 DEF ListsOfVectors!Edit, Held
  <2>3. CASE \E i \in 1 .. Len(s) + 1, x \in Items :
               t = SubSeq(s, 1, i - 1) \o <<x>> \o SubSeq(s, i, Len(s))
    BY <1>2, <2>1, <2>3 DEF ListsOfVectors!Edit, ListsOfVectors!InsertAt
  <2>4. CASE \E i \in DOMAIN s : t = SubSeq(s, 1, i - 1) \o SubSeq(s, i + 1, Len(s))
    BY <1>2, <2>1, <2>4 DEF ListsOfVectors!Edit, ListsOfVectors!RemoveAt
  <2>5. CASE \E i \in DOMAIN s, x \in Items : t = [s EXCEPT ![i] = x]
    BY <1>2, <2>1, <2>5 DEF ListsOfVectors!Edit
  <2> QED BY <2>2, <2>3, <2>4, <2>5 DEF EditOf
<1>5. ListsOfVectors!Next
  BY <1>2, <1>4 DEF ListsOfVectors!Next
<1> QED
  BY <1>5 DEF Sim

LEMMA SimCreate ==
  ASSUME Running, Running', NEW n \in InitSizes \cup {0},
         Contents(mem', vecs') = Append(Contents(mem, vecs), [i \in 1 .. n |-> Unset])
  PROVE  Sim
<1>1. ListsOfVectors!Create
  BY ListsAreContents DEF ListsOfVectors!Create
<1>2. ListsOfVectors!Next
  BY <1>1 DEF ListsOfVectors!Next
<1> QED
  BY <1>2 DEF Sim

(* A change inside the block of one vector, old or new, is a change of its *)
(* list alone.                                                             *)
LEMMA EditContents ==
  ASSUME VInv, MemFresh, NEW v \in Live, size' \in Nat, size <= size',
         NEW w \in Vecs,
         \/ w.data = vecs[v].data /\ End(w) = End(vecs[v])
         \/ w.data = size,
         End(w) \in Nat, End(w) <= size',
         NEW u \in Vecs, NEW n, Within(mem, n, w), mem' = n, vecs' = With(v, u)
  PROVE  /\ MemFresh'
         /\ Contents(mem', vecs') = [Contents(mem, vecs) EXCEPT ![v] = Content(n, u)]
<1>0. w.data \in Nat /\ size \in Nat /\ size <= PoolMax /\ PoolMax \in Nat
  BY VecPlace, PoolAssumption DEF Vecs
<1>1. MemFresh'
  <2>1. ASSUME NEW o \in size' .. PoolMax - 1 PROVE n[o] = <<Unset, 0>>
    <3>1. o \in size .. PoolMax - 1 /\ o \in 0 .. PoolMax - 1 /\ End(w) <= o
      BY <1>0
    <3> QED BY <3>1 DEF Within, MemFresh
  <2>2. Memory(n)
    BY DEF Within
  <2> QED BY <2>1, <2>2 DEF MemFresh
<1>2. DOMAIN vecs' = Live /\ vecs'[v] = u /\ \A t \in Live \ {v} : vecs'[t] = vecs[t]
  BY DEF With, Live
<1>3. ASSUME NEW t \in Live \ {v}
      PROVE  Content(n, vecs'[t]) = Content(mem, vecs[t])
  <2> PICK y : y = vecs[t]
    OBVIOUS
  <2>1. y \in Vecs /\ y.items <= y.alloc /\ End(y) \in Nat /\ End(y) <= size
    BY VecFields, VecPlace DEF VInv
  <2>2. End(y) <= PoolMax
    BY <1>0, <2>1
  <2>3. End(y) <= w.data \/ End(w) <= y.data
    <3>1. CASE w.data = vecs[v].data /\ End(w) = End(vecs[v])
      BY <3>1 DEF VInv, VectorsApart
    <3>2. CASE w.data = size
      BY <3>2, <2>1
    <3> QED BY <3>1, <3>2
  <2>4. Content(n, y) = Content(mem, y)
    BY <1>0, <2>1, <2>2, <2>3, ContentOutside
  <2> QED BY <1>2, <2>4
<1>4. Contents(mem', vecs') = [t \in Live |-> IF t = v THEN Content(n, u) ELSE Content(mem, vecs[t])]
  BY <1>2, <1>3 DEF Contents
<1> QED
  BY <1>1, <1>4 DEF Contents, Live

(* vector_resize leaves the list of its vector as it was.                  *)
LEMMA RoomContent ==
  ASSUME VInv, MemFresh, NEW v \in Live, resize_alloc(vecs[v]), status' = "ok",
         NEW w, w = WithRoom(vecs[v]), NEW m, m = ResizedMem(vecs[v])
  PROVE  /\ size' \in Nat /\ size <= size'
         /\ w \in Vecs /\ w.items + 1 <= w.alloc
         /\ w.items = vecs[v].items /\ w.items \in Nat
         /\ \/ w.data = vecs[v].data /\ End(w) = End(vecs[v])
            \/ w.data = size
         /\ End(w) \in Nat /\ End(w) <= size' /\ End(w) <= PoolMax
         /\ Memory(m) /\ Within(mem, m, w)
         /\ Content(m, w) = Content(mem, vecs[v])
<1>1. size' \in Nat /\ size <= size'
  BY ResizeIsPoolStep
<1>i. IInv'
  BY ResizeIsPoolStep, PoolInvariantKept DEF VInv
<1>2. /\ w \in Vecs /\ w.it_sz = vecs[v].it_sz /\ w.items = vecs[v].items
      /\ w.items + 1 <= w.alloc
      /\ Range(w.data, End(w)) \in blocks'
      /\ \/ w.data = vecs[v].data /\ End(w) = End(vecs[v])
         \/ w.data = size
  BY RoomMade
<1>3. End(w) <= size'
  BY <1>i, <1>2 DEF IInv, WithinPool, Range
<1>p. size' + 1 < alloc' /\ alloc' <= PoolMax /\ alloc' \in Nat
  BY <1>i DEF IInv, WithinPool, TypeOK
<1>4. End(w) \in Nat /\ w.items \in Nat /\ w.alloc \in Nat
  <2>1. 0 \in Nat /\ 0 < w.alloc /\ w.items \in Nat /\ w.alloc \in Nat
    BY <1>2 DEF Vecs
  <2> QED BY <1>2, <2>1, SlotBelowEnd
<1>5. End(w) <= PoolMax
  <2>1. PoolMax \in Nat
    BY PoolAssumption
  <2>2. size' <= PoolMax
    BY <1>1, <1>p, <2>1, BelowBelow, Zenon
  <2> QED BY <1>1, <1>3, <1>4, <2>1, <2>2
<1>6. Memory(m) /\ Within(mem, m, w) /\ Content(m, w) = Content(mem, vecs[v])
  <2>0. Memory(mem)
    BY DEF MemFresh
  <2>1. CASE Full(vecs[v])
    <3> PICK y : y = vecs[v]
      OBVIOUS
    <3>1. w.data = size /\ m = Moved(mem, w.data, y.data, Used(y))
      <4>1. w.data = size
        BY <2>1, VecFields DEF WithRoom, VInv, Vecs
      <4> QED BY <2>1, <4>1 DEF ResizedMem
    <3>2. y \in Vecs /\ y.items <= y.alloc
      BY VecFields, VecPlace DEF VInv
    <3>3. w.items <= w.alloc
      BY <1>2, <1>4
    <3>4. Within(mem, m, w) /\ Content(m, w) = Content(mem, y)
      BY <1>2, <1>5, <2>0, <3>1, <3>2, <3>3, CopyItems
    <3> QED BY <3>4 DEF Within
  <2>2. CASE ~Full(vecs[v])
    <3>1. w = vecs[v] /\ m = mem
      BY <2>2 DEF WithRoom, ResizedMem
    <3> QED BY <2>0, <3>1 DEF Within, Memory
  <2> QED BY <2>1, <2>2
<1> QED
  BY <1>1, <1>2, <1>3, <1>4, <1>5, <1>6

(* An operation that ends the program, in the pool or at a closed page,    *)
(* leaves the lists as they were.                                          *)
LEMMA FinishSim ==
  ASSUME VInv, MemFresh, Running, size' \in Nat, size <= size',
         NEW op, op # "none", NEW vs, NEW m, NEW touched, Finish(op, vs, m, touched),
         (status' = "ok" /\ fault' = "none" /\ vecs' = vs /\ mem' = m)
           => Sim /\ MemFresh'
  PROVE  Sim /\ MemFresh'
<1>1. CASE UNCHANGED <<vecs, mem>> /\ ~Running'
  <2>1. Contents(mem', vecs') = Contents(mem, vecs)
    BY <1>1
  <2>2. MemFresh'
    <3>1. size \in Nat /\ PoolMax \in Nat
      BY PoolAssumption DEF VInv, IInv, TypeOK
    <3>2. \A o \in size' .. PoolMax - 1 : o \in size .. PoolMax - 1
      BY <3>1
    <3> QED BY <1>1, <3>2 DEF MemFresh
  <2> QED BY <1>1, <2>1, <2>2, SimEnd
<1>2. CASE status' = "ok" /\ vecs' = vs /\ mem' = m /\ UNCHANGED fault
  BY <1>2 DEF Running
<1>3. \/ UNCHANGED <<vecs, mem>> /\ ~Running'
      \/ status' = "ok" /\ vecs' = vs /\ mem' = m /\ UNCHANGED fault
  BY DEF Finish, vector_vars, Running
<1> QED
  BY <1>1, <1>2, <1>3

(* vector_push, vector_alloc and vector_insert.                            *)
LEMMA GrowSim ==
  ASSUME VInv, MemFresh, Running, NEW v \in Live, resize_alloc(vecs[v]),
         NEW w, w = WithRoom(vecs[v]), NEW m, m = ResizedMem(vecs[v]),
         NEW u, u = [w EXCEPT !.items = w.items + 1],
         NEW op, op # "none", NEW n, NEW touched, Finish(op, OneMore(v), n, touched),
         status' = "ok" => Within(m, n, w) /\ EditOf(Content(m, w), Content(n, u))
  PROVE  Sim /\ MemFresh'
<1>1. size' \in Nat /\ size <= size'
  BY ResizeIsPoolStep
<1>2. ASSUME status' = "ok", fault' = "none", vecs' = OneMore(v), mem' = n
      PROVE  Sim /\ MemFresh'
  <2>1. /\ w \in Vecs /\ w.items \in Nat
        /\ \/ w.data = vecs[v].data /\ End(w) = End(vecs[v])
           \/ w.data = size
        /\ End(w) \in Nat /\ End(w) <= size'
        /\ Within(mem, m, w) /\ Content(m, w) = Content(mem, vecs[v])
    BY <1>2, RoomContent
  <2>2. u \in Vecs
    <3>1. w.items + 1 \in Nat
      BY <2>1
    <3> QED BY <2>1, <3>1, WithItems
  <2>3. vecs' = With(v, u)
    BY <1>2 DEF OneMore
  <2>4. Within(mem, n, w) /\ EditOf(Content(mem, vecs[v]), Content(n, u))
    BY <1>2, <2>1, WithinTwice
  <2>5. /\ MemFresh'
        /\ Contents(mem', vecs') = [Contents(mem, vecs) EXCEPT ![v] = Content(n, u)]
    BY <1>1, <1>2, <2>1, <2>2, <2>3, <2>4, EditContents
  <2>6. Contents(mem, vecs)[v] = Content(mem, vecs[v])
    BY DEF Contents, Live
  <2>7. Running'
    BY <1>2 DEF Running
  <2> QED BY <2>4, <2>5, <2>6, <2>7, SimEdit
<1> QED
  BY <1>1, <1>2, FinishSim

LEMMA AllocSim ==
  ASSUME VInv, MemFresh, Running, NEW v \in Live, vector_alloc(v)
  PROVE  Sim /\ MemFresh'
<1> PICK w : w = WithRoom(vecs[v])
  OBVIOUS
<1> PICK m : m = ResizedMem(vecs[v])
  OBVIOUS
<1> PICK u : u = [w EXCEPT !.items = w.items + 1]
  OBVIOUS
<1>1. resize_alloc(vecs[v]) /\ Finish("alloc", OneMore(v), m, ResizeTouches(vecs[v]))
  BY DEF vector_alloc
<1>2. ASSUME status' = "ok"
      PROVE  Within(m, m, w) /\ EditOf(Content(m, w), Content(m, u))
  <2>1. w \in Vecs /\ Memory(m)
    BY <1>1, <1>2, RoomContent
  <2>2. Within(m, m, w)
    BY <2>1 DEF Within
  <2>3. \E x \in Held : Content(m, u) = Append(Content(m, w), x)
    BY <2>1, AllocContent
  <2> QED BY <2>2, <2>3 DEF EditOf
<1> QED
  BY <1>1, <1>2, GrowSim

LEMMA PushSim ==
  ASSUME VInv, MemFresh, Running, NEW v \in Live, NEW x \in Items, vector_push(v, x)
  PROVE  Sim /\ MemFresh'
<1> PICK w : w = WithRoom(vecs[v])
  OBVIOUS
<1> PICK m : m = ResizedMem(vecs[v])
  OBVIOUS
<1> PICK u : u = [w EXCEPT !.items = w.items + 1]
  OBVIOUS
<1> PICK n : n = Stored(m, Slot(w, w.items), x, w.it_sz)
  OBVIOUS
<1> DEFINE touched == ResizeTouches(vecs[v]) \cup Bytes(Slot(w, w.items), w.it_sz)
<1>1. resize_alloc(vecs[v]) /\ Finish("push", OneMore(v), n, touched)
  BY DEF vector_push
<1> HIDE DEF touched
<1>2. ASSUME status' = "ok"
      PROVE  Within(m, n, w) /\ EditOf(Content(m, w), Content(n, u))
  <2>1. w \in Vecs /\ Memory(m) /\ End(w) <= PoolMax /\ w.items + 1 <= w.alloc
    BY <1>1, <1>2, RoomContent
  <2>2. Within(m, n, w) /\ Content(n, u) = Append(Content(m, w), x)
    BY <2>1, PushContent
  <2> QED BY <2>2 DEF EditOf, Held
<1> QED
  BY <1>1, <1>2, GrowSim

LEMMA InsertSim ==
  ASSUME VInv, MemFresh, Running, NEW v \in Live, NEW x \in Items,
         NEW i \in 0 .. vecs[v].items, vector_insert(v, i, x)
  PROVE  Sim /\ MemFresh'
<1> PICK w : w = WithRoom(vecs[v])
  OBVIOUS
<1> PICK m : m = ResizedMem(vecs[v])
  OBVIOUS
<1> PICK u : u = [w EXCEPT !.items = w.items + 1]
  OBVIOUS
<1> PICK n : n = Stored(Moved(m, Slot(w, i + 1), Slot(w, i), Behind(w, i)),
                      Slot(w, i), x, w.it_sz)
  OBVIOUS
<1> DEFINE touched == ResizeTouches(vecs[v])
                        \cup Bytes(Slot(w, i), Behind(w, i) + w.it_sz)
<1>1. resize_alloc(vecs[v]) /\ Finish("insert", OneMore(v), n, touched)
  BY DEF vector_insert
<1> HIDE DEF touched
<1>2. ASSUME status' = "ok"
      PROVE  Within(m, n, w) /\ EditOf(Content(m, w), Content(n, u))
  <2>1. /\ w \in Vecs /\ Memory(m) /\ End(w) <= PoolMax /\ w.items + 1 <= w.alloc
        /\ w.items = vecs[v].items
    BY <1>1, <1>2, RoomContent
  <2>2. Within(m, n, w) /\ Inserted(Content(m, w), i + 1, x, Content(n, u))
    <3>1. i \in 0 .. w.items
      BY <2>1
    <3>2. w \in Vecs /\ Memory(m) /\ End(w) <= PoolMax /\ w.items + 1 <= w.alloc
      BY <2>1
    <3> QED BY <3>1, <3>2, InsertContent
  <2> DEFINE s == Content(m, w)
  <2>3. i + 1 \in 1 .. Len(s) + 1
    <3>1. Len(s) = w.items /\ w.items \in Nat
      BY <2>1, ContentSeq
    <3> QED BY <2>1, <3>1
  <2> HIDE DEF s
  <2>4. EditOf(s, Content(n, u))
    BY <2>2, <2>3 DEF EditOf, Inserted, s
  <2> QED BY <2>2, <2>4 DEF s
<1> QED
  BY <1>1, <1>2, GrowSim

(* Operations on a vector that stays where it is.                          *)
LEMMA InPlaceSim ==
  ASSUME VInv, MemFresh, Running, NEW v \in Live, UNCHANGED vars,
         NEW w, w = vecs[v], NEW u \in Vecs, NEW n, Within(mem, n, w),
         EditOf(Content(mem, w), Content(n, u)),
         NEW op, op # "none", NEW vs, vs = With(v, u), NEW touched,
         Finish(op, vs, n, touched)
  PROVE  Sim /\ MemFresh'
<1>1. size \in Nat /\ size' = size
  BY VecPlace DEF vars
<1>2. ASSUME status' = "ok", fault' = "none", vecs' = vs, mem' = n
      PROVE  Sim /\ MemFresh'
  <2>1. w \in Vecs /\ End(w) \in Nat /\ End(w) <= size
    BY VecFields, VecPlace DEF VInv
  <2>5. /\ MemFresh'
        /\ Contents(mem', vecs') = [Contents(mem, vecs) EXCEPT ![v] = Content(n, u)]
    BY <1>1, <1>2, <2>1, EditContents
  <2>6. Contents(mem, vecs)[v] = Content(mem, w)
    BY DEF Contents, Live
  <2>7. Running'
    BY <1>2 DEF Running
  <2> QED BY <2>5, <2>6, <2>7, SimEdit
<1> QED
  BY <1>1, <1>2, FinishSim

LEMMA RemoveSim ==
  ASSUME VInv, MemFresh, Running, NEW v \in Live, NEW i \in 0 .. vecs[v].items - 1,
         vector_remove(v, i)
  PROVE  Sim /\ MemFresh'
<1> PICK w : w = vecs[v]
  OBVIOUS
<1> PICK n : n = Moved(mem, Slot(w, i), Slot(w, i + 1), Behind(w, i))
  OBVIOUS
<1> PICK u : u = [w EXCEPT !.items = w.items - 1]
  OBVIOUS
<1> PICK m : m = mem
  OBVIOUS
<1> DEFINE vs == With(v, u)
           touched == Bytes(Slot(w, i), Behind(w, i) + w.it_sz)
<1>1. UNCHANGED vars /\ Finish("remove", vs, n, touched)
  BY DEF vector_remove
<1> HIDE DEF touched
<1>2. /\ w \in Vecs /\ w.items <= w.alloc /\ End(w) <= PoolMax /\ w.items \in Nat
      /\ i \in 0 .. w.items - 1
  <2>1. /\ w \in Vecs /\ w.items <= w.alloc /\ End(w) <= size /\ size <= PoolMax
        /\ w.items \in Nat /\ End(w) \in Nat /\ size \in Nat
    BY VecFields, VecPlace DEF VInv
  <2>2. End(w) <= PoolMax
    BY <2>1, PoolAssumption
  <2> QED BY <2>1, <2>2
<1>3. u \in Vecs
  <2>1. w.items - 1 \in Nat
    BY <1>2
  <2> QED BY <1>2, <2>1, WithItems
<1>4. Within(m, n, w) /\ Removed(Content(m, w), i + 1, Content(n, u))
  <2>1. Memory(m) /\ n = Moved(m, Slot(w, i), Slot(w, i + 1), Behind(w, i))
    BY DEF MemFresh
  <2> QED BY <1>2, <2>1, RemoveContent
<1> DEFINE s == Content(m, w)
<1>5. EditOf(s, Content(n, u))
  <2>1. s \in Seq(Held) /\ Len(s) = w.items
    BY <1>2, ContentSeq
  <2>2. i + 1 \in DOMAIN s
    BY <1>2, <2>1
  <2> HIDE DEF s
  <2>3. Removed(s, i + 1, Content(n, u))
    BY <1>4 DEF s
  <2> QED BY <2>2, <2>3 DEF EditOf, Removed
<1> QED
  BY <1>1, <1>3, <1>4, <1>5, InPlaceSim

LEMMA StoreSim ==
  ASSUME VInv, MemFresh, Running, NEW v \in Live, NEW i \in Nat, NEW x \in Items,
         vector_idx(v, i, x)
  PROVE  Sim /\ MemFresh'
<1> PICK w : w = vecs[v]
  OBVIOUS
<1> PICK n : n = Stored(mem, Slot(w, i), x, w.it_sz)
  OBVIOUS
<1> PICK s : s = Content(mem, w)
  OBVIOUS
<1> DEFINE touched == Bytes(Slot(w, i), w.it_sz)
<1>1. UNCHANGED vars /\ Finish("idx", vecs, n, touched) /\ i < w.items
  BY DEF vector_idx
<1> HIDE DEF touched
<1>2. w \in Vecs /\ w.items <= w.alloc /\ End(w) <= PoolMax /\ w.items \in Nat
  <2>1. /\ w \in Vecs /\ w.items <= w.alloc /\ End(w) <= size /\ size <= PoolMax
        /\ w.items \in Nat /\ End(w) \in Nat /\ size \in Nat
    BY VecFields, VecPlace DEF VInv
  <2>2. End(w) <= PoolMax
    BY <2>1, PoolAssumption
  <2> QED BY <2>1, <2>2
<1>3. vecs = With(v, w)
  <2>1. vecs = [u \in Live |-> vecs[u]]
    BY DEF VInv, VecsTyped, Live
  <2> QED BY <2>1 DEF With, Live
<1>4. Within(mem, n, w) /\ Content(n, w) = [s EXCEPT ![i + 1] = x]
  BY <1>1, <1>2, StoreContent DEF MemFresh
<1>5. EditOf(s, Content(n, w))
  <2>1. s \in Seq(Held) /\ Len(s) = w.items
    BY <1>2, ContentSeq
  <2>2. i + 1 \in DOMAIN s
    BY <1>1, <1>2, <2>1
  <2> QED BY <1>4, <2>2 DEF EditOf
<1> QED
  BY <1>1, <1>2, <1>3, <1>4, <1>5, InPlaceSim

(* vector_init and vector_init_size: the items of a new vector are fresh   *)
(* memory.                                                                 *)
LEMMA CreateSim ==
  ASSUME VInv, MemFresh, Running, NEW it_sz \in ItemSizes, NEW n \in InitSizes \cup {0},
         NEW k \in Nat \ {0}, n \in Nat, n <= k, it_sz * k \in Requests,
         mempool_alloc(it_sz * k),
         Finish("init", Append(vecs, NewVector(it_sz, n, k)), mem, {})
  PROVE  Sim /\ MemFresh'
<1> PICK w : w = NewVector(it_sz, n, k)
  OBVIOUS
<1>0. fault = "none"
  BY DEF Running
<1>1. size \in Nat /\ size' \in Nat /\ size <= size'
  BY AllocKeepsBlocks DEF VInv
<1>2. IInv' /\ VInv'
  BY <1>0, CreateGood DEF Good, VInv
<1>3. /\ w \in Vecs /\ w.items = n /\ w.alloc = k /\ w.data = size /\ w.it_sz = it_sz
  BY <1>1 DEF NewVector, Vecs
<1>4. ASSUME status' = "ok", fault' = "none", vecs' = Append(vecs, w), mem' = mem
      PROVE  Sim /\ MemFresh'
  <2>1. /\ size' = size + it_sz * k /\ End(w) = size + k * it_sz
    BY <1>3, <1>4, AllocHandsOut DEF VInv, End
  <2>2. k * it_sz = it_sz * k
    BY VectorAssumption
  <2>3. End(w) = size'
    BY <2>1, <2>2, Zenon
  <2>4. size' <= PoolMax /\ PoolMax \in Nat
    <3>1. PoolMax \in Nat
      BY PoolAssumption
    <3>2. size' + 1 < alloc' /\ alloc' <= PoolMax /\ alloc' \in Nat
      BY <1>2 DEF IInv, WithinPool, TypeOK
    <3> QED BY <1>1, <3>1, <3>2, BelowBelow, Zenon
  <2>5. ASSUME NEW i \in 1 .. n
        PROVE  ReadItem(mem, Slot(w, i - 1), w.it_sz) = Unset
    <3> DEFINE a == Slot(w, i - 1)
               z == w.it_sz
    <3>1. i - 1 \in Nat /\ i - 1 < w.alloc
      BY <1>3
    <3>2. a \in Nat /\ z \in Nat \ {0}
      BY <1>3, <3>1, SlotNumbers
    <3>3. ASSUME NEW b \in 0 .. z - 1 PROVE mem[a + b] = <<Unset, 0>>
      <4>1. End(w) <= PoolMax
        BY <2>3, <2>4
      <4>2. a + b \in 0 .. PoolMax - 1 /\ w.data <= a + b
        BY <1>3, <3>1, <4>1, SlotByte
      <4> HIDE DEF a, z
      <4>3. a + b \in size .. PoolMax - 1
        BY <1>1, <1>3, <2>4, <4>2
      <4> QED BY <4>3 DEF MemFresh
    <3> HIDE DEF a, z
    <3>4. \A b \in 0 .. z - 1 : mem[a + b] = <<Unset, 0>>
      BY <3>3
    <3>5. a \in Nat /\ z \in Nat \ {0}
      BY <3>2
    <3>6. ReadItem(mem, a, z) = Unset
      BY <3>4, <3>5, ReadFresh
    <3> QED BY <3>6 DEF a, z
  <2>6. Content(mem, w) = [i \in 1 .. n |-> Unset]
    BY <1>3, <2>5 DEF Content
  <2>7. Contents(mem', vecs') = Append(Contents(mem, vecs), Content(mem, w))
    <3>1. vecs \in Seq(Vecs)
      BY DEF VInv, VecsTyped
    <3> PICK vs : vs = vecs
      OBVIOUS
    <3> PICK m : m = mem
      OBVIOUS
    <3>2. Contents(m, Append(vs, w)) = Append(Contents(m, vs), Content(m, w))
      <4> DEFINE S == {Content(m, y) : y \in Vecs}
                 c == Contents(m, vs)
                 d == Contents(m, Append(vs, w))
      <4>1. c \in Seq(S) /\ Len(c) = Len(vs) /\ \A i \in 1 .. Len(vs) : c[i] = Content(m, vs[i])
        BY <3>1 DEF Contents
      <4>2. Append(vs, w) \in Seq(Vecs) /\ Len(Append(vs, w)) = Len(vs) + 1
        BY <1>3, <3>1
      <4>3. /\ d \in Seq(S) /\ Len(d) = Len(vs) + 1
            /\ \A i \in 1 .. Len(vs) + 1 : d[i] = Content(m, Append(vs, w)[i])
        <5> PICK y : y = Append(vs, w)
          OBVIOUS
        <5>1. y \in Seq(Vecs) /\ Len(y) = Len(vs) + 1
          BY <4>2
        <5>2. /\ Contents(m, y) \in Seq(S) /\ Len(Contents(m, y)) = Len(vs) + 1
              /\ \A i \in 1 .. Len(vs) + 1 : Contents(m, y)[i] = Content(m, y[i])
          BY <5>1 DEF Contents
        <5> QED BY <5>2
      <4>4. Content(m, w) \in S /\ Len(vs) \in Nat
        BY <1>3, <3>1
      <4>5. /\ Append(vs, w)[Len(vs) + 1] = w
            /\ \A i \in 1 .. Len(vs) : Append(vs, w)[i] = vs[i]
        BY <1>3, <3>1
      <4> HIDE DEF S, c, d
      <4> PICK e : e = Append(c, Content(m, w))
        OBVIOUS
      <4>6. /\ e \in Seq(S) /\ Len(e) = Len(vs) + 1 /\ e[Len(vs) + 1] = Content(m, w)
            /\ \A i \in 1 .. Len(vs) : e[i] = c[i]
        BY <4>1, <4>4
      <4>7. \A i \in 1 .. Len(vs) + 1 : d[i] = e[i]
        BY <4>1, <4>3, <4>4, <4>5, <4>6
      <4>8. d = e
        BY <4>3, <4>6, <4>7, SameItems
      <4> QED BY <4>8 DEF d, c
    <3> QED BY <1>4, <3>2
  <2>8. Running'
    BY <1>4 DEF Running
  <2>9. MemFresh'
    <3>1. \A o \in size' .. PoolMax - 1 : o \in size .. PoolMax - 1
      BY <1>1, <2>4
    <3> QED BY <1>4, <3>1 DEF MemFresh
  <2> QED BY <2>6, <2>7, <2>8, <2>9, SimCreate
<1> QED
  BY <1>1, <1>4, FinishSim

LEMMA AllocateSim ==
  ASSUME VInv, MemFresh, Running, NEW amount \in Objects, Allocate(amount)
  PROVE  Sim /\ MemFresh'
<1>1. amount \in Requests /\ mempool_alloc(amount) /\ UNCHANGED vector_vars
  BY VectorAssumption DEF Allocate
<1>2. size \in Nat /\ size' \in Nat /\ size <= size' /\ PoolMax \in Nat
  BY <1>1, AllocKeepsBlocks, PoolAssumption DEF VInv
<1>3. Contents(mem', vecs') = Contents(mem, vecs)
  BY <1>1 DEF vector_vars
<1>4. MemFresh'
  <2>1. \A o \in size' .. PoolMax - 1 : o \in size .. PoolMax - 1
    BY <1>2
  <2> QED BY <1>1, <2>1 DEF MemFresh, vector_vars
<1>5. Sim
  <2>1. CASE Running'
    <3>1. Running' = Running
      BY <2>1
    <3> QED BY <3>1, <1>3, SimStutter
  <2>2. CASE ~Running'
    BY <2>2, <1>3, SimEnd
  <2> QED BY <2>1, <2>2
<1> QED
  BY <1>4, <1>5

LEMMA EditSim ==
  ASSUME VInv, MemFresh, Running, Edit
  PROVE  Sim /\ MemFresh'
<1> PICK v \in Live :
      \/ vector_alloc(v)
      \/ \E x \in Items : vector_push(v, x)
      \/ \E i \in 0 .. vecs[v].items, x \in Items : vector_insert(v, i, x)
      \/ \E i \in 0 .. vecs[v].items - 1 : vector_remove(v, i)
      \/ \E i \in 0 .. vecs[v].items, x \in Items : vector_idx(v, i, x)
  BY DEF Edit
<1>1. CASE vector_alloc(v)
  BY <1>1, AllocSim
<1>2. ASSUME NEW x \in Items, vector_push(v, x) PROVE Sim /\ MemFresh'
  BY <1>2, PushSim
<1>3. ASSUME NEW i \in 0 .. vecs[v].items, NEW x \in Items, vector_insert(v, i, x)
      PROVE  Sim /\ MemFresh'
  BY <1>3, InsertSim
<1>4. ASSUME NEW i \in 0 .. vecs[v].items - 1, vector_remove(v, i)
      PROVE  Sim /\ MemFresh'
  BY <1>4, RemoveSim
<1>5. ASSUME NEW i \in 0 .. vecs[v].items, NEW x \in Items, vector_idx(v, i, x)
      PROVE  Sim /\ MemFresh'
  <2>1. i \in Nat
    <3>1. vecs[v].items \in Nat
      BY VecFields DEF VInv
    <3> QED BY <3>1
  <2> QED BY <1>5, <2>1, StoreSim
<1> QED
  BY <1>1, <1>2, <1>3, <1>4, <1>5

LEMMA InitialiseSim ==
  ASSUME VInv, MemFresh, Running, Initialise
  PROVE  Sim /\ MemFresh'
<1> PICK it_sz \in ItemSizes :
      vector_init(it_sz) \/ \E n \in InitSizes : vector_init_size(it_sz, n)
  BY DEF Initialise
<1>1. CASE vector_init(it_sz)
  <2>1. /\ VEC_INIT_ALLOC \in Nat \ {0} /\ 0 \in Nat /\ 0 <= VEC_INIT_ALLOC
        /\ it_sz * VEC_INIT_ALLOC \in Requests
    BY VectorAssumption
  <2> QED BY <1>1, <2>1, CreateSim DEF vector_init
<1>2. ASSUME NEW n \in InitSizes, vector_init_size(it_sz, n)
      PROVE  Sim /\ MemFresh'
  <2>1. n \in Nat /\ n \in Nat \ {0} /\ n <= n /\ it_sz * n \in Requests
    BY VectorAssumption
  <2> QED BY <1>2, <2>1, CreateSim DEF vector_init_size
<1> QED
  BY <1>1, <1>2

LEMMA StepSim ==
  ASSUME VInv, MemFresh, [VectorNext]_all_vars
  PROVE  Sim /\ MemFresh'
<1>1. CASE VectorNext
  <2>1. Running
    BY <1>1 DEF VectorNext
  <2>2. CASE \E amount \in Objects : Allocate(amount)
    BY <2>1, <2>2, AllocateSim
  <2> QED
    BY <1>1, <2>1, <2>2, InitialiseSim, EditSim DEF VectorNext
<1>2. CASE UNCHANGED all_vars
  <2>1. /\ Contents(mem', vecs') = Contents(mem, vecs)
        /\ Running' = Running
    BY <1>2 DEF all_vars, vector_vars, vars, Running
  <2>2. MemFresh'
    BY <1>2 DEF all_vars, vector_vars, vars, MemFresh
  <2> QED BY <2>1, <2>2, SimStutter
<1> QED
  BY <1>1, <1>2

(* A Vector (helper.h:46-57) is a list to its users: whatever is pushed,   *)
(* allocated, inserted and removed (helper.c:134-199), and however often   *)
(* vectors move to larger blocks of a pool that others use too, each keeps *)
(* its own items in their order, and only its own operations change them.  *)
THEOREM VectorsAreLists == VectorSpec => ImplementsLists
<1>1. VectorInit => MemFresh /\ ListsOfVectors!Init
  <2> SUFFICES ASSUME VectorInit PROVE MemFresh /\ ListsOfVectors!Init
    OBVIOUS
  <2>1. vecs = <<>> /\ Live = {} /\ Running /\ size = 0
    BY DEF VectorInit, mempool_init, Running, Live
  <2>2. MemFresh
    BY <2>1 DEF VectorInit, MemFresh, Memory
  <2>3. [v \in Live |-> ListOf(vecs[v])] = <<>>
    BY <2>1
  <2> QED BY <2>1, <2>2, <2>3 DEF ListsOfVectors!Init
<1>2. VInv /\ MemFresh /\ [VectorNext]_all_vars => MemFresh' /\ Sim
  BY StepSim
<1> QED
  BY <1>1, <1>2, VectorInvariants, PTL
  DEF VectorSpec, ImplementsLists, ListsOfVectors!Spec, Sim
===========================================================================
