------------------------------ MODULE MemPool ------------------------------
(***************************************************************************)
(* The memory pool of helper.c: one large PROT_NONE mapping of which a     *)
(* growing prefix is made accessible chunk by chunk, and a bump pointer.   *)
(* Every AST node, scope, vector and diagnostic lives in such a pool.      *)
(***************************************************************************)
EXTENDS Naturals

CONSTANTS
  ChunkSz,       \* POOL_CHUNK_SZ, the granularity of mprotect
  PoolMax,       \* POOL_MAX_SZ, the size of the mapping
  Requests       \* the amounts the callers of mempool_alloc pass

ASSUME PoolAssumption ==
  /\ ChunkSz \in Nat /\ ChunkSz >= 2
  /\ PoolMax \in Nat /\ PoolMax >= ChunkSz
  /\ Requests \subseteq Nat

VARIABLES
  size,     \* pool->size: bytes handed out, the offset of the next block
  alloc,    \* pool->alloc: bytes the pool believes accessible
  rw,       \* the ranges [lo, hi) mprotect made readable and writable
  lost,     \* the ranges for which it failed and nobody looked
  status,   \* "ok", or "internal_err" after "out of memory in mmap pool"
  blocks,   \* the blocks returned to callers, as [lo, hi)
  rejected  \* the amount of the request that ended the program, 0 if none

vars == <<size, alloc, rw, lost, status, blocks, rejected>>

Range(lo, hi) == [lo |-> lo, hi |-> hi]

(* Mutants of size_needed: no rounding; a chunk for every byte.            *)
size_needed_exact(requested) == requested
size_needed_bytewise(requested) == ChunkSz * (requested + 1)

(* The least multiple of the chunk size that is at least requested. *)
size_needed(requested) == ChunkSz * ((requested + ChunkSz - 1) \div ChunkSz)

(* When it cannot get the mapping or open the first chunk, the process ends *)
(* there (helper.c:89-94): an end of the command line, in Args.            *)
mempool_init ==
  /\ size = 0
  /\ alloc = ChunkSz
  /\ rw = {Range(0, ChunkSz)}
  /\ lost = {}
  /\ status = "ok"
  /\ blocks = {}
  /\ rejected = 0

(* Mutant: the test without its spare byte, against the end of the chunk.  *)
must_grow_late(amount) == size + amount > alloc

must_grow(amount) == size + amount + 1 >= alloc

(* Mutant: one chunk is opened, however many are needed.                   *)
Mprotect_one(lo, n) ==
  \/ rw' = rw \cup {Range(lo, lo + ChunkSz)} /\ UNCHANGED lost
  \/ lost' = lost \cup {Range(lo, lo + ChunkSz)} /\ UNCHANGED rw

(* mprotect(base + lo, n, PROT_READ | PROT_WRITE), its result not looked at. *)
Mprotect(lo, n) ==
  \/ rw' = rw \cup {Range(lo, lo + n)} /\ UNCHANGED lost
  \/ lost' = lost \cup {Range(lo, lo + n)} /\ UNCHANGED rw

(* Mutants of HandOut: the bump is forgotten; it goes backwards.           *)
HandOut_again(amount) ==
  /\ blocks' = blocks \cup {Range(size, size + amount)}
  /\ UNCHANGED <<size, status, rejected>>
HandOut_down(amount) ==
  /\ blocks' = blocks \cup {Range(size, size + amount)}
  /\ size' = size - amount
  /\ UNCHANGED <<status, rejected>>

(* The bump at the end of mempool_alloc. *)
HandOut(amount) ==
  /\ blocks' = blocks \cup {Range(size, size + amount)}
  /\ size' = size + amount
  /\ UNCHANGED <<status, rejected>>

AllocFromChunk(amount) ==
  /\ ~must_grow(amount)
  /\ HandOut(amount)
  /\ UNCHANGED <<alloc, rw, lost>>

AllocGrowing(amount) ==
  /\ must_grow(amount)
  /\ alloc + size_needed(amount) <= PoolMax
  /\ Mprotect(alloc, size_needed(amount))
  /\ alloc' = alloc + size_needed(amount)
  /\ HandOut(amount)

AllocFails(amount) ==
  /\ must_grow(amount)
  /\ alloc + size_needed(amount) > PoolMax
  /\ status' = "internal_err"
  /\ rejected' = amount
  /\ UNCHANGED <<size, alloc, rw, lost, blocks>>

mempool_alloc(amount) ==
  /\ status = "ok"
  /\ AllocFromChunk(amount) \/ AllocGrowing(amount) \/ AllocFails(amount)

Next == \E amount \in Requests : mempool_alloc(amount)

Spec == mempool_init /\ [][Next]_vars

-----------------------------------------------------------------------------
(***************************************************************************)
(* Properties.                                                             *)
(***************************************************************************)

Ranges == [lo : Nat, hi : Nat]

(* The pool's fields and the history of its calls have the right shape. *)
TypeOK ==
  /\ size \in Nat /\ alloc \in Nat /\ rejected \in Nat
  /\ rw \subseteq Ranges /\ lost \subseteq Ranges /\ blocks \subseteq Ranges
  /\ status \in {"ok", "internal_err"}

(* What mempool_alloc gives out (helper.c:126) stays below the end of the  *)
(* chunks it has opened, by at least the spare byte its test keeps, and    *)
(* those stay inside the mapping.                                          *)
WithinPool ==
  /\ size + 1 < alloc
  /\ alloc <= PoolMax
  /\ \A b \in blocks : b.lo <= b.hi /\ b.hi <= size

(* mprotect wants a page-aligned address, and mempool_alloc (helper.c:123) *)
(* would not notice its refusal: the end of the open chunks must stay a    *)
(* whole number of chunks.                                                 *)
ChunkAligned == \E n \in 0 .. alloc : alloc = n * ChunkSz

(* Every byte of every block was made readable and writable, unless the    *)
(* mprotect of its own range failed (helper.c:116-129): the ranges opened  *)
(* by successive growths leave no gap below pool->alloc.                   *)
Opened(o) == \E r \in rw \cup lost : r.lo <= o /\ o < r.hi
BlocksAccessible == \A b \in blocks : \A o \in b.lo .. b.hi - 1 : Opened(o)

(* The pool gives up (helper.c:120-122) only when it is nearly full: it    *)
(* asks for a whole new run of chunks although part of the last one is     *)
(* free, and what that wastes is bounded by the request and one chunk.     *)
RefusalJustified ==
  status = "internal_err" => size + 2 * rejected + ChunkSz > PoolMax

(* The pool implements the arena its users see (helper.h:36-44): fresh,    *)
(* disjoint blocks that stay where they are.                               *)
ArenaOfPool ==
  INSTANCE Arena WITH Capacity <- PoolMax, refused <- (status = "internal_err")
ImplementsArena == ArenaOfPool!Spec
=============================================================================
