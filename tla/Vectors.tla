------------------------------ MODULE Vectors ------------------------------
(***************************************************************************)
(* The vectors of helper.c, several of which share one memory pool: a      *)
(* vector is a block of the pool, and when the block is full its items are *)
(* copied to a block of twice the size.  The old block is not given back.  *)
(* Memory is modelled byte by byte; reading or writing a byte that no      *)
(* mprotect made accessible ends the program.                              *)
(***************************************************************************)
EXTENDS MemPool, Sequences

CONSTANTS
  VEC_INIT_ALLOC,  \* the items a new vector has room for
  MaxVectors,      \* a bound on the vectors of the program
  ItemSizes,       \* the sizes of their items, in bytes
  InitSizes,       \* what vector_init_size is called with
  Items,           \* the items callers store
  Unset,           \* no item: what fresh memory holds
  Objects          \* the amounts the other users of the pool ask for

ASSUME VectorAssumption ==
  /\ VEC_INIT_ALLOC \in Nat \ {0}
  /\ ItemSizes \subseteq Nat \ {0}
  /\ InitSizes \subseteq Nat \ {0}
  /\ Unset \notin Items
  /\ Objects \subseteq Requests
  /\ \A it_sz \in ItemSizes :
       /\ it_sz * VEC_INIT_ALLOC \in Requests
       /\ \A n \in InitSizes : it_sz * n \in Requests
       /\ \A n \in 1 .. PoolMax : n * it_sz <= PoolMax => n * it_sz * 2 \in Requests

VARIABLES
  vecs,    \* the vectors initialised so far
  mem,     \* the byte at each offset from pool->base
  fault    \* the operation that touched inaccessible memory, "none" before

vector_vars == <<vecs, mem, fault>>
all_vars == <<vars, vector_vars>>

Live == DOMAIN vecs
Running == status = "ok" /\ fault = "none"

Bytes(lo, n) == lo .. lo + n - 1
Slot(vec, i) == vec.data + i * vec.it_sz
Used(vec) == vec.items * vec.it_sz

(* memmove, and the item-wise memcpy of a slot; part k of item x is <<x, k>>. *)
Moved(m, to, from, n) ==
  [o \in DOMAIN m |-> IF o \in Bytes(to, n) THEN m[from + (o - to)] ELSE m[o]]
Stored(m, at, x, n) ==
  [o \in DOMAIN m |-> IF o \in Bytes(at, n) THEN <<x, o - at>> ELSE m[o]]

(* Only the accessibility the operation leaves behind counts.              *)
Accessible(bytes) == \A o \in bytes : \E r \in rw' : r.lo <= o /\ o < r.hi

(* How an operation ends: in mempool_alloc, with the vectors and the       *)
(* memory it computed, or at the first access of a closed page.            *)
Finish(op, vs, m, touched) ==
  \/ status' # "ok" /\ UNCHANGED vector_vars
  \/ /\ status' = "ok" /\ Accessible(touched)
     /\ vecs' = vs
     /\ mem' = m
     /\ UNCHANGED fault
  \/ /\ status' = "ok" /\ ~Accessible(touched)
     /\ fault' = op
     /\ UNCHANGED <<vecs, mem>>

NewVector(it_sz, items, room) ==
  [it_sz |-> it_sz, items |-> items, alloc |-> room, data |-> size]

vector_init(it_sz) ==
  /\ mempool_alloc(it_sz * VEC_INIT_ALLOC)
  /\ Finish("init", Append(vecs, NewVector(it_sz, 0, VEC_INIT_ALLOC)), mem, {})

vector_init_size(it_sz, items) ==
  /\ mempool_alloc(it_sz * items)
  /\ Finish("init", Append(vecs, NewVector(it_sz, items, items)), mem, {})

(* Mutant: room is made one item too late.                                 *)
Full_late(vec) == vec.items > vec.alloc

Full(vec) == vec.items + 1 > vec.alloc

(* Mutants of vector_resize: the new block is as small as the old one; the *)
(* items are counted, not their bytes.                                     *)
resize_alloc_same(vec) ==
  IF Full(vec) THEN mempool_alloc(vec.alloc * vec.it_sz) ELSE UNCHANGED vars
ResizedMem_items(vec) ==
  IF Full(vec) THEN Moved(mem, size, vec.data, vec.items) ELSE mem

(* vector_resize, when there is no room: its call of the pool, the vector  *)
(* and the memory after it, and the bytes it touches.                      *)
resize_alloc(vec) ==
  IF Full(vec) THEN mempool_alloc(vec.alloc * vec.it_sz * 2) ELSE UNCHANGED vars
WithRoom(vec) ==
  IF Full(vec) THEN [vec EXCEPT !.data = size, !.alloc = 2 * @] ELSE vec
ResizedMem(vec) ==
  IF Full(vec) THEN Moved(mem, size, vec.data, Used(vec)) ELSE mem
ResizeTouches(vec) ==
  IF Full(vec) THEN Bytes(size, Used(vec)) \cup Bytes(vec.data, Used(vec)) ELSE {}

With(v, vec) == [vecs EXCEPT ![v] = vec]
OneMore(v) == With(v, [WithRoom(vecs[v]) EXCEPT !.items = @ + 1])

vector_push(v, x) ==
  LET vec == WithRoom(vecs[v])
      end == Slot(vec, vec.items)
  IN /\ resize_alloc(vecs[v])
     /\ Finish("push", OneMore(v), Stored(ResizedMem(vecs[v]), end, x, vec.it_sz),
               ResizeTouches(vecs[v]) \cup Bytes(end, vec.it_sz))

vector_alloc(v) ==
  /\ resize_alloc(vecs[v])
  /\ Finish("alloc", OneMore(v), ResizedMem(vecs[v]), ResizeTouches(vecs[v]))

(* memmove takes as many bytes as there are behind the slot. *)
Behind(vec, i) == (vec.items - i) * vec.it_sz

vector_insert(v, i, x) ==
  LET vec == WithRoom(vecs[v])
      shifted == Moved(ResizedMem(vecs[v]), Slot(vec, i + 1), Slot(vec, i), Behind(vec, i))
  IN /\ resize_alloc(vecs[v])
     /\ Finish("insert", OneMore(v), Stored(shifted, Slot(vec, i), x, vec.it_sz),
               ResizeTouches(vecs[v]) \cup Bytes(Slot(vec, i), Behind(vec, i) + vec.it_sz))

(* It moves one item more than there are behind the one removed. *)
vector_remove(v, i) ==
  LET vec == vecs[v]
  IN /\ UNCHANGED vars
     /\ Finish("remove", With(v, [vec EXCEPT !.items = @ - 1]),
               Moved(mem, Slot(vec, i), Slot(vec, i + 1), Behind(vec, i)),
               Bytes(Slot(vec, i), Behind(vec, i) + vec.it_sz))

(* vector_idx and the caller's use of its result: nothing for NULL, else   *)
(* an item is written where it points.                                     *)
vector_idx(v, i, x) ==
  LET vec == vecs[v]
  IN /\ i < vec.items
     /\ UNCHANGED vars
     /\ Finish("idx", vecs, Stored(mem, Slot(vec, i), x, vec.it_sz),
               Bytes(Slot(vec, i), vec.it_sz))

(* Another user of the pool takes a block (a node, a scope, a bucket).     *)
Allocate(amount) == mempool_alloc(amount) /\ UNCHANGED vector_vars

VectorInit ==
  /\ mempool_init
  /\ vecs = <<>>
  /\ mem = [o \in 0 .. PoolMax - 1 |-> <<Unset, 0>>]
  /\ fault = "none"

Initialise == Len(vecs) < MaxVectors /\ \E it_sz \in ItemSizes :
  vector_init(it_sz) \/ \E n \in InitSizes : vector_init_size(it_sz, n)

Edit == \E v \in Live :
  \/ vector_alloc(v)
  \/ \E x \in Items : vector_push(v, x)
  \/ \E i \in 0 .. vecs[v].items, x \in Items : vector_insert(v, i, x)
  \/ \E i \in 0 .. vecs[v].items - 1 : vector_remove(v, i)
  \/ \E i \in 0 .. vecs[v].items, x \in Items : vector_idx(v, i, x)

VectorNext ==
  /\ Running
  /\ Initialise \/ Edit \/ \E amount \in Objects : Allocate(amount)

VectorSpec == VectorInit /\ [][VectorNext]_all_vars

-----------------------------------------------------------------------------
(***************************************************************************)
(* Properties.                                                             *)
(***************************************************************************)

(* The room of a vector (helper.c:134-158) is a block the pool gave out to *)
(* it alone, and holds its items: no growth of one vector reaches into the *)
(* items of another or into an object of another user.                     *)
End(vec) == vec.data + vec.alloc * vec.it_sz
VectorsApart ==
  \A v \in Live :
    /\ vecs[v].items <= vecs[v].alloc
    /\ Range(vecs[v].data, End(vecs[v])) \in blocks
    /\ \A u \in Live \ {v} :
         End(vecs[v]) <= vecs[u].data \/ End(vecs[u]) <= vecs[v].data

(* As long as mprotect succeeds, no operation on vectors touches a closed  *)
(* page, except vector_remove (helper.c:168-172) on a full vector, which   *)
(* reads the item after the last.                                          *)
OnlyRemoveOverruns ==
  fault # "none" /\ lost = {} =>
    fault = "remove" /\ \E v \in Live : vecs[v].items = vecs[v].alloc

(* Read item by item from the pool, the vectors are sequences: whatever is *)
(* pushed, inserted and removed, and however often they move to a larger   *)
(* block while others grow (helper.c:134-199), each keeps its own items in *)
(* order.                                                                  *)
ItemAt(vec, i) ==
  LET found == {x \in Items : \A k \in 0 .. vec.it_sz - 1 : mem[Slot(vec, i) + k] = <<x, k>>}
  IN IF found = {} THEN Unset ELSE CHOOSE x \in found : TRUE
ListOf(vec) == [i \in 1 .. vec.items |-> ItemAt(vec, i - 1)]
ListsOfVectors ==
  INSTANCE Lists WITH Sizes <- InitSizes \cup {0}, over <- ~Running,
    lists <- [v \in Live |-> ListOf(vecs[v])]
ImplementsLists == ListsOfVectors!Spec
=============================================================================
