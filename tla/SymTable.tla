----------------------------- MODULE SymTable -----------------------------
(***************************************************************************)
(* The symbol table of symtable.c: scopes that are chained hash tables and *)
(* point to the scope around them.  Pointers to a Scope or a ScopeEntry    *)
(* are positions in scopes and entries, which only grow, and NULL is 0.    *)
(***************************************************************************)
EXTENDS Identifiers, Naturals, SequencesExt

CONSTANTS
  INIT_BUCKETS, \* buckets of a scope; no scope is ever resized
  hash_str      \* the hashes of the names: the sum of the bytes, byte_sum, in the code

ASSUME SymTableAssumption ==
  /\ INIT_BUCKETS \in Nat \ {0}
  /\ Names \subseteq Seq(Nat)
  /\ hash_str \in [Names -> Nat]

VARIABLES
  scopes,       \* every Scope made, with the chain of entries of each bucket
  entries       \* every ScopeEntry made: the name (pos) and its VarInfo

(* up is the list its pointer leads to: the scope around it, and so on.    *)
Scope(up) == [up |-> up, buckets |-> [b \in 0 .. INIT_BUCKETS - 1 |-> << >>]]

(* make_var_info: no register and no SSA function yet (<< >> is NULL).     *)
ScopeEntry(pos, type) == [pos |-> pos, type |-> type, id |-> 0, fn |-> << >>]

byte_sum(pos) == FoldLeft(LAMBDA total, c : total + c, 0, pos)
bucket_of(pos) == hash_str[pos] % INIT_BUCKETS

MIN(a, b) == IF a > b THEN b ELSE a

(* memcmp over the shorter of the two names.                               *)
same_name(a, b) == \A i \in 1 .. MIN(Len(a), Len(b)) : a[i] = b[i]

(* Of a program's names: memcmp takes no two of a bucket for the same.      *)
NamesApart ==
  \A a, b \in Names : bucket_of(a) = bucket_of(b) /\ same_name(a, b) => a = b

(* The first entry of a bucket's chain that memcmp takes for pos.          *)
find_in(scope, pos) ==
  LET chain == scopes[scope].buckets[bucket_of(pos)]
      hit(k) == same_name(pos, entries[chain[k]].pos)
  IN  IF \E k \in 1 .. Len(chain) : hit(k)
      THEN chain[CHOOSE k \in 1 .. Len(chain) : hit(k) /\ \A j \in 1 .. k - 1 : ~hit(j)]
      ELSE NULL

(* Mutant: only the given scope is searched.                               *)
scope_find_here(scope, pos) == find_in(scope, pos)

(* scope_find: the loop outwards, until a hit or past the last scope.      *)
scope_find(scope, pos) ==
  LET path == <<scope>> \o scopes[scope].up
      hits == {k \in 1 .. Len(path) : find_in(path[k], pos) # NULL}
  IN  IF hits = {} THEN NULL
      ELSE find_in(path[CHOOSE k \in hits : \A j \in hits : k <= j], pos)

(* What scope_insert returns: NULL when it finds the name in the scope.    *)
scope_insert_result(scope, pos) ==
  IF find_in(scope, pos) # NULL THEN NULL ELSE Len(entries) + 1

(* Mutant: the bucket is taken modulo one less.                            *)
scope_insert_misplaced(scope, pos, type) ==
  \/ find_in(scope, pos) # NULL /\ UNCHANGED <<scopes, entries>>
  \/ /\ find_in(scope, pos) = NULL
     /\ entries' = Append(entries, ScopeEntry(pos, type))
     /\ scopes' = [scopes EXCEPT ![scope].buckets[hash_str[pos] % (INIT_BUCKETS - 1)] =
                     <<Len(entries) + 1>> \o @]

scope_insert(scope, pos, type) ==
  \/ /\ find_in(scope, pos) # NULL
     /\ UNCHANGED <<scopes, entries>>
  \/ /\ find_in(scope, pos) = NULL
     /\ entries' = Append(entries, ScopeEntry(pos, type))
     /\ scopes' = [scopes EXCEPT ![scope].buckets[bucket_of(pos)] =
                     <<Len(entries) + 1>> \o @]

scope_init(up) ==
  /\ scopes' = Append(scopes, Scope(<<up>> \o scopes[up].up))
  /\ UNCHANGED entries
===========================================================================
