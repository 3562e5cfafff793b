-------------------------- MODULE SymTableScopes --------------------------
(***************************************************************************)
(* The operations of symtable.h in any order the compiler could call them: *)
(* new scopes in old ones, insertions and lookups in any scope.  call is   *)
(* the last call and what it returned.  The abstract specification they    *)
(* implement is that of lexical scopes, in which names are equal or not.   *)
(***************************************************************************)
EXTENDS SymTable, FiniteSets

CONSTANTS MaxScopes, MaxEntries  \* bounds on what is made

VARIABLE call

tableVars == <<scopes, entries, call>>

TableInit == scopes = <<Scope(<< >>)>> /\ entries = << >> /\ call = << >>

NewScope(up) ==
  /\ Len(scopes) < MaxScopes
  /\ scope_init(up)
  /\ call' = <<"init", up, Len(scopes) + 1>>

Insert(scope, pos) ==
  /\ Len(entries) < MaxEntries
  /\ scope_insert(scope, pos, [t |-> "null"])
  /\ call' = <<"insert", scope, pos, scope_insert_result(scope, pos)>>

Find(scope, pos) ==
  /\ call' = <<"find", scope, pos, scope_find(scope, pos)>>
  /\ UNCHANGED <<scopes, entries>>

TableNext ==
  \E scope \in 1 .. Len(scopes) :
    \/ NewScope(scope)
    \/ \E pos \in Names : Insert(scope, pos) \/ Find(scope, pos)

TableSpec == TableInit /\ [][TableNext]_tableVars

-----------------------------------------------------------------------------
(* The names declared in a scope, each with its one entry.                 *)
InScope(scope) == UNION {Range(scopes[scope].buckets[b]) : b \in 0 .. INIT_BUCKETS - 1}
Declared(scope) ==
  [name \in {entries[e].pos : e \in InScope(scope)} |->
     CHOOSE e \in InScope(scope) : entries[e].pos = name]

Table == [scope \in 1 .. Len(scopes) |-> [up |-> scopes[scope].up, names |-> Declared(scope)]]

(* symtable.h: an insertion returns NULL if the name is already found, and *)
(* a lookup returns NULL when there is no entry: whatever the buckets and  *)
(* chains, a scope maps each name declared in it to the entry made for it, *)
(* and a lookup gives that of the innermost scope that declares the name.  *)
LS == INSTANCE LexicalScopes WITH scopes <- Table, made <- Len(entries)
ImplementsScopes == LS!Spec

(* symtable.h:34: scope_insert "returns NULL if already found": a refused  *)
(* name is one that the scope declares.                                    *)
RefusedIfFound ==
  [][\A scope \in 1 .. Len(scopes) : \A pos \in Names :
       call' = <<"insert", scope, pos, NULL>> => pos \in DOMAIN Declared(scope)]_tableVars

(* Every entry hangs in one chain of one scope only, the one its name is   *)
(* hashed to, newest first, so that a loop over a chain meets each of them *)
(* and ends.                                                               *)
ChainsSound ==
  /\ \A scope \in 1 .. Len(scopes), b \in 0 .. INIT_BUCKETS - 1 :
       LET chain == scopes[scope].buckets[b] IN
       /\ \A k \in 1 .. Len(chain) : /\ chain[k] \in 1 .. Len(entries)
                                     /\ bucket_of(entries[chain[k]].pos) = b
       /\ \A j, k \in 1 .. Len(chain) : j < k => chain[j] > chain[k]
  /\ \A e \in 1 .. Len(entries) :
       Cardinality({scope \in 1 .. Len(scopes) : e \in InScope(scope)}) = 1
===========================================================================
