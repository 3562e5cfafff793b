--------------------------- MODULE LexicalScopes ---------------------------
(***************************************************************************)
(* Lexical scopes: a tree of environments, each a map from names to the    *)
(* entries declared in it.  Entries are numbered as they are made and 0    *)
(* means none.                                                             *)
(***************************************************************************)
EXTENDS Naturals, Sequences

CONSTANT Names

VARIABLES
  scopes,  \* per scope: up, the scopes around it, innermost first; names, its map
  made,    \* how many entries were made
  call     \* the last operation and what it returned

vars == <<scopes, made, call>>

Environment(up) == [up |-> up, names |-> << >>]

Init == scopes = <<Environment(<< >>)>> /\ made = 0 /\ call = << >>

Enter(outer) ==
  /\ scopes' = Append(scopes, Environment(<<outer>> \o scopes[outer].up))
  /\ call' = <<"init", outer, Len(scopes) + 1>>
  /\ UNCHANGED made

Declare(scope, name) ==
  IF name \in DOMAIN scopes[scope].names
  THEN call' = <<"insert", scope, name, 0>> /\ UNCHANGED <<scopes, made>>
  ELSE /\ made' = made + 1
       /\ call' = <<"insert", scope, name, made + 1>>
       /\ scopes' = [scopes EXCEPT ![scope].names =
                       [n \in {name} \cup DOMAIN @ |-> IF n = name THEN made + 1 ELSE @[n]]]

(* The innermost declaration of the name, if there is one.                 *)
Lookup(scope, name) ==
  /\ LET path == <<scope>> \o scopes[scope].up
         Declares(k) == name \in DOMAIN scopes[path[k]].names
     IN  \/ /\ \A k \in 1 .. Len(path) : ~Declares(k)
            /\ call' = <<"find", scope, name, 0>>
         \/ \E k \in 1 .. Len(path) :
              /\ Declares(k) /\ \A j \in 1 .. k - 1 : ~Declares(j)
              /\ call' = <<"find", scope, name, scopes[path[k]].names[name]>>
  /\ UNCHANGED <<scopes, made>>

Next ==
  \E scope \in 1 .. Len(scopes) :
    \/ Enter(scope)
    \/ \E name \in Names : Declare(scope, name) \/ Lookup(scope, name)

Spec == Init /\ [][Next]_vars
=============================================================================
