------------------------------- MODULE Lists -------------------------------
(***************************************************************************)
(* What the users of a Vector (helper.h:46-57) rely on: each vector is a   *)
(* sequence of items of its own, which only its own operations change.     *)
(***************************************************************************)
EXTENDS Naturals, Sequences, SequencesExt

CONSTANTS
  Items,     \* what the vectors hold
  Unset,     \* what a slot reads as that holds no item
  Sizes      \* the lengths a vector may be created with

VARIABLES
  lists,     \* the contents of each vector created so far
  over       \* TRUE once the program has ended

vars == <<lists, over>>

Init == lists = <<>> /\ over = FALSE

Create == \E n \in Sizes : lists' = Append(lists, [i \in 1 .. n |-> Unset])

Become(l, s) == lists' = [lists EXCEPT ![l] = s]

Edit(l) ==
  \/ \E x \in Items \cup {Unset} : Become(l, Append(lists[l], x))
  \/ \E i \in 1 .. Len(lists[l]) + 1, x \in Items : Become(l, InsertAt(lists[l], i, x))
  \/ \E i \in DOMAIN lists[l] : Become(l, RemoveAt(lists[l], i))
  \/ \E i \in DOMAIN lists[l], x \in Items : Become(l, [lists[l] EXCEPT ![i] = x])

End == over' = TRUE /\ UNCHANGED lists

Next == ~over /\ (End \/ (UNCHANGED over /\ (Create \/ \E l \in DOMAIN lists : Edit(l))))

Spec == Init /\ [][Next]_vars
=============================================================================
