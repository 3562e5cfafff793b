------------------------------- MODULE Arena -------------------------------
(***************************************************************************)
(* What the users of a MemPool (helper.h) rely on: an allocation is a      *)
(* block of the requested length that no earlier block overlaps, inside    *)
(* the reserved region, and blocks are never taken back or moved.  The     *)
(* allocator may refuse, after which the program is over.                  *)
(***************************************************************************)
EXTENDS Naturals

CONSTANTS
  Capacity,  \* bytes reserved for the arena
  Requests   \* the amounts its users ask for

VARIABLES
  blocks,    \* the blocks handed out, as records [lo, hi): first byte, one past the last
  refused    \* TRUE once a request could not be served

vars == <<blocks, refused>>

Disjoint(a, b) == a.hi <= b.lo \/ b.hi <= a.lo

Init == blocks = {} /\ refused = FALSE

Grant(amount) ==
  \E lo \in 0 .. Capacity :
    LET block == [lo |-> lo, hi |-> lo + amount] IN
    /\ block.hi <= Capacity
    /\ \A b \in blocks : Disjoint(b, block)
    /\ blocks' = blocks \cup {block}
    /\ UNCHANGED refused

Refuse == refused' = TRUE /\ UNCHANGED blocks

Next == ~refused /\ (Refuse \/ \E amount \in Requests : Grant(amount))

Spec == Init /\ [][Next]_vars
=============================================================================
