---------------------------- MODULE Identifiers ----------------------------
(***************************************************************************)
(* What all modules about the compiled program share: its names, which are *)
(* slices of the source, and the pointer that leads nowhere.               *)
(***************************************************************************)
EXTENDS Naturals

CONSTANT Names  \* the names a program uses: sequences of bytes, as memcmp sees them

NULL == 0  \* the pointer; every pointer to an object is its position, from 1
===========================================================================
