---------------------------- MODULE MCMemPool ----------------------------
(***************************************************************************)
(* A pool of a few four-byte chunks, which two vectors of three-byte items *)
(* share with other users.                                                 *)
(***************************************************************************)
EXTENDS Vectors

MCRequests ==
  Objects \cup {n * it_sz : n \in {1, 2, 4, 6, 8, 10, 12, 14, 16}, it_sz \in ItemSizes}
==========================================================================
