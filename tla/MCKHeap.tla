------------------------------ MODULE MCKHeap ------------------------------
(***************************************************************************)
(* An instance of KHeap for TLC, in units of 8 bytes: headers of 3, sizes   *)
(* rounded to 2, a heap with room for five small blocks.  The requests are  *)
(* 0, below, at and above the rounding, and one that never fits.            *)
(***************************************************************************)
EXTENDS KHeap

MCRequests == {0, 1, 2, 3, 6, 29}
=============================================================================
