------------------------------- MODULE MCHeap -------------------------------
(***************************************************************************)
(* An instance of Heap and Paging for TLC, in units of four bytes: a       *)
(* header is 5 units, the alignment and the least remainder of a split are *)
(* 2.  The heap has five pages of eight units, so blocks begin and end     *)
(* within pages as well as at their borders.                               *)
(***************************************************************************)
EXTENDS Paging
=============================================================================
