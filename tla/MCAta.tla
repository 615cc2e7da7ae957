------------------------------- MODULE MCAta -------------------------------
(***************************************************************************)
(* An instance of Ata for TLC: two sectors, two versions, so that the data *)
(* of one can be told from the other's and new data from old.              *)
(***************************************************************************)
EXTENDS Ata
=============================================================================
