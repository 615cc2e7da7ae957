---------------------------- MODULE MCScheduler ----------------------------
(***************************************************************************)
(* Instances of Scheduler for TLC.  The name "long" does not fit: the      *)
(* table keeps "lon" of it.                                                *)
(***************************************************************************)
EXTENDS Scheduler

MCTrunc == [n \in Names |-> IF n = "long" THEN "lon" ELSE n]
=============================================================================
