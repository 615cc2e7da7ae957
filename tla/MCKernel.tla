------------------------------ MODULE MCKernel ------------------------------
(***************************************************************************)
(* Interrupts and KernelLoop for TLC.  They share no variable, so each of  *)
(* them moves while the other is as it was at boot: together they could do *)
(* nothing else.                                                           *)
(*                                                                         *)
(* Interrupts: besides the timer and the keyboard a device on a line of    *)
(* the slave controller, whose driver may open and close its line and the  *)
(* cascade.  The kernel loop has its real tasks and periods: a queue of    *)
(* four is the least that suffices, and the counter wraps at a number that *)
(* is no multiple of the periods.                                          *)
(***************************************************************************)
EXTENDS Interrupts, KernelLoop

mcVars == <<vars, kernelVars>>

\* Whose turn it is.
InterruptsTurn == KernelInit /\ UNCHANGED kernelVars
LoopsTurn      == Init /\ high = {} /\ UNCHANGED vars

MCInit == Init /\ KernelInit

MCNext == \/ InterruptsTurn /\ Next
          \/ LoopsTurn /\ KernelNext

\* The fairness of FairSpec and KernelFairSpec, each for the turns of its own.
MCSpec ==
    /\ MCInit /\ [][MCNext]_mcVars
    /\ \A l \in Devices : WF_mcVars(Accept(l) /\ InterruptsTurn)
    /\ WF_mcVars(CallHandler /\ InterruptsTurn) /\ WF_mcVars(Return /\ InterruptsTurn)
    /\ SF_mcVars(IdtInit /\ InterruptsTurn) /\ SF_mcVars(DriverInit /\ InterruptsTurn)
    /\ SF_mcVars(KeyboardPoll /\ InterruptsTurn)
    /\ WF_mcVars(Boot /\ LoopsTurn) /\ WF_mcVars(TickStep /\ LoopsTurn)
    /\ WF_mcVars(TaskStep /\ LoopsTurn)
=============================================================================
