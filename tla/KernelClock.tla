---------------------------- MODULE KernelClock ----------------------------
(***************************************************************************)
(* The global tick counter g_tick_count: the IRQ0 handler of kernel/pit.c  *)
(* increments it a hundred times a second, and so does the scheduler task  *)
(* "heartbeat" (kernel_heartbeat in kernel/kernel.c).  The counter is      *)
(* volatile, but the task's increment is a load, an addition and a store   *)
(* with interrupts enabled; the handler's runs with interrupts off.        *)
(***************************************************************************)
EXTENDS Integers

CONSTANTS TickMod,   \* g_tick_count is a uint32_t: it counts modulo 2^32
          MaxTicks   \* bound: timer interrupts, and heartbeats

ASSUME ClockConstants == TickMod \in Nat /\ TickMod > 1 /\ MaxTicks \in Nat

VARIABLES g_tick_count,
          pc,      \* "idle", or kernel_heartbeat has "loaded" the counter
          reg,     \* the value it loaded
          irqs,    \* history: timer interrupts
          beats,   \* history: completed heartbeats
          window,  \* history: interrupts since the heartbeat's load
          lost     \* history: interrupts a heartbeat's store has overwritten

clockVars == <<g_tick_count, pc, reg, irqs, beats, window, lost>>

ClockInit == /\ g_tick_count = 0
        /\ pc = "idle" /\ reg = 0
        /\ irqs = 0 /\ beats = 0 /\ window = 0 /\ lost = 0

\* pit_irq_handler()
IrqTwice == (g_tick_count + 2) % TickMod

IrqCount == (g_tick_count + 1) % TickMod

Irq0 ==
    /\ irqs < MaxTicks
    /\ g_tick_count' = IrqCount
    /\ irqs' = irqs + 1
    /\ window' = IF pc = "loaded" THEN window + 1 ELSE window
    /\ UNCHANGED <<pc, reg, beats, lost>>

HeartbeatLoadCached ==
    /\ pc = "idle"
    /\ beats < MaxTicks
    /\ pc' = "loaded"
    /\ window' = 0
    /\ UNCHANGED <<g_tick_count, reg, irqs, beats, lost>>

\* kernel_heartbeat(): g_tick_count++
HeartbeatLoad ==
    /\ pc = "idle"
    /\ beats < MaxTicks
    /\ reg' = g_tick_count
    /\ pc' = "loaded"
    /\ window' = 0
    /\ UNCHANGED <<g_tick_count, irqs, beats, lost>>

HeartbeatStore ==
    /\ pc = "loaded"
    /\ g_tick_count' = (reg + 1) % TickMod
    /\ beats' = beats + 1
    /\ lost' = lost + window
    /\ pc' = "idle"
    /\ UNCHANGED <<reg, irqs, window>>

ClockNext == Irq0 \/ HeartbeatLoad \/ HeartbeatStore

ClockSpec == ClockInit /\ [][ClockNext]_clockVars

-----------------------------------------------------------------------------
\* What the counter misses, to the tick: exactly the timer interrupts that hit
\* between kernel_heartbeat's load and its store, all of them and not just one,
\* so two in one window set the clock back; no other interrupt is lost.  What
\* pit.h promises instead is TicksFollowTimer.
LostOnlyInHeartbeat == g_tick_count = (irqs + beats - lost) % TickMod

\* pit.h: "The IRQ0 handler increments g_tick_count so that tick timing is
\* consistent and independent of the scheduler loop speed": the count is the
\* number of timer interrupts.  The heartbeat, a task of that loop, counts too.
TicksFollowTimer == g_tick_count = irqs % TickMod
=============================================================================
