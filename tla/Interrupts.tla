----------------------------- MODULE Interrupts -----------------------------
(***************************************************************************)
(* kernel/idt.c with the drivers that use it, pit_init and keyboard_init:  *)
(* from the state the BIOS leaves behind, through kernel_main's order of   *)
(* initialisation, to the main loop.  An interrupt may come between any    *)
(* two steps of the main thread once idt_init has executed sti.            *)
(*                                                                         *)
(* The two 8259 controllers are external.  A rising line is latched in     *)
(* irr, masked or not, until ICW1 resets the edge detector.  A line that   *)
(* has fallen again before the CPU answers is delivered all the same, is   *)
(* forgotten, or becomes the controller's spurious line 7 or 15.  The      *)
(* keyboard's line is high as long as its output buffer is full; the       *)
(* timer's, a square wave, rises and falls by itself, and another device   *)
(* may withdraw its request or hold it until its handler has served it.    *)
(***************************************************************************)
EXTENDS Integers, Sequences, FiniteSetsExt

CONSTANTS Devices,   \* the lines a device is wired to: timer, keyboard, others
          ApiLines   \* the lines a later driver registers, masks and unmasks

Lines    == 0 .. 15
Master   == 0 .. 7
Slave    == 8 .. 15
Timer    == 0          \* IRQ_TIMER
Keyboard == 1          \* IRQ_KEYBOARD
Cascade  == 2

ASSUME LineSets == /\ {Timer, Keyboard} \subseteq Devices
                   /\ Devices \subseteq Lines \ {Cascade} /\ ApiLines \subseteq Lines

VARIABLES irq_handlers,    \* the lines that have a handler
          imr, irr, isr,   \* the mask, request and in-service registers
          high,            \* the lines that are high
          ifl,             \* the CPU's interrupt flag
          serving,         \* the calls of irq_dispatch under way, innermost first
          main_pc          \* where kernel_main stands; "loop" is scheduler_tick

picVars == <<imr, irr, isr>>
vars    == <<irq_handlers, picVars, high, ifl, serving, main_pc>>

\* What the bootloader leaves: interrupts off, the BIOS's masks, and whatever
\* the devices have asked for meanwhile.
Init ==
    /\ irq_handlers = {}
    /\ imr = {} /\ isr = {}
    /\ high \in SUBSET Devices /\ irr = high
    /\ ifl = FALSE
    /\ serving = <<>>
    /\ main_pc = "idt_init"

-----------------------------------------------------------------------------
\* External: the devices and the controllers.

Raise(l) ==
    /\ l \in Devices \ high
    /\ high' = high \cup {l}
    /\ irr' = irr \cup {l}
    /\ UNCHANGED <<irq_handlers, imr, isr, ifl, serving, main_pc>>

Falls(l) ==
    /\ l \in high \ {Keyboard}
    /\ high' = high \ {l}
    /\ UNCHANGED <<irq_handlers, picVars, ifl, serving, main_pc>>

\* A request whose line has fallen is forgotten.
Forgotten(l) ==
    /\ l \in irr \ high
    /\ irr' = irr \ {l}
    /\ UNCHANGED <<irq_handlers, imr, isr, high, ifl, serving, main_pc>>

\* Fixed priorities: the slave's lines stand in the place of the cascade.
Prio(l) == IF l \in Slave THEN 16 * Cascade + l ELSE 16 * l

Open(l) == l \notin imr /\ (l \in Slave => Cascade \notin imr)

Deliverable(l) == /\ l \in irr /\ Open(l)
                  /\ \A k \in isr : Prio(l) < Prio(k)

\* No request of a higher line is waiting.
Foremost(l) == \A k \in Lines : Deliverable(k) => Prio(l) <= Prio(k)

Highest(S) == CHOOSE l \in S : \A k \in S : Prio(l) <= Prio(k)

\* What an acknowledged line puts in service: a slave's line also the cascade.
Marks(call) == (IF call.real THEN {call.irq} ELSE {})
                   \cup (IF call.irq \in Slave THEN {Cascade} ELSE {})

GateTrap == TRUE

\* GATE_INT32: the CPU enters the handler with interrupts off.
GateIf == FALSE

\* External: the CPU accepts the controller's interrupt.
Accept(l) ==
    /\ ifl
    /\ Deliverable(l) /\ Foremost(l)
    /\ irr' = irr \ {l}
    /\ \E call \in {[irq |-> l, real |-> TRUE, stage |-> "entry"]} \cup
                   (IF l \in high THEN {}
                    ELSE {[irq |-> IF l \in Slave THEN 15 ELSE 7, real |-> FALSE,
                           stage |-> "entry"]}) :
          /\ isr' = isr \cup Marks(call)
          /\ serving' = <<call>> \o serving
    /\ ifl' = GateIf
    /\ UNCHANGED <<irq_handlers, imr, high, main_pc>>

-----------------------------------------------------------------------------
\* irq_dispatch()

InHandler == serving # <<>>

\* What a handler does to its line: keyboard_poll reads the buffer empty,
\* pit_irq_handler only counts.
Served(l) == IF l = Timer THEN high ELSE high \ {l}

\* The handler, if there is one.
CallHandler ==
    /\ InHandler /\ Head(serving).stage = "entry" /\ main_pc # "halted"
    /\ high' = IF Head(serving).irq \in irq_handlers THEN Served(Head(serving).irq) ELSE high
    /\ serving' = [serving EXCEPT ![1].stage = "eoi"]
    /\ UNCHANGED <<irq_handlers, picVars, ifl, main_pc>>

\* irq_send_eoi(): a non-specific EOI ends the service of the highest line in
\* service of a controller, if any; a slave's line takes one of each.
Eoi(irq) ==
    {Highest(isr \cap Master) : l \in isr \cap Master} \cup
    (IF irq \in Slave THEN {Highest(isr \cap Slave) : l \in isr \cap Slave} ELSE {})

\* irq_send_eoi() and the return from the interrupt, which turns interrupts
\* on again as they were when it was accepted.
Return ==
    /\ InHandler /\ Head(serving).stage = "eoi" /\ main_pc # "halted"
    /\ isr' = isr \ Eoi(Head(serving).irq)
    /\ serving' = Tail(serving)
    /\ ifl' = TRUE
    /\ UNCHANGED <<irq_handlers, imr, irr, high, main_pc>>

-----------------------------------------------------------------------------
\* The main thread, between interrupts.

Main(from, to) == /\ main_pc = from /\ ~InHandler
                  /\ main_pc' = to

NoSti == ifl

\* sti
Sti == TRUE

\* "Mask all IRQs initially"
MaskedAtFirst == Lines

\* idt_init(): no handlers, the controllers initialised and all masked, and
\* interrupts on.  Nothing is delivered before the sti at its end.
IdtInit ==
    /\ Main("idt_init", "pit_init")
    /\ irq_handlers' = {}
    /\ irr' = {} /\ isr' = {}
    /\ imr' = MaskedAtFirst
    /\ ifl' = Sti
    /\ UNCHANGED <<high, serving>>

Register(l) == /\ irq_handlers' = irq_handlers \cup {l}
               /\ UNCHANGED <<picVars, high, ifl, serving>>

Unmask(l) == /\ imr' = imr \ {l}
             /\ UNCHANGED <<irq_handlers, irr, isr, high, ifl, serving>>

Mask(l) == /\ imr' = imr \cup {l}
           /\ UNCHANGED <<irq_handlers, irr, isr, high, ifl, serving>>

DriverInitUnmasksFirst ==
    \/ Main("pit_init", "pit_unmask") /\ Unmask(Timer)
    \/ Main("pit_unmask", "keyboard_init") /\ Register(Timer)
    \/ Main("keyboard_init", "keyboard_unmask") /\ Unmask(Keyboard)
    \/ Main("keyboard_unmask", "loop") /\ Register(Keyboard)

\* pit_init() and keyboard_init(): the handler first, then the line.
DriverInit ==
    \/ Main("pit_init", "pit_unmask") /\ Register(Timer)
    \/ Main("pit_unmask", "keyboard_init") /\ Unmask(Timer)
    \/ Main("keyboard_init", "keyboard_unmask") /\ Register(Keyboard)
    \/ Main("keyboard_unmask", "loop") /\ Unmask(Keyboard)

PollNothing == Main("loop", "loop") /\ UNCHANGED <<irq_handlers, picVars, high, ifl, serving>>

\* The task "keyboard_poll", "a fallback polling task in case the IRQ1 handler
\* misses a scancode".
KeyboardPoll ==
    /\ Main("loop", "loop")
    /\ high' = high \ {Keyboard}
    /\ UNCHANGED <<irq_handlers, picVars, ifl, serving>>

\* A driver of another line, which uses the API as the two above do; the
\* cascade has no handler.
OtherDriver(l) ==
    /\ Main("loop", "loop")
    /\ \/ l # Cascade /\ Register(l)
       \/ (l = Cascade \/ l \in irq_handlers) /\ Unmask(l)
       \/ Mask(l)

\* isr_dispatch(), and kernel_shutdown() and kernel_panic(): cli; hlt.
Halt ==
    /\ main_pc \notin {"idt_init", "halted"}
    /\ main_pc' = "halted"
    /\ ifl' = FALSE
    /\ UNCHANGED <<irq_handlers, picVars, high, serving>>

Device == \E l \in Devices : Raise(l) \/ Falls(l) \/ Forgotten(l)

Next == \/ Device
        \/ \E l \in Lines : Accept(l)
        \/ CallHandler \/ Return
        \/ IdtInit \/ DriverInit \/ KeyboardPoll
        \/ \E l \in ApiLines : OtherDriver(l)
        \/ Halt

Spec == Init /\ [][Next]_vars

\* The CPU accepts what the controller delivers and executes a dispatch to its
\* end, which is far shorter than the time between two interrupts: the main
\* thread gets its turns too.
FairSpec == /\ Spec
            /\ \A l \in Devices : WF_vars(Accept(l))
            /\ WF_vars(CallHandler) /\ WF_vars(Return)
            /\ SF_vars(IdtInit) /\ SF_vars(DriverInit) /\ SF_vars(KeyboardPoll)

-----------------------------------------------------------------------------
\* Every variable stays in its range.
TypeOK ==
    /\ irq_handlers \subseteq Lines
    /\ imr \subseteq Lines /\ irr \subseteq Devices /\ isr \subseteq Lines
    /\ high \subseteq Devices
    /\ ifl \in BOOLEAN
    /\ serving \in Seq([irq : Lines, real : BOOLEAN, stage : {"entry", "eoi"}])
    /\ main_pc \in {"idt_init", "pit_init", "pit_unmask", "keyboard_init", "keyboard_unmask",
               "loop", "halted"}

\* Once interrupts are on, none of a device's interrupts is thrown away: when
\* it is dispatched its line has a handler.  (An interrupt without one is
\* acknowledged, and a device that waits to be served never raises its line
\* again.)  The order register, unmask and idt_init's masking are all needed.
NoInterruptWithoutHandler ==
    \A k \in DOMAIN serving : serving[k].real => serving[k].irq \in irq_handlers

\* irq_send_eoi never ends the service of another line than the one being
\* handled, though its EOIs name no line and are sent for spurious interrupts
\* too; and when no handler runs, nothing is left in service, which would
\* block all lower lines for ever.
InServiceIsServed == isr = UNION {Marks(serving[k]) : k \in DOMAIN serving}

\* The controllers and the dispatcher agree in every state, nested interrupts
\* included.
ServiceInv == TypeOK /\ InServiceIsServed

\* A request whose line stays unmasked and is not kept waiting by higher ones
\* is delivered, or forgotten by the controller because its line fell.  For a
\* line of the slave the cascade has to be unmasked too, which irq_unmask does
\* not see to.
RequestIsDelivered ==
    \A l \in Devices : (l \in irr /\ [](Open(l) /\ Foremost(l) /\ main_pc # "halted")) ~> l \notin irr

\* keyboard.h: every scancode the controller holds is read, also one that came
\* before idt_init reset the edge detector, for which no interrupt is left.
EveryByteIsRead == Keyboard \in high ~> (Keyboard \notin high \/ main_pc = "halted")
=============================================================================
