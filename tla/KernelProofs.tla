---------------------------- MODULE KernelProofs ----------------------------
(***************************************************************************)
(* Theorems about the running kernel: Interrupts, for every set of devices *)
(* wired to the controllers and of lines that later drivers use;           *)
(* KernelLoop, for every size of the task table and of the event queue     *)
(* from four on, every width of the tick counter that holds the periods,   *)
(* and every interval of the mirror's and aura_core's publications; and    *)
(* Console, for every screen, tab stop, alphabet and width of an int.      *)
(***************************************************************************)
EXTENDS Interrupts, KernelLoop, Console, KernelLemmas, SequenceTheorems

\* The calls of irq_dispatch.
Calls == [irq : Lines, real : BOOLEAN, stage : {"entry", "eoi"}]

\* The gate turns interrupts off, and only the return turns them on again: a
\* dispatch is never interrupted.
OneAtATime == /\ ifl => serving = <<>>
              /\ serving = <<>> \/ \E c \in Calls : serving = <<c>>

\* kernel_main's order: nothing is delivered before idt_init, and after it
\* every open line but the cascade has its handler.
HandlersFirst ==
    /\ main_pc = "idt_init" => serving = <<>> /\ ~ifl
    /\ main_pc = "pit_unmask" => Timer \in irq_handlers
    /\ main_pc = "keyboard_unmask" => Keyboard \in irq_handlers
    /\ main_pc # "idt_init" => \A l \in Lines : l \notin imr => l \in irq_handlers \/ l = Cascade

DispatchInv == ServiceInv /\ NoInterruptWithoutHandler /\ OneAtATime /\ HandlersFirst

-----------------------------------------------------------------------------
\* What is in service when nothing, and when one call, is under way.
LEMMA ServedNone ==
    ASSUME serving = <<>>
    PROVE  /\ UNION {Marks(serving[k]) : k \in DOMAIN serving} = {}
           /\ NoInterruptWithoutHandler
  BY DEF NoInterruptWithoutHandler

LEMMA ServedOne ==
    ASSUME NEW c, serving = <<c>>
    PROVE  /\ UNION {Marks(serving[k]) : k \in DOMAIN serving} = Marks(c)
           /\ NoInterruptWithoutHandler <=> (c.real => c.irq \in irq_handlers)
<1>1. DOMAIN serving = {1} /\ serving[1] = c
  OBVIOUS
<1> QED
  BY <1>1 DEF NoInterruptWithoutHandler

\* The highest of one line is that line.
LEMMA HighestOfOne ==
    ASSUME NEW l \in Lines
    PROVE  Highest({l}) = l
<1>1. Prio(l) \in Int
  BY DEF Prio, Lines, Slave, Cascade
<1>2. \E x \in {l} : \A k \in {l} : Prio(x) <= Prio(k)
  BY <1>1
<1> QED
  BY <1>2 DEF Highest

\* The EOIs of irq_send_eoi end what the call has in service.
LEMMA EoiEndsCall ==
    ASSUME NEW c \in Calls, isr = Marks(c)
    PROVE  isr \ Eoi(c.irq) = {}
<1>1. c.irq \in Lines /\ c.real \in BOOLEAN
  BY DEF Calls
<1>2. Cascade \in Lines /\ Cascade \in Master /\ Cascade \notin Slave
  BY DEF Cascade, Lines, Master, Slave
<1>3. c.irq \in Slave <=> c.irq \notin Master
  BY <1>1 DEF Lines, Master, Slave
<1>4. CASE c.irq \in Slave
  <2>1. isr \cap Master = {Cascade} /\ isr \subseteq {Cascade, c.irq}
    BY <1>2, <1>3, <1>4 DEF Marks
  <2>2. Cascade \in Eoi(c.irq)
    <3>1. Highest(isr \cap Master) \in Eoi(c.irq)
      BY <2>1 DEF Eoi
    <3> QED
      BY <1>2, <2>1, <3>1, HighestOfOne
  <2>3. c.irq \in isr => c.irq \in Eoi(c.irq)
    <3> SUFFICES ASSUME c.irq \in isr PROVE c.irq \in Eoi(c.irq)
      OBVIOUS
    <3>1. isr \cap Slave = {c.irq}
      BY <1>2, <1>4, <2>1
    <3>2. Highest(isr \cap Slave) \in Eoi(c.irq)
      BY <1>4, <3>1 DEF Eoi
    <3> QED
      BY <1>1, <3>1, <3>2, HighestOfOne
  <2> QED
    BY <2>1, <2>2, <2>3
<1>5. CASE c.irq \notin Slave
  <2>1. isr \subseteq {c.irq}
    BY <1>5 DEF Marks
  <2>2. c.irq \in isr => c.irq \in Eoi(c.irq)
    <3> SUFFICES ASSUME c.irq \in isr PROVE c.irq \in Eoi(c.irq)
      OBVIOUS
    <3>1. isr \cap Master = {c.irq}
      BY <1>3, <1>5, <2>1
    <3>2. Highest(isr \cap Master) \in Eoi(c.irq)
      BY <3>1 DEF Eoi
    <3> QED
      BY <1>1, <3>1, <3>2, HighestOfOne
  <2> QED
    BY <2>1, <2>2
<1> QED
  BY <1>4, <1>5

-----------------------------------------------------------------------------
LEMMA DispatchInvInit ==
    Init => DispatchInv
<1> SUFFICES ASSUME Init PROVE DispatchInv
  OBVIOUS
<1>1. TypeOK
  <2>1. serving \in Seq(Calls)
    BY DEF Init
  <2> QED
    BY <2>1 DEF Init, TypeOK, Calls
<1>2. InServiceIsServed /\ NoInterruptWithoutHandler
  BY ServedNone DEF Init, InServiceIsServed
<1>3. OneAtATime /\ HandlersFirst
  BY DEF Init, OneAtATime, HandlersFirst
<1> QED
  BY <1>1, <1>2, <1>3 DEF DispatchInv, ServiceInv

\* Steps that leave the handlers, the mask, the services and the CPU alone.
LEMMA DeviceKeeps ==
    ASSUME DispatchInv, UNCHANGED <<irq_handlers, imr, isr, ifl, serving, main_pc>>,
           irr' \subseteq Devices, high' \subseteq Devices
    PROVE  DispatchInv'
<1>1. TypeOK'
  BY DEF DispatchInv, ServiceInv, TypeOK
<1>2. InServiceIsServed' /\ NoInterruptWithoutHandler'
  BY DEF DispatchInv, ServiceInv, InServiceIsServed, NoInterruptWithoutHandler
<1>3. OneAtATime' /\ HandlersFirst'
  BY DEF DispatchInv, OneAtATime, HandlersFirst
<1> QED
  BY <1>1, <1>2, <1>3 DEF DispatchInv, ServiceInv

\* An open line is accepted: it has a handler.
LEMMA AcceptKeeps ==
    ASSUME DispatchInv, NEW l \in Lines, Accept(l)
    PROVE  DispatchInv'
<1>1. TypeOK /\ InServiceIsServed /\ OneAtATime /\ HandlersFirst
  BY DEF DispatchInv, ServiceInv
<1>2. ifl /\ serving = <<>> /\ main_pc # "idt_init" /\ isr = {}
  BY <1>1, ServedNone DEF Accept, OneAtATime, HandlersFirst, InServiceIsServed
<1>3. l \in Devices /\ l \notin imr /\ l # Cascade
  BY <1>1, LineSets DEF Accept, Deliverable, Open, TypeOK
<1>4. l \in irq_handlers
  BY <1>1, <1>2, <1>3 DEF HandlersFirst
<1>5. PICK call : /\ \/ call = [irq |-> l, real |-> TRUE, stage |-> "entry"]
                     \/ call = [irq |-> IF l \in Slave THEN 15 ELSE 7, real |-> FALSE,
                                stage |-> "entry"]
                  /\ isr' = isr \cup Marks(call)
                  /\ serving' = <<call>> \o serving
  <2> DEFINE x == [irq |-> l, real |-> TRUE, stage |-> "entry"]
             y == [irq |-> IF l \in Slave THEN 15 ELSE 7, real |-> FALSE, stage |-> "entry"]
  <2>1. \E call \in {x} \cup (IF l \in high THEN {} ELSE {y}) :
            isr' = isr \cup Marks(call) /\ serving' = <<call>> \o serving
    BY DEF Accept
  <2> HIDE DEF x, y
  <2>2. \E call : (call = x \/ call = y) /\ isr' = isr \cup Marks(call) /\ serving' = <<call>> \o serving
    BY <2>1
  <2> QED
    BY <2>2 DEF x, y
<1>6. call \in Calls /\ (call.real => call.irq \in irq_handlers)
  <2>1. 15 \in Lines /\ 7 \in Lines /\ (IF l \in Slave THEN 15 ELSE 7) \in Lines
    BY DEF Lines
  <2>2. CASE call = [irq |-> l, real |-> TRUE, stage |-> "entry"]
    BY <1>4, <2>2 DEF Calls
  <2>3. CASE call = [irq |-> IF l \in Slave THEN 15 ELSE 7, real |-> FALSE, stage |-> "entry"]
    BY <2>1, <2>3 DEF Calls
  <2> QED
    BY <1>5, <2>2, <2>3
<1>7. Marks(call) \subseteq Lines
  BY <1>6 DEF Marks, Calls, Lines, Cascade
<1>8. serving' = <<call>> /\ isr' = Marks(call) /\ serving' \in Seq(Calls)
  <2>1. <<call>> \in Seq(Calls)
    BY <1>6
  <2>2. <<call>> \o <<>> = <<call>>
    BY <2>1
  <2> QED
    BY <1>2, <1>5, <2>1, <2>2
<1>9. ifl' = FALSE /\ UNCHANGED <<irq_handlers, imr, high, main_pc>> /\ irr' = irr \ {l}
  BY DEF Accept, GateIf
<1>10. TypeOK'
  <2>1. irr' \subseteq Devices /\ isr' \subseteq Lines /\ ifl' \in BOOLEAN /\ serving' \in Seq(Calls)
    BY <1>1, <1>7, <1>8, <1>9 DEF TypeOK
  <2> QED
    BY <1>1, <1>9, <2>1 DEF TypeOK, Calls
<1>11. InServiceIsServed' /\ NoInterruptWithoutHandler'
  <2>1. DOMAIN serving' = {1} /\ serving'[1] = call
    BY <1>8
  <2> QED
    BY <1>6, <1>8, <1>9, <2>1 DEF InServiceIsServed, NoInterruptWithoutHandler
<1>12. OneAtATime' /\ HandlersFirst'
  BY <1>1, <1>2, <1>6, <1>8, <1>9 DEF OneAtATime, HandlersFirst
<1> QED
  BY <1>10, <1>11, <1>12 DEF DispatchInv, ServiceInv

\* Head, stage and tail of the only call.
LEMMA TheCall ==
    ASSUME OneAtATime, InHandler
    PROVE  \E c \in Calls : serving = <<c>> /\ Head(serving) = c /\ Tail(serving) = <<>>
<1>1. PICK c \in Calls : serving = <<c>>
  BY DEF OneAtATime, InHandler
<1>2. Head(<<c>>) = c /\ Tail(<<c>>) = <<>>
  OBVIOUS
<1> QED
  BY <1>1, <1>2

LEMMA CallHandlerKeeps ==
    ASSUME DispatchInv, CallHandler
    PROVE  DispatchInv'
<1>1. TypeOK /\ InServiceIsServed /\ OneAtATime /\ HandlersFirst /\ NoInterruptWithoutHandler
  BY DEF DispatchInv, ServiceInv
<1>2. PICK c \in Calls : serving = <<c>> /\ Head(serving) = c
  BY <1>1, TheCall DEF CallHandler
<1> DEFINE d == [c EXCEPT !.stage = "eoi"]
<1>3. d \in Calls /\ d.irq = c.irq /\ d.real = c.real
  BY DEF Calls
<1>4. serving' = <<d>>
  BY <1>2 DEF CallHandler
<1>5. Marks(d) = Marks(c)
  BY <1>3 DEF Marks
<1> HIDE DEF d
<1>6. UNCHANGED <<irq_handlers, imr, irr, isr, ifl, main_pc>> /\ high' \subseteq Devices
  BY <1>1 DEF CallHandler, Served, picVars, TypeOK
<1>7. isr = Marks(c) /\ (c.real => c.irq \in irq_handlers)
  BY <1>1, <1>2, ServedOne DEF InServiceIsServed
<1>8. TypeOK'
  BY <1>1, <1>3, <1>4, <1>6 DEF TypeOK, Calls
<1>9. InServiceIsServed' /\ NoInterruptWithoutHandler'
  <2>1. DOMAIN serving' = {1} /\ serving'[1] = d
    BY <1>4
  <2> QED
    BY <1>3, <1>5, <1>6, <1>7, <2>1 DEF InServiceIsServed, NoInterruptWithoutHandler
<1>10. OneAtATime' /\ HandlersFirst'
  BY <1>1, <1>2, <1>3, <1>4, <1>6 DEF OneAtATime, HandlersFirst
<1> QED
  BY <1>8, <1>9, <1>10 DEF DispatchInv, ServiceInv

\* The return finds one call to end.
LEMMA ReturnKeeps ==
    ASSUME DispatchInv, Return
    PROVE  DispatchInv'
<1>1. TypeOK /\ InServiceIsServed /\ OneAtATime /\ HandlersFirst
  BY DEF DispatchInv, ServiceInv
<1>2. PICK c \in Calls : serving = <<c>> /\ Head(serving) = c /\ Tail(serving) = <<>>
  BY <1>1, TheCall DEF Return
<1>3. isr = Marks(c)
  BY <1>1, <1>2, ServedOne DEF InServiceIsServed
<1>4. isr' = {} /\ serving' = <<>>
  BY <1>2, <1>3, EoiEndsCall DEF Return
<1>5. ifl' = TRUE /\ UNCHANGED <<irq_handlers, imr, irr, high, main_pc>>
  BY DEF Return
<1>6. main_pc # "idt_init"
  BY <1>1, <1>2 DEF HandlersFirst
<1>7. TypeOK'
  BY <1>1, <1>4, <1>5 DEF TypeOK
<1>8. InServiceIsServed' /\ NoInterruptWithoutHandler'
  BY <1>4 DEF InServiceIsServed, NoInterruptWithoutHandler
<1>9. OneAtATime' /\ HandlersFirst'
  BY <1>1, <1>4, <1>5, <1>6 DEF OneAtATime, HandlersFirst
<1> QED
  BY <1>7, <1>8, <1>9 DEF DispatchInv, ServiceInv

\* A step of the main thread that registers, masks or unmasks a line: the
\* handler comes before the unmasking.
LEMMA DriverKeeps ==
    ASSUME DispatchInv, ~InHandler, main_pc # "idt_init", main_pc' # "idt_init",
           irq_handlers \subseteq irq_handlers', irq_handlers' \subseteq Lines, imr' \subseteq Lines,
           \A l \in Lines : l \notin imr' => l \notin imr \/ l \in irq_handlers \/ l = Cascade,
           main_pc' = "pit_unmask" => Timer \in irq_handlers',
           main_pc' = "keyboard_unmask" => Keyboard \in irq_handlers',
           main_pc' \in {"pit_unmask", "keyboard_init", "keyboard_unmask", "loop"},
           UNCHANGED <<irr, isr, high, ifl, serving>>
    PROVE  DispatchInv'
<1>1. TypeOK'
  BY DEF DispatchInv, ServiceInv, TypeOK
<1>2. InServiceIsServed' /\ NoInterruptWithoutHandler'
  BY DEF DispatchInv, ServiceInv, InServiceIsServed, NoInterruptWithoutHandler
<1>3. OneAtATime'
  BY DEF DispatchInv, OneAtATime
<1>4. HandlersFirst'
  BY DEF DispatchInv, HandlersFirst
<1> QED
  BY <1>1, <1>2, <1>3, <1>4 DEF DispatchInv, ServiceInv

LEMMA RegisterKeeps ==
    ASSUME DispatchInv, ~InHandler, main_pc # "idt_init", NEW l \in Lines, Register(l),
           \/ main_pc' = "loop" /\ main_pc = "loop"
           \/ main_pc' = "pit_unmask" /\ l = Timer
           \/ main_pc' = "keyboard_unmask" /\ l = Keyboard
    PROVE  DispatchInv'
<1>1. /\ irq_handlers' = irq_handlers \cup {l}
      /\ UNCHANGED <<imr, irr, isr, high, ifl, serving>>
  BY DEF Register, picVars
<1>2. irq_handlers \subseteq Lines /\ imr \subseteq Lines
  BY DEF DispatchInv, ServiceInv, TypeOK
<1> QED
  BY <1>1, <1>2, DriverKeeps

LEMMA UnmaskKeeps ==
    ASSUME DispatchInv, ~InHandler, main_pc # "idt_init", NEW l \in Lines, Unmask(l),
           l \in irq_handlers \/ l = Cascade, main_pc' \in {"keyboard_init", "loop"}
    PROVE  DispatchInv'
<1>1. /\ imr' = imr \ {l}
      /\ UNCHANGED <<irq_handlers, irr, isr, high, ifl, serving>>
  BY DEF Unmask
<1>2. irq_handlers \subseteq Lines /\ imr \subseteq Lines
  BY DEF DispatchInv, ServiceInv, TypeOK
<1> QED
  BY <1>1, <1>2, DriverKeeps

LEMMA MaskKeeps ==
    ASSUME DispatchInv, ~InHandler, main_pc = "loop", main_pc' = "loop", NEW l \in Lines, Mask(l)
    PROVE  DispatchInv'
<1>1. /\ imr' = imr \cup {l}
      /\ UNCHANGED <<irq_handlers, irr, isr, high, ifl, serving>>
  BY DEF Mask
<1>2. irq_handlers \subseteq Lines /\ imr \subseteq Lines
  BY DEF DispatchInv, ServiceInv, TypeOK
<1> QED
  BY <1>1, <1>2, DriverKeeps

LEMMA IdtInitKeeps ==
    ASSUME DispatchInv, IdtInit
    PROVE  DispatchInv'
<1>1. /\ serving = <<>> /\ serving' = <<>> /\ isr' = {} /\ irr' = {} /\ irq_handlers' = {}
      /\ imr' = Lines /\ ifl' = TRUE /\ main_pc' = "pit_init" /\ high' = high
  BY DEF IdtInit, Main, InHandler, MaskedAtFirst, Sti
<1>2. TypeOK'
  <2>1. serving' \in Seq(Calls)
    BY <1>1
  <2> QED
    BY <1>1, <2>1 DEF DispatchInv, ServiceInv, TypeOK, Calls
<1>3. InServiceIsServed' /\ NoInterruptWithoutHandler'
  BY <1>1 DEF InServiceIsServed, NoInterruptWithoutHandler
<1>4. OneAtATime' /\ HandlersFirst'
  BY <1>1 DEF OneAtATime, HandlersFirst
<1> QED
  BY <1>2, <1>3, <1>4 DEF DispatchInv, ServiceInv

LEMMA HaltKeeps ==
    ASSUME DispatchInv, Halt
    PROVE  DispatchInv'
<1>1. /\ UNCHANGED <<irq_handlers, imr, irr, isr, high, serving>>
      /\ ~ifl' /\ ifl' \in BOOLEAN /\ main_pc' = "halted" /\ main_pc # "idt_init"
  BY DEF Halt, picVars
<1>2. TypeOK'
  BY <1>1 DEF DispatchInv, ServiceInv, TypeOK
<1>3. InServiceIsServed' /\ NoInterruptWithoutHandler'
  BY <1>1 DEF DispatchInv, ServiceInv, InServiceIsServed, NoInterruptWithoutHandler
<1>4. OneAtATime' /\ HandlersFirst'
  BY <1>1 DEF DispatchInv, OneAtATime, HandlersFirst
<1> QED
  BY <1>2, <1>3, <1>4 DEF DispatchInv, ServiceInv

LEMMA DispatchInvStep ==
    DispatchInv /\ [Next]_vars => DispatchInv'
<1> SUFFICES ASSUME DispatchInv, [Next]_vars PROVE DispatchInv'
  OBVIOUS
<1>1. /\ irr \subseteq Devices /\ high \subseteq Devices
      /\ Timer \in Lines /\ Keyboard \in Lines
  BY DEF DispatchInv, ServiceInv, TypeOK, Timer, Keyboard, Lines
<1>2. CASE Device
  <2>1. /\ UNCHANGED <<irq_handlers, imr, isr, ifl, serving, main_pc>>
        /\ irr' \subseteq Devices /\ high' \subseteq Devices
    BY <1>1, <1>2 DEF Device, Raise, Falls, Forgotten, picVars
  <2> QED
    BY <2>1, DeviceKeeps
<1>3. CASE \E l \in Lines : Accept(l)
  BY <1>3, AcceptKeeps
<1>4. CASE CallHandler \/ Return \/ IdtInit \/ Halt
  BY <1>4, CallHandlerKeeps, ReturnKeeps, IdtInitKeeps, HaltKeeps
<1>5. CASE DriverInit
  <2>1. CASE Main("pit_init", "pit_unmask") /\ Register(Timer)
    BY <1>1, <2>1, RegisterKeeps DEF Main
  <2>2. CASE Main("pit_unmask", "keyboard_init") /\ Unmask(Timer)
    <3>1. Timer \in irq_handlers
      BY <2>2 DEF Main, DispatchInv, HandlersFirst
    <3> QED
      BY <1>1, <2>2, <3>1, UnmaskKeeps DEF Main
  <2>3. CASE Main("keyboard_init", "keyboard_unmask") /\ Register(Keyboard)
    BY <1>1, <2>3, RegisterKeeps DEF Main
  <2>4. CASE Main("keyboard_unmask", "loop") /\ Unmask(Keyboard)
    <3>1. Keyboard \in irq_handlers
      BY <2>4 DEF Main, DispatchInv, HandlersFirst
    <3> QED
      BY <1>1, <2>4, <3>1, UnmaskKeeps DEF Main
  <2> QED
    BY <1>5, <2>1, <2>2, <2>3, <2>4 DEF DriverInit
<1>6. CASE KeyboardPoll
  <2>1. /\ UNCHANGED <<irq_handlers, imr, isr, ifl, serving, main_pc>>
        /\ irr' \subseteq Devices /\ high' \subseteq Devices
    BY <1>1, <1>6 DEF KeyboardPoll, Main, picVars
  <2> QED
    BY <2>1, DeviceKeeps
<1>7. ASSUME NEW l \in ApiLines, OtherDriver(l) PROVE DispatchInv'
  <2>1. l \in Lines /\ ~InHandler /\ main_pc = "loop" /\ main_pc' = "loop"
    BY <1>7, LineSets DEF OtherDriver, Main
  <2>2. Register(l) \/ ((l = Cascade \/ l \in irq_handlers) /\ Unmask(l)) \/ Mask(l)
    BY <1>7 DEF OtherDriver
  <2> QED
    BY <2>1, <2>2, RegisterKeeps, UnmaskKeeps, MaskKeeps
<1>8. CASE UNCHANGED vars
  <2>1. /\ UNCHANGED <<irq_handlers, imr, isr, ifl, serving, main_pc>>
        /\ irr' \subseteq Devices /\ high' \subseteq Devices
    BY <1>1, <1>8 DEF vars, picVars
  <2> QED
    BY <2>1, DeviceKeeps
<1> QED
  BY <1>2, <1>3, <1>4, <1>5, <1>6, <1>7, <1>8 DEF Next

-----------------------------------------------------------------------------
\* irq_dispatch and the controllers agree in every state: the EOIs of
\* irq_send_eoi, which name no line, end the service of the line that was
\* handled and of no other, spurious interrupts and slave lines included.
THEOREM ServiceIsMatched ==
    Spec => []ServiceInv
<1>1. DispatchInv => ServiceInv
  BY DEF DispatchInv
<1> QED
  BY <1>1, DispatchInvInit, DispatchInvStep, PTL DEF Spec

\* With the order of initialisation of kernel_main, pit_init and
\* keyboard_init no device's interrupt is ever dispatched without a handler,
\* and a later driver that keeps the same order does not change that.
THEOREM EveryInterruptHasHandler ==
    Spec => []NoInterruptWithoutHandler
<1>1. DispatchInv => NoInterruptWithoutHandler
  BY DEF DispatchInv
<1> QED
  BY <1>1, DispatchInvInit, DispatchInvStep, PTL DEF Spec

-----------------------------------------------------------------------------
\* The loop of kernel_main.

\* How many of the tasks kernel_main has added.
Added == IF boot < 7 THEN boot ELSE 7

\* The task table is that of kernel_main: its tasks from the first place on,
\* one of them RUNNING while it is being called, and nothing behind them.
TasksInPlace ==
    /\ task_table \in [S!Slots -> S!Task] /\ task_count_val = Added
    /\ \A k \in S!Slots :
          IF k < Added
          THEN /\ task_table[k].name = BuiltinTasks[k + 1][1]
               /\ task_table[k].period = BuiltinTasks[k + 1][2]
               /\ task_table[k].state = IF pc = "task" /\ k = i THEN "RUNNING" ELSE "READY"
          ELSE task_table[k].state = "EMPTY"

\* Where kernel_main and scheduler_tick stand; before the loop no tick has
\* begun and the mirror has not been synced.
TickAt ==
    /\ sched_tick \in 0 .. TickMod - 1
    /\ pc \in {"idle", "scan", "task"} /\ i \in 0 .. MaxTasks
    /\ boot \in 0 .. 11
    /\ g_kernel_state = "INIT" => pc = "idle" /\ sched_tick = 0 /\ sync_count = 0
    /\ g_kernel_state # "INIT" => boot = 11
    /\ pc = "task" => i < 7
    /\ pc = "task" /\ acted => i \in {2, 3, 5}

\* The scan has not come to event_drain, the second task.
DrainAhead == pc # "idle" /\ (i = 0 \/ (i = 1 /\ pc = "scan"))

\* event_drain has run in every tick that has passed it.
DrainDue ==
    IF DrainAhead THEN (task_table[1].last_run + 1) % TickMod = sched_tick
    ELSE task_table[1].last_run = sched_tick

\* The tasks that publish and that this tick is past: at most one event each.
Publications ==
    (IF i <= 2 THEN 0 ELSE IF i = 3 THEN 1 ELSE IF i <= 5 THEN 2 ELSE 3)
        + (IF pc = "task" /\ acted THEN 1 ELSE 0)

\* What can wait: after event_drain has returned the publications of this tick,
\* before it four, those of the last tick and its end, or of the four plugins.
RoomLeft ==
    Len(q) <= IF g_kernel_state = "INIT" THEN boot - Added
              ELSE IF pc = "idle" \/ i <= 1 THEN 4 ELSE Publications

\* Behind event_drain, and between ticks, there are events of this tick only.
EventsAreNew == (pc = "idle" \/ i >= 2) => \A k \in DOMAIN q : q[k].tick = sched_tick

LoopInv ==
    QueueInv /\ TasksInPlace /\ TickAt /\ DrainDue /\ RoomLeft /\ EventsAreNew

-----------------------------------------------------------------------------
\* The tasks of kernel_main, one by one.
LEMMA TaskList ==
    /\ Len(BuiltinTasks) = 7 /\ Len(BuiltinPlugins) = 4
    /\ BuiltinTasks[1] = <<"heartbeat", 1>> /\ BuiltinTasks[2] = <<"event_drain", 1>>
    /\ BuiltinTasks[3] = <<"mirror_sync", 10>> /\ BuiltinTasks[4] = <<"plugin_tick", 5>>
    /\ BuiltinTasks[5] = <<"keyboard_poll", 1>> /\ BuiltinTasks[6] = <<"menu_tick", 2>>
    /\ BuiltinTasks[7] = <<"serial_poll", 5>>
  BY DEF BuiltinTasks, BuiltinPlugins

LEMMA TaskEntries ==
    ASSUME NEW k \in 0 .. 6
    PROVE  BuiltinTasks[k + 1][1] \in TaskNames /\ BuiltinTasks[k + 1][2] \in TaskPeriods
<1>1. k = 0 \/ k = 1 \/ k = 2 \/ k = 3 \/ k = 4 \/ k = 5 \/ k = 6
  OBVIOUS
<1> QED
  BY <1>1, TaskList DEF TaskNames, TaskPeriods

\* The place of a task that runs is known by its name.
LEMMA RunningAt ==
    ASSUME LoopInv, pc = "task"
    PROVE  /\ Running("event_drain") => i = 1
           /\ Running("mirror_sync") => i = 2
           /\ Running("plugin_tick") => i = 3
           /\ Running("menu_tick") => i = 5
           /\ i \in 0 .. 6 /\ g_kernel_state # "INIT" /\ boot = 11 /\ Added = 7
<1>1. i \in 0 .. 6 /\ g_kernel_state # "INIT" /\ boot = 11 /\ Added = 7 /\ i \in S!Slots
  BY RoomForTasks DEF LoopInv, TickAt, Added, S!Slots
<1>2. task_table[i].name = BuiltinTasks[i + 1][1]
  BY <1>1 DEF LoopInv, TasksInPlace
<1>3. i = 0 \/ i = 1 \/ i = 2 \/ i = 3 \/ i = 4 \/ i = 5 \/ i = 6
  BY <1>1
<1> QED
  BY <1>1, <1>2, <1>3, TaskList DEF Running

\* What Publish does where there is room.
LEMMA PublishAppends ==
    ASSUME KernelTypeOK, NothingRefused, sched_tick \in 0 .. TickMod - 1, Len(q) <= 3,
           NEW topic \in Topics, Publish(topic)
    PROVE  /\ q' = Append(q, [topic |-> topic, tick |-> sched_tick])
           /\ q' \in Seq(Event) /\ cur' \in Event \cup {NoEvent} /\ NothingRefused'
           /\ Len(q') = Len(q) + 1
<1> DEFINE e == [topic |-> topic, tick |-> sched_tick]
<1>1. e \in Event /\ q \in Seq(Event) /\ Len(q) < QueueDepth
  BY RoomForEvents DEF Event, KernelTypeOK
<1>2. q' = Append(q, e) /\ ret' = "AURA_OK" /\ cur' = cur
  BY <1>1 DEF Publish, F!Accept, F!Busy
<1> QED
  BY <1>1, <1>2 DEF KernelTypeOK, NothingRefused

\* A step that publishes one event at most leaves the queue in order.
OneMore ==
    /\ q' \in Seq(Event) /\ cur' \in Event \cup {NoEvent} /\ NothingRefused'
    /\ Len(q') <= Len(q) + 1
    /\ (\A k \in DOMAIN q : q[k].tick = sched_tick) => \A k \in DOMAIN q' : q'[k].tick = sched_tick

LEMMA PublishesOneMore ==
    ASSUME LoopInv, Len(q) <= 3,
           (\E topic \in Topics : Publish(topic)) \/ UNCHANGED busVars
    PROVE  OneMore
<1>0. KernelTypeOK /\ NothingRefused /\ sched_tick \in 0 .. TickMod - 1 /\ q \in Seq(Event)
  BY DEF LoopInv, QueueInv, TickAt, KernelTypeOK
<1>1. CASE UNCHANGED busVars
  BY <1>0, <1>1 DEF busVars, OneMore, KernelTypeOK, NothingRefused
<1>2. ASSUME NEW topic \in Topics, Publish(topic) PROVE OneMore
  <2> DEFINE e == [topic |-> topic, tick |-> sched_tick]
  <2>1. /\ q' = Append(q, e) /\ q' \in Seq(Event) /\ cur' \in Event \cup {NoEvent}
        /\ NothingRefused' /\ Len(q') = Len(q) + 1 /\ e.tick = sched_tick
    BY <1>0, <1>2, PublishAppends
  <2> HIDE DEF e
  <2>2. \A k \in DOMAIN q' : q'[k] = e \/ (k \in DOMAIN q /\ q'[k] = q[k])
    BY <1>0, <2>1
  <2> QED
    BY <2>1, <2>2, <1>0 DEF OneMore
<1> QED
  BY <1>1, <1>2

\* Between two ticks a tick has passed since event_drain ran, so it is due.
LEMMA OneTickElapsed ==
    ASSUME NEW last \in 0 .. TickMod - 1, NEW now \in 0 .. TickMod - 1,
           (last + 1) % TickMod = now
    PROVE  (now - last + TickMod) % TickMod = 1
<1>0. TickMod \in Nat \ {0} /\ TickMod > 10
  BY CounterWidth
<1>1. CASE last + 1 < TickMod
  <2>1. now = last + 1
    BY <1>0, <1>1, ModSmall
  <2>2. now - last + TickMod = TickMod + 1 /\ TickMod + 1 \in TickMod .. 2 * TickMod - 1
    BY <2>1, <1>0
  <2> QED
    BY <2>2, <1>0, ModWrap
<1>2. CASE last + 1 = TickMod
  <2>1. now = 0
    BY <1>0, <1>2, ModWrap
  <2>2. now - last + TickMod = 1 /\ 1 \in 0 .. TickMod - 1
    BY <2>1, <1>0, <1>2
  <2> QED
    BY <2>2, <1>0, ModSmall
<1> QED
  BY <1>0, <1>1, <1>2

-----------------------------------------------------------------------------
LEMMA LoopInit == KernelInit => LoopInv
<1> SUFFICES ASSUME KernelInit PROVE LoopInv
  OBVIOUS
<1>0. MaxTasks \in Nat /\ MaxTasks >= 7 /\ TickMod \in Nat /\ TickMod > 10
      /\ SyncEvery \in Nat \ {0, 1} /\ CoreEvery \in Nat \ {0}
  BY RoomForTasks, CounterWidth, Intervals
<1>1. /\ q = <<>> /\ cur = NoEvent /\ ret = "AURA_OK"
      /\ task_table = [k \in S!Slots |-> S!Blank] /\ task_count_val = 0 /\ sched_tick = 0
      /\ pc = "idle" /\ i = 0 /\ g_kernel_state = "INIT" /\ boot = 0
      /\ sync_count = 0 /\ core_tick_count = 0 /\ acted = FALSE
  BY DEF KernelInit, S!Init, F!Init
<1>2. S!Blank \in S!Task /\ S!Blank.state = "EMPTY" /\ S!Blank.last_run = 0
  <2>1. (CHOOSE p \in TaskPeriods : TRUE) \in TaskPeriods
    BY DEF TaskPeriods
  <2> QED
    BY <2>1, <1>0 DEF S!Blank, S!Task, S!TaskState, S!Kept
<1>3. QueueInv
  <2>1. q \in Seq(Event) /\ DOMAIN q = {}
    BY <1>1
  <2>2. 0 \in 0 .. SyncEvery - 1 /\ 0 \in 0 .. CoreEvery - 1
    BY <1>0
  <2> QED
    BY <1>1, <2>1, <2>2 DEF QueueInv, KernelTypeOK, NothingRefused, WaitsOneTick
<1>4. TasksInPlace
  BY <1>0, <1>1, <1>2 DEF TasksInPlace, Added, S!Slots
<1>5. DrainDue
  <2>1. 1 \in S!Slots
    BY <1>0 DEF S!Slots
  <2> QED
    BY <1>1, <1>2, <2>1 DEF DrainDue, DrainAhead
<1> QED
  BY <1>0, <1>1, <1>3, <1>4, <1>5 DEF LoopInv, TickAt, RoomLeft, Added, EventsAreNew

-----------------------------------------------------------------------------
\* kernel_main adds the next task: it gets the first EMPTY place, the next one.
LEMMA AddBuiltinTaskStep == LoopInv /\ AddBuiltinTask => LoopInv'
<1> SUFFICES ASSUME LoopInv, AddBuiltinTask PROVE LoopInv'
  OBVIOUS
<1>0. MaxTasks \in Nat /\ MaxTasks >= 7 /\ TickMod \in Nat /\ TickMod > 10
  BY RoomForTasks, CounterWidth
<1>1. /\ g_kernel_state = "INIT" /\ boot \in 0 .. 6 /\ boot' = boot + 1 /\ Added = boot
      /\ pc = "idle" /\ sched_tick = 0 /\ sync_count = 0
      /\ UNCHANGED <<busVars, g_kernel_state, counters, acted, sched_tick, pc, i>>
  BY TaskList DEF AddBuiltinTask, LoopInv, TickAt, Added, S!AddTask, S!tickVars
<1> DEFINE entry == [state |-> "READY", name |-> BuiltinTasks[boot + 1][1],
                     period |-> BuiltinTasks[boot + 1][2], last_run |-> 0]
<1>2. task_table' = [task_table EXCEPT ![boot] = entry] /\ task_count_val' = task_count_val + 1
  <2>1. S!InState("EMPTY") = boot .. MaxTasks - 1
    BY <1>0, <1>1 DEF LoopInv, TasksInPlace, S!InState, S!Slots
  <2>2. boot \in boot .. MaxTasks - 1 /\ \A k \in boot .. MaxTasks - 1 : boot <= k
    BY <1>0, <1>1
  <2>3. \A m \in boot .. MaxTasks - 1 :
            (\A k \in boot .. MaxTasks - 1 : m <= k) => m = boot
    BY <1>0, <1>1, <2>2
  <2>4. S!Min(boot .. MaxTasks - 1) = boot
    BY <2>2, <2>3, Zenon DEF S!Min
  <2>5. BuiltinTasks[boot + 1][1] \in TaskNames
    BY <1>1, TaskEntries
  <2> QED
    BY <1>1, <2>1, <2>4, <2>5 DEF AddBuiltinTask, S!AddTask
<1>3. entry \in S!Task
  <2>1. BuiltinTasks[boot + 1][1] \in TaskNames /\ BuiltinTasks[boot + 1][2] \in TaskPeriods
    BY <1>1, TaskEntries
  <2>2. BuiltinTasks[boot + 1][1] \in S!Kept
    BY <2>1 DEF S!Kept
  <2>3. 0 \in 0 .. TickMod - 1 /\ "READY" \in S!TaskState
    BY <1>0 DEF S!TaskState
  <2> QED
    BY <2>1, <2>2, <2>3 DEF S!Task
<1>4. boot \in S!Slots /\ 1 \in S!Slots /\ Added' = boot + 1
  BY <1>0, <1>1 DEF S!Slots, Added
<1>5. TasksInPlace'
  BY <1>0, <1>1, <1>2, <1>3, <1>4 DEF LoopInv, TasksInPlace, S!Slots
<1>6. QueueInv' /\ EventsAreNew'
  BY <1>1 DEF LoopInv, QueueInv, KernelTypeOK, NothingRefused, WaitsOneTick, EventsAreNew,
              busVars, counters
<1>7. DrainDue'
  BY <1>1, <1>2, <1>4 DEF LoopInv, TasksInPlace, DrainDue, DrainAhead
<1>8. RoomLeft'
  BY <1>1, <1>4 DEF LoopInv, RoomLeft, busVars
<1> QED
  BY <1>1, <1>5, <1>6, <1>7, <1>8, <1>0 DEF LoopInv, TickAt, counters

\* The plugins that are registered at boot publish one after the other.
LEMMA RegisterBuiltinPluginStep == LoopInv /\ RegisterBuiltinPlugin => LoopInv'
<1> SUFFICES ASSUME LoopInv, RegisterBuiltinPlugin PROVE LoopInv'
  OBVIOUS
<1>1. /\ g_kernel_state = "INIT" /\ boot \in 7 .. 10 /\ boot' = boot + 1
      /\ Added = 7 /\ Added' = 7 /\ pc = "idle"
      /\ UNCHANGED <<schedVars, g_kernel_state, counters, acted>>
  BY TaskList DEF RegisterBuiltinPlugin, LoopInv, TickAt, Added
<1>2. q \in Seq(Event) /\ Len(q) <= boot - 7
  BY <1>1 DEF LoopInv, RoomLeft, QueueInv, KernelTypeOK
<1>3. OneMore
  BY <1>1, <1>2, PublishesOneMore DEF RegisterBuiltinPlugin, Topics
<1>4. QueueInv' /\ EventsAreNew'
  BY <1>1, <1>3 DEF OneMore, LoopInv, QueueInv, KernelTypeOK, WaitsOneTick, EventsAreNew,
                    counters, schedVars
<1>5. RoomLeft'
  BY <1>1, <1>2, <1>3 DEF OneMore, RoomLeft
<1> QED
  BY <1>1, <1>4, <1>5
     DEF LoopInv, TickAt, TasksInPlace, DrainDue, DrainAhead, counters, schedVars

\* A sync publishes when the count of syncs comes to 0.
LEMMA SyncedPublishes ==
    ASSUME LoopInv, Synced
    PROVE  /\ (\E topic \in Topics : Publish(topic)) \/ UNCHANGED busVars
           /\ sync_count' \in 0 .. SyncEvery - 1
           /\ sync_count = 0 => UNCHANGED busVars
<1>1. SyncEvery \in Nat \ {0, 1} /\ sync_count \in 0 .. SyncEvery - 1
  BY Intervals DEF LoopInv, QueueInv, KernelTypeOK
<1>2. sync_count' = (sync_count + 1) % SyncEvery
  BY DEF Synced
<1>3. sync_count' \in 0 .. SyncEvery - 1
  BY <1>1, <1>2, ModRange
<1>4. sync_count = 0 => sync_count' = 1
  BY <1>1, <1>2, ModSmall
<1> QED
  BY <1>3, <1>4 DEF Synced, Topics

\* The boot snapshot is the first sync, which publishes nothing.
LEMMA MenuRunStep == LoopInv /\ MenuRun => LoopInv'
<1> SUFFICES ASSUME LoopInv, MenuRun PROVE LoopInv'
  OBVIOUS
<1>1. /\ g_kernel_state = "INIT" /\ boot = 11 /\ g_kernel_state' = "RUN" /\ Synced
      /\ Added = 7 /\ Added' = 7 /\ pc = "idle" /\ sync_count = 0
      /\ UNCHANGED <<schedVars, boot, core_tick_count, acted>>
  BY TaskList DEF MenuRun, LoopInv, TickAt, Added
<1>2. UNCHANGED busVars /\ sync_count' \in 0 .. SyncEvery - 1
  BY <1>1, SyncedPublishes
<1>3. QueueInv' /\ EventsAreNew'
  BY <1>1, <1>2 DEF LoopInv, QueueInv, KernelTypeOK, NothingRefused, WaitsOneTick,
                    EventsAreNew, busVars, schedVars
<1>4. RoomLeft'
  BY <1>1, <1>2 DEF LoopInv, RoomLeft, busVars, schedVars
<1> QED
  BY <1>1, <1>3, <1>4
     DEF LoopInv, TickAt, TasksInPlace, DrainDue, DrainAhead, schedVars

-----------------------------------------------------------------------------
\* scheduler_tick: a tick begins.  No task is ever a ZOMBIE, so none is reaped.
LEMMA TickStartStep == LoopInv /\ TickStart => LoopInv'
<1> SUFFICES ASSUME LoopInv, TickStart PROVE LoopInv'
  OBVIOUS
<1>0. MaxTasks \in Nat /\ MaxTasks >= 7 /\ TickMod \in Nat \ {0}
  BY RoomForTasks, CounterWidth
<1>1. /\ g_kernel_state = "RUN" /\ boot = 11 /\ Added = 7 /\ Added' = 7 /\ pc = "idle"
      /\ sched_tick' = (sched_tick + 1) % TickMod /\ task_table' = S!Reaped
      /\ pc' = "scan" /\ i' = 0 /\ acted' = FALSE
      /\ UNCHANGED <<busVars, task_count_val, g_kernel_state, boot, counters>>
  BY DEF TickStart, S!TickStart, RestUnchanged, LoopInv, TickAt, Added
<1>2. task_table' = task_table
  <2>1. \A k \in S!Slots : task_table[k].state # "ZOMBIE"
    BY <1>1 DEF LoopInv, TasksInPlace
  <2>2. S!Reaped = [k \in S!Slots |-> task_table[k]]
    BY <2>1 DEF S!Reaped
  <2> QED
    BY <1>1, <2>2 DEF LoopInv, TasksInPlace
<1>3. sched_tick \in 0 .. TickMod - 1 /\ sched_tick' \in 0 .. TickMod - 1
  BY <1>0, <1>1, ModRange DEF LoopInv, TickAt
<1>4. DrainDue'
  BY <1>1, <1>2 DEF LoopInv, DrainDue, DrainAhead
<1>5. QueueInv' /\ EventsAreNew' /\ RoomLeft'
  <2>1. QueueInv'
    BY <1>1 DEF LoopInv, QueueInv, KernelTypeOK, NothingRefused, WaitsOneTick, busVars, counters
  <2>2. EventsAreNew'
    BY <1>1 DEF EventsAreNew
  <2>3. RoomLeft'
    BY <1>1 DEF LoopInv, RoomLeft, busVars
  <2> QED
    BY <2>1, <2>2, <2>3
<1>6. TickAt'
  BY <1>0, <1>1, <1>3 DEF LoopInv, TickAt, counters
<1>7. TasksInPlace'
  BY <1>1, <1>2 DEF LoopInv, TasksInPlace
<1> QED
  BY <1>4, <1>5, <1>6, <1>7 DEF LoopInv

\* A task is called.
LEMMA RunTaskStep == LoopInv /\ RunTask => LoopInv'
<1> SUFFICES ASSUME LoopInv, RunTask PROVE LoopInv'
  OBVIOUS
<1>0. MaxTasks \in Nat /\ MaxTasks >= 7 /\ TickMod \in Nat \ {0}
  BY RoomForTasks, CounterWidth
<1>1. /\ pc = "scan" /\ i \in S!Slots /\ task_table[i].state = "READY" /\ pc' = "task"
      /\ task_table' = [task_table EXCEPT ![i].state = "RUNNING", ![i].last_run = sched_tick]
      /\ acted' = FALSE
      /\ UNCHANGED <<busVars, task_count_val, sched_tick, i, g_kernel_state, boot, counters>>
  BY <1>0 DEF RunTask, S!RunTask, RestUnchanged, LoopInv, TickAt, S!Slots
<1>2. g_kernel_state # "INIT" /\ boot = 11 /\ Added = 7 /\ Added' = 7 /\ i < 7 /\ 1 \in S!Slots
      /\ sched_tick \in 0 .. TickMod - 1
  BY <1>0, <1>1 DEF LoopInv, TickAt, Added, TasksInPlace, S!Slots
<1>3. TasksInPlace'
  <2>1. task_table \in [S!Slots -> S!Task]
    BY DEF LoopInv, TasksInPlace
  <2>2. "RUNNING" \in S!TaskState
    BY DEF S!TaskState
  <2>3. task_table' \in [S!Slots -> S!Task]
    BY <1>1, <1>2, <2>1, <2>2 DEF S!Task
  <2>4. \A k \in S!Slots \ {i} : task_table'[k] = task_table[k]
    BY <1>1, <2>1
  <2>5. task_table'[i].name = task_table[i].name /\ task_table'[i].period = task_table[i].period
        /\ task_table'[i].state = "RUNNING"
    BY <1>1, <2>1 DEF S!Task
  <2> QED
    BY <1>1, <1>2, <2>3, <2>4, <2>5 DEF LoopInv, TasksInPlace
<1>4. DrainDue'
  <2>1. task_table \in [S!Slots -> S!Task]
    BY DEF LoopInv, TasksInPlace
  <2>2. i = 1 => task_table'[1].last_run = sched_tick
    BY <1>1, <2>1 DEF S!Task
  <2>3. i # 1 => task_table'[1] = task_table[1]
    BY <1>1, <1>2, <2>1
  <2> QED
    BY <1>1, <2>2, <2>3 DEF LoopInv, DrainDue, DrainAhead
<1>5. QueueInv' /\ EventsAreNew'
  BY <1>1 DEF LoopInv, QueueInv, KernelTypeOK, NothingRefused, WaitsOneTick, EventsAreNew,
              busVars, counters
<1>6. RoomLeft'
  BY <1>1, <1>2 DEF LoopInv, RoomLeft, Publications, busVars
<1> QED
  BY <1>0, <1>1, <1>2, <1>3, <1>4, <1>5, <1>6 DEF LoopInv, TickAt, counters

\* A task that is not due, or an EMPTY place.  event_drain is always due.
LEMMA SkipTaskStep == LoopInv /\ SkipTask => LoopInv'
<1> SUFFICES ASSUME LoopInv, SkipTask PROVE LoopInv'
  OBVIOUS
<1>0. MaxTasks \in Nat /\ MaxTasks >= 7 /\ TickMod \in Nat \ {0}
  BY RoomForTasks, CounterWidth
<1>1. /\ pc = "scan" /\ i \in 0 .. MaxTasks - 1 /\ i' = i + 1
      /\ ~(task_table[i].state = "READY" /\ S!Due(i))
      /\ UNCHANGED <<busVars, task_table, task_count_val, sched_tick, pc, g_kernel_state,
                     boot, counters, acted>>
  BY <1>0 DEF SkipTask, S!SkipTask, RestUnchanged, LoopInv, TickAt
<1>2. g_kernel_state # "INIT" /\ boot = 11 /\ Added = 7 /\ Added' = 7 /\ 1 \in S!Slots
      /\ sched_tick \in 0 .. TickMod - 1
  BY <1>0, <1>1 DEF LoopInv, TickAt, Added, S!Slots
<1>3. i # 1
  <2> SUFFICES ASSUME i = 1 PROVE FALSE
    OBVIOUS
  <2>1. task_table[1].state = "READY" /\ task_table[1].period = 1
        /\ task_table[1].last_run \in 0 .. TickMod - 1
    BY <1>1, <1>2, TaskList DEF LoopInv, TasksInPlace, S!Task
  <2>2. (task_table[1].last_run + 1) % TickMod = sched_tick
    BY <1>1 DEF LoopInv, DrainDue, DrainAhead
  <2>3. S!Elapsed(1) = 1
    BY <1>2, <2>1, <2>2, OneTickElapsed DEF S!Elapsed
  <2> QED
    BY <1>1, <2>1, <2>3 DEF S!Due
<1>4. DrainDue'
  BY <1>1, <1>3 DEF LoopInv, DrainDue, DrainAhead
<1>5. QueueInv' /\ EventsAreNew'
  BY <1>1, <1>3 DEF LoopInv, QueueInv, KernelTypeOK, NothingRefused, WaitsOneTick, EventsAreNew,
              busVars, counters
<1>6. RoomLeft'
  <2>1. q \in Seq(Event)
    BY DEF LoopInv, QueueInv, KernelTypeOK
  <2> QED
    BY <1>1, <1>2, <1>3, <2>1 DEF LoopInv, RoomLeft, Publications, busVars
<1>7. TasksInPlace'
  BY <1>1, <1>2 DEF LoopInv, TasksInPlace
<1> QED
  BY <1>0, <1>1, <1>2, <1>4, <1>5, <1>6, <1>7 DEF LoopInv, TickAt, counters

\* The end of a tick publishes as the last.
LEMMA TickEndStep == LoopInv /\ TickEnd => LoopInv'
<1> SUFFICES ASSUME LoopInv, TickEnd PROVE LoopInv'
  OBVIOUS
<1>0. MaxTasks \in Nat /\ MaxTasks >= 7 /\ TickMod \in Nat \ {0}
  BY RoomForTasks, CounterWidth
<1>1. /\ pc = "scan" /\ i = MaxTasks /\ pc' = "idle" /\ i' = 0 /\ Publish("SCHEDULER_SWITCH")
      /\ UNCHANGED <<task_table, task_count_val, sched_tick, g_kernel_state, boot, counters, acted>>
  BY DEF TickEnd, S!TickEnd, RestUnchanged
<1>2. g_kernel_state # "INIT" /\ boot = 11 /\ Added = 7 /\ Added' = 7 /\ Len(q) <= 3
  BY <1>0, <1>1 DEF LoopInv, TickAt, Added, RoomLeft, Publications
<1>3. OneMore
  BY <1>1, <1>2, PublishesOneMore DEF Topics
<1>4. QueueInv' /\ EventsAreNew'
  BY <1>0, <1>1, <1>3 DEF LoopInv, QueueInv, KernelTypeOK, WaitsOneTick, EventsAreNew, OneMore,
              counters
<1>5. RoomLeft'
  <2>1. q \in Seq(Event) /\ q' \in Seq(Event) /\ Len(q') <= Len(q) + 1
    BY <1>3 DEF LoopInv, QueueInv, KernelTypeOK, OneMore
  <2> QED
    BY <1>1, <1>2, <2>1 DEF RoomLeft
<1>6. DrainDue'
  BY <1>0, <1>1 DEF LoopInv, DrainDue, DrainAhead
<1>7. TasksInPlace'
  BY <1>1, <1>2 DEF LoopInv, TasksInPlace
<1> QED
  BY <1>0, <1>1, <1>2, <1>4, <1>5, <1>6, <1>7 DEF LoopInv, TickAt, counters

-----------------------------------------------------------------------------
\* A task returns.  event_drain leaves the queue empty.
LEMMA TaskReturnStep == LoopInv /\ TaskReturn => LoopInv'
<1> SUFFICES ASSUME LoopInv, TaskReturn PROVE LoopInv'
  OBVIOUS
<1>0. MaxTasks \in Nat /\ MaxTasks >= 7
  BY RoomForTasks
<1>1. /\ pc = "task" /\ pc' = "scan" /\ i' = i + 1 /\ ~Busy
      /\ task_table' = [task_table EXCEPT ![i].state = "READY"]
      /\ UNCHANGED <<busVars, task_count_val, sched_tick, g_kernel_state, boot, counters, acted>>
  BY DEF TaskReturn, S!TaskReturn, RestUnchanged
<1>2. /\ i \in 0 .. 6 /\ i \in S!Slots /\ 1 \in S!Slots /\ boot = 11 /\ Added = 7 /\ Added' = 7
      /\ g_kernel_state # "INIT" /\ q \in Seq(Event)
      /\ g_kernel_state = "RUN"
  BY <1>0, <1>1, RunningAt
     DEF S!Slots, Added, TaskReturn, LoopInv, QueueInv, KernelTypeOK
<1>3. i = 1 => q = <<>>
  <2> SUFFICES ASSUME i = 1 PROVE q = <<>>
    OBVIOUS
  <2>1. task_table[i].name = "event_drain"
    BY <1>2, TaskList DEF LoopInv, TasksInPlace
  <2> QED
    BY <1>1, <1>2, <2>1 DEF Busy, Running
<1>4. TasksInPlace'
  <2>1. task_table \in [S!Slots -> S!Task] /\ "READY" \in S!TaskState
    BY DEF LoopInv, TasksInPlace, S!TaskState
  <2>2. task_table' \in [S!Slots -> S!Task]
    BY <1>1, <1>2, <2>1 DEF S!Task
  <2>3. \A k \in S!Slots \ {i} : task_table'[k] = task_table[k]
    BY <1>1, <2>1
  <2>4. task_table'[i].name = task_table[i].name /\ task_table'[i].period = task_table[i].period
        /\ task_table'[i].state = "READY"
    BY <1>1, <1>2, <2>1 DEF S!Task
  <2> QED
    BY <1>1, <1>2, <2>2, <2>3, <2>4 DEF LoopInv, TasksInPlace
<1>5. DrainDue'
  <2>1. task_table'[1].last_run = task_table[1].last_run
    BY <1>1, <1>2 DEF LoopInv, TasksInPlace, S!Task
  <2> QED
    BY <1>1, <1>2, <2>1 DEF LoopInv, DrainDue, DrainAhead
<1>6. QueueInv'
  BY <1>1 DEF LoopInv, QueueInv, KernelTypeOK, NothingRefused, WaitsOneTick, busVars, counters
<1>7. EventsAreNew'
  BY <1>1, <1>2, <1>3 DEF LoopInv, EventsAreNew, busVars
<1>8. RoomLeft'
  <2>1. i = 1 => Len(q) = 0
    BY <1>3
  <2> QED
    BY <1>1, <1>2, <2>1 DEF LoopInv, TickAt, RoomLeft, Publications, busVars
<1> QED
  BY <1>0, <1>1, <1>2, <1>4, <1>5, <1>6, <1>7, <1>8 DEF LoopInv, TickAt, counters

\* event_drain takes an event.
LEMMA EventDrainStep == LoopInv /\ EventDrain => LoopInv'
<1> SUFFICES ASSUME LoopInv, EventDrain PROVE LoopInv'
  OBVIOUS
<1>1. /\ pc = "task" /\ q # <<>> /\ cur' = Head(q) /\ q' = Tail(q) /\ ret' = ret
      /\ UNCHANGED <<schedVars, g_kernel_state, boot, counters, acted>>
  BY DEF EventDrain, Running, F!Take
<1>2. i = 1 /\ Added' = Added /\ q \in Seq(Event)
  BY <1>1, RunningAt DEF EventDrain, LoopInv, QueueInv, KernelTypeOK, Added
<1>3. q' \in Seq(Event) /\ cur' \in Event /\ Len(q') <= Len(q)
  BY <1>1, <1>2
<1>4. QueueInv' /\ EventsAreNew'
  BY <1>1, <1>2, <1>3 DEF LoopInv, QueueInv, KernelTypeOK, NothingRefused, WaitsOneTick,
                          EventsAreNew, counters, schedVars
<1>5. RoomLeft'
  BY <1>1, <1>2, <1>3 DEF LoopInv, TickAt, RoomLeft, Added, schedVars
<1> QED
  BY <1>1, <1>2, <1>4, <1>5
     DEF LoopInv, TickAt, TasksInPlace, DrainDue, DrainAhead, counters, schedVars

\* A task that may publish has done so: it is past its one publication.
LEMMA PublisherStep ==
    ASSUME LoopInv, pc = "task", i \in {2, 3, 5}, ~acted, acted' = TRUE,
           (\E topic \in Topics : Publish(topic)) \/ UNCHANGED busVars,
           sync_count' \in 0 .. SyncEvery - 1, core_tick_count' \in 0 .. CoreEvery - 1,
           UNCHANGED <<schedVars, g_kernel_state, boot>>
    PROVE  LoopInv'
<1>1. g_kernel_state # "INIT" /\ boot = 11 /\ Added = 7 /\ Added' = 7
  BY RunningAt DEF Added
<1>2. Len(q) <= Publications /\ Publications' = Publications + 1 /\ Publications \in 0 .. 2
  BY <1>1 DEF LoopInv, RoomLeft, Publications, schedVars
<1>3. q \in Seq(Event) /\ OneMore
  BY <1>2, PublishesOneMore DEF LoopInv, QueueInv, KernelTypeOK
<1>4. QueueInv' /\ EventsAreNew'
  BY <1>3 DEF LoopInv, QueueInv, KernelTypeOK, WaitsOneTick, EventsAreNew, OneMore, schedVars
<1>5. RoomLeft'
  BY <1>1, <1>2, <1>3 DEF RoomLeft, OneMore, schedVars
<1> QED
  BY <1>1, <1>4, <1>5
     DEF LoopInv, TickAt, TasksInPlace, DrainDue, DrainAhead, schedVars

LEMMA MirrorSyncStep == LoopInv /\ MirrorSync => LoopInv'
<1> SUFFICES ASSUME LoopInv, MirrorSync PROVE LoopInv'
  OBVIOUS
<1>1. /\ pc = "task" /\ Running("mirror_sync") /\ ~acted /\ Synced /\ acted' = TRUE
      /\ UNCHANGED <<schedVars, g_kernel_state, boot, core_tick_count>>
  BY DEF MirrorSync, Running
<1>2. i = 2 /\ core_tick_count \in 0 .. CoreEvery - 1
  BY <1>1, RunningAt DEF LoopInv, QueueInv, KernelTypeOK
<1> QED
  BY <1>1, <1>2, SyncedPublishes, PublisherStep

LEMMA PluginTickStep == LoopInv /\ PluginTick => LoopInv'
<1> SUFFICES ASSUME LoopInv, PluginTick PROVE LoopInv'
  OBVIOUS
<1>1. /\ pc = "task" /\ Running("plugin_tick") /\ ~acted /\ acted' = TRUE
      /\ core_tick_count' = (core_tick_count + 1) % CoreEvery
      /\ (\E topic \in Topics : Publish(topic)) \/ UNCHANGED busVars
      /\ UNCHANGED <<schedVars, g_kernel_state, boot, sync_count>>
  BY DEF PluginTick, Running, Topics
<1>2. i = 3 /\ sync_count \in 0 .. SyncEvery - 1
  BY <1>1, RunningAt DEF LoopInv, QueueInv, KernelTypeOK
<1>3. core_tick_count' \in 0 .. CoreEvery - 1
  BY <1>1, Intervals, ModRange DEF LoopInv, QueueInv, KernelTypeOK
<1> QED
  BY <1>1, <1>2, <1>3, PublisherStep

\* The keys of the menu.
LEMMA MenuKeyStep == LoopInv /\ MenuKey => LoopInv'
<1> SUFFICES ASSUME LoopInv, MenuKey PROVE LoopInv'
  OBVIOUS
<1>0. core_tick_count \in 0 .. CoreEvery - 1 /\ sync_count \in 0 .. SyncEvery - 1
  BY DEF LoopInv, QueueInv, KernelTypeOK
<1>1. pc = "task" /\ Running("menu_tick") /\ ~acted
  BY DEF MenuKey, MenuCapture, MenuRestore, MenuHalt, Running
<1>2. i = 5 /\ g_kernel_state # "INIT"
  BY <1>1, RunningAt
<1>3. CASE MenuCapture
  BY <1>0, <1>1, <1>2, <1>3, SyncedPublishes, PublisherStep DEF MenuCapture
<1>4. CASE MenuRestore
  BY <1>0, <1>1, <1>2, <1>4, PublisherStep DEF MenuRestore, Topics, counters
<1>5. CASE MenuHalt
  <2>1. /\ g_kernel_state' = "PANIC"
        /\ UNCHANGED <<schedVars, busVars, boot, counters, acted>>
    BY <1>5 DEF MenuHalt
  <2>2. QueueInv' /\ EventsAreNew' /\ RoomLeft'
    BY <1>1, <1>2, <2>1
       DEF LoopInv, QueueInv, KernelTypeOK, NothingRefused, WaitsOneTick, EventsAreNew,
           RoomLeft, Publications, Added, schedVars, busVars, counters
  <2> QED
    BY <1>1, <1>2, <2>1, <2>2
       DEF LoopInv, TickAt, TasksInPlace, DrainDue, DrainAhead, Added, schedVars, counters
<1> QED
  BY <1>3, <1>4, <1>5 DEF MenuKey

LEMMA LoopStep == LoopInv /\ [KernelNext]_kernelVars => LoopInv'
<1> SUFFICES ASSUME LoopInv, [KernelNext]_kernelVars PROVE LoopInv'
  OBVIOUS
<1>1. CASE UNCHANGED kernelVars
  BY <1>1 DEF kernelVars, schedVars, busVars, counters, LoopInv, QueueInv, KernelTypeOK,
              NothingRefused, WaitsOneTick, TasksInPlace, TickAt, DrainDue, DrainAhead, RoomLeft,
              Publications, EventsAreNew, Added
<1>2. CASE Boot
  BY <1>2, AddBuiltinTaskStep, RegisterBuiltinPluginStep, MenuRunStep DEF Boot
<1>3. CASE TickStep
  BY <1>3, TickStartStep, RunTaskStep, SkipTaskStep, TickEndStep DEF TickStep
<1>4. CASE TaskStep
  BY <1>4, EventDrainStep, MirrorSyncStep, PluginTickStep, TaskReturnStep DEF TaskStep
<1>5. CASE MenuKey
  BY <1>5, MenuKeyStep
<1> QED
  BY <1>1, <1>2, <1>3, <1>4, <1>5 DEF KernelNext

\* With the tasks kernel_main adds, in their order and at their periods, no
\* publication is refused and no event waits longer than a tick, for every
\* queue of four or more and however rarely the mirror and aura_core publish.
THEOREM QueueSuffices == KernelSpec => []QueueInv
<1>1. KernelInit => LoopInv
  BY LoopInit
<1>2. LoopInv /\ [KernelNext]_kernelVars => LoopInv'
  BY LoopStep
<1>3. LoopInv => QueueInv
  BY DEF LoopInv
<1> QED
  BY <1>1, <1>2, <1>3, PTL DEF KernelSpec

-----------------------------------------------------------------------------
\* To the scheduler, what boot, the tasks and the keys do besides is use of
\* the bus: any number of events may wait afterwards.
LEMMA BusIsUsed ==
    ASSUME LoopInv, pc \in {"idle", "task"}, Len(q) <= 3, UNCHANGED schedVars,
           (\E topic \in Topics : Publish(topic)) \/ UNCHANGED busVars
    PROVE  S!UseBus
<1>1. q \in Seq(Event) /\ OneMore /\ QueueDepth \in Nat /\ QueueDepth >= 4
  BY PublishesOneMore, RoomForEvents DEF LoopInv, QueueInv, KernelTypeOK
<1>2. Len(q') \in 0 .. QueueDepth
  BY <1>1 DEF OneMore
<1> QED
  BY <1>2 DEF S!UseBus, S!MayCall, S!tickVars, schedVars

\* Every step of kernel_main before the loop is one of the scheduler.
LEMMA BootRefines == LoopInv /\ Boot => S!Next
<1> SUFFICES ASSUME LoopInv, Boot PROVE S!Next
  OBVIOUS
<1>1. CASE AddBuiltinTask
  <2>1. boot \in 0 .. 6
    BY <1>1, TaskList DEF AddBuiltinTask, LoopInv, TickAt
  <2>2. S!AddTask(BuiltinTasks[boot + 1][1], BuiltinTasks[boot + 1][2])
    BY <1>1 DEF AddBuiltinTask
  <2>3. BuiltinTasks[boot + 1][1] \in TaskNames /\ BuiltinTasks[boot + 1][2] \in TaskPeriods
    BY <2>1, TaskEntries
  <2> QED
    BY <2>2, <2>3 DEF S!Next, S!Api
<1>2. CASE RegisterBuiltinPlugin
  <2>1. /\ g_kernel_state = "INIT" /\ boot \in 7 .. 10 /\ Added = 7 /\ pc = "idle"
        /\ Publish("PLUGIN_LOADED") /\ UNCHANGED schedVars
    BY <1>2, TaskList DEF RegisterBuiltinPlugin, LoopInv, TickAt, Added
  <2>2. Len(q) <= 3
    BY <2>1 DEF LoopInv, RoomLeft, QueueInv, KernelTypeOK
  <2> QED
    BY <2>1, <2>2, BusIsUsed DEF S!Next, S!Api, Topics
<1>3. CASE MenuRun
  <2>1. pc = "idle" /\ Synced /\ sync_count = 0 /\ UNCHANGED schedVars
    BY <1>3 DEF MenuRun, LoopInv, TickAt
  <2>2. UNCHANGED busVars
    BY <2>1, SyncedPublishes
  <2>3. Len(q) \in 0 .. QueueDepth
    BY <1>3, TaskList, RoomForEvents
       DEF MenuRun, LoopInv, RoomLeft, Added, QueueInv, KernelTypeOK
  <2> QED
    BY <2>1, <2>2, <2>3 DEF S!Next, S!tickVars, S!Api, S!UseBus, S!MayCall, busVars, schedVars
<1> QED
  BY <1>1, <1>2, <1>3 DEF Boot

\* ... and so is every step of the loop, or it leaves the scheduler alone.
LEMMA LoopRefines == LoopInv /\ (TickStep \/ TaskStep \/ MenuKey) => [S!Next]_S!vars
<1> SUFFICES ASSUME LoopInv, TickStep \/ TaskStep \/ MenuKey PROVE [S!Next]_S!vars
  OBVIOUS
<1>0. q \in Seq(Event) /\ QueueDepth \in Nat /\ QueueDepth >= 4
  BY RoomForEvents DEF LoopInv, QueueInv, KernelTypeOK
<1>1. CASE TickStart
  BY <1>1 DEF TickStart, S!Next
<1>2. CASE RunTask
  BY <1>2 DEF RunTask, S!Next, S!TickStep
<1>3. CASE SkipTask
  BY <1>3 DEF SkipTask, S!Next, S!TickStep
<1>4. CASE TickEnd
  BY <1>4 DEF TickEnd, S!Next, S!TickStep
<1>5. CASE TaskReturn
  BY <1>5 DEF TaskReturn, S!Next
<1>6. CASE EventDrain
  <2>1. pc = "task" /\ q # <<>> /\ q' = Tail(q) /\ UNCHANGED schedVars
    BY <1>6 DEF EventDrain, Running, F!Take
  <2>2. i = 1 /\ g_kernel_state # "INIT"
    BY <1>6, <2>1, RunningAt DEF EventDrain
  <2>3. Len(q) <= 4
    BY <2>1, <2>2 DEF LoopInv, RoomLeft
  <2>4. Len(q') \in 0 .. QueueDepth
    BY <1>0, <2>1, <2>3
  <2> QED
    BY <2>1, <2>4 DEF S!Next, S!Api, S!UseBus, S!MayCall, S!tickVars, schedVars
<1>7. CASE MirrorSync \/ PluginTick \/ MenuCapture \/ MenuRestore
  <2>1. /\ pc = "task" /\ UNCHANGED schedVars
        /\ Running("mirror_sync") \/ Running("plugin_tick") \/ Running("menu_tick")
    BY <1>7 DEF MirrorSync, PluginTick, MenuCapture, MenuRestore, Running
  <2>2. i \in 0 .. 6 /\ i # 0 /\ i # 1 /\ g_kernel_state # "INIT" /\ ~acted
    BY <1>7, <2>1, RunningAt DEF MirrorSync, PluginTick, MenuCapture, MenuRestore
  <2>3. Len(q) <= 3
    BY <2>1, <2>2, <1>0 DEF LoopInv, RoomLeft, Publications
  <2>4. (\E topic \in Topics : Publish(topic)) \/ UNCHANGED busVars
    BY <1>7, SyncedPublishes DEF MirrorSync, PluginTick, MenuCapture, MenuRestore, Topics
  <2> QED
    BY <2>1, <2>3, <2>4, BusIsUsed DEF S!Next, S!Api
<1>8. CASE MenuHalt
  BY <1>8 DEF MenuHalt, S!vars, S!tickVars, schedVars, busVars
<1> QED
  BY <1>1, <1>2, <1>3, <1>4, <1>5, <1>6, <1>7, <1>8 DEF TickStep, TaskStep, MenuKey

\* The loop of kernel_main uses the scheduler as module Scheduler lets it be
\* used, so the promises of that module hold of the kernel's own tasks.
THEOREM LoopUsesScheduler == KernelSpec => UsesScheduler
<1>1. KernelInit => LoopInv /\ S!Init
  BY LoopInit DEF KernelInit
<1>2. LoopInv /\ [KernelNext]_kernelVars => LoopInv'
  BY LoopStep
<1>3. LoopInv /\ [KernelNext]_kernelVars => [S!Next]_S!vars
  <2>1. UNCHANGED kernelVars => UNCHANGED S!vars
    BY DEF kernelVars, schedVars, busVars, S!vars, S!tickVars
  <2> QED
    BY <2>1, BootRefines, LoopRefines DEF KernelNext
<1> QED
  BY <1>1, <1>2, <1>3, PTL DEF KernelSpec, UsesScheduler, S!Spec

-----------------------------------------------------------------------------
\* The theorems about Scheduler, for the scheduler of this kernel.
SP == INSTANCE SchedulerProofs WITH Names <- TaskNames, Trunc <- [n \in TaskNames |-> n],
                                    Periods <- TaskPeriods, MaxDrift <- 0, pending <- Len(q)

\* The constants of this kernel are as module Scheduler asks for.
LEMMA SchedulerConstants ==
    /\ MaxTasks \in Nat \ {0} /\ TickMod \in Nat /\ TickMod > 1
    /\ TaskPeriods # {} /\ TaskPeriods \subseteq 0 .. TickMod - 1
    /\ DOMAIN [n \in TaskNames |-> n] = TaskNames
    /\ QueueDepth \in Nat \ {0} /\ 0 \in Nat
  BY RoomForTasks, CounterWidth, RoomForEvents DEF TaskPeriods

\* S and SP instantiate the same definitions.
LEMMA SameInit == S!Init => SP!Init
  BY DEF S!Init, SP!Init, S!Slots, SP!Slots, S!Blank, SP!Blank

LEMMA SameStates ==
    /\ S!Slots = SP!Slots /\ S!MayCall = SP!MayCall
    /\ \A s : S!InState(s) = SP!InState(s)
    /\ \A X : S!Min(X) = SP!Min(X)
<1>1. S!Slots = SP!Slots
  BY DEF S!Slots, SP!Slots
<1>2. S!MayCall = SP!MayCall
  BY DEF S!MayCall, SP!MayCall
<1>3. \A s : S!InState(s) = SP!InState(s)
  BY <1>1 DEF S!InState, SP!InState
<1>4. \A X : S!Min(X) = SP!Min(X)
  BY DEF S!Min, SP!Min
<1> QED
  BY <1>1, <1>2, <1>3, <1>4

LEMMA SameApi == S!Api => SP!Api
<1>1. ASSUME NEW n \in TaskNames, NEW p \in TaskPeriods, S!AddTask(n, p) PROVE SP!AddTask(n, p)
  BY <1>1, SameStates DEF S!AddTask, SP!AddTask, S!tickVars, SP!tickVars
<1>2. ASSUME NEW n \in TaskNames, S!RemoveTask(n) PROVE SP!RemoveTask(n)
  <2>1. S!Matching(n) = SP!Matching(n)
    BY SameStates DEF S!Matching, SP!Matching
  <2> QED
    BY <1>2, <2>1, SameStates DEF S!RemoveTask, SP!RemoveTask, S!tickVars, SP!tickVars
<1>3. S!UseBus => SP!UseBus
  BY SameStates DEF S!UseBus, SP!UseBus, S!tickVars, SP!tickVars
<1> QED
  BY <1>1, <1>2, <1>3 DEF S!Api, SP!Api

LEMMA SameDue == \A k : S!Due(k) <=> SP!Due(k)
  BY DEF S!Due, SP!Due, S!Elapsed, SP!Elapsed

LEMMA SameStep == [S!Next]_S!vars => [SP!Next]_SP!vars
<1>1. UNCHANGED S!vars => UNCHANGED SP!vars
  BY DEF S!vars, SP!vars, S!tickVars, SP!tickVars
<1>2. S!TickStart => SP!TickStart
  <2>1. S!Reaped = SP!Reaped
    BY SameStates DEF S!Reaped, SP!Reaped
  <2> QED
    BY <2>1, SameStates DEF S!TickStart, SP!TickStart
<1>3. S!RunTask => SP!RunTask
  BY SameDue DEF S!RunTask, SP!RunTask
<1>4. S!SkipTask => SP!SkipTask
  BY SameDue DEF S!SkipTask, SP!SkipTask
<1>5. S!TickEnd => SP!TickEnd
  BY DEF S!TickEnd, SP!TickEnd
<1>6. S!TaskReturn => SP!TaskReturn
  BY DEF S!TaskReturn, SP!TaskReturn
<1> QED
  BY <1>1, <1>2, <1>3, <1>4, <1>5, <1>6, SameApi
     DEF S!Next, SP!Next, S!TickStep, SP!TickStep

LEMMA SamePromises ==
    /\ SP!NeverOverdue => S!NeverOverdue
    /\ SP!RunsEveryNTicks => S!RunsEveryNTicks
<1>1. \A k : S!Every(k) = SP!Every(k)
  BY DEF S!Every, SP!Every
<1>2. SP!NeverOverdue => S!NeverOverdue
  BY <1>1, SameStates DEF S!NeverOverdue, SP!NeverOverdue
<1> DEFINE Exact == \A k \in S!Slots \cap ran :
               (task_table[k].state = "READY" /\ task_table'[k].state = "RUNNING")
                   => gap[k] = S!Every(k)
           ExactP == \A k \in SP!Slots \cap ran :
               (task_table[k].state = "READY" /\ task_table'[k].state = "RUNNING")
                   => gap[k] = SP!Every(k)
<1>3. [ExactP]_SP!vars => [Exact]_S!vars
  BY <1>1, SameStates DEF S!vars, SP!vars, S!tickVars, SP!tickVars
<1>4. SP!RunsEveryNTicks => S!RunsEveryNTicks
  BY <1>3, PTL DEF S!RunsEveryNTicks, SP!RunsEveryNTicks
<1> QED
  BY <1>2, <1>4

\* heartbeat, event_drain, mirror_sync and the others of kernel_main are never
\* late, and from one run of each to the next exactly its period of ticks begins,
\* whatever the keys make the menu do and however often sched_tick wraps.
THEOREM BuiltinTasksOnTime == KernelSpec => []S!NeverOverdue /\ S!RunsEveryNTicks
<1>1. SP!Spec => []SP!NeverOverdue
  BY SchedulerConstants, SP!NoTaskIsLate
<1>2. SP!Spec => SP!RunsEveryNTicks
  BY SchedulerConstants, SP!PeriodsAreExact
<1>3. S!Spec => SP!Spec
  BY SameInit, SameStep, PTL DEF S!Spec, SP!Spec
<1>4. KernelSpec => S!Spec
  BY LoopUsesScheduler DEF UsesScheduler
<1>5. SP!NeverOverdue => S!NeverOverdue
  BY SamePromises
<1>6. SP!RunsEveryNTicks => S!RunsEveryNTicks
  BY SamePromises
<1> QED
  BY <1>1, <1>2, <1>3, <1>4, <1>5, <1>6, PTL

-----------------------------------------------------------------------------
\* What is printed are characters: the digits of numbers too.
LEMMA DigitIsChar == \A k \in 1 .. 16 : DigitChar[k] \in Char
<1>1. Len(DigitChar) = 16 /\ DOMAIN DigitChar = 1 .. 16
  BY DEF DigitChar
<1> HIDE DEF DigitChar
<1> QED
  BY <1>1, Characters

LEMMA PlainIsChar ==
    /\ Control \subseteq Char /\ " " \in Char /\ "-" \in Char /\ "x" \in Char /\ "0" \in Char
<1>1. DigitChar[1] = "0"
  BY DEF DigitChar
<1>2. "0" \in Char
  BY <1>1, DigitIsChar
<1> HIDE DEF DigitChar
<1>3. Control \subseteq Char /\ " " \in Char /\ "-" \in Char /\ "x" \in Char
  BY Characters
<1> QED
  BY <1>2, <1>3

LEMMA ShortTexts ==
    ASSUME NEW c \in Char, NEW d \in Char
    PROVE  <<c>> \in Seq(Char) /\ <<c, d>> \in Seq(Char)
  OBVIOUS

LEMMA HexIsText ==
    ASSUME NEW u \in Nat
    PROVE  Hex(u) \in Seq(Char)
<1> DEFINE N == Nibbles
           Def(f) == f = [k \in 0 .. N |-> IF k = 0 THEN u ELSE f[k - 1] \div 16]
           step == [k \in 1 .. N |-> [a \in Nat |-> a \div 16]]
           shifted == CHOOSE f : Def(f)
           digits == [k \in 1 .. N |-> DigitChar[(shifted[N - k] % 16) + 1]]
<1>1. N \in Nat
  BY WordWidth
<1>2. Hex(u) = <<"0", "x">> \o digits
  BY DEF Hex
<1> HIDE DEF N
<1>3. \E f \in [0 .. N -> Nat] : Def(f)
  <2>1. \A a \in Nat : a \div 16 \in Nat
    OBVIOUS
  <2>2. step \in [1 .. N -> [Nat -> Nat]] /\ \A k \in 1 .. N, a \in Nat : step[k][a] = a \div 16
    BY <2>1
  <2> HIDE DEF step
  <2>3. PICK f \in [0 .. N -> Nat] : Recurs(f, N, u, step)
    BY <1>1, <2>2, RecursionExists
  <2>4. \A k \in 1 .. N : f[k - 1] \in Nat /\ f[k] = f[k - 1] \div 16
    <3> TAKE k \in 1 .. N
    <3>1. k - 1 \in 0 .. N /\ f[k - 1] \in Nat
      BY <1>1, <2>3
    <3>2. f[k] = step[k][f[k - 1]]
      BY <2>3 DEF Recurs
    <3> QED
      BY <2>2, <3>1, <3>2
  <2>5. Def(f)
    BY <1>1, <2>3, <2>4 DEF Recurs
  <2> QED
    BY <2>5
<1>4. Def(shifted)
  BY <1>3
<1> HIDE DEF shifted
<1>5. shifted[0] = u /\ \A k \in 1 .. N : shifted[k] = shifted[k - 1] \div 16
  BY <1>1, <1>4
<1> DEFINE Sound == {k \in 0 .. N : shifted[k] \in Nat}
<1>6. 0 .. N \subseteq Sound
  <2>1. 0 \in Sound /\ \A k \in 1 .. N : k - 1 \in Sound => k \in Sound
    BY <1>1, <1>5
  <2> HIDE DEF Sound
  <2> QED
    BY <1>1, <2>1, BoundedInduction
<1>7. \A k \in 1 .. N : digits[k] \in Char
  <2> TAKE k \in 1 .. N
  <2>1. shifted[N - k] \in Nat
    BY <1>1, <1>6
  <2>2. (shifted[N - k] % 16) + 1 \in 1 .. 16
    BY <2>1
  <2> QED
    BY <2>2, DigitIsChar
<1>8. digits \in Seq(Char)
  BY <1>1, <1>7
<1> HIDE DEF digits
<1>9. <<"0", "x">> \in Seq(Char)
  BY PlainIsChar, ShortTexts
<1> QED
  BY <1>2, <1>8, <1>9

\* The equation that defines Digits, for any function.
NextDigits(f, u) == IF u < 10 THEN <<DigitChar[u + 1]>>
                    ELSE f[u \div 10] \o <<DigitChar[(u % 10) + 1]>>

\* ... has a solution up to every number,
LEMMA DigitsUpTo ==
    ASSUME NEW N \in Nat
    PROVE  \E f \in [0 .. N -> Seq(Char)] : \A u \in 0 .. N : f[u] = NextDigits(f, u)
<1> DEFINE Good(f, n) == \A u \in 0 .. n : f[u] = NextDigits(f, u)
           Sound == {n \in 0 .. N : \E f \in [0 .. n -> Seq(Char)] : Good(f, n)}
<1>1. 0 \in Sound
  <2> DEFINE f == [u \in 0 .. 0 |-> <<DigitChar[1]>>]
  <2>1. f \in [0 .. 0 -> Seq(Char)] /\ f[0] = NextDigits(f, 0)
    BY DigitIsChar DEF NextDigits
  <2> HIDE DEF f
  <2>2. Good(f, 0)
    BY <2>1
  <2> HIDE DEF Good
  <2> QED
    BY <2>1, <2>2
<1>2. ASSUME NEW n \in 1 .. N, n - 1 \in Sound PROVE n \in Sound
  <2>1. PICK f \in [0 .. n - 1 -> Seq(Char)] : Good(f, n - 1)
    BY <1>2
  <2> DEFINE g == [u \in 0 .. n |-> IF u = n THEN NextDigits(f, n) ELSE f[u]]
  <2>2. NextDigits(f, n) \in Seq(Char)
    <3>1. CASE n < 10
      <4>1. n + 1 \in 1 .. 16 /\ NextDigits(f, n) = <<DigitChar[n + 1]>>
        BY <3>1 DEF NextDigits
      <4> QED
        BY <4>1, DigitIsChar, ShortTexts
    <3>2. CASE n >= 10
      <4>1. n \div 10 \in 0 .. n - 1 /\ (n % 10) + 1 \in 1 .. 16
        BY <3>2
      <4>2. f[n \div 10] \in Seq(Char)
        BY <2>1, <4>1
      <4>3. <<DigitChar[(n % 10) + 1]>> \in Seq(Char)
        BY <4>1, DigitIsChar, ShortTexts
      <4>4. NextDigits(f, n) = f[n \div 10] \o <<DigitChar[(n % 10) + 1]>>
        BY <3>2 DEF NextDigits
      <4> QED
        BY <4>2, <4>3, <4>4
    <3> QED
      BY <3>1, <3>2
  <2>3. g \in [0 .. n -> Seq(Char)]
    BY <2>2
  <2>4. Good(g, n)
    <3> TAKE u \in 0 .. n
    <3>1. u >= 10 => u \div 10 \in 0 .. n - 1 /\ u \div 10 # n
      OBVIOUS
    <3>2. NextDigits(g, u) = NextDigits(f, u)
      BY <3>1 DEF NextDigits
    <3>3. g[u] = NextDigits(f, u)
      <4>1. CASE u = n
        BY <4>1
      <4>2. CASE u # n
        <5>1. u \in 0 .. n - 1
          BY <4>2
        <5> QED
          BY <2>1, <4>2, <5>1
      <4> QED
        BY <4>1, <4>2
    <3> QED
      BY <3>2, <3>3
  <2> HIDE DEF g, Good
  <2> QED
    BY <2>3, <2>4
<1> HIDE DEF Sound
<1>3. N \in Sound
  <2>1. 0 .. N \subseteq Sound
    BY <1>1, <1>2, BoundedInduction
  <2> QED
    BY <2>1
<1> QED
  BY <1>3 DEF Sound

\* ... and only one.
LEMMA DigitsUnique ==
    ASSUME NEW N \in Nat, NEW f, NEW g,
           \A u \in 0 .. N : f[u] = NextDigits(f, u) /\ g[u] = NextDigits(g, u)
    PROVE  \A u \in 0 .. N : f[u] = g[u]
<1> DEFINE Bad == {u \in 0 .. N : f[u] # g[u]}
<1> SUFFICES ASSUME Bad # {} PROVE FALSE
  OBVIOUS
<1>1. Bad \subseteq Nat
  OBVIOUS
<1> DEFINE m == Min(Bad)
<1>2. m \in Bad /\ \A k \in Bad : m <= k
  BY <1>1, MinOfNaturals
<1> HIDE DEF m
<1>3. m >= 10 => m \div 10 \in 0 .. N /\ m \div 10 < m
  BY <1>2
<1>4. m >= 10 => f[m \div 10] = g[m \div 10]
  <2>1. m >= 10 => ~(m <= m \div 10)
    BY <1>2, <1>3
  <2> QED
    BY <1>2, <1>3, <2>1
<1>5. NextDigits(f, m) = NextDigits(g, m)
  BY <1>2, <1>4 DEF NextDigits
<1> QED
  BY <1>2, <1>5

LEMMA DigitsAreText == \A u \in Nat : Digits[u] \in Seq(Char)
<1> DEFINE Good(f, n) == \A u \in 0 .. n : f[u] = NextDigits(f, u)
           upTo == [n \in Nat |-> CHOOSE f \in [0 .. n -> Seq(Char)] : Good(f, n)]
           D == [n \in Nat |-> upTo[n][n]]
<1>1. \A n \in Nat : upTo[n] \in [0 .. n -> Seq(Char)] /\ Good(upTo[n], n)
  BY DigitsUpTo
<1> HIDE DEF upTo
<1>2. \A n \in Nat, u \in Nat : u <= n => upTo[n][u] = upTo[u][u]
  <2> TAKE n \in Nat, u \in Nat
  <2> SUFFICES ASSUME u <= n PROVE upTo[n][u] = upTo[u][u]
    OBVIOUS
  <2>1. \A k \in 0 .. u : upTo[n][k] = NextDigits(upTo[n], k) /\ upTo[u][k] = NextDigits(upTo[u], k)
    BY <1>1
  <2>2. \A k \in 0 .. u : upTo[n][k] = upTo[u][k]
    BY <2>1, DigitsUnique
  <2> QED
    BY <2>2
<1>3. \A u \in Nat : D[u] = NextDigits(D, u)
  <2> TAKE u \in Nat
  <2>1. D[u] = NextDigits(upTo[u], u)
    BY <1>1
  <2>2. u >= 10 => u \div 10 \in Nat /\ u \div 10 <= u
    OBVIOUS
  <2>3. u >= 10 => upTo[u][u \div 10] = D[u \div 10]
    BY <1>2, <2>2
  <2> QED
    BY <2>1, <2>3 DEF NextDigits
<1>4. D \in [Nat -> Seq(Char)]
  <2>1. \A n \in Nat : upTo[n][n] \in Seq(Char)
    BY <1>1
  <2> QED
    BY <2>1
<1> HIDE DEF D
<1>5. D = [u \in Nat |-> NextDigits(D, u)]
  BY <1>3, <1>4
<1> DEFINE Def(f) == f = [u \in Nat |-> IF u < 10 THEN <<DigitChar[u + 1]>>
                                        ELSE f[u \div 10] \o <<DigitChar[(u % 10) + 1]>>]
<1>6. Def(D)
  BY <1>5 DEF NextDigits
<1>7. Def(Digits)
  <2>1. Digits = CHOOSE f : Def(f)
    BY DEF Digits
  <2> HIDE DEF Def
  <2> QED
    BY <1>6, <2>1
<1>8. \A u \in Nat : Digits[u] = NextDigits(Digits, u)
  BY <1>7 DEF NextDigits
<1> QED
  <2> TAKE u \in Nat
  <2>1. \A k \in 0 .. u : Digits[k] = NextDigits(Digits, k) /\ D[k] = NextDigits(D, k)
    BY <1>3, <1>8
  <2>2. Digits[u] = D[u]
    BY <2>1, DigitsUnique
  <2> QED
    BY <1>4, <2>2

\* What the conversions of vga_printf print is text.
LEMMA FormattedIsText ==
    ASSUME NEW conv \in {"d", "u", "x"}, NEW v \in (IF conv = "d" THEN Int32 ELSE Uint32)
    PROVE  Formatted(conv, v) \in Seq(Char)
<1>0. WordMod \in Nat \ {0}
  BY WordWidth
<1>1. CASE conv = "d" /\ v < 0
  <2>1. v \in Int /\ (-v) % WordMod \in Nat
    BY <1>0, <1>1 DEF Int32
  <2>2. Formatted(conv, v) = <<"-">> \o Digits[(-v) % WordMod]
    BY <1>1 DEF Formatted, Dec
  <2>3. <<"-">> \in Seq(Char)
    BY PlainIsChar, ShortTexts
  <2>4. Digits[(-v) % WordMod] \in Seq(Char)
    BY <2>1, DigitsAreText
  <2> QED
    BY <2>2, <2>3, <2>4
<1>2. CASE conv = "d" /\ ~(v < 0)
  <2>1. v \in Nat
    BY <1>2 DEF Int32
  <2> QED
    BY <1>2, <2>1, DigitsAreText DEF Formatted, Dec
<1>3. CASE conv = "u"
  <2>1. v \in Nat
    BY <1>3 DEF Uint32
  <2> QED
    BY <1>3, <2>1, DigitsAreText DEF Formatted, Dec
<1>4. CASE conv = "x"
  <2>1. v \in Nat
    BY <1>4 DEF Uint32
  <2> QED
    BY <1>4, <2>1, HexIsText DEF Formatted
<1> QED
  BY <1>1, <1>2, <1>3, <1>4

-----------------------------------------------------------------------------
\* Two solutions of a recursion agree as far as both go.
LEMMA RecursionUnique ==
    ASSUME NEW N \in Nat, NEW f, NEW g, f[0] = g[0],
           \A n \in 1 .. N : f[n - 1] = g[n - 1] => f[n] = g[n]
    PROVE  \A n \in 0 .. N : f[n] = g[n]
<1> DEFINE Sound == {n \in 0 .. N : f[n] = g[n]}
<1>1. 0 \in Sound /\ \A n \in 1 .. N : n - 1 \in Sound => n \in Sound
  OBVIOUS
<1> HIDE DEF Sound
<1>2. 0 .. N \subseteq Sound
  BY <1>1, BoundedInduction
<1> QED
  BY <1>2 DEF Sound

\* The tab stop that (col + 8) & ~7 gives is the next one.
LEMMA TabIsNext ==
    ASSUME NEW col \in Nat
    PROVE  /\ NextTab(col) \in col + 1 .. col + TabStop
           /\ (CHOOSE t \in col + 1 .. col + TabStop : t % TabStop = 0) = NextTab(col)
<1> DEFINE d == TabStop
           a == (col + d) \div d
           r == (col + d) % d
           next == NextTab(col)
<1>0. d \in Nat \ {0}
  BY TabsDivide
<1>1. a \in Int /\ r \in 0 .. d - 1 /\ col + d = d * a + r /\ next = a * d
  <2>1. col + d \in Int
    BY <1>0
  <2>2. a \in Int /\ r \in 0 .. d - 1 /\ col + d = d * a + r
    BY <1>0, <2>1, DivMod, ModRange
  <2>3. next = a * d
    BY DEF NextTab
  <2> QED
    BY <2>2, <2>3
<1> HIDE DEF d, a, r, next
<1>2. next = d * a /\ next \in Int
  BY <1>0, <1>1
<1>3. next \in col + 1 .. col + d
  BY <1>0, <1>1, <1>2
<1>4. next % d = 0
  <2>1. 0 \in 0 .. d - 1
    BY <1>0
  <2>2. (d * a + 0) % d = 0
    BY <1>0, <1>1, <2>1, ModUnique
  <2> QED
    BY <1>2, <2>2
<1>5. ASSUME NEW t \in col + 1 .. col + d, t % d = 0 PROVE t = next
  <2>1. CASE t > next
    <3>1. t - next \in 0 .. d - 1
      BY <1>0, <1>3, <2>1
    <3>2. (d * a + (t - next)) % d = t - next
      BY <1>0, <1>1, <3>1, ModUnique
    <3>3. d * a + (t - next) = t
      BY <1>0, <1>1, <1>2
    <3> QED
      BY <1>5, <2>1, <3>2, <3>3, <1>2
  <2>2. CASE t < next
    <3>1. d + t - next \in 1 .. d - 1
      BY <1>0, <1>3, <2>2
    <3>2. (d * (a - 1) + (d + t - next)) % d = d + t - next
      <4>1. a - 1 \in Int /\ d + t - next \in 0 .. d - 1
        BY <1>0, <1>1, <3>1
      <4> QED
        BY <1>0, <4>1, ModUnique
    <3>3. d * (a - 1) + (d + t - next) = t
      <4>1. d * (a - 1) = d * a - d
        BY <1>0, <1>1
      <4> QED
        BY <1>0, <1>1, <1>2, <4>1
    <3> QED
      BY <1>5, <3>1, <3>2, <3>3
  <2> QED
    BY <1>2, <2>1, <2>2
<1>6. (CHOOSE t \in col + 1 .. col + d : t % d = 0) = next
  BY <1>3, <1>4, <1>5, Zenon
<1> QED
  BY <1>3, <1>6 DEF d, next

\* The pages that text makes.
Pages == {p \in [rows : Seq([Cols -> Char]), col : Cols] : Len(p.rows) >= 1}

NoText == [rows |-> <<BlankRow>>, col |-> 0]

LEMMA ColsAndRows ==
    /\ Width \in Nat /\ Width > 0 /\ Height \in Nat /\ Height > 1
    /\ 0 \in Cols /\ BlankRow \in [Cols -> Char] /\ NoText \in Pages
<1>1. Width \in Nat /\ Width > 0 /\ Height \in Nat /\ Height > 1 /\ 0 \in Cols
  BY ScreenSize DEF Cols
<1>2. BlankRow \in [Cols -> Char]
  BY PlainIsChar DEF BlankRow
<1>3. <<BlankRow>> \in Seq([Cols -> Char]) /\ Len(<<BlankRow>>) = 1
  BY <1>2
<1> QED
  BY <1>1, <1>2, <1>3 DEF NoText, Pages

\* The last row of a page with a character at one place.
Inked(rows, col, c) == [rows EXCEPT ![Len(rows)][col] = c]

LEMMA InkedIs ==
    ASSUME NEW rows \in Seq([Cols -> Char]), Len(rows) >= 1, NEW col \in Cols, NEW c \in Char
    PROVE  /\ Inked(rows, col, c) \in Seq([Cols -> Char])
           /\ Len(Inked(rows, col, c)) = Len(rows)
           /\ \A k \in 1 .. Len(rows) : Inked(rows, col, c)[k] =
                 IF k = Len(rows) THEN [rows[k] EXCEPT ![col] = c] ELSE rows[k]
<1> DEFINE L == Len(rows)
           last == [rows[L] EXCEPT ![col] = c]
<1>1. L \in 1 .. Len(rows) /\ rows[L] \in [Cols -> Char] /\ last \in [Cols -> Char]
  OBVIOUS
<1>2. Inked(rows, col, c) = [rows EXCEPT ![L] = last]
  BY DEF Inked
<1> HIDE DEF last
<1>3. /\ Inked(rows, col, c) \in Seq([Cols -> Char]) /\ Len(Inked(rows, col, c)) = L
      /\ \A k \in 1 .. L : Inked(rows, col, c)[k] = IF k = L THEN last ELSE rows[k]
  BY <1>1, <1>2
<1> QED
  BY <1>3 DEF last

\* What a character does to a page, by the position it leaves.
LEMMA TypedIs ==
    ASSUME NEW p \in Pages, NEW c \in Char
    PROVE  /\ c = "LF" => Typed(p, c) = NewRow(p)
           /\ c = "CR" => Typed(p, c) = [rows |-> p.rows, col |-> 0]
           /\ c = "TAB" => Typed(p, c) = IF NextTab(p.col) < Width
                                         THEN [rows |-> p.rows, col |-> NextTab(p.col)]
                                         ELSE NewRow(p)
           /\ c = "BS" => Typed(p, c) =
                  IF p.col = 0 THEN p
                  ELSE [rows |-> Inked(p.rows, p.col - 1, " "), col |-> p.col - 1]
           /\ c \notin Control => Typed(p, c) =
                  LET rows == Inked(p.rows, p.col, c) IN
                  IF p.col + 1 < Width THEN [rows |-> rows, col |-> p.col + 1]
                  ELSE [rows |-> Append(rows, BlankRow), col |-> 0]
<1>1. p \in [rows : Seq([Cols -> Char]), col : Cols] /\ p.col \in Nat
  BY ColsAndRows DEF Pages, Cols
<1>2. c = "LF" => Typed(p, c) = NewRow(p)
  BY DEF Typed
<1>3. c = "CR" => Typed(p, c) = [rows |-> p.rows, col |-> 0]
  BY <1>1 DEF Typed
<1>4. c = "TAB" => Typed(p, c) = IF NextTab(p.col) < Width
                                 THEN [rows |-> p.rows, col |-> NextTab(p.col)]
                                 ELSE NewRow(p)
  <2> DEFINE tab == CHOOSE t \in p.col + 1 .. p.col + TabStop : t % TabStop = 0
  <2>1. c = "TAB" => Typed(p, c) = IF tab < Width THEN [p EXCEPT !.col = tab] ELSE NewRow(p)
    BY DEF Typed
  <2>2. tab = NextTab(p.col)
    BY <1>1, TabIsNext
  <2> HIDE DEF tab
  <2> QED
    BY <1>1, <2>1, <2>2
<1>5. c = "BS" => Typed(p, c) =
          IF p.col = 0 THEN p
          ELSE [rows |-> Inked(p.rows, p.col - 1, " "), col |-> p.col - 1]
  BY DEF Typed, Inked
<1>6. c \notin Control => Typed(p, c) =
          LET rows == Inked(p.rows, p.col, c) IN
          IF p.col + 1 < Width THEN [rows |-> rows, col |-> p.col + 1]
          ELSE [rows |-> Append(rows, BlankRow), col |-> 0]
  <2> DEFINE inked == [rows |-> Inked(p.rows, p.col, c), col |-> p.col + 1]
  <2>1. c \notin Control => Typed(p, c) = IF inked.col < Width THEN inked ELSE NewRow(inked)
    BY DEF Typed, Inked, Control
  <2> QED
    BY <2>1 DEF NewRow
<1> QED
  BY <1>2, <1>3, <1>4, <1>5, <1>6

LEMMA NewRowIs ==
    ASSUME NEW rows \in Seq([Cols -> Char]), Len(rows) >= 1
    PROVE  /\ Append(rows, BlankRow) \in Seq([Cols -> Char])
           /\ Len(Append(rows, BlankRow)) = Len(rows) + 1
           /\ \A k \in 1 .. Len(rows) : Append(rows, BlankRow)[k] = rows[k]
           /\ Append(rows, BlankRow)[Len(rows) + 1] = BlankRow
  BY ColsAndRows

\* A page with another character is a page.
LEMMA TypedIsPage ==
    ASSUME NEW p \in Pages, NEW c \in Char
    PROVE  Typed(p, c) \in Pages
<1>0. p.rows \in Seq([Cols -> Char]) /\ Len(p.rows) >= 1 /\ p.col \in Cols
      /\ p = [rows |-> p.rows, col |-> p.col]
  BY DEF Pages
<1>1. ASSUME NEW rows \in Seq([Cols -> Char]), NEW col \in Cols, Len(rows) >= 1
      PROVE  [rows |-> rows, col |-> col] \in Pages
  BY <1>1 DEF Pages
<1>2. ASSUME NEW rows \in Seq([Cols -> Char]), Len(rows) >= 1
      PROVE  [rows |-> Append(rows, BlankRow), col |-> 0] \in Pages
  BY <1>1, <1>2, NewRowIs, ColsAndRows
<1>3. NewRow(p) \in Pages
  BY <1>0, <1>2 DEF NewRow
<1>4. CASE c = "LF"
  BY <1>3, <1>4, TypedIs
<1>5. CASE c = "CR"
  BY <1>0, <1>1, <1>5, TypedIs, ColsAndRows
<1>6. CASE c = "TAB"
  <2>1. NextTab(p.col) < Width => NextTab(p.col) \in Cols
    <3>1. Width \in Nat /\ p.col \in Nat /\ TabStop \in Nat
      BY <1>0, ColsAndRows, TabsDivide DEF Cols
    <3>2. NextTab(p.col) \in p.col + 1 .. p.col + TabStop
      BY <3>1, TabIsNext
    <3> QED
      BY <3>1, <3>2 DEF Cols
  <2>2. CASE NextTab(p.col) < Width
    BY <1>0, <1>1, <1>6, <2>1, <2>2, TypedIs
  <2>3. CASE ~(NextTab(p.col) < Width)
    BY <1>3, <1>6, <2>3, TypedIs
  <2> QED
    BY <2>2, <2>3
<1>7. CASE c = "BS"
  <2>1. CASE p.col = 0
    BY <1>7, <2>1, TypedIs
  <2>2. CASE p.col # 0
    <3>1. p.col - 1 \in Cols
      BY <1>0, <2>2, ColsAndRows DEF Cols
    <3>2. Inked(p.rows, p.col - 1, " ") \in Seq([Cols -> Char])
          /\ Len(Inked(p.rows, p.col - 1, " ")) = Len(p.rows)
      <4> DEFINE rows == p.rows
                 col  == p.col - 1
      <4>1. " " \in Char /\ col \in Cols
        BY <3>1, PlainIsChar
      <4>2. rows \in Seq([Cols -> Char]) /\ Len(rows) >= 1
        BY <1>0
      <4> HIDE DEF rows, col
      <4>3. Inked(rows, col, " ") \in Seq([Cols -> Char]) /\ Len(Inked(rows, col, " ")) = Len(rows)
        BY <4>1, <4>2, InkedIs
      <4> QED
        BY <4>3 DEF rows, col
    <3>3. Typed(p, c) = [rows |-> Inked(p.rows, p.col - 1, " "), col |-> p.col - 1]
      BY <1>7, <2>2, TypedIs
    <3> QED
      BY <1>0, <1>1, <3>1, <3>2, <3>3
  <2> QED
    BY <2>1, <2>2
<1>8. CASE c \notin Control
  <2> DEFINE rows == Inked(p.rows, p.col, c)
  <2>1. rows \in Seq([Cols -> Char]) /\ Len(rows) >= 1
    BY <1>0, InkedIs
  <2>2. Typed(p, c) = IF p.col + 1 < Width THEN [rows |-> rows, col |-> p.col + 1]
                      ELSE [rows |-> Append(rows, BlankRow), col |-> 0]
    BY <1>8, TypedIs
  <2> HIDE DEF rows
  <2>3. p.col + 1 < Width => p.col + 1 \in Cols
    BY <1>0, ColsAndRows DEF Cols
  <2> QED
    BY <1>1, <1>2, <2>1, <2>2, <2>3
<1> QED
  BY <1>4, <1>5, <1>6, <1>7, <1>8 DEF Control

\* The function that PageOf defines.
PageTable(t) ==
    CHOOSE page : page = [n \in 0 .. Len(t) |->
        IF n = 0 THEN [rows |-> <<BlankRow>>, col |-> 0] ELSE Typed(page[n - 1], t[n])]

LEMMA PageTableIs ==
    ASSUME NEW t \in Seq(Char)
    PROVE  /\ PageOf(t) = PageTable(t)[Len(t)]
           /\ PageTable(t)[0] = NoText
           /\ \A n \in 1 .. Len(t) : PageTable(t)[n] = Typed(PageTable(t)[n - 1], t[n])
           /\ \A n \in 0 .. Len(t) : PageTable(t)[n] \in Pages
<1> DEFINE N == Len(t)
           Def(f) == f = [n \in 0 .. N |->
               IF n = 0 THEN [rows |-> <<BlankRow>>, col |-> 0] ELSE Typed(f[n - 1], t[n])]
           step == [n \in 1 .. N |-> [a \in Pages |-> Typed(a, t[n])]]
           page == CHOOSE f : Def(f)
<1>1. N \in Nat /\ \A n \in 1 .. N : t[n] \in Char
  OBVIOUS
<1>2. PageTable(t) = page /\ PageOf(t) = page[N]
  BY DEF PageTable, PageOf
<1>3. \E f : Def(f)
  <2> HIDE DEF N
  <2>1. /\ step \in [1 .. N -> [Pages -> Pages]]
        /\ \A n \in 1 .. N, a \in Pages : step[n][a] = Typed(a, t[n])
    BY <1>1, TypedIsPage
  <2> HIDE DEF step
  <2>2. PICK f \in [0 .. N -> Pages] : Recurs(f, N, NoText, step)
    BY <1>1, <2>1, ColsAndRows, RecursionExists
  <2>3. \A n \in 1 .. N : f[n] = Typed(f[n - 1], t[n])
    <3> TAKE n \in 1 .. N
    <3>1. n - 1 \in 0 .. N /\ f[n - 1] \in Pages
      BY <1>1, <2>2
    <3> QED
      BY <2>1, <2>2, <3>1 DEF Recurs
  <2>4. Def(f)
    BY <1>1, <2>2, <2>3 DEF Recurs, NoText
  <2> QED
    BY <2>4
<1>4. Def(page)
  BY <1>3
<1> HIDE DEF page, N
<1>5. page[0] = NoText /\ \A n \in 1 .. N : page[n] = Typed(page[n - 1], t[n])
  BY <1>1, <1>4 DEF NoText
<1> DEFINE Sound == {n \in 0 .. N : page[n] \in Pages}
<1>6. 0 .. N \subseteq Sound
  <2>1. 0 \in Sound
    BY <1>1, <1>5, ColsAndRows
  <2>2. \A n \in 1 .. N : n - 1 \in Sound => n \in Sound
    BY <1>1, <1>5, TypedIsPage
  <2> HIDE DEF Sound
  <2> QED
    BY <1>1, <2>1, <2>2, BoundedInduction
<1> QED
  BY <1>2, <1>5, <1>6 DEF N

\* Text is typed character by character.
LEMMA PageOfIs ==
    ASSUME NEW t \in Seq(Char), NEW c \in Char
    PROVE  /\ PageOf(<<>>) = NoText
           /\ PageOf(t) \in Pages
           /\ PageOf(Append(t, c)) = Typed(PageOf(t), c)
<1> DEFINE u == Append(t, c)
           N == Len(t)
<1>1. u \in Seq(Char) /\ Len(u) = N + 1 /\ N \in Nat /\ u[N + 1] = c /\ \A n \in 1 .. N : u[n] = t[n]
  OBVIOUS
<1> HIDE DEF u
<1>2. PageOf(<<>>) = NoText
  <2>1. <<>> \in Seq(Char) /\ Len(<<>>) = 0
    OBVIOUS
  <2> QED
    BY <2>1, PageTableIs
<1>3. PageOf(t) \in Pages
  BY <1>1, PageTableIs
<1>4. \A n \in 0 .. N : PageTable(u)[n] = PageTable(t)[n]
  <2>1. PageTable(u)[0] = PageTable(t)[0]
    BY <1>1, PageTableIs
  <2>2. \A n \in 1 .. N : PageTable(u)[n] = Typed(PageTable(u)[n - 1], t[n])
                          /\ PageTable(t)[n] = Typed(PageTable(t)[n - 1], t[n])
    BY <1>1, PageTableIs
  <2> DEFINE f == PageTable(u)
             g == PageTable(t)
  <2>0. f[0] = g[0]
    BY <2>1
  <2>3. \A n \in 1 .. N : f[n - 1] = g[n - 1] => f[n] = g[n]
    BY <2>2
  <2> HIDE DEF f, g, N
  <2>4. N \in Nat
    BY <1>1
  <2>5. \A n \in 0 .. N : f[n] = g[n]
    BY <2>0, <2>3, <2>4, RecursionUnique
  <2> QED
    BY <2>5 DEF f, g
<1>5. PageTable(u)[N + 1] = Typed(PageTable(u)[N], c)
  <2> DEFINE k == N + 1
  <2>1. k \in 1 .. Len(u) /\ k - 1 = N /\ u[k] = c
    BY <1>1
  <2> HIDE DEF k
  <2>2. PageTable(u)[k] = Typed(PageTable(u)[k - 1], u[k])
    BY <1>1, <2>1, PageTableIs
  <2>3. PageTable(u)[k] = Typed(PageTable(u)[N], c)
    BY <2>1, <2>2
  <2> QED
    BY <2>3 DEF k
<1>6. PageOf(u) = PageTable(u)[N + 1] /\ PageOf(t) = PageTable(t)[N]
  BY <1>1, PageTableIs
<1>7. PageOf(u) = Typed(PageOf(t), c)
  BY <1>1, <1>4, <1>5, <1>6
<1> QED
  BY <1>2, <1>3, <1>7 DEF u

\* What serial_mirror_char sends are characters.
LEMMA TerminalIsText == \A c \in Char : OnTerminal(c) \in Seq(Char)
<1>1. "CR" \in Char /\ "LF" \in Char
  BY PlainIsChar DEF Control
<1> QED
  BY <1>1, ShortTexts DEF OnTerminal

Sent(bytes, c) == bytes \o OnTerminal(c)

\* The function that Carried defines.
CarriedTable(t) ==
    CHOOSE bytes : bytes = [n \in 0 .. Len(t) |->
        IF n = 0 THEN <<>> ELSE Sent(bytes[n - 1], t[n])]

LEMMA CarriedTableIs ==
    ASSUME NEW t \in Seq(Char)
    PROVE  /\ Carried(t) = CarriedTable(t)[Len(t)]
           /\ CarriedTable(t)[0] = <<>>
           /\ \A n \in 1 .. Len(t) : CarriedTable(t)[n] = Sent(CarriedTable(t)[n - 1], t[n])
           /\ \A n \in 0 .. Len(t) : CarriedTable(t)[n] \in Seq(Char)
<1> DEFINE N == Len(t)
           T == Seq(Char)
           Def(f) == f = [n \in 0 .. N |-> IF n = 0 THEN <<>> ELSE Sent(f[n - 1], t[n])]
           step == [n \in 1 .. N |-> [a \in T |-> Sent(a, t[n])]]
           bytes == CHOOSE f : Def(f)
<1>1. N \in Nat /\ \A n \in 1 .. N : t[n] \in Char
  OBVIOUS
<1>2. CarriedTable(t) = bytes /\ Carried(t) = bytes[N]
  BY Zenon DEF CarriedTable, Carried, Sent
<1>0. <<>> \in T /\ \A a \in T, x \in Char : Sent(a, x) \in T
  BY TerminalIsText DEF Sent
<1> HIDE DEF T
<1>3. \E f : Def(f)
  <2> HIDE DEF N
  <2>1. /\ step \in [1 .. N -> [T -> T]]
        /\ \A n \in 1 .. N, a \in T : step[n][a] = Sent(a, t[n])
    BY <1>0, <1>1
  <2> HIDE DEF step
  <2>2. PICK f \in [0 .. N -> T] : Recurs(f, N, <<>>, step)
    BY <1>0, <1>1, <2>1, RecursionExists
  <2>3. \A n \in 1 .. N : f[n] = Sent(f[n - 1], t[n])
    <3> TAKE n \in 1 .. N
    <3>1. n - 1 \in 0 .. N /\ f[n - 1] \in T
      BY <1>1, <2>2
    <3> QED
      BY <2>1, <2>2, <3>1 DEF Recurs
  <2>4. Def(f)
    BY <1>1, <2>2, <2>3 DEF Recurs
  <2> QED
    BY <2>4
<1>4. Def(bytes)
  BY <1>3
<1> HIDE DEF bytes, N
<1>5. bytes[0] = <<>> /\ \A n \in 1 .. N : bytes[n] = Sent(bytes[n - 1], t[n])
  BY <1>1, <1>4
<1> DEFINE Sound == {n \in 0 .. N : bytes[n] \in T}
<1>6. 0 .. N \subseteq Sound
  <2>1. 0 \in Sound
    BY <1>0, <1>1, <1>5
  <2>2. \A n \in 1 .. N : n - 1 \in Sound => n \in Sound
    BY <1>0, <1>1, <1>5
  <2> HIDE DEF Sound
  <2> QED
    BY <1>1, <2>1, <2>2, BoundedInduction
<1> QED
  BY <1>2, <1>5, <1>6 DEF N, T

\* A text is sent character by character.
LEMMA CarriedIs ==
    ASSUME NEW t \in Seq(Char), NEW c \in Char
    PROVE  /\ Carried(<<>>) = <<>>
           /\ Carried(t) \in Seq(Char)
           /\ Carried(Append(t, c)) = Sent(Carried(t), c)
<1> DEFINE u == Append(t, c)
           N == Len(t)
<1>1. u \in Seq(Char) /\ Len(u) = N + 1 /\ N \in Nat /\ u[N + 1] = c /\ \A n \in 1 .. N : u[n] = t[n]
  OBVIOUS
<1> HIDE DEF u
<1>2. Carried(<<>>) = <<>>
  <2>1. <<>> \in Seq(Char) /\ Len(<<>>) = 0
    OBVIOUS
  <2> QED
    BY <2>1, CarriedTableIs
<1>3. Carried(t) \in Seq(Char)
  BY <1>1, CarriedTableIs
<1>4. \A n \in 0 .. N : CarriedTable(u)[n] = CarriedTable(t)[n]
  <2> DEFINE f == CarriedTable(u)
             g == CarriedTable(t)
  <2>1. f[0] = g[0]
    BY <1>1, CarriedTableIs
  <2>2. \A n \in 1 .. N : /\ f[n] = Sent(f[n - 1], t[n])
                          /\ g[n] = Sent(g[n - 1], t[n])
    <3>1. \A n \in 1 .. N : g[n] = Sent(g[n - 1], t[n])
      BY CarriedTableIs
    <3>2. \A n \in 1 .. Len(u) : f[n] = Sent(f[n - 1], u[n])
      BY <1>1, CarriedTableIs
    <3> HIDE DEF f, g, N
    <3> QED
      BY <1>1, <3>1, <3>2
  <2>3. \A n \in 1 .. N : f[n - 1] = g[n - 1] => f[n] = g[n]
    BY <2>2
  <2> HIDE DEF f, g, N
  <2>4. N \in Nat
    BY <1>1
  <2>5. \A n \in 0 .. N : f[n] = g[n]
    BY <2>1, <2>3, <2>4, RecursionUnique
  <2> QED
    BY <2>5 DEF f, g
<1>5. CarriedTable(u)[N + 1] = Sent(CarriedTable(u)[N], c)
  <2> DEFINE k == N + 1
  <2>1. k \in 1 .. Len(u) /\ k - 1 = N /\ u[k] = c
    BY <1>1
  <2> HIDE DEF k
  <2>2. CarriedTable(u)[k] = Sent(CarriedTable(u)[k - 1], u[k])
    BY <1>1, <2>1, CarriedTableIs
  <2>3. CarriedTable(u)[k] = Sent(CarriedTable(u)[N], c)
    BY <2>1, <2>2
  <2> QED
    BY <2>3 DEF k
<1>6. Carried(u) = CarriedTable(u)[N + 1] /\ Carried(t) = CarriedTable(t)[N]
  BY <1>1, CarriedTableIs
<1>7. Carried(u) = Sent(Carried(t), c)
  BY <1>1, <1>4, <1>5, <1>6
<1> QED
  BY <1>2, <1>3, <1>7 DEF u

-----------------------------------------------------------------------------
\* What a screen shows of a page: its last rows, and blank rows below.
View(rows) ==
    [r \in Rows |-> IF Above(rows) + r < Len(rows) THEN rows[Above(rows) + r + 1] ELSE BlankRow]

\* The last row of the page is this one of the screen.
LastRow(rows) == Len(rows) - 1 - Above(rows)

\* The bytes of the current character that COM1 has not been given.
Owed == CASE put_pc = "cr" -> <<"CR", "LF">>
          [] put_pc = "byte" -> <<Head(todo)>>
          [] OTHER -> <<>>

Traced == SubSeq(text, from + 1, Len(text))

ConsoleTypes ==
    /\ todo \in Seq(Char) /\ text \in Seq(Char) /\ wire \in Seq(Char)
    /\ cursor \in 0 .. Width * Height - 1
    /\ hook \in BOOLEAN /\ ready \in BOOLEAN
    /\ put_pc \in {"idle", "cr", "byte", "cursor"}
    /\ from \in 0 .. Len(text)

\* The screen is a view of the page, and the position is the end of the page.
ScreenAt ==
    LET page == PageOf(text) IN
    screen = View(page.rows) /\ vga_row = LastRow(page.rows) /\ vga_col = page.col

\* Between two characters the cursor stands at the position.
CursorAt == put_pc = "idle" => cursor = vga_row * Width + vga_col

\* The character being printed is the head of what is to print, and what is to
\* print has room.
PrintAt ==
    /\ put_pc # "idle" => todo # <<>>
    /\ put_pc \in {"cr", "byte"} => hook
    /\ put_pc = "cr" => Head(todo) = "LF"
    /\ Len(text) + Len(todo) <= MaxChars + (IF put_pc = "idle" THEN 0 ELSE 1)

\* With what is still owed of the current character, COM1 has carried all.
WireAt == hook => wire \o Owed = Carried(Traced)

ConsoleIInv == ConsoleTypes /\ ScreenAt /\ CursorAt /\ PrintAt /\ WireAt

-----------------------------------------------------------------------------
\* The screen as a view of the page.
LEMMA ViewIs ==
    ASSUME NEW rows \in Seq([Cols -> Char]), Len(rows) >= 1
    PROVE  /\ Above(rows) \in Nat /\ LastRow(rows) \in Rows
           /\ Above(rows) + LastRow(rows) + 1 = Len(rows)
           /\ View(rows) \in [Rows -> [Cols -> Char]]
           /\ \A r \in Rows : View(rows)[r] =
                 IF Above(rows) + r < Len(rows) THEN rows[Above(rows) + r + 1] ELSE BlankRow
<1>1. Above(rows) \in Nat /\ LastRow(rows) \in Rows /\ Above(rows) + LastRow(rows) + 1 = Len(rows)
  BY ColsAndRows DEF Above, LastRow, Rows
<1>2. \A r \in Rows : View(rows)[r] =
          IF Above(rows) + r < Len(rows) THEN rows[Above(rows) + r + 1] ELSE BlankRow
  BY DEF View
<1>3. \A r \in Rows : Above(rows) + r < Len(rows) => Above(rows) + r + 1 \in 1 .. Len(rows)
  BY <1>1 DEF Rows
<1>4. \A r \in Rows : View(rows)[r] \in [Cols -> Char]
  BY <1>2, <1>3, ColsAndRows
<1>5. View(rows) \in [Rows -> [Cols -> Char]]
  BY <1>4 DEF View
<1> QED
  BY <1>1, <1>2, <1>5

\* A character in the last row of the page is the same in the screen's row.
LEMMA InkedView ==
    ASSUME NEW rows \in Seq([Cols -> Char]), Len(rows) >= 1, NEW col \in Cols, NEW c \in Char
    PROVE  /\ View(Inked(rows, col, c)) = [View(rows) EXCEPT ![LastRow(rows)][col] = c]
           /\ LastRow(Inked(rows, col, c)) = LastRow(rows)
<1> DEFINE inked == Inked(rows, col, c)
           v == View(rows)
           L == LastRow(rows)
           w == [v EXCEPT ![L][col] = c]
<1>1. /\ inked \in Seq([Cols -> Char]) /\ Len(inked) = Len(rows)
      /\ \A k \in 1 .. Len(rows) : inked[k] =
            IF k = Len(rows) THEN [rows[k] EXCEPT ![col] = c] ELSE rows[k]
  BY InkedIs
<1>2. Above(inked) = Above(rows) /\ LastRow(inked) = L
  BY <1>1 DEF Above, LastRow
<1>3. /\ Above(rows) \in Nat /\ L \in Rows /\ Above(rows) + L + 1 = Len(rows)
      /\ v \in [Rows -> [Cols -> Char]]
      /\ \A r \in Rows : v[r] =
            IF Above(rows) + r < Len(rows) THEN rows[Above(rows) + r + 1] ELSE BlankRow
  BY ViewIs
<1>4. /\ View(inked) \in [Rows -> [Cols -> Char]]
      /\ \A r \in Rows : View(inked)[r] =
            IF Above(rows) + r < Len(rows) THEN inked[Above(rows) + r + 1] ELSE BlankRow
  BY <1>1, <1>2, ViewIs
<1> HIDE DEF inked, v, L
<1>5. w \in [Rows -> [Cols -> Char]]
      /\ \A r \in Rows : w[r] = IF r = L THEN [v[r] EXCEPT ![col] = c] ELSE v[r]
  BY <1>3
<1> HIDE DEF w
<1>6. \A r \in Rows : View(inked)[r] = w[r]
  <2> TAKE r \in Rows
  <2>0. r \in Nat /\ L \in Nat /\ Len(rows) \in Nat
    BY <1>3 DEF Rows
  <2> DEFINE k == Above(rows) + r + 1
  <2>1. CASE Above(rows) + r < Len(rows)
    <3>1. k \in 1 .. Len(rows) /\ (k = Len(rows) <=> r = L)
      BY <1>3, <2>0, <2>1
    <3>2. View(inked)[r] = inked[k] /\ v[r] = rows[k]
      BY <1>3, <1>4, <2>1
    <3> HIDE DEF k
    <3> QED
      BY <1>1, <1>5, <3>1, <3>2
  <2>2. CASE ~(Above(rows) + r < Len(rows))
    <3>1. r # L
      BY <1>3, <2>0, <2>2
    <3> QED
      BY <1>3, <1>4, <1>5, <2>2, <3>1
  <2> QED
    BY <2>1, <2>2
<1>7. View(inked) = w
  BY <1>4, <1>5, <1>6
<1> QED
  BY <1>2, <1>7 DEF inked, v, w, L

\* A new row of the page is the next row of the screen, or scrolls it.
LEMMA GrownView ==
    ASSUME NEW rows \in Seq([Cols -> Char]), Len(rows) >= 1
    PROVE  LET more == Append(rows, BlankRow)
               next == LastRow(rows) + 1
           IN /\ View(more) = IF next >= Height THEN Scrolled(View(rows)) ELSE View(rows)
              /\ LastRow(more) = RowAfterScroll(next)
<1> DEFINE more == Append(rows, BlankRow)
           L == LastRow(rows)
           v == View(rows)
           w == IF L + 1 >= Height THEN Scrolled(v) ELSE v
<1>1. /\ more \in Seq([Cols -> Char]) /\ Len(more) = Len(rows) + 1
      /\ \A k \in 1 .. Len(rows) : more[k] = rows[k]
      /\ more[Len(rows) + 1] = BlankRow
  BY NewRowIs
<1>2. /\ Above(rows) \in Nat /\ L \in Rows /\ Above(rows) + L + 1 = Len(rows)
      /\ v \in [Rows -> [Cols -> Char]]
      /\ \A r \in Rows : v[r] =
            IF Above(rows) + r < Len(rows) THEN rows[Above(rows) + r + 1] ELSE BlankRow
  BY ViewIs
<1>3. /\ View(more) \in [Rows -> [Cols -> Char]]
      /\ \A r \in Rows : View(more)[r] =
            IF Above(more) + r < Len(more) THEN more[Above(more) + r + 1] ELSE BlankRow
  <2>1. more \in Seq([Cols -> Char]) /\ Len(more) >= 1
    BY <1>1
  <2> HIDE DEF more
  <2> QED
    BY <2>1, ViewIs
<1> HIDE DEF more, v
<1>4. /\ Above(more) = IF L + 1 >= Height THEN Above(rows) + 1 ELSE Above(rows)
      /\ LastRow(more) = RowAfterScroll(L + 1)
  <2>1. Len(rows) \in Nat /\ Len(rows) >= 1 /\ Len(more) = Len(rows) + 1 /\ Height \in Nat /\ Height > 1
    BY <1>1, ColsAndRows
  <2>2. CASE Len(rows) < Height
    <3>1. Above(rows) = 0 /\ Above(more) = 0
      BY <2>1, <2>2 DEF Above
    <3>2. L + 1 = Len(rows) /\ LastRow(more) = Len(rows)
      BY <2>1, <3>1 DEF LastRow
    <3> HIDE DEF L
    <3> QED
      BY <2>1, <2>2, <3>1, <3>2 DEF RowAfterScroll
  <2>3. CASE Len(rows) >= Height
    <3>1. Above(rows) = Len(rows) - Height /\ Above(more) = Len(rows) + 1 - Height
      BY <2>1, <2>3 DEF Above
    <3>2. L + 1 = Height /\ LastRow(more) = Height - 1
      BY <2>1, <3>1 DEF LastRow
    <3> HIDE DEF L
    <3> QED
      BY <2>1, <2>3, <3>1, <3>2 DEF RowAfterScroll
  <2> QED
    BY <2>1, <2>2, <2>3
<1>5. L + 1 >= Height => L = Height - 1
  BY <1>2, ColsAndRows DEF Rows
<1> HIDE DEF L
<1>6. CASE L + 1 >= Height
  <2>1. \A r \in Rows : View(more)[r] = Scrolled(v)[r]
    <3> TAKE r \in Rows
    <3>0. /\ r \in Nat /\ r <= Height - 1 /\ L \in Nat /\ Len(rows) \in Nat /\ Above(rows) \in Nat
          /\ Above(more) = Above(rows) + 1 /\ L = Height - 1 /\ Height \in Nat
      BY <1>2, <1>4, <1>5, <1>6, ColsAndRows DEF Rows
    <3>1. CASE r < Height - 1
      <4> DEFINE k == Above(rows) + r + 2
      <4>1. /\ k \in 1 .. Len(rows) /\ Above(more) + r < Len(more) /\ Above(more) + r + 1 = k
            /\ Above(rows) + (r + 1) < Len(rows) /\ Above(rows) + (r + 1) + 1 = k /\ r + 1 \in Rows
        BY <1>1, <1>2, <3>0, <3>1 DEF Rows
      <4>2. View(more)[r] = more[k]
        BY <1>3, <4>1
      <4>3. v[r + 1] = rows[k]
        BY <1>2, <4>1
      <4>4. Scrolled(v)[r] = v[r + 1]
        BY <3>1 DEF Scrolled
      <4> HIDE DEF k
      <4> QED
        BY <1>1, <4>1, <4>2, <4>3, <4>4
    <3>2. CASE ~(r < Height - 1)
      <4>1. Above(more) + r < Len(more) /\ Above(more) + r + 1 = Len(rows) + 1
        BY <1>1, <1>2, <3>0, <3>2
      <4>2. View(more)[r] = BlankRow
        BY <1>1, <1>3, <4>1
      <4>3. Scrolled(v)[r] = BlankRow
        BY <3>2 DEF Scrolled
      <4> QED
        BY <4>2, <4>3
    <3> QED
      BY <3>1, <3>2
  <2>2. View(more) = Scrolled(v)
    BY <1>3, <2>1 DEF Scrolled
  <2> QED
    BY <1>4, <1>6, <2>2 DEF more, v, L
<1>7. CASE ~(L + 1 >= Height)
  <2>1. \A r \in Rows : View(more)[r] = v[r]
    <3> TAKE r \in Rows
    <3>0. /\ r \in Nat /\ L \in Nat /\ Len(rows) \in Nat /\ Above(rows) \in Nat
          /\ Above(more) = Above(rows)
      BY <1>2, <1>4, <1>7, ColsAndRows DEF Rows
    <3> DEFINE k == Above(rows) + r + 1
    <3>1. CASE Above(rows) + r < Len(rows)
      <4>1. k \in 1 .. Len(rows) /\ Above(more) + r < Len(more) /\ Above(more) + r + 1 = k
        BY <1>1, <3>0, <3>1
      <4> QED
        BY <1>1, <1>2, <1>3, <3>1, <4>1
    <3>2. CASE Above(rows) + r = Len(rows)
      <4>1. Above(more) + r < Len(more) /\ Above(more) + r + 1 = Len(rows) + 1
        BY <1>1, <3>0, <3>2
      <4>2. View(more)[r] = BlankRow
        BY <1>1, <1>3, <4>1
      <4>3. v[r] = BlankRow
        BY <1>2, <3>0, <3>2
      <4> QED
        BY <4>2, <4>3
    <3>3. CASE Above(rows) + r > Len(rows)
      <4>1. ~(Above(more) + r < Len(more)) /\ ~(Above(rows) + r < Len(rows))
        BY <1>1, <3>0, <3>3
      <4> QED
        BY <1>2, <1>3, <4>1
    <3> QED
      BY <3>0, <3>1, <3>2, <3>3
  <2>2. View(more) = v
    BY <1>2, <1>3, <2>1
  <2> QED
    BY <1>4, <1>7, <2>2 DEF more, v, L
<1> QED
  BY <1>6, <1>7

\* vga_putchar does on the screen what the character does to the page.
LEMMA PutShows ==
    ASSUME text \in Seq(Char), ScreenAt, NEW c \in Char
    PROVE  LET page == Typed(PageOf(text), c)
               pos == PositionAfter(c)
           IN /\ View(page.rows) = IF pos.row >= Height THEN Scrolled(Stored(c)) ELSE Stored(c)
              /\ LastRow(page.rows) = RowAfterScroll(pos.row)
              /\ page.col = pos.col
<1> DEFINE old == PageOf(text)
           page == Typed(old, c)
           pos == PositionAfter(c)
           After(row, s) == /\ View(page.rows) = IF row >= Height THEN Scrolled(s) ELSE s
                            /\ LastRow(page.rows) = RowAfterScroll(row)
           Done == After(pos.row, Stored(c)) /\ page.col = pos.col
<1>0. /\ old \in Pages /\ old.rows \in Seq([Cols -> Char]) /\ Len(old.rows) >= 1 /\ old.col \in Cols
      /\ screen = View(old.rows) /\ vga_row = LastRow(old.rows) /\ vga_col = old.col
  BY PageOfIs DEF ScreenAt, Pages
<1> HIDE DEF old
<1>1. /\ vga_row \in Nat /\ vga_row < Height /\ vga_col \in Nat /\ vga_col < Width
      /\ vga_row + 1 \in Nat /\ Width \in Nat /\ Height \in Nat
  BY <1>0, ViewIs, ColsAndRows DEF Rows, Cols
\* The character leaves the row, or begins another.
<1>2. ASSUME NEW rows \in Seq([Cols -> Char]), Len(rows) >= 1, LastRow(rows) = vga_row,
             page.rows = rows
      PROVE  After(vga_row, View(rows))
  BY <1>1, <1>2 DEF RowAfterScroll
<1>3. ASSUME NEW rows \in Seq([Cols -> Char]), Len(rows) >= 1, LastRow(rows) = vga_row,
             page.rows = Append(rows, BlankRow)
      PROVE  After(vga_row + 1, View(rows))
  BY <1>3, GrownView
<1>9. Done <=> After(pos.row, Stored(c)) /\ page.col = pos.col
  OBVIOUS
<1>10. page = Typed(old, c) /\ pos = PositionAfter(c)
  OBVIOUS
<1> HIDE DEF After, Done, page, pos
<1>4. ASSUME c = "LF" PROVE Done
  <2>1. page = NewRow(old)
    BY <1>0, <1>4, <1>10, TypedIs
  <2>2. page.rows = Append(old.rows, BlankRow) /\ page.col = 0
    BY <2>1 DEF NewRow
  <2>3. pos.row = vga_row + 1 /\ pos.col = 0 /\ Stored(c) = screen
    BY <1>4, <1>10 DEF PositionAfter, Stored
  <2> QED
    BY <1>0, <1>3, <2>2, <2>3, <1>9
<1>5. ASSUME c = "CR" PROVE Done
  <2>0. page = [rows |-> old.rows, col |-> 0]
    BY <1>0, <1>5, <1>10, TypedIs
  <2>1. page.rows = old.rows /\ page.col = 0
    BY <2>0
  <2>2. pos.row = vga_row /\ pos.col = 0 /\ Stored(c) = screen
    BY <1>5, <1>10 DEF PositionAfter, Stored
  <2> QED
    BY <1>0, <1>2, <2>1, <2>2, <1>9
<1>6. ASSUME c = "TAB" PROVE Done
  <2>0. NextTab(old.col) \in Int
    <3>1. old.col \in Nat /\ TabStop \in Nat
      BY <1>0, <1>1, TabsDivide
    <3>2. NextTab(old.col) \in old.col + 1 .. old.col + TabStop
      BY <3>1, TabIsNext
    <3> QED
      BY <3>1, <3>2
  <2>1. Stored(c) = screen /\ pos = Wrapped(NextTab(vga_col))
    BY <1>6, <1>10 DEF PositionAfter, Stored
  <2>2. CASE NextTab(old.col) < Width
    <3>0. page = [rows |-> old.rows, col |-> NextTab(old.col)]
      BY <1>0, <1>6, <2>2, <1>10, TypedIs
    <3>1. page.rows = old.rows /\ page.col = NextTab(old.col)
      BY <3>0
    <3>2. pos.row = vga_row /\ pos.col = NextTab(old.col)
      BY <1>0, <1>1, <2>0, <2>1, <2>2 DEF Wrapped
    <3> QED
      BY <1>0, <1>2, <2>1, <3>1, <3>2, <1>9
  <2>3. CASE ~(NextTab(old.col) < Width)
    <3>0. page = NewRow(old)
      BY <1>0, <1>6, <2>3, <1>10, TypedIs
    <3>1. page.rows = Append(old.rows, BlankRow) /\ page.col = 0
      BY <3>0 DEF NewRow
    <3>2. pos.row = vga_row + 1 /\ pos.col = 0
      BY <1>0, <1>1, <2>0, <2>1, <2>3 DEF Wrapped
    <3> QED
      BY <1>0, <1>3, <2>1, <3>1, <3>2, <1>9
  <2> QED
    BY <2>2, <2>3
<1>7. ASSUME c = "BS" PROVE Done
  <2>1. CASE old.col = 0
    <3>1. page.rows = old.rows /\ page.col = 0
      BY <1>0, <1>7, <2>1, <1>10, TypedIs
    <3>2. pos.row = vga_row /\ pos.col = 0 /\ Stored(c) = screen
      BY <1>0, <1>7, <2>1, <1>10 DEF PositionAfter, Stored
    <3> QED
      BY <1>0, <1>2, <3>1, <3>2, <1>9
  <2>2. CASE old.col # 0
    <3> DEFINE rows == Inked(old.rows, old.col - 1, " ")
    <3>0. old.col - 1 \in Cols /\ vga_col > 0
      BY <1>0, <1>1, <2>2 DEF Cols
    <3>4. page = [rows |-> rows, col |-> old.col - 1]
      BY <1>0, <1>7, <2>2, <1>10, TypedIs
    <3>1. page.rows = rows /\ page.col = old.col - 1
      BY <3>4
    <3>2. /\ pos.row = vga_row /\ pos.col = old.col - 1
          /\ Stored(c) = [screen EXCEPT ![vga_row][vga_col - 1] = " "]
      BY <1>0, <1>7, <3>0, <1>10 DEF PositionAfter, Stored
    <3>3. /\ rows \in Seq([Cols -> Char]) /\ Len(rows) >= 1
          /\ LastRow(rows) = vga_row /\ View(rows) = Stored(c)
      <4>0. " " \in Char
        BY PlainIsChar
      <4>1. rows \in Seq([Cols -> Char]) /\ Len(rows) = Len(old.rows)
        BY <1>0, <3>0, <4>0, InkedIs
      <4>2. /\ View(rows) = [View(old.rows) EXCEPT ![LastRow(old.rows)][old.col - 1] = " "]
            /\ LastRow(rows) = LastRow(old.rows)
        BY <1>0, <3>0, <4>0, InkedView
      <4> HIDE DEF rows
      <4> QED
        BY <1>0, <3>2, <4>1, <4>2
    <3> HIDE DEF rows
    <3> QED
      BY <1>2, <3>1, <3>2, <3>3, <1>9
  <2> QED
    BY <2>1, <2>2
<1>8. ASSUME c \notin Control PROVE Done
  <2> DEFINE rows == Inked(old.rows, old.col, c)
  <2>0. page = IF old.col + 1 < Width THEN [rows |-> rows, col |-> old.col + 1]
               ELSE [rows |-> Append(rows, BlankRow), col |-> 0]
    BY <1>0, <1>8, <1>10, TypedIs
  <2>1. /\ pos = Wrapped(vga_col + 1)
        /\ Stored(c) = [screen EXCEPT ![vga_row][vga_col] = c]
    BY <1>8, <1>10 DEF PositionAfter, Stored, Control
  <2>2. /\ rows \in Seq([Cols -> Char]) /\ Len(rows) >= 1
        /\ LastRow(rows) = vga_row /\ View(rows) = Stored(c)
    <3>1. rows \in Seq([Cols -> Char]) /\ Len(rows) = Len(old.rows)
      BY <1>0, InkedIs
    <3>2. /\ View(rows) = [View(old.rows) EXCEPT ![LastRow(old.rows)][old.col] = c]
          /\ LastRow(rows) = LastRow(old.rows)
      BY <1>0, InkedView
    <3> HIDE DEF rows
    <3> QED
      BY <1>0, <2>1, <3>1, <3>2
  <2> HIDE DEF rows
  <2>3. CASE old.col + 1 < Width
    <3>1. page.rows = rows /\ page.col = old.col + 1
      BY <2>0, <2>3
    <3>2. pos.row = vga_row /\ pos.col = old.col + 1
      BY <1>0, <1>1, <2>1, <2>3 DEF Wrapped
    <3> QED
      BY <1>2, <2>2, <3>1, <3>2, <1>9
  <2>4. CASE ~(old.col + 1 < Width)
    <3>1. page.rows = Append(rows, BlankRow) /\ page.col = 0
      BY <2>0, <2>4
    <3>2. pos.row = vga_row + 1 /\ pos.col = 0
      BY <1>0, <1>1, <2>1, <2>4 DEF Wrapped
    <3> QED
      BY <1>3, <2>2, <3>1, <3>2, <1>9
  <2> QED
    BY <2>3, <2>4
<1> QED
  BY <1>4, <1>5, <1>6, <1>7, <1>8 DEF Control, Done, After, page, pos, old

-----------------------------------------------------------------------------
\* A cell of the screen has its place in the buffer.
LEMMA CellInRange ==
    ASSUME NEW r \in Rows, NEW col \in Cols
    PROVE  r * Width + col \in 0 .. Width * Height - 1
<1>1. /\ Width \in Nat /\ Height \in Nat /\ r \in Nat /\ col \in Nat
      /\ r <= Height - 1 /\ col <= Width - 1
  BY ColsAndRows DEF Rows, Cols
<1>2. r * Width \in Nat
  BY <1>1
<1>3. \E d \in Nat : Height = r + 1 + d
  <2>1. Height - 1 - r \in Nat /\ Height = r + 1 + (Height - 1 - r)
    BY <1>1
  <2> QED
    BY <2>1
<1>4. PICK d \in Nat : Height = r + 1 + d
  BY <1>3
<1>5. Width * Height = r * Width + Width + d * Width /\ d * Width \in Nat
  BY <1>1, <1>4
<1> QED
  BY <1>1, <1>2, <1>5

\* What is traced of a text grows with the text.
LEMMA TraceGrows ==
    ASSUME NEW t \in Seq(Char), NEW c \in Char, NEW f \in 0 .. Len(t)
    PROVE  /\ SubSeq(t, f + 1, Len(t)) \in Seq(Char)
           /\ SubSeq(Append(t, c), f + 1, Len(t) + 1) = Append(SubSeq(t, f + 1, Len(t)), c)
           /\ SubSeq(t, Len(t) + 1, Len(t)) = <<>>
<1> DEFINE u == Append(t, c)
           N == Len(t)
           a == SubSeq(t, f + 1, N)
           b == SubSeq(u, f + 1, N + 1)
<1>1. N \in Nat /\ f \in Nat /\ f <= N /\ Len(u) = N + 1 /\ u \in Seq(Char)
  OBVIOUS
<1>2. a \in Seq(Char) /\ Len(a) = N - f /\ \A k \in 1 .. N - f : a[k] = t[f + k]
  OBVIOUS
<1>3. b \in Seq(Char) /\ Len(b) = N + 1 - f /\ \A k \in 1 .. N + 1 - f : b[k] = u[f + k]
  <2> HIDE DEF u, N
  <2> QED
    BY <1>1
<1>4. \A k \in 1 .. N : u[k] = t[k]
  OBVIOUS
<1>5. u[N + 1] = c
  OBVIOUS
<1> HIDE DEF a, b, u
<1> HIDE DEF N
<1>6. /\ Append(a, c) \in Seq(Char) /\ Len(Append(a, c)) = N + 1 - f
      /\ \A k \in 1 .. N - f : Append(a, c)[k] = a[k]
      /\ Append(a, c)[N + 1 - f] = c
  <2>1. /\ Append(a, c) \in Seq(Char) /\ Len(Append(a, c)) = Len(a) + 1
        /\ \A k \in 1 .. Len(a) : Append(a, c)[k] = a[k]
        /\ Append(a, c)[Len(a) + 1] = c
    BY <1>2
  <2>2. Len(a) = N - f /\ Len(a) + 1 = N + 1 - f
    BY <1>1, <1>2
  <2> QED
    BY <2>1, <2>2
<1>7. \A k \in 1 .. N + 1 - f : b[k] = Append(a, c)[k]
  <2> TAKE k \in 1 .. N + 1 - f
  <2>1. CASE k = N + 1 - f
    <3>1. f + k = N + 1
      BY <1>1, <2>1
    <3> QED
      BY <1>3, <1>5, <1>6, <2>1, <3>1
  <2>2. CASE k # N + 1 - f
    <3>1. k \in 1 .. N - f /\ f + k \in 1 .. N
      BY <1>1, <2>2
    <3> QED
      BY <1>2, <1>3, <1>4, <1>6, <3>1
  <2> QED
    BY <2>1, <2>2
<1>8. b = Append(a, c)
  BY <1>3, <1>6, <1>7
<1>9. SubSeq(t, N + 1, N) = <<>>
  BY <1>1 DEF N
<1> QED
  BY <1>2, <1>8, <1>9 DEF a, b, u, N

\* The empty page is shown as an empty screen.
LEMMA BlankPage ==
    /\ View(NoText.rows) = [r \in Rows |-> BlankRow]
    /\ LastRow(NoText.rows) = 0 /\ NoText.col = 0
<1> DEFINE rows == <<BlankRow>>
<1>1. NoText.rows = rows /\ NoText.col = 0 /\ Len(rows) = 1 /\ rows[1] = BlankRow
  BY DEF NoText
<1> HIDE DEF rows
<1>2. Above(rows) = 0 /\ LastRow(rows) = 0
  <2>1. Height \in Nat /\ ~(1 > Height)
    BY ColsAndRows
  <2>2. Above(rows) = 0
    BY <1>1, <2>1 DEF Above
  <2> QED
    BY <1>1, <2>2 DEF LastRow
<1>3. \A r \in Rows : r \in Nat /\ (0 + r < 1 => 0 + r + 1 = 1)
  BY DEF Rows
<1>4. View(rows) = [r \in Rows |-> BlankRow]
  BY <1>1, <1>2, <1>3 DEF View
<1> QED
  BY <1>1, <1>2, <1>4

LEMMA ConsoleInvInit == ConsoleInit => ConsoleIInv
<1> SUFFICES ASSUME ConsoleInit PROVE ConsoleIInv
  OBVIOUS
<1>0. Width \in Nat /\ Height \in Nat /\ Width > 0 /\ Height > 1
  BY ColsAndRows
<1>1. ConsoleTypes
  <2>1. 0 \in 0 .. Width * Height - 1
    <3>1. 0 \in Rows /\ 0 \in Cols
      BY <1>0 DEF Rows, Cols
    <3>2. 0 * Width + 0 = 0
      BY <1>0
    <3> QED
      BY <3>1, <3>2, CellInRange
  <2>2. <<>> \in Seq(Char) /\ Len(<<>>) = 0 /\ 0 \in 0 .. 0
    OBVIOUS
  <2> QED
    BY <2>1, <2>2 DEF ConsoleInit, ConsoleTypes
<1>2. text = <<>> /\ text \in Seq(Char) /\ PageOf(text) = NoText
  <2>1. text = <<>> /\ text \in Seq(Char) /\ " " \in Char
    BY <1>1, PlainIsChar DEF ConsoleInit, ConsoleTypes
  <2> QED
    BY <2>1, PageOfIs
<1>3. ScreenAt
  BY <1>2, BlankPage DEF ConsoleInit, ScreenAt
<1>4. CursorAt
  BY <1>0 DEF ConsoleInit, CursorAt
<1>5. PrintAt
  BY PrintBound DEF ConsoleInit, PrintAt
<1>6. WireAt
  BY DEF ConsoleInit, WireAt
<1> QED
  BY <1>1, <1>3, <1>4, <1>5, <1>6 DEF ConsoleIInv

\* Nothing printed, nothing traced, nothing carried.
LEMMA NoChars ==
    /\ <<>> \in Seq(Char) /\ Len(<<>>) = 0 /\ <<>> \o <<>> = <<>>
    /\ PageOf(<<>>) = NoText /\ Carried(<<>>) = <<>>
    /\ \A t \in Seq(Char) : Len(t) \in Nat /\ SubSeq(t, Len(t) + 1, Len(t)) = <<>>
<1>1. <<>> \in Seq(Char) /\ Len(<<>>) = 0 /\ <<>> \o <<>> = <<>>
  OBVIOUS
<1>2. PICK c \in Char : TRUE
  BY PlainIsChar
<1>3. PageOf(<<>>) = NoText
  BY <1>1, <1>2, PageOfIs
<1>4. Carried(<<>>) = <<>>
  BY <1>1, <1>2, CarriedIs
<1>5. ASSUME NEW t \in Seq(Char) PROVE Len(t) \in Nat /\ SubSeq(t, Len(t) + 1, Len(t)) = <<>>
  OBVIOUS
<1> QED
  BY <1>1, <1>3, <1>4, <1>5

\* One byte appended, and another.
LEMMA TwoBytes ==
    ASSUME NEW w \in Seq(Char), NEW c \in Char, NEW d \in Char
    PROVE  /\ Append(w, c) \o <<>> = w \o <<c>>
           /\ Append(w, c) \o <<d>> = w \o <<c, d>>
<1>1. Append(w, c) \in Seq(Char) /\ Append(w, c) = w \o <<c>>
  OBVIOUS
<1>2. Append(w, c) \o <<>> = w \o <<c>>
  BY <1>1
<1>3. Append(w, c) \o <<d>> = w \o <<c, d>>
  OBVIOUS
<1> QED
  BY <1>2, <1>3

\* The position is on the screen.
LEMMA PositionIs ==
    ASSUME text \in Seq(Char), ScreenAt
    PROVE  /\ vga_row \in Rows /\ vga_col \in Cols
           /\ vga_row * Width + vga_col \in 0 .. Width * Height - 1
           /\ screen \in [Rows -> [Cols -> Char]]
<1> DEFINE page == PageOf(text)
<1>1. page.rows \in Seq([Cols -> Char]) /\ Len(page.rows) >= 1 /\ page.col \in Cols
  BY PageOfIs, PlainIsChar DEF Pages
<1>2. screen = View(page.rows) /\ vga_row = LastRow(page.rows) /\ vga_col = page.col
  BY DEF ScreenAt
<1> HIDE DEF page
<1>3. vga_row \in Rows /\ vga_col \in Cols /\ screen \in [Rows -> [Cols -> Char]]
  BY <1>1, <1>2, ViewIs
<1> QED
  BY <1>3, CellInRange

\* A character on the screen is owed to COM1.
LEMMA PutKeeps == ConsoleIInv /\ Put => ConsoleIInv'
<1> SUFFICES ASSUME ConsoleIInv, Put PROVE ConsoleIInv'
  OBVIOUS
<1> DEFINE c == Head(todo)
<1>1. /\ ConsoleTypes /\ ScreenAt /\ CursorAt /\ PrintAt /\ WireAt
      /\ put_pc = "idle" /\ todo # <<>>
  BY DEF ConsoleIInv, Put
<1>2. /\ text \in Seq(Char) /\ todo \in Seq(Char) /\ wire \in Seq(Char) /\ c \in Char
      /\ from \in 0 .. Len(text) /\ Len(todo) >= 1
  BY <1>1 DEF ConsoleTypes
<1>3. /\ screen' = (IF PositionAfter(c).row >= Height THEN Scrolled(Stored(c)) ELSE Stored(c))
      /\ vga_row' = RowAfterScroll(PositionAfter(c).row)
      /\ vga_col' = PositionAfter(c).col
      /\ put_pc' = (IF hook THEN Mirrored(c) ELSE "cursor")
      /\ text' = Append(text, c)
      /\ UNCHANGED <<cursor, hook, ready, todo, from, wire>>
  BY DEF Put, serialVars
<1> HIDE DEF c
<1>4. text' \in Seq(Char) /\ Len(text') = Len(text) + 1
  BY <1>2, <1>3
<1>5. ConsoleTypes'
  BY <1>1, <1>2, <1>3, <1>4 DEF ConsoleTypes, Mirrored
<1>6. ScreenAt'
  <2>1. PageOf(text') = Typed(PageOf(text), c)
    BY <1>2, <1>3, PageOfIs
  <2>2. LET page == Typed(PageOf(text), c)
            pos == PositionAfter(c)
        IN /\ View(page.rows) = IF pos.row >= Height THEN Scrolled(Stored(c)) ELSE Stored(c)
           /\ LastRow(page.rows) = RowAfterScroll(pos.row)
           /\ page.col = pos.col
    BY <1>1, <1>2, PutShows
  <2>3. /\ screen' = View(PageOf(text').rows) /\ vga_row' = LastRow(PageOf(text').rows)
        /\ vga_col' = PageOf(text').col
    BY <1>3, <2>1, <2>2, Zenon
  <2> QED
    BY <2>3 DEF ScreenAt
<1>7. CursorAt'
  BY <1>3 DEF CursorAt, Mirrored
<1>8. PrintAt'
  <2>1. put_pc' # "idle" /\ (put_pc' \in {"cr", "byte"} => hook) /\ (put_pc' = "cr" => c = "LF")
    BY <1>3 DEF Mirrored
  <2>2. Len(text) + Len(todo) <= MaxChars
    BY <1>1, PrintBound DEF PrintAt
  <2> QED
    BY <1>1, <1>2, <1>3, <1>4, <2>1, <2>2, PrintBound DEF PrintAt, c
<1>9. WireAt'
  <2> SUFFICES ASSUME hook PROVE wire' \o Owed' = Carried(Traced')
    BY <1>3 DEF WireAt
  <2>1. wire = Carried(Traced) /\ Traced = SubSeq(text, from + 1, Len(text))
    <3>1. Owed = <<>> /\ wire \o <<>> = wire
      BY <1>1, <1>2 DEF Owed
    <3> QED
      BY <1>1, <3>1 DEF WireAt, Traced
  <2>2. Owed' = OnTerminal(c)
    <3>1. put_pc' = Mirrored(c) /\ Head(todo') = c
      BY <1>3 DEF c
    <3> QED
      BY <3>1 DEF Owed, Mirrored, OnTerminal
  <2>3. Traced \in Seq(Char) /\ Traced' = Append(Traced, c)
    <3>1. Traced' = SubSeq(Append(text, c), from + 1, Len(text) + 1)
      BY <1>2, <1>3, <1>4 DEF Traced
    <3> QED
      BY <1>2, <2>1, <3>1, TraceGrows
  <2>4. Carried(Traced') = Carried(Traced) \o OnTerminal(c)
    BY <1>2, <2>3, CarriedIs DEF Sent
  <2> QED
    BY <1>3, <2>1, <2>2, <2>4
<1> QED
  BY <1>5, <1>6, <1>7, <1>8, <1>9 DEF ConsoleIInv

\* A byte given to the empty transmitter pays what is owed of the character.
LEMMA SendKeeps == ConsoleIInv /\ (SendCr \/ SendByte) => ConsoleIInv'
<1> SUFFICES ASSUME ConsoleIInv, SendCr \/ SendByte PROVE ConsoleIInv'
  OBVIOUS
<1> DEFINE b == IF put_pc = "cr" THEN "CR" ELSE Head(todo)
<1>1. ConsoleTypes /\ ScreenAt /\ CursorAt /\ PrintAt /\ WireAt
  BY DEF ConsoleIInv
<1>2. /\ \/ put_pc = "cr" /\ put_pc' = "byte"
         \/ put_pc = "byte" /\ put_pc' = "cursor"
      /\ ready' = FALSE /\ wire' = Append(wire, b)
      /\ UNCHANGED <<screen, vga_row, vga_col, cursor, hook, todo, text, from>>
  BY DEF SendCr, SendByte, Send, MaySend, screenVars
<1>3. /\ hook /\ todo # <<>> /\ (put_pc = "cr" => Head(todo) = "LF")
      /\ todo \in Seq(Char) /\ wire \in Seq(Char) /\ Head(todo) \in Char
  <2>1. todo \in Seq(Char) /\ wire \in Seq(Char)
    BY <1>1 DEF ConsoleTypes
  <2>2. hook /\ todo # <<>> /\ (put_pc = "cr" => Head(todo) = "LF")
    BY <1>1, <1>2 DEF PrintAt
  <2> QED
    BY <2>1, <2>2
<1>4. b \in Char
  BY <1>3, PlainIsChar DEF Control
<1> HIDE DEF b
<1>5. ConsoleTypes'
  <2>1. wire' \in Seq(Char)
    BY <1>2, <1>3, <1>4
  <2> QED
    BY <1>1, <1>2, <2>1 DEF ConsoleTypes
<1>6. ScreenAt'
  BY <1>1, <1>2 DEF ScreenAt
<1>7. CursorAt' /\ PrintAt'
  BY <1>1, <1>2, <1>3 DEF CursorAt, PrintAt
<1>8. WireAt'
  <2>1. wire \o Owed = Carried(Traced) /\ Traced' = Traced
    BY <1>1, <1>2, <1>3 DEF WireAt, Traced
  <2>2. wire' \o Owed' = wire \o Owed
    <3>1. CASE put_pc = "cr" /\ put_pc' = "byte"
      <4>1. Owed = <<"CR", "LF">> /\ Owed' = <<"LF">> /\ b = "CR"
        BY <1>2, <1>3, <3>1 DEF Owed, b
      <4>2. Append(wire, "CR") \o <<"LF">> = wire \o <<"CR", "LF">>
        BY <1>3, TwoBytes, PlainIsChar DEF Control
      <4> QED
        BY <1>2, <4>1, <4>2
    <3>2. CASE put_pc = "byte" /\ put_pc' = "cursor"
      <4>1. Owed = <<b>> /\ Owed' = <<>>
        BY <3>2 DEF Owed, b
      <4>2. Append(wire, b) \o <<>> = wire \o <<b>>
        BY <1>3, <1>4, TwoBytes
      <4> QED
        BY <1>2, <4>1, <4>2
    <3> QED
      BY <1>2, <3>1, <3>2
  <2> QED
    BY <2>1, <2>2 DEF WireAt
<1> QED
  BY <1>5, <1>6, <1>7, <1>8 DEF ConsoleIInv

LEMMA CursorKeeps == ConsoleIInv /\ CursorUpdate => ConsoleIInv'
<1> SUFFICES ASSUME ConsoleIInv, CursorUpdate PROVE ConsoleIInv'
  OBVIOUS
<1>1. ConsoleTypes /\ ScreenAt /\ PrintAt /\ WireAt
  BY DEF ConsoleIInv
<1>2. /\ put_pc = "cursor" /\ put_pc' = "idle" /\ todo' = Tail(todo)
      /\ cursor' = vga_row * Width + vga_col
      /\ UNCHANGED <<screen, vga_row, vga_col, hook, ready, text, from, wire>>
  BY DEF CursorUpdate, screenVars, serialVars
<1>3. todo \in Seq(Char) /\ todo # <<>> /\ text \in Seq(Char)
  BY <1>1, <1>2 DEF PrintAt, ConsoleTypes
<1>4. Tail(todo) \in Seq(Char) /\ Len(Tail(todo)) = Len(todo) - 1
  BY <1>3
<1>5. ConsoleTypes'
  <2>1. cursor' \in 0 .. Width * Height - 1
    BY <1>1, <1>2, <1>3, PositionIs
  <2> QED
    BY <1>1, <1>2, <1>4, <2>1 DEF ConsoleTypes
<1>6. ScreenAt'
  BY <1>1, <1>2 DEF ScreenAt
<1>7. CursorAt'
  BY <1>2 DEF CursorAt
<1>8. PrintAt'
  <2>1. Len(text) + Len(todo) <= MaxChars + 1
    BY <1>1, <1>2 DEF PrintAt
  <2> QED
    BY <1>2, <1>3, <1>4, <2>1, PrintBound DEF PrintAt
<1>9. WireAt'
  <2>1. Owed = <<>> /\ Owed' = <<>> /\ Traced' = Traced
    BY <1>2 DEF Owed, Traced
  <2> QED
    BY <1>1, <1>2, <2>1 DEF WireAt
<1> QED
  BY <1>5, <1>6, <1>7, <1>8, <1>9 DEF ConsoleIInv

\* A call begins with text of characters that has room.
LEMMA CallKeeps ==
    ASSUME NEW s \in Seq(Char), ConsoleIInv, VgaPrint(s)
    PROVE  ConsoleIInv'
<1>1. ConsoleTypes /\ ScreenAt /\ CursorAt /\ PrintAt /\ WireAt
  BY DEF ConsoleIInv
<1>2. /\ put_pc = "idle" /\ Len(text) + Len(s) <= MaxChars /\ todo' = s
      /\ UNCHANGED <<screen, vga_row, vga_col, cursor, hook, ready, put_pc, text, from, wire>>
  BY DEF VgaPrint, Idle, Room, screenVars, serialVars
<1>3. ConsoleTypes' /\ ScreenAt' /\ CursorAt'
  BY <1>1, <1>2 DEF ConsoleTypes, ScreenAt, CursorAt
<1>4. PrintAt'
  BY <1>2, PrintBound DEF PrintAt
<1>5. WireAt'
  <2>1. Owed' = Owed /\ Traced' = Traced
    BY <1>2 DEF Owed, Traced
  <2> QED
    BY <1>1, <1>2, <2>1 DEF WireAt
<1> QED
  BY <1>3, <1>4, <1>5 DEF ConsoleIInv

LEMMA ClearKeeps == ConsoleIInv /\ Clear => ConsoleIInv'
<1> SUFFICES ASSUME ConsoleIInv, Clear PROVE ConsoleIInv'
  OBVIOUS
<1>1. ConsoleTypes /\ PrintAt
  BY DEF ConsoleIInv
<1>2. /\ put_pc = "idle" /\ todo = <<>>
      /\ screen' = [r \in Rows |-> BlankRow]
      /\ vga_row' = 0 /\ vga_col' = 0 /\ cursor' = 0
      /\ text' = <<>> /\ from' = 0 /\ wire' = <<>>
      /\ UNCHANGED <<hook, ready, put_pc, todo>>
  BY DEF Clear, Idle, serialVars
<1>3. Width \in Nat /\ 0 \in 0 .. Width * Height - 1
  <2>1. Width \in Nat /\ 0 \in Rows /\ 0 \in Cols /\ 0 * Width + 0 = 0
    BY ColsAndRows DEF Rows
  <2> QED
    BY <2>1, CellInRange
<1>4. text' \in Seq(Char) /\ Len(text') = 0 /\ wire' \in Seq(Char) /\ Len(todo) = 0
  BY <1>2, NoChars
<1>5. ConsoleTypes'
  BY <1>1, <1>2, <1>3, <1>4 DEF ConsoleTypes
<1>6. ScreenAt'
  <2>1. PageOf(text') = NoText
    BY <1>2, NoChars
  <2> QED
    BY <1>2, <2>1, BlankPage DEF ScreenAt
<1>7. CursorAt'
  BY <1>2, <1>3 DEF CursorAt
<1>9. PrintAt'
  <2>1. Len(text') + Len(todo') <= MaxChars + 0
    BY <1>2, <1>4, PrintBound
  <2> QED
    BY <1>2, <2>1 DEF PrintAt
<1>8. WireAt'
  <2>1. Owed' = <<>>
    BY <1>2 DEF Owed
  <2>2. Traced' = SubSeq(text', Len(text') + 1, Len(text'))
    BY <1>2, <1>4 DEF Traced
  <2>3. Traced' = <<>>
    BY <1>4, <2>2, NoChars
  <2> QED
    BY <1>2, <2>1, <2>3, NoChars DEF WireAt
<1> QED
  BY <1>5, <1>6, <1>7, <1>8, <1>9 DEF ConsoleIInv

\* The serial plugin sets its hook between two calls, and takes it away.
LEMMA HookKeeps == ConsoleIInv /\ (SerialInit \/ SerialShutdown) => ConsoleIInv'
<1> SUFFICES ASSUME ConsoleIInv, SerialInit \/ SerialShutdown PROVE ConsoleIInv'
  OBVIOUS
<1>1. ConsoleTypes /\ ScreenAt /\ CursorAt /\ PrintAt
  BY DEF ConsoleIInv
<1>2. /\ put_pc = "idle" /\ todo = <<>> /\ wire' = <<>>
      /\ UNCHANGED <<screen, vga_row, vga_col, cursor, put_pc, text>>
  BY DEF SerialInit, SerialShutdown, Idle, screenVars
<1>3. text \in Seq(Char) /\ Len(text) \in Nat /\ Greeting \in Seq(Char) /\ wire' \in Seq(Char)
  <2>1. text \in Seq(Char) /\ Greeting \in Seq(Char)
    BY <1>1, Characters DEF ConsoleTypes
  <2> QED
    BY <1>2, <2>1, NoChars
<1>4. ScreenAt' /\ CursorAt'
  BY <1>1, <1>2 DEF ScreenAt, CursorAt
<1>5. CASE SerialInit
  <2>1. /\ hook' = TRUE /\ from' = Len(text) /\ todo' = Greeting /\ ready' \in BOOLEAN
        /\ Len(text) + Len(Greeting) <= MaxChars
    BY <1>5 DEF SerialInit, Room
  <2>2. ConsoleTypes'
    BY <1>1, <1>2, <1>3, <2>1 DEF ConsoleTypes
  <2>3. PrintAt'
    BY <1>2, <2>1, PrintBound DEF PrintAt
  <2>4. WireAt'
    <3>1. Owed' = <<>>
      BY <1>2 DEF Owed
    <3>2. Traced' = SubSeq(text, Len(text) + 1, Len(text))
      BY <1>2, <2>1 DEF Traced
    <3>3. Traced' = <<>>
      BY <1>3, <3>2, NoChars
    <3> QED
      BY <1>2, <3>1, <3>3, NoChars DEF WireAt
  <2> QED
    BY <1>4, <2>2, <2>3, <2>4 DEF ConsoleIInv
<1>6. CASE SerialShutdown
  <2>1. hook' = FALSE /\ from' = 0 /\ UNCHANGED <<ready, todo>>
    BY <1>6 DEF SerialShutdown
  <2>2. ConsoleTypes'
    <3>1. from' \in 0 .. Len(text')
      BY <1>2, <1>3, <2>1
    <3> QED
      BY <1>1, <1>2, <1>3, <2>1, <3>1 DEF ConsoleTypes
  <2>3. PrintAt' /\ WireAt'
    BY <1>1, <1>2, <2>1 DEF PrintAt, WireAt
  <2> QED
    BY <1>4, <2>2, <2>3 DEF ConsoleIInv
<1> QED
  BY <1>5, <1>6

LEMMA ConsoleStutters == ConsoleIInv /\ (Transmitted \/ UNCHANGED consoleVars) => ConsoleIInv'
<1> SUFFICES ASSUME ConsoleIInv, Transmitted \/ UNCHANGED consoleVars PROVE ConsoleIInv'
  OBVIOUS
<1>1. ConsoleTypes /\ ScreenAt /\ CursorAt /\ PrintAt /\ WireAt
  BY DEF ConsoleIInv
<1>2. /\ UNCHANGED <<screen, vga_row, vga_col, cursor, hook, put_pc, todo, text, from, wire>>
      /\ ready' = TRUE \/ ready' = ready
  BY DEF Transmitted, consoleVars, screenVars, serialVars
<1>3. ConsoleTypes' /\ ScreenAt' /\ CursorAt' /\ PrintAt'
  BY <1>1, <1>2 DEF ConsoleTypes, ScreenAt, CursorAt, PrintAt
<1>4. WireAt'
  <2>1. Owed' = Owed /\ Traced' = Traced
    BY <1>2 DEF Owed, Traced
  <2> QED
    BY <1>1, <1>2, <2>1 DEF WireAt
<1> QED
  BY <1>3, <1>4 DEF ConsoleIInv

LEMMA ConsoleInvNext == ConsoleIInv /\ [ConsoleNext]_consoleVars => ConsoleIInv'
<1> SUFFICES ASSUME ConsoleIInv, [ConsoleNext]_consoleVars PROVE ConsoleIInv'
  OBVIOUS
<1>1. ASSUME NEW s \in Texts, VgaPrint(s) PROVE ConsoleIInv'
  <2>1. s \in Seq(Char)
    BY Characters
  <2> QED
    BY <1>1, <2>1, CallKeeps
<1>2. ASSUME NEW conv \in {"d", "u", "x"}, NEW v \in Args, VgaPrintf(conv, v) PROVE ConsoleIInv'
  <2>1. Formatted(conv, v) \in Seq(Char) /\ VgaPrint(Formatted(conv, v))
    BY <1>2, FormattedIsText DEF VgaPrintf, VgaPrint
  <2> QED
    BY <2>1, CallKeeps
<1>3. CASE Clear
  BY <1>3, ClearKeeps
<1>4. CASE SerialInit \/ SerialShutdown
  BY <1>4, HookKeeps
<1>5. CASE PutChar
  BY <1>5, PutKeeps, SendKeeps, CursorKeeps DEF PutChar
<1>6. CASE Spin \/ Transmitted \/ UNCHANGED consoleVars
  BY <1>6, ConsoleStutters DEF Spin
<1> QED
  BY <1>1, <1>2, <1>3, <1>4, <1>5, <1>6 DEF ConsoleNext

LEMMA ConsoleInductive == ConsoleSpec => []ConsoleIInv
  BY ConsoleInvInit, ConsoleInvNext, PTL DEF ConsoleSpec

\* Whatever is printed, with tabs, backspaces and long lines, and however often
\* it scrolls, the screen is the end of the text as it stands on an endless
\* page, no character is ever stored outside it, and the cursor follows: for
\* every size of the screen.
THEOREM ScreenIsRight == ConsoleSpec => []ScreenInv
<1>1. ConsoleIInv => ScreenInv
  <2> SUFFICES ASSUME ConsoleIInv PROVE ScreenInv
    OBVIOUS
  <2>1. ConsoleTypes /\ ScreenAt /\ CursorAt /\ PrintAt
    BY DEF ConsoleIInv
  <2>2. /\ vga_row \in Rows /\ vga_col \in Cols /\ screen \in [Rows -> [Cols -> Char]]
    BY <2>1, PositionIs DEF ConsoleTypes
  <2>3. Len(text) <= MaxChars
    <3>1. text \in Seq(Char) /\ todo \in Seq(Char) /\ (todo # <<>> => Len(todo) >= 1)
      BY <2>1 DEF ConsoleTypes
    <3> QED
      BY <2>1, <3>1, PrintBound DEF PrintAt
  <2>4. ConsoleTypeOK
    BY <2>1, <2>2, <2>3 DEF ConsoleTypes, ConsoleTypeOK
  <2>5. ScreenShowsEnd
    BY <2>1 DEF ScreenAt, ScreenShowsEnd, View
  <2>6. CursorFollows
    BY <2>1 DEF CursorAt, CursorFollows, Idle
  <2> QED
    BY <2>4, <2>5, <2>6 DEF ScreenInv
<1> QED
  BY <1>1, ConsoleInductive, PTL

\* While the hook is set, COM1 carries all that is printed, once and in order,
\* however the transmitter's pace interleaves with the printing, and no byte
\* is given to a busy transmitter.
THEOREM SerialIsComplete == ConsoleSpec => []SerialCarriesText
<1>1. ConsoleIInv => SerialCarriesText
  <2> SUFFICES ASSUME ConsoleIInv, hook, put_pc = "idle" PROVE wire = Carried(Traced)
    BY DEF SerialCarriesText, Idle, Traced
  <2>1. Owed = <<>> /\ wire \in Seq(Char)
    BY DEF Owed, ConsoleIInv, ConsoleTypes
  <2>2. wire \o <<>> = wire
    BY <2>1
  <2> QED
    BY <2>1, <2>2 DEF ConsoleIInv, WireAt
<1> QED
  BY <1>1, ConsoleInductive, PTL
=============================================================================
