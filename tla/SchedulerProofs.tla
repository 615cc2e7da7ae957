-------------------------- MODULE SchedulerProofs --------------------------
(***************************************************************************)
(* Theorems about Scheduler, for every table size, set of names and        *)
(* periods, and width of the tick counter.                                 *)
(***************************************************************************)
EXTENDS Scheduler, KernelLemmas, FiniteSetTheorems

-----------------------------------------------------------------------------
\* Sets of places are finite, and none has more members than the table.
LEMMA PlacesFinite ==
    ASSUME NEW S, S \subseteq Slots
    PROVE  /\ IsFiniteSet(S)
           /\ Cardinality(S) \in Nat
           /\ Cardinality(S) <= MaxTasks
<1>1. IsFiniteSet(Slots) /\ Cardinality(Slots) = MaxTasks
  BY TableSize, FS_Interval DEF Slots
<1> QED
  BY <1>1, FS_Subset, FS_CardinalityType

\* A place that becomes live is counted once more.
LEMMA OneMoreLive ==
    ASSUME NEW S, S \subseteq Slots, NEW k \in Slots \ S
    PROVE  Cardinality(S \cup {k}) = Cardinality(S) + 1
  BY PlacesFinite, FS_AddElement

\* A place that dies is counted once less.
LEMMA OneLessLive ==
    ASSUME NEW S, S \subseteq Slots, NEW k \in S
    PROVE  Cardinality(S \ {k}) = Cardinality(S) - 1
  BY PlacesFinite, FS_RemoveElement

\* scheduler_init establishes the invariant.
LEMMA InitCount == Init => CountInv
<1> SUFFICES ASSUME Init PROVE CountInv
  OBVIOUS
<1>a. (CHOOSE p \in Periods : TRUE) \in Periods
  BY PeriodsFit
<1>b. 0 \in 0 .. TickMod - 1
  BY TickWidth
<1>1. Blank \in Task
  BY <1>a, <1>b DEF Blank, Task, TaskState, Kept
<1>2. TypeOK
  BY <1>1, TickWidth, TableSize, QueueSize DEF Init, TypeOK
<1>3. InState("READY") = {} /\ InState("RUNNING") = {}
  BY DEF Init, InState, Blank
<1>4. Cardinality(Live) = 0
  BY <1>3, FS_EmptySet DEF Live
<1> QED
  BY <1>2, <1>3, <1>4
  DEF Init, CountInv, OneRunningTask, RunningEntry, CountMatchesTable

-----------------------------------------------------------------------------
\* scheduler_add_task fills an EMPTY place and counts it.
LEMMA AddTaskStep ==
    ASSUME CountInv, NEW n \in Names, NEW p \in Periods, AddTask(n, p)
    PROVE  CountInv'
<1> DEFINE slot == Min(InState("EMPTY"))
<1> DEFINE new == [state |-> "READY", name |-> Trunc[n], period |-> p, last_run |-> 0]
<1>1. slot \in Slots /\ task_table[slot].state = "EMPTY"
  <2>1. InState("EMPTY") \subseteq Nat /\ InState("EMPTY") # {}
    BY TableSize DEF AddTask, InState, Slots
  <2>2. slot \in InState("EMPTY")
    BY <2>1, MinOfNaturals
  <2> QED
    BY <2>2 DEF InState
<1>2. /\ task_table' = [task_table EXCEPT ![slot] = new]
      /\ gap' = [gap EXCEPT ![slot] = 0]
      /\ ran' = ran \ {slot}
      /\ task_count_val' = task_count_val + 1
      /\ UNCHANGED <<sched_tick, pc, i, pending, drift>>
  BY DEF AddTask, tickVars
<1> HIDE DEF slot
<1>3. new \in Task
  <2>1. Trunc[n] \in Kept
    BY DEF Kept
  <2>2. QED
    BY <2>1, TickWidth DEF Task, TaskState
<1>4. TypeOK'
  BY <1>1, <1>2, <1>3 DEF CountInv, TypeOK
<1>5. \A k \in Slots : task_table'[k] = IF k = slot THEN new ELSE task_table[k]
  BY <1>1, <1>2 DEF CountInv, TypeOK
<1>6. OneRunningTask' /\ RunningEntry'
  BY <1>1, <1>2, <1>5 DEF CountInv, TypeOK, OneRunningTask, RunningEntry, InState
<1>7. Live' = Live \cup {slot} /\ slot \notin Live /\ Live \subseteq Slots
  BY <1>1, <1>5 DEF Live, InState
<1>8. CountMatchesTable'
  BY <1>1, <1>2, <1>7, OneMoreLive, PlacesFinite DEF CountInv, TypeOK, CountMatchesTable
<1> QED
  BY <1>4, <1>6, <1>8 DEF CountInv

\* scheduler_remove_task counts a live task out, and a zombie once more.
LEMMA RemoveTaskStep ==
    ASSUME CountInv, NEW n \in Names, RemoveTask(n)
    PROVE  CountInv'
<1> DEFINE slot == Min(Matching(n))
<1>1. slot \in Slots /\ task_table[slot].state # "EMPTY"
  <2>1. Matching(n) \subseteq Nat /\ Matching(n) # {}
    BY TableSize DEF RemoveTask, Matching, Slots
  <2>2. slot \in Matching(n)
    BY <2>1, MinOfNaturals
  <2> QED
    BY <2>2 DEF Matching
<1>2. /\ task_table' = [task_table EXCEPT ![slot].state = "ZOMBIE"]
      /\ drift' = IF task_table[slot].state = "ZOMBIE" THEN drift + 1 ELSE drift
      /\ task_count_val' = task_count_val - 1
      /\ UNCHANGED <<sched_tick, pc, i, pending, gap, ran>>
  BY DEF RemoveTask, tickVars
<1> HIDE DEF slot
<1>3. TypeOK'
  BY <1>1, <1>2 DEF CountInv, TypeOK, Task, TaskState
<1>4. \A k \in Slots : task_table'[k].state =
                          IF k = slot THEN "ZOMBIE" ELSE task_table[k].state
  BY <1>1, <1>2 DEF CountInv, TypeOK, Task
<1>5. OneRunningTask' /\ RunningEntry'
  BY <1>2, <1>4 DEF CountInv, TypeOK, OneRunningTask, RunningEntry, InState
<1>6. Live' = Live \ {slot} /\ Live \subseteq Slots
  BY <1>1, <1>4 DEF Live, InState
<1>7. CountMatchesTable'
  <2>1. CASE task_table[slot].state = "ZOMBIE"
    <3>1. Live' = Live
      BY <1>6, <2>1 DEF Live, InState
    <3>2. task_count_val' = task_count_val - 1 /\ drift' = drift + 1
      BY <1>2, <2>1
    <3> QED
      BY <3>1, <3>2 DEF CountInv, TypeOK, CountMatchesTable
  <2>2. CASE task_table[slot].state # "ZOMBIE"
    <3>1. slot \in Live
      BY <1>1, <2>2 DEF Live, InState, CountInv, TypeOK, Task, TaskState
    <3> QED
      BY <1>2, <1>6, <2>2, <3>1, OneLessLive, PlacesFinite
      DEF CountInv, TypeOK, CountMatchesTable
  <2> QED
    BY <2>1, <2>2
<1> QED
  BY <1>3, <1>5, <1>7 DEF CountInv

\* A tick begins by freeing the places of the zombies, which nobody counts.
LEMMA TickStartStep ==
    ASSUME CountInv, TickStart
    PROVE  CountInv'
<1>1. sched_tick' \in 0 .. TickMod - 1
  BY TickWidth, ModRange DEF TickStart, CountInv, TypeOK
<1>2. task_table' \in [Slots -> Task]
  BY DEF TickStart, Reaped, CountInv, TypeOK, Task, TaskState
<1>3. gap' \in [Slots -> Nat]
  BY DEF TickStart, InState, CountInv, TypeOK
<1>4. TypeOK'
  BY <1>1, <1>2, <1>3, TableSize DEF TickStart, CountInv, TypeOK
<1>5. \A k \in Slots : task_table'[k].state =
          IF task_table[k].state = "ZOMBIE" THEN "EMPTY" ELSE task_table[k].state
  BY DEF TickStart, Reaped, CountInv, TypeOK, Task
<1>6. InState("RUNNING")' = {}
  BY <1>5 DEF CountInv, OneRunningTask, InState, TickStart
<1>7. Live' = Live
  BY <1>5 DEF Live, InState
<1>8. CountMatchesTable'
  BY <1>7 DEF TickStart, CountInv, CountMatchesTable
<1> QED
  BY <1>4, <1>6, <1>8 DEF TickStart, CountInv, OneRunningTask, RunningEntry

\* Running a task keeps it live.
LEMMA RunTaskStep ==
    ASSUME CountInv, RunTask
    PROVE  CountInv'
<1>1. i \in Slots /\ task_table[i].state = "READY"
  BY TableSize DEF RunTask, CountInv, TypeOK, Slots
<1>2. TypeOK'
  BY <1>1 DEF RunTask, CountInv, TypeOK, Task, TaskState
<1>3. \A k \in Slots : task_table'[k].state = IF k = i THEN "RUNNING" ELSE task_table[k].state
  BY <1>1 DEF RunTask, CountInv, TypeOK, Task
<1>4. OneRunningTask' /\ RunningEntry'
  BY <1>1, <1>3 DEF RunTask, CountInv, OneRunningTask, RunningEntry, InState
<1>5. Live' = Live
  BY <1>1, <1>3 DEF Live, InState
<1>6. CountMatchesTable'
  BY <1>5 DEF RunTask, CountInv, CountMatchesTable
<1> QED
  BY <1>2, <1>4, <1>6 DEF CountInv

\* A task that returns is READY again, even when it was removed: the counter
\* then misses it.
LEMMA TaskReturnStep ==
    ASSUME CountInv, TaskReturn
    PROVE  CountInv'
<1>1. i \in Slots /\ task_table[i].state \in {"RUNNING", "ZOMBIE"}
  BY DEF TaskReturn, CountInv, TypeOK, RunningEntry
<1>2. TypeOK'
  <2>1. task_table' \in [Slots -> Task]
    BY <1>1 DEF TaskReturn, CountInv, TypeOK, Task, TaskState
  <2>2. i' \in 0 .. MaxTasks
    BY <1>1, TableSize DEF TaskReturn, Slots
  <2>3. drift' \in Nat
    BY DEF TaskReturn, CountInv, TypeOK
  <2> QED
    BY <2>1, <2>2, <2>3 DEF TaskReturn, CountInv, TypeOK
<1>3. \A k \in Slots : task_table'[k].state = IF k = i THEN "READY" ELSE task_table[k].state
  BY <1>1 DEF TaskReturn, CountInv, TypeOK, Task
<1>4. OneRunningTask' /\ RunningEntry'
  BY <1>1, <1>3 DEF TaskReturn, CountInv, OneRunningTask, RunningEntry, InState
<1>5. Live \subseteq Slots
  BY DEF Live, InState
<1>6. CASE task_table[i].state = "RUNNING"
  <2>1. Live' = Live
    BY <1>1, <1>3, <1>6 DEF Live, InState
  <2>2. CountMatchesTable'
    BY <1>6, <2>1 DEF TaskReturn, CountInv, CountMatchesTable
  <2> QED
    BY <1>2, <1>4, <2>2 DEF CountInv
<1>7. CASE task_table[i].state = "ZOMBIE"
  <2>1. Live' = Live \cup {i} /\ i \notin Live
    BY <1>1, <1>3, <1>7 DEF Live, InState
  <2>2. CountMatchesTable'
    BY <1>1, <1>5, <1>7, <2>1, OneMoreLive, PlacesFinite
    DEF TaskReturn, CountInv, TypeOK, CountMatchesTable
  <2> QED
    BY <1>2, <1>4, <2>2 DEF CountInv
<1> QED
  BY <1>1, <1>6, <1>7

\* Every step of the scheduler keeps the invariant.
LEMMA StepCount == CountInv /\ [Next]_vars => CountInv'
<1> SUFFICES ASSUME CountInv, [Next]_vars PROVE CountInv'
  OBVIOUS
<1>1. ASSUME NEW n \in Names, NEW p \in Periods, AddTask(n, p) PROVE CountInv'
  BY <1>1, AddTaskStep
<1>2. ASSUME NEW n \in Names, RemoveTask(n) PROVE CountInv'
  BY <1>2, RemoveTaskStep
<1>3. CASE UseBus
  BY <1>3 DEF UseBus, tickVars, CountInv, TypeOK, OneRunningTask, RunningEntry,
              CountMatchesTable, Live, InState
<1>4. CASE TickStart
  BY <1>4, TickStartStep
<1>5. CASE RunTask
  BY <1>5, RunTaskStep
<1>6. CASE SkipTask
  BY <1>6, TableSize DEF SkipTask, CountInv, TypeOK, OneRunningTask, RunningEntry,
              CountMatchesTable, Live, InState
<1>7. CASE TickEnd
  BY <1>7, TableSize, QueueSize DEF TickEnd, CountInv, TypeOK, OneRunningTask, RunningEntry,
              CountMatchesTable, Live, InState
<1>8. CASE TaskReturn
  BY <1>8, TaskReturnStep
<1>9. CASE UNCHANGED vars
  BY <1>9 DEF vars, tickVars, CountInv, TypeOK, OneRunningTask, RunningEntry,
              CountMatchesTable, Live, InState
<1> QED
  BY <1>1, <1>2, <1>3, <1>4, <1>5, <1>6, <1>7, <1>8, <1>9 DEF Next, Api, TickStep

\* Whatever tasks add and remove while scheduler_tick walks the table: every
\* variable of the scheduler keeps its type, at most one entry is RUNNING, that
\* of the task scheduler_tick has called, and task_count_val differs from the
\* number of live tasks by exactly the removals of zombies and the returns of
\* removed tasks.
THEOREM CountAgrees == Spec => []CountInv
  BY InitCount, StepCount, PTL DEF Spec

-----------------------------------------------------------------------------
\* What a step does to a place that holds a removed task.
LEMMA ZombieStep ==
    ASSUME CountInv, [Next]_vars, NEW k \in Slots, task_table[k].state = "ZOMBIE"
    PROVE  \/ task_table'[k].state \in {"ZOMBIE", "EMPTY"}
           \/ pc = "task" /\ k = i /\ task_table'[k].state = "READY"
<1>t. task_table \in [Slots -> Task]
  BY DEF CountInv, TypeOK
<1>1. ASSUME NEW n \in Names, NEW p \in Periods, AddTask(n, p)
      PROVE  task_table'[k].state = "ZOMBIE"
  <2>1. InState("EMPTY") \subseteq Nat /\ InState("EMPTY") # {}
    BY <1>1, TableSize DEF AddTask, InState, Slots
  <2>2. Min(InState("EMPTY")) \in InState("EMPTY")
    BY <2>1, MinOfNaturals
  <2>3. Min(InState("EMPTY")) # k
    BY <2>2 DEF InState
  <2> QED
    BY <1>1, <1>t, <2>2, <2>3 DEF AddTask, InState
<1>2. ASSUME NEW n \in Names, RemoveTask(n) PROVE task_table'[k].state = "ZOMBIE"
  BY <1>2, <1>t DEF RemoveTask, Task
<1>3. CASE TickStart
  BY <1>3, <1>t DEF TickStart, Reaped, Task
<1>4. CASE RunTask
  <2>1. i # k
    BY <1>4 DEF RunTask
  <2> QED
    BY <1>4, <1>t, <2>1 DEF RunTask
<1>5. CASE TaskReturn
  BY <1>5, <1>t DEF TaskReturn, Task
<1>6. CASE UseBus \/ SkipTask \/ TickEnd \/ UNCHANGED vars
  BY <1>6 DEF UseBus, SkipTask, TickEnd, vars
<1> QED
  BY <1>1, <1>2, <1>3, <1>4, <1>5, <1>6 DEF Next, Api, TickStep

\* A removed task never runs again, for every table and every behaviour of the
\* tasks, unless it was removed while it ran: only the return of the running
\* task brings an entry back.
THEOREM RemovedForGood == Spec => RemovedStaysRemoved
<1>1. CountInv /\ [Next]_vars
          => [\A k \in Slots : task_table[k].state = "ZOMBIE"
                  => \/ task_table'[k].state \in {"ZOMBIE", "EMPTY"}
                     \/ pc = "task" /\ k = i /\ task_table'[k].state = "READY"]_vars
  BY ZombieStep
<1> QED
  BY InitCount, StepCount, <1>1, PTL DEF Spec, RemovedStaysRemoved

-----------------------------------------------------------------------------
\* The counter never makes scheduler_add_task refuse a task while a place is
\* EMPTY: it is at most the number of live tasks, and these leave the EMPTY
\* places out.
THEOREM CounterIsNotEarly == Spec => []CounterNeverRefusesEarly
<1>1. CountInv => CounterNeverRefusesEarly
  <2> SUFFICES ASSUME CountInv, task_count_val >= MaxTasks, NEW k \in InState("EMPTY")
               PROVE  FALSE
    BY DEF CounterNeverRefusesEarly
  <2>1. Live \subseteq Slots /\ k \in Slots \ Live
    BY DEF Live, InState
  <2>2. Cardinality(Live \cup {k}) = Cardinality(Live) + 1
    BY <2>1, OneMoreLive
  <2>3. Cardinality(Live \cup {k}) <= MaxTasks /\ Cardinality(Live) \in Nat
    BY <2>1, PlacesFinite
  <2> QED
    BY <2>2, <2>3, TableSize DEF CountInv, TypeOK, CountMatchesTable
<1> QED
  BY InitCount, StepCount, <1>1, PTL DEF Spec

-----------------------------------------------------------------------------
(* When tasks run.                                                         *)

\* The scan of this tick has looked at place k, or will not look any more.
Passed(k) == pc = "idle" \/ k < i

\* A task that has run: the counter stands gap ticks after its last run, and
\* the period is not over once the scan has passed it.
Regular(k) ==
    /\ sched_tick = (task_table[k].last_run + gap[k]) % TickMod
    /\ gap[k] <= Every(k)
    /\ IF Passed(k) THEN gap[k] < Every(k) ELSE gap[k] >= 1

\* A task that waits for its first run: it was added in a tick whose number
\* is gap back from here, or in the last before the counter wrapped, and was
\* not due when a scan last passed it.
Fresh(k) ==
    /\ task_table[k].last_run = 0
    /\ gap[k] <= sched_tick + 1
    /\ gap[k] <= Every(k) + 1
    /\ Passed(k) => gap[k] = 0 \/ sched_tick < task_table[k].period

OnTime(k) == IF k \in ran THEN Regular(k) ELSE Fresh(k)

\* A running task has begun this tick, also when it has been removed since.
JustBegun == pc = "task" => /\ i \in ran /\ gap[i] = 0
                            /\ task_table[i].last_run = sched_tick

PunctualInv == (\A k \in InState("READY") : OnTime(k)) /\ JustBegun

\* The unsigned difference of two readings of the counter is the distance
\* between them, across a wrap too.
LEMMA Distance ==
    ASSUME NEW s \in 0 .. TickMod - 1, NEW l \in 0 .. TickMod - 1, NEW g \in 0 .. TickMod - 1,
           s = (l + g) % TickMod
    PROVE  (s - l + TickMod) % TickMod = g
<1>0. TickMod \in Nat \ {0} /\ g \in 0 .. TickMod
  BY TickWidth
<1>1. s = IF l + g < TickMod THEN l + g ELSE l + g - TickMod
  BY <1>0, ModSum
<1>2. CASE l + g < TickMod
  <2>1. s - l + TickMod = g + TickMod
    BY <1>0, <1>1, <1>2
  <2>2. g + TickMod \in TickMod .. 2 * TickMod - 1
    BY <1>0
  <2>3. (g + TickMod) % TickMod = g + TickMod - TickMod
    BY <1>0, <2>2, ModWrap
  <2> QED
    BY <1>0, <2>1, <2>3
<1>3. CASE l + g >= TickMod
  <2>1. s - l + TickMod = g
    BY <1>0, <1>1, <1>3
  <2> QED
    BY <1>0, <2>1, ModSmall
<1> QED
  BY <1>0, <1>2, <1>3

\* The ranges of what is compared.
LEMMA EveryIs ==
    ASSUME TypeOK, NEW k \in Slots
    PROVE  /\ task_table[k].period \in 0 .. TickMod - 1
           /\ task_table[k].last_run \in 0 .. TickMod - 1
           /\ Every(k) \in 1 .. TickMod - 1
           /\ Every(k) >= task_table[k].period
           /\ task_table[k].period # 0 => Every(k) = task_table[k].period
           /\ gap[k] \in Nat
<1>1. task_table[k] \in Task /\ gap[k] \in Nat
  BY DEF TypeOK
<1>2. task_table[k].period \in 0 .. TickMod - 1 /\ task_table[k].last_run \in 0 .. TickMod - 1
  BY <1>1, PeriodsFit DEF Task
<1> QED
  BY <1>1, <1>2, TickWidth DEF Every

\* When the scan comes to a task, it is due exactly at the end of its period.
LEMMA DueWhenOver ==
    ASSUME TypeOK, NEW k \in Slots, k \in ran, OnTime(k), ~Passed(k)
    PROVE  Due(k) <=> gap[k] = Every(k)
<1>1. /\ sched_tick = (task_table[k].last_run + gap[k]) % TickMod
      /\ gap[k] <= Every(k) /\ gap[k] >= 1
  BY DEF OnTime, Regular
<1>2. gap[k] \in 0 .. TickMod - 1 /\ sched_tick \in 0 .. TickMod - 1
  BY <1>1, EveryIs, TickWidth DEF TypeOK
<1>3. Elapsed(k) = gap[k]
  BY <1>1, <1>2, EveryIs, Distance DEF Elapsed
<1> QED
  BY <1>1, <1>2, <1>3, EveryIs DEF Due, Every

\* A task that waits for its first run looks as if it had run in tick 0.
LEMMA DueFromZero ==
    ASSUME TypeOK, NEW k \in Slots, Fresh(k), ~Due(k)
    PROVE  sched_tick < task_table[k].period
<1>1. task_table[k].last_run = 0 /\ sched_tick \in 0 .. TickMod - 1
  BY DEF Fresh, TypeOK
<1>2. sched_tick = (0 + sched_tick) % TickMod /\ 0 \in 0 .. TickMod - 1
  BY <1>1, TickWidth, ModSmall
<1>3. (sched_tick - 0 + TickMod) % TickMod = sched_tick
  BY <1>1, <1>2, Distance
<1>4. Elapsed(k) = sched_tick
  BY <1>1, <1>3 DEF Elapsed
<1> QED
  BY <1>1, <1>4, EveryIs DEF Due

\* A step that leaves a task, the counter and the scan before it alone.
LEMMA StaysOnTime ==
    ASSUME NEW k \in Slots, OnTime(k), task_table'[k].period = task_table[k].period,
           task_table'[k].last_run = task_table[k].last_run, gap'[k] = gap[k],
           k \in ran' <=> k \in ran, sched_tick' = sched_tick, Passed(k)' <=> Passed(k)
    PROVE  OnTime(k)'
<1>1. Every(k)' = Every(k)
  BY DEF Every
<1>2. Regular(k) => Regular(k)'
  BY <1>1 DEF Regular
<1>3. Fresh(k) => Fresh(k)'
  BY <1>1 DEF Fresh
<1> QED
  BY <1>2, <1>3 DEF OnTime

\* What scheduler_add_task and scheduler_remove_task do to the others, and to
\* the entry they change.
LEMMA AddOnTime ==
    ASSUME CountInv, PunctualInv, NEW n \in Names, NEW p \in Periods, AddTask(n, p)
    PROVE  PunctualInv'
<1> DEFINE new == [state |-> "READY", name |-> Trunc[n], period |-> p, last_run |-> 0]
<1>1. PICK slot \in Slots : slot = Min(InState("EMPTY")) /\ task_table[slot].state = "EMPTY"
  <2>1. InState("EMPTY") \subseteq Nat /\ InState("EMPTY") # {}
    BY TableSize DEF AddTask, InState, Slots
  <2>2. Min(InState("EMPTY")) \in InState("EMPTY")
    BY <2>1, MinOfNaturals
  <2> QED
    BY <2>2 DEF InState
<1>2. /\ task_table' = [task_table EXCEPT ![slot] = new]
      /\ gap' = [gap EXCEPT ![slot] = 0]
      /\ ran' = ran \ {slot}
      /\ UNCHANGED <<sched_tick, pc, i>>
  BY <1>1 DEF AddTask, tickVars
<1>3. \A k \in Slots : /\ task_table'[k] = IF k = slot THEN new ELSE task_table[k]
                       /\ gap'[k] = IF k = slot THEN 0 ELSE gap[k]
  BY <1>1, <1>2 DEF CountInv, TypeOK
<1>4. \A k : Passed(k)' <=> Passed(k)
  BY <1>2 DEF Passed
<1>5. OnTime(slot)'
  <2>1. task_table'[slot].last_run = 0 /\ gap'[slot] = 0 /\ slot \notin ran'
        /\ task_table'[slot].period = p
    BY <1>1, <1>2, <1>3
  <2>2. Every(slot)' \in Nat /\ sched_tick' \in Nat
    BY <1>2, <2>1, PeriodsFit, TickWidth DEF Every, CountInv, TypeOK
  <2>3. Fresh(slot)'
    BY <2>1, <2>2 DEF Fresh
  <2> QED
    BY <2>1, <2>3 DEF OnTime
<1>6. ASSUME NEW k \in InState("READY")' PROVE OnTime(k)'
  <2>1. CASE k = slot
    BY <1>5, <2>1
  <2>2. CASE k # slot
    <3>1. k \in Slots /\ k \in InState("READY")
      BY <1>3, <2>2 DEF InState
    <3> QED
      BY <1>2, <1>3, <1>4, <2>2, <3>1, StaysOnTime DEF PunctualInv
  <2> QED
    BY <2>1, <2>2
<1>7. JustBegun'
  <2> SUFFICES ASSUME pc' = "task" PROVE i' \in ran' /\ gap'[i'] = 0 /\ task_table'[i'].last_run = sched_tick'
    BY DEF JustBegun
  <2>1. i \in Slots /\ i # slot /\ i' = i
    BY <1>1, <1>2 DEF CountInv, TypeOK, RunningEntry
  <2> QED
    BY <1>2, <1>3, <2>1 DEF PunctualInv, JustBegun
<1> QED
  BY <1>6, <1>7 DEF PunctualInv

LEMMA RemoveOnTime ==
    ASSUME CountInv, PunctualInv, NEW n \in Names, RemoveTask(n)
    PROVE  PunctualInv'
<1>1. PICK slot : /\ task_table' = [task_table EXCEPT ![slot].state = "ZOMBIE"]
                  /\ UNCHANGED <<sched_tick, pc, i, gap, ran>>
  BY DEF RemoveTask, tickVars
<1>2. \A k \in Slots : /\ task_table'[k].period = task_table[k].period
                       /\ task_table'[k].last_run = task_table[k].last_run
                       /\ task_table'[k].state \in {task_table[k].state, "ZOMBIE"}
  BY <1>1 DEF CountInv, TypeOK, Task
<1>3. \A k : Passed(k)' <=> Passed(k)
  BY <1>1 DEF Passed
<1>4. ASSUME NEW k \in InState("READY")' PROVE OnTime(k)'
  <2>1. k \in Slots /\ k \in InState("READY")
    BY <1>2 DEF InState
  <2> QED
    BY <1>1, <1>2, <1>3, <2>1, StaysOnTime DEF PunctualInv
<1>5. JustBegun'
  BY <1>1, <1>2 DEF PunctualInv, JustBegun, CountInv, TypeOK
<1> QED
  BY <1>4, <1>5 DEF PunctualInv

\* A tick begins: every READY task has waited one tick more, and none had to.
LEMMA StartOnTime ==
    ASSUME CountInv, PunctualInv, TickStart
    PROVE  PunctualInv'
<1>t. TypeOK /\ TickMod \in Nat \ {0} /\ sched_tick \in 0 .. TickMod - 1
  BY TickWidth DEF CountInv, TypeOK
<1>1. /\ pc = "idle" /\ pc' = "scan" /\ i' = 0 /\ ran' = ran
      /\ sched_tick' = (sched_tick + 1) % TickMod
  BY DEF TickStart
<1>2. ASSUME NEW k \in InState("READY")'
      PROVE  /\ k \in Slots /\ k \in InState("READY")
             /\ task_table'[k].period = task_table[k].period
             /\ task_table'[k].last_run = task_table[k].last_run
             /\ gap'[k] = IF gap[k] <= TickMod THEN gap[k] + 1 ELSE gap[k]
  BY <1>t, <1>2 DEF TickStart, Reaped, InState, TypeOK, Task
<1>3. sched_tick' = IF sched_tick + 1 < TickMod THEN sched_tick + 1 ELSE 0
  <2>1. 1 \in 0 .. TickMod
    BY <1>t
  <2>2. (sched_tick + 1) % TickMod = IF sched_tick + 1 < TickMod THEN sched_tick + 1
                                     ELSE sched_tick + 1 - TickMod
    BY <1>t, <2>1, ModSum
  <2> QED
    BY <1>t, <1>1, <2>2
<1>4. ASSUME NEW k \in InState("READY")' PROVE OnTime(k)'
  <2>1. /\ k \in Slots /\ OnTime(k) /\ Passed(k) /\ Passed(k)' = FALSE
        /\ Every(k)' = Every(k)
    <3>1. k \in Slots /\ k \in InState("READY") /\ Every(k)' = Every(k)
      BY <1>2 DEF Every
    <3>2. k \in Nat
      BY <3>1, TableSize DEF Slots
    <3> QED
      BY <1>1, <3>1, <3>2 DEF PunctualInv, Passed
  <2>2. Every(k) \in 1 .. TickMod - 1 /\ gap[k] \in Nat /\ task_table[k].period \in 0 .. TickMod - 1
        /\ task_table[k].last_run \in 0 .. TickMod - 1 /\ Every(k) >= task_table[k].period
    BY <1>t, <2>1, EveryIs
  <2>3. CASE k \in ran
    <3>1. /\ sched_tick = (task_table[k].last_run + gap[k]) % TickMod
          /\ gap[k] < Every(k)
      BY <2>1, <2>3 DEF OnTime, Regular
    <3>2. gap'[k] = gap[k] + 1
      BY <1>2, <1>t, <2>2, <3>1
    <3>3. sched_tick' = (task_table[k].last_run + gap[k] + 1) % TickMod
      <4>1. task_table[k].last_run + gap[k] \in Int
        BY <2>2
      <4>2. (((task_table[k].last_run + gap[k]) % TickMod) + 1) % TickMod
                = (task_table[k].last_run + gap[k] + 1) % TickMod
        BY <1>t, <4>1, ModSucc
      <4> QED
        BY <1>1, <3>1, <4>2
    <3>4. task_table[k].last_run + gap[k] + 1 = task_table'[k].last_run + gap'[k]
      BY <1>2, <2>2, <3>2
    <3>5. gap'[k] <= Every(k) /\ gap'[k] >= 1
      BY <2>2, <3>1, <3>2
    <3>6. Regular(k)'
      BY <2>1, <3>3, <3>4, <3>5 DEF Regular
    <3> QED
      BY <1>1, <2>3, <3>6 DEF OnTime
  <2>4. CASE k \notin ran
    <3>1. /\ task_table[k].last_run = 0 /\ gap[k] <= sched_tick + 1
          /\ gap[k] = 0 \/ sched_tick < task_table[k].period
      BY <2>1, <2>4 DEF OnTime, Fresh
    <3>2. gap'[k] = gap[k] + 1
      BY <1>2, <1>t, <2>2, <3>1
    <3>3. gap'[k] <= sched_tick' + 1 /\ gap'[k] <= Every(k) + 1
      BY <1>3, <1>t, <2>2, <3>1, <3>2
    <3>4. Fresh(k)'
      BY <1>2, <2>1, <3>1, <3>3 DEF Fresh
    <3> QED
      BY <1>1, <2>4, <3>4 DEF OnTime
  <2> QED
    BY <2>3, <2>4
<1>5. JustBegun'
  BY <1>1 DEF JustBegun
<1> QED
  BY <1>4, <1>5 DEF PunctualInv

\* A due task runs.
LEMMA RunOnTime ==
    ASSUME CountInv, PunctualInv, RunTask
    PROVE  PunctualInv'
<1>1. i \in Slots /\ pc = "scan" /\ pc' = "task" /\ UNCHANGED <<i, sched_tick>> /\ ran' = ran \cup {i}
  BY TableSize DEF RunTask, CountInv, TypeOK, Slots
<1>2. \A k \in Slots : /\ gap'[k] = IF k = i THEN 0 ELSE gap[k]
                       /\ k # i => task_table'[k] = task_table[k]
                       /\ k = i => task_table'[k].state = "RUNNING" /\ task_table'[k].last_run = sched_tick
  BY <1>1 DEF RunTask, CountInv, TypeOK, Task
<1>3. \A k : Passed(k)' <=> Passed(k)
  BY <1>1 DEF Passed
<1>4. ASSUME NEW k \in InState("READY")' PROVE OnTime(k)'
  <2>1. k \in Slots /\ k # i /\ k \in InState("READY")
    BY <1>2 DEF InState
  <2> QED
    BY <1>1, <1>2, <1>3, <2>1, StaysOnTime DEF PunctualInv
<1>5. JustBegun'
  BY <1>1, <1>2 DEF JustBegun
<1> QED
  BY <1>4, <1>5 DEF PunctualInv

\* The scan passes a task that is not due.
LEMMA SkipOnTime ==
    ASSUME CountInv, PunctualInv, SkipTask
    PROVE  PunctualInv'
<1>t. TypeOK
  BY DEF CountInv
<1>1. /\ i \in Slots /\ pc = "scan" /\ i' = i + 1
      /\ UNCHANGED <<task_table, sched_tick, pc, gap, ran>>
      /\ ~(task_table[i].state = "READY" /\ Due(i))
  BY TableSize DEF SkipTask, CountInv, TypeOK, Slots
<1>2. \A k \in Slots : k # i => (Passed(k)' <=> Passed(k))
  BY <1>1, TableSize DEF Passed, Slots
<1>3. ~Passed(i)
  BY <1>1, TableSize DEF Passed, Slots
<1>4. ASSUME NEW k \in InState("READY")' PROVE OnTime(k)'
  <2>1. k \in Slots /\ k \in InState("READY") /\ OnTime(k) /\ Every(k)' = Every(k)
    BY <1>1 DEF InState, PunctualInv, Every
  <2>2. CASE k # i
    BY <1>1, <1>2, <2>1, <2>2, StaysOnTime
  <2>3. CASE k = i
    <3>1. ~Due(k)
      BY <1>1, <2>1, <2>3 DEF InState
    <3>2. CASE k \in ran
      <4>1. Regular(k) /\ gap[k] # Every(k)
        BY <1>3, <1>t, <2>1, <2>3, <3>1, <3>2, DueWhenOver DEF OnTime
      <4>2. gap[k] < Every(k)
        BY <1>t, <2>1, <4>1, EveryIs DEF Regular
      <4>3. Passed(k)'
        BY <1>1, <2>3, TableSize DEF Passed, Slots
      <4>4. Regular(k)'
        BY <1>1, <2>1, <4>1, <4>2, <4>3 DEF Regular
      <4> QED
        BY <1>1, <3>2, <4>4 DEF OnTime
    <3>3. CASE k \notin ran
      <4>1. Fresh(k) /\ sched_tick < task_table[k].period
        BY <1>t, <2>1, <3>1, <3>3, DueFromZero DEF OnTime
      <4>2. Fresh(k)'
        BY <1>1, <2>1, <4>1 DEF Fresh
      <4> QED
        BY <1>1, <3>3, <4>2 DEF OnTime
    <3> QED
      BY <3>2, <3>3
  <2> QED
    BY <2>2, <2>3
<1>5. JustBegun'
  BY <1>1 DEF JustBegun
<1> QED
  BY <1>4, <1>5 DEF PunctualInv

\* A task returns, and has its whole period before it.
LEMMA ReturnOnTime ==
    ASSUME CountInv, PunctualInv, TaskReturn
    PROVE  PunctualInv'
<1>t. TypeOK /\ TickMod \in Nat \ {0} /\ sched_tick \in 0 .. TickMod - 1
  BY TickWidth DEF CountInv, TypeOK
<1>1. /\ i \in Slots /\ pc = "task" /\ pc' = "scan" /\ i' = i + 1
      /\ UNCHANGED <<sched_tick, gap, ran>>
  BY DEF TaskReturn, CountInv, TypeOK
<1>2. \A k \in Slots : /\ task_table'[k].period = task_table[k].period
                       /\ task_table'[k].last_run = task_table[k].last_run
                       /\ k # i => task_table'[k] = task_table[k]
  BY <1>1 DEF TaskReturn, CountInv, TypeOK, Task
<1>3. \A k \in Slots : k # i => (Passed(k)' <=> Passed(k))
  BY <1>1, TableSize DEF Passed, Slots
<1>5. ASSUME NEW k \in InState("READY")' PROVE OnTime(k)'
  <2>1. k \in Slots
    BY DEF InState
  <2>2. CASE k # i
    <3>1. k \in InState("READY")
      BY <1>2, <2>1, <2>2 DEF InState
    <3> QED
      BY <1>1, <1>2, <1>3, <2>1, <2>2, <3>1, StaysOnTime DEF PunctualInv
  <2>3. CASE k = i
    <3>1. k \in ran' /\ gap'[k] = 0 /\ task_table'[k].last_run = sched_tick'
      BY <1>1, <1>2, <2>1, <2>3 DEF PunctualInv, JustBegun
    <3>2. Passed(k)'
      BY <1>1, <2>3, TableSize DEF Passed, Slots
    <3>3. Every(k)' = Every(k) /\ Every(k) >= 1
      BY <1>2, <1>t, <2>1, EveryIs DEF Every
    <3>4. sched_tick' = (sched_tick' + 0) % TickMod
      BY <1>1, <1>t, ModSmall
    <3>5. Every(k) \in Nat
      BY <1>t, <2>1, EveryIs
    <3>6. Regular(k)'
      BY <3>1, <3>2, <3>3, <3>4, <3>5 DEF Regular
    <3> QED
      BY <3>1, <3>6 DEF OnTime
  <2> QED
    BY <2>2, <2>3
<1>6. JustBegun'
  BY <1>1 DEF JustBegun
<1> QED
  BY <1>5, <1>6 DEF PunctualInv

\* Steps that leave the table and the counter alone.
LEMMA QuietOnTime ==
    ASSUME CountInv, PunctualInv, UNCHANGED <<task_table, sched_tick, gap, ran>>,
           \A k \in Slots : Passed(k)' <=> Passed(k), pc' = "task" => pc = "task" /\ i' = i
    PROVE  PunctualInv'
<1>1. ASSUME NEW k \in InState("READY")' PROVE OnTime(k)'
  <2>1. k \in Slots /\ k \in InState("READY")
    BY DEF InState
  <2> QED
    BY <2>1, StaysOnTime DEF PunctualInv
<1> QED
  BY <1>1 DEF PunctualInv, JustBegun

LEMMA StepOnTime == CountInv /\ PunctualInv /\ [Next]_vars => PunctualInv'
<1> SUFFICES ASSUME CountInv, PunctualInv, [Next]_vars PROVE PunctualInv'
  OBVIOUS
<1>1. CASE UseBus \/ UNCHANGED vars
  <2>1. UNCHANGED <<task_table, sched_tick, pc, i, gap, ran>>
    BY <1>1 DEF UseBus, vars, tickVars
  <2> QED
    BY <2>1, QuietOnTime DEF Passed
<1>2. CASE TickEnd
  <2>1. /\ UNCHANGED <<task_table, sched_tick, gap, ran>>
        /\ i = MaxTasks /\ pc' = "idle"
    BY <1>2 DEF TickEnd
  <2>2. \A k \in Slots : Passed(k) /\ Passed(k)'
    BY <2>1, TableSize DEF Passed, Slots
  <2> QED
    BY <2>1, <2>2, QuietOnTime
<1> QED
  BY <1>1, <1>2, AddOnTime, RemoveOnTime, StartOnTime, RunOnTime, SkipOnTime, ReturnOnTime
  DEF Next, Api, TickStep

LEMMA InitOnTime == Init => PunctualInv
<1> SUFFICES ASSUME Init PROVE PunctualInv
  OBVIOUS
<1>1. InState("READY") = {}
  BY DEF Init, InState, Blank
<1> QED
  BY <1>1 DEF Init, PunctualInv, JustBegun

\* scheduler_tick never lets a READY task wait longer than its period, however
\* often sched_tick wraps and whatever tasks do to the table during a tick; the
\* first run alone may come a tick later.
THEOREM NoTaskIsLate == Spec => []NeverOverdue
<1>1. CountInv /\ PunctualInv => NeverOverdue
  <2> SUFFICES ASSUME CountInv, PunctualInv, NEW k \in InState("READY")
               PROVE  gap[k] <= Every(k) + (IF k \in ran THEN 0 ELSE 1)
    BY DEF NeverOverdue
  <2>1. k \in Slots /\ OnTime(k) /\ Every(k) \in Nat
    BY EveryIs DEF PunctualInv, InState, CountInv
  <2> QED
    BY <2>1 DEF OnTime, Regular, Fresh
<1> QED
  BY <1>1, InitCount, StepCount, InitOnTime, StepOnTime, PTL DEF Spec

\* ... and from one run of a task to the next exactly as many ticks begin as its
\* period says: it is never early either.
THEOREM PeriodsAreExact == Spec => RunsEveryNTicks
<1>1. ASSUME CountInv, PunctualInv, [Next]_vars, NEW k \in Slots \cap ran,
             task_table[k].state = "READY", task_table'[k].state = "RUNNING"
      PROVE  gap[k] = Every(k)
  <2>1. RunTask /\ k = i
    <3>t. task_table \in [Slots -> Task]
      BY <1>1 DEF CountInv, TypeOK
    <3>1. ASSUME NEW n \in Names, NEW p \in Periods, AddTask(n, p) PROVE FALSE
      <4>1. PICK s : task_table' = [task_table EXCEPT ![s] =
                [state |-> "READY", name |-> Trunc[n], period |-> p, last_run |-> 0]]
        BY <3>1 DEF AddTask
      <4> QED
        BY <1>1, <3>t, <4>1
    <3>2. ASSUME NEW n \in Names, RemoveTask(n) PROVE FALSE
      <4>1. PICK s : task_table' = [task_table EXCEPT ![s].state = "ZOMBIE"]
        BY <3>2 DEF RemoveTask
      <4> QED
        BY <1>1, <3>t, <4>1 DEF Task
    <3>3. ~TickStart
      BY <1>1, <3>t DEF TickStart, Reaped, Task
    <3>4. ~TaskReturn
      BY <1>1, <3>t DEF TaskReturn, Task
    <3>5. ~(UseBus \/ SkipTask \/ TickEnd \/ UNCHANGED vars)
      BY <1>1 DEF UseBus, SkipTask, TickEnd, vars
    <3>6. RunTask
      BY <1>1, <3>1, <3>2, <3>3, <3>4, <3>5 DEF Next, Api, TickStep
    <3> QED
      BY <1>1, <3>t, <3>6 DEF RunTask
  <2>2. OnTime(k) /\ ~Passed(k) /\ Due(k)
    BY <1>1, <2>1, TableSize DEF RunTask, PunctualInv, InState, Passed, Slots
  <2> QED
    BY <1>1, <2>2, DueWhenOver DEF CountInv
<1>2. CountInv /\ PunctualInv /\ [Next]_vars =>
          [\A k \in Slots \cap ran :
              (task_table[k].state = "READY" /\ task_table'[k].state = "RUNNING")
                  => gap[k] = Every(k)]_vars
  BY <1>1
<1> QED
  BY <1>2, InitCount, StepCount, InitOnTime, StepOnTime, PTL DEF Spec, RunsEveryNTicks
=============================================================================
