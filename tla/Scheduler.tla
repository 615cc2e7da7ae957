----------------------------- MODULE Scheduler -----------------------------
(***************************************************************************)
(* kernel/scheduler.c: the cooperative scheduler.  scheduler_tick() runs   *)
(* every due task to completion, in the order of the task table.  A task   *)
(* may itself add and remove tasks, its own entry included, while the tick *)
(* stands in the middle of the table, so a tick is a sequence of steps and *)
(* the API is called between ticks or by the task being run.               *)
(*                                                                         *)
(* Left out: the statistics field tick_count, scheduler_list (which only   *)
(* prints), and the contents of the event queue (EventBus has them): a     *)
(* tick's last act is a publication, of which only the number of pending   *)
(* events is kept here.                                                    *)
(***************************************************************************)
EXTENDS Integers, FiniteSetsExt

CONSTANTS MaxTasks,    \* SCHED_MAX_TASKS
          Names,       \* task names
          Trunc,       \* what strncpy_k keeps of a name in TASK_NAME_LEN bytes
          Periods,     \* the periods tasks are added with
          TickMod,     \* sched_tick is a uint32_t: it counts modulo 2^32
          QueueDepth,  \* EVENTBUS_QUEUE_DEPTH
          MaxDrift     \* bound: removals that hit a task already dead

ASSUME TableSize  == MaxTasks \in Nat \ {0}
ASSUME TickWidth  == TickMod \in Nat /\ TickMod > 1
ASSUME PeriodsFit == Periods # {} /\ Periods \subseteq 0 .. TickMod - 1
ASSUME TruncNames == DOMAIN Trunc = Names
ASSUME QueueSize  == QueueDepth \in Nat \ {0}
ASSUME DriftBound == MaxDrift \in Nat

Slots == 0 .. MaxTasks - 1

VARIABLES task_table, task_count_val, sched_tick,
          pc,       \* "idle", or scheduler_tick stands in "scan" or "task"
          i,        \* its loop index
          pending,  \* eventbus_pending()
          drift,    \* history: how far task_count_val has lost track
          gap,      \* history: ticks begun since a task was added or last run,
                    \* counted to TickMod + 1, more than any period
          ran       \* history: places whose present task has run before

tickVars == <<sched_tick, pc, i>>
vars     == <<task_table, task_count_val, tickVars, pending, drift, gap, ran>>

TaskState == {"EMPTY", "READY", "RUNNING", "ZOMBIE"}

\* What the name of a place can be: memset to nothing, or a truncated name.
Kept == {""} \cup {Trunc[n] : n \in Names}

Task == [state : TaskState, name : Kept, period : Periods, last_run : 0 .. TickMod - 1]

InState(s) == {k \in Slots : task_table[k].state = s}
Live       == InState("READY") \cup InState("RUNNING")

\* The name and the period of an EMPTY place are never read.
Blank == [state |-> "EMPTY", name |-> "",
          period |-> CHOOSE p \in Periods : TRUE, last_run |-> 0]

\* scheduler_init()
Init ==
    /\ task_table = [k \in Slots |-> Blank]
    /\ task_count_val = 0
    /\ sched_tick = 0
    /\ pc = "idle" /\ i = 0
    /\ pending = 0
    /\ drift = 0
    /\ gap = [k \in Slots |-> 0]
    /\ ran = {}

-----------------------------------------------------------------------------
\* The API is called between ticks, or by the running task.
MayCall == pc \in {"idle", "task"}

\* A full counter, or no EMPTY place although the counter leaves room (the
\* zombies wait for the next tick), gives AURA_NOSLOT and changes nothing.
\* Nothing forbids two tasks of one name.
AddTask(n, p) ==
    /\ MayCall
    /\ task_count_val < MaxTasks
    /\ InState("EMPTY") # {}
    /\ LET slot == Min(InState("EMPTY")) IN
       /\ task_table' = [task_table EXCEPT ![slot] =
              [state |-> "READY", name |-> Trunc[n], period |-> p, last_run |-> 0]]
       /\ gap' = [gap EXCEPT ![slot] = 0]
       /\ ran' = ran \ {slot}
    /\ task_count_val' = task_count_val + 1
    /\ UNCHANGED <<tickVars, pending, drift>>

MatchingAny(n) == {k \in Slots : task_table[k].name = n}

\* The stored name is the truncated one, the argument is compared whole.
Matching(n) == {k \in Slots : task_table[k].state # "EMPTY" /\ task_table[k].name = n}

\* A ZOMBIE matches too, and is counted out a second time.
RemoveTask(n) ==
    /\ MayCall
    /\ Matching(n) # {}
    /\ LET slot == Min(Matching(n)) IN
       /\ task_table[slot].state # "READY" => drift < MaxDrift
       /\ task_table' = [task_table EXCEPT ![slot].state = "ZOMBIE"]
       /\ drift' = IF task_table[slot].state = "ZOMBIE" THEN drift + 1 ELSE drift
    /\ task_count_val' = task_count_val - 1
    /\ UNCHANGED <<tickVars, pending, gap, ran>>

\* Whatever else the callers do to the event bus: event_drain empties it, and
\* its handlers, the plugins and the mirror publish, the plugins while they
\* are registered before the first tick too.
UseBus ==
    /\ MayCall
    /\ pending' \in 0 .. QueueDepth
    /\ UNCHANGED <<task_table, task_count_val, tickVars, drift, gap, ran>>

-----------------------------------------------------------------------------
\* scheduler_tick(), step by step.

Reaped == [k \in Slots |-> IF task_table[k].state = "ZOMBIE"
                           THEN [task_table[k] EXCEPT !.state = "EMPTY"]
                           ELSE task_table[k]]

TickStart ==
    /\ pc = "idle"
    /\ sched_tick' = (sched_tick + 1) % TickMod
    /\ task_table' = Reaped
    /\ pc' = "scan" /\ i' = 0
    /\ gap' = [k \in Slots |-> IF k \notin InState("READY") THEN 0
                               ELSE IF gap[k] <= TickMod THEN gap[k] + 1
                               ELSE gap[k]]
    /\ UNCHANGED <<task_count_val, pending, drift, ran>>

\* Unsigned subtraction: the distance is right across sched_tick's wrap.
Elapsed(k) == (sched_tick - task_table[k].last_run + TickMod) % TickMod

DueEarly(k) == Elapsed(k) + 1 >= task_table[k].period

DueSigned(k) == \/ task_table[k].period = 0
                \/ sched_tick - task_table[k].last_run >= task_table[k].period

Due(k) == \/ task_table[k].period = 0
          \/ Elapsed(k) >= task_table[k].period

RunTaskUnlessEmpty ==
    /\ pc = "scan"
    /\ i < MaxTasks
    /\ task_table[i].state # "EMPTY"
    /\ Due(i)
    /\ task_table' = [task_table EXCEPT ![i].state = "RUNNING",
                                        ![i].last_run = sched_tick]
    /\ pc' = "task"
    /\ gap' = [gap EXCEPT ![i] = 0]
    /\ ran' = ran \cup {i}
    /\ UNCHANGED <<task_count_val, sched_tick, i, pending, drift>>

RunTask ==
    /\ pc = "scan"
    /\ i < MaxTasks
    /\ task_table[i].state = "READY"
    /\ Due(i)
    /\ task_table' = [task_table EXCEPT ![i].state = "RUNNING",
                                        ![i].last_run = sched_tick]
    /\ pc' = "task"
    /\ gap' = [gap EXCEPT ![i] = 0]
    /\ ran' = ran \cup {i}
    /\ UNCHANGED <<task_count_val, sched_tick, i, pending, drift>>

SkipTask ==
    /\ pc = "scan"
    /\ i < MaxTasks
    /\ ~(task_table[i].state = "READY" /\ Due(i))
    /\ i' = i + 1
    /\ UNCHANGED <<task_table, task_count_val, sched_tick, pc, pending, drift, gap, ran>>

\* The state is set back to READY whatever the task did to it meanwhile.
TaskReturn ==
    /\ pc = "task"
    /\ task_table' = [task_table EXCEPT ![i].state = "READY"]
    /\ drift' = IF task_table[i].state = "ZOMBIE" THEN drift + 1 ELSE drift
    /\ pc' = "scan"
    /\ i' = i + 1
    /\ UNCHANGED <<task_count_val, sched_tick, pending, gap, ran>>

\* The result of the publication is ignored: a full queue drops it.
TickEnd ==
    /\ pc = "scan"
    /\ i = MaxTasks
    /\ pc' = "idle" /\ i' = 0
    /\ pending' = IF pending < QueueDepth THEN pending + 1 ELSE pending
    /\ UNCHANGED <<task_table, task_count_val, sched_tick, drift, gap, ran>>

Api == \/ \E n \in Names, p \in Periods : AddTask(n, p)
       \/ \E n \in Names : RemoveTask(n)
       \/ UseBus

TickStep == RunTask \/ SkipTask \/ TickEnd

Next == Api \/ TickStart \/ TickStep \/ TaskReturn

Spec == Init /\ [][Next]_vars

-----------------------------------------------------------------------------
\* Every variable stays in its range; task_count_val may well be negative.
TypeOK ==
    /\ task_table \in [Slots -> Task]
    /\ task_count_val \in Int
    /\ sched_tick \in 0 .. TickMod - 1
    /\ pc \in {"idle", "scan", "task"}
    /\ i \in 0 .. MaxTasks
    /\ pc = "task" => i \in Slots
    /\ pending \in 0 .. QueueDepth
    /\ drift \in Nat
    /\ gap \in [Slots -> Nat]
    /\ ran \in SUBSET Slots

\* task_count_val is kept apart from the table.  It is the number of live
\* tasks, less exactly one for each time scheduler_remove_task hit a task
\* that was already a ZOMBIE and each time scheduler_tick brought a removed
\* task back to READY: nothing else ever makes the two disagree.
CountMatchesTable == task_count_val + drift = Cardinality(Live)

\* scheduler_add_task tests the counter before it looks for a place: the
\* counter never refuses a task while the table has an EMPTY place.
CounterNeverRefusesEarly == task_count_val >= MaxTasks => InState("EMPTY") = {}

\* At most one task is RUNNING, the one scheduler_tick is calling, whatever
\* that task adds or removes; between ticks none is.
OneRunningTask == InState("RUNNING") \subseteq (IF pc = "task" THEN {i} ELSE {})

\* While a task runs its entry is RUNNING, or ZOMBIE when it has been removed
\* meanwhile.
RunningEntry == pc = "task" => task_table[i].state \in {"RUNNING", "ZOMBIE"}

\* The table, the scan of scheduler_tick and task_count_val belong together
\* however tasks add and remove tasks, themselves included, during a tick:
\* the three parts above, which carry each other from step to step.
CountInv == TypeOK /\ OneRunningTask /\ RunningEntry /\ CountMatchesTable

\* A period of 0 means every tick, as does 1.
Every(k) == IF task_table[k].period = 0 THEN 1 ELSE task_table[k].period

\* scheduler.h: "Run every N ticks (0 = every tick)".  A READY task never
\* waits longer than its period, also when sched_tick wraps and when the
\* tasks before it in the table come and go.  Only its first run may come
\* one tick later: last_run starts at 0 and not at sched_tick, so a tick
\* numbered 0 by the wrap looks like the one in which it was last run.
NeverOverdue ==
    \A k \in InState("READY") : gap[k] <= Every(k) + (IF k \in ran THEN 0 ELSE 1)

\* ... and, once it has run, never runs earlier either: from one run to the
\* next exactly N ticks begin.
RunsEveryNTicks ==
    [][\A k \in Slots \cap ran :
          (task_table[k].state = "READY" /\ task_table'[k].state = "RUNNING")
              => gap[k] = Every(k)]_vars

\* scheduler.c, "Clean up zombies": a removed task is a ZOMBIE until its place
\* is cleaned up, and never runs again, wherever the tick stood when another
\* task or the main thread removed it.  The exception is a task that is removed
\* while it runs, by itself or by what it calls: it comes back to life when it
\* returns.
RemovedStaysRemoved ==
    [][\A k \in Slots : task_table[k].state = "ZOMBIE"
           => \/ task_table'[k].state \in {"ZOMBIE", "EMPTY"}
              \/ pc = "task" /\ k = i /\ task_table'[k].state = "READY"]_vars
=============================================================================
