----------------------------- MODULE KernelLoop -----------------------------
(***************************************************************************)
(* kernel/kernel.c: the running kernel, that is, the scheduler with the    *)
(* seven tasks kernel_main gives it and the event bus they all share.      *)
(* Boot adds the tasks and registers four plugins, each of which publishes *)
(* an event; then the scheduler ticks for ever, or until a key shuts the   *)
(* kernel down.  Nobody looks at what eventbus_publish returns, so the     *)
(* order and the periods of the tasks have to see to it that the queue     *)
(* never fills.                                                            *)
(*                                                                         *)
(* The scheduler is module Scheduler and the bus is BoundedFifo, which     *)
(* EventBus implements.  No module of the tree subscribes to a topic, so   *)
(* dispatching an event is taking it.  Of what the tasks do, only what     *)
(* they do to these two is kept: the mirror's and the core module's        *)
(* counters that decide when they publish, and the menu's keys.            *)
(***************************************************************************)
EXTENDS Naturals, Sequences

CONSTANTS MaxTasks,    \* SCHED_MAX_TASKS
          TickMod,     \* 2^32
          QueueDepth,  \* EVENTBUS_QUEUE_DEPTH
          SyncEvery,   \* the mirror publishes every 256th sync
          CoreEvery,   \* aura_core publishes every 1000th of its ticks
          NoEvent

ASSUME RoomForTasks == MaxTasks \in Nat /\ MaxTasks >= 7
ASSUME CounterWidth == TickMod \in Nat /\ TickMod > 10
\* Four events can wait for event_drain at a time: those of the four plugins,
\* or those of a tick in which all that can publish do.  The kernel's 64 is more.
ASSUME RoomForEvents == QueueDepth \in Nat /\ QueueDepth >= 4
ASSUME Intervals    == SyncEvery \in Nat \ {0, 1} /\ CoreEvery \in Nat \ {0}

VARIABLES task_table, task_count_val, sched_tick, pc, i,  \* the scheduler
          drift, gap, ran,                                \* and its history
          q, cur, ret,      \* the event bus
          g_kernel_state,   \* INIT while kernel_main boots, RUN, PANIC
          boot,             \* the steps kernel_main has taken
          sync_count,       \* modulo SyncEvery
          core_tick_count,  \* modulo CoreEvery
          acted             \* the task being run is past its publication

schedVars  == <<task_table, task_count_val, sched_tick, pc, i, drift, gap, ran>>
busVars    == <<q, cur, ret>>
counters   == <<sync_count, core_tick_count>>
kernelVars == <<schedVars, busVars, g_kernel_state, boot, counters, acted>>

TasksDrainSeldom ==
    <<<<"heartbeat", 1>>, <<"event_drain", 2>>, <<"mirror_sync", 10>>, <<"plugin_tick", 5>>,
      <<"keyboard_poll", 1>>, <<"menu_tick", 2>>, <<"serial_poll", 5>>>>

TasksUndrained ==
    <<<<"heartbeat", 1>>, <<"mirror_sync", 10>>, <<"plugin_tick", 5>>,
      <<"keyboard_poll", 1>>, <<"menu_tick", 2>>, <<"serial_poll", 5>>>>

\* kernel_main, step 11: the built-in tasks with their periods.
BuiltinTasks ==
    <<<<"heartbeat", 1>>, <<"event_drain", 1>>, <<"mirror_sync", 10>>, <<"plugin_tick", 5>>,
      <<"keyboard_poll", 1>>, <<"menu_tick", 2>>, <<"serial_poll", 5>>>>

\* ... and then the plugins, each published by plugin_register.
BuiltinPlugins == <<"hello", "aura_core", "serial-com1", "aura_net">>

TaskNames == {"heartbeat", "event_drain", "mirror_sync", "plugin_tick",
              "keyboard_poll", "menu_tick", "serial_poll"}
TaskPeriods == {1, 2, 5, 10}

Topics == {"PLUGIN_LOADED", "MIRROR_SYNC", "KERNEL_TICK", "SCHEDULER_SWITCH"}

\* An event keeps the number of the tick it was published in, which is what
\* scheduler_tick sends with its own.
Event == [topic : Topics, tick : 0 .. TickMod - 1]

\* All names fit TASK_NAME_LEN, and no task of the tree is ever removed.
S == INSTANCE Scheduler WITH Names <- TaskNames, Trunc <- [n \in TaskNames |-> n],
                             Periods <- TaskPeriods, MaxDrift <- 0, pending <- Len(q)

F == INSTANCE BoundedFifo WITH Depth <- QueueDepth

KernelInit ==
    /\ F!Init /\ S!Init
    /\ g_kernel_state = "INIT"
    /\ boot = 0
    /\ sync_count = 0 /\ core_tick_count = 0
    /\ acted = FALSE

-----------------------------------------------------------------------------
\* eventbus_publish, from callers that do not look at its result.
Publish(topic) == F!Accept([topic |-> topic, tick |-> sched_tick]) \/ F!Busy

\* mirror_sync() counts, and publishes when the count is a multiple of 256.
Synced ==
    /\ sync_count' = (sync_count + 1) % SyncEvery
    /\ IF sync_count' = 0 THEN Publish("MIRROR_SYNC") ELSE UNCHANGED busVars

-----------------------------------------------------------------------------
\* kernel_main before the loop.

AddBuiltinTask ==
    /\ g_kernel_state = "INIT"
    /\ boot < Len(BuiltinTasks)
    /\ UNCHANGED busVars
    /\ S!AddTask(BuiltinTasks[boot + 1][1], BuiltinTasks[boot + 1][2])
    /\ boot' = boot + 1
    /\ UNCHANGED <<g_kernel_state, counters, acted>>

\* loader_load_all, adapter_serial_register and adapter_net_register.
RegisterBuiltinPlugin ==
    /\ g_kernel_state = "INIT"
    /\ boot \in Len(BuiltinTasks) .. Len(BuiltinTasks) + Len(BuiltinPlugins) - 1
    /\ Publish("PLUGIN_LOADED")
    /\ boot' = boot + 1
    /\ UNCHANGED <<schedVars, g_kernel_state, counters, acted>>

\* menu_run() takes the boot snapshot.
MenuRun ==
    /\ g_kernel_state = "INIT"
    /\ boot = Len(BuiltinTasks) + Len(BuiltinPlugins)
    /\ g_kernel_state' = "RUN"
    /\ Synced
    /\ UNCHANGED <<schedVars, boot, core_tick_count, acted>>

-----------------------------------------------------------------------------
\* while (1) scheduler_tick();

RestUnchanged == UNCHANGED <<g_kernel_state, boot, counters>>

TickStart == /\ g_kernel_state = "RUN"
             /\ UNCHANGED busVars
             /\ S!TickStart
             /\ acted' = FALSE
             /\ RestUnchanged

RunTask == /\ UNCHANGED busVars
           /\ S!RunTask
           /\ acted' = FALSE
           /\ RestUnchanged

SkipTask == /\ UNCHANGED busVars
            /\ S!SkipTask
            /\ UNCHANGED acted
            /\ RestUnchanged

TickEnd == /\ Publish("SCHEDULER_SWITCH")
           /\ S!TickEnd
           /\ UNCHANGED acted
           /\ RestUnchanged

Running(name) == g_kernel_state = "RUN" /\ pc = "task" /\ task_table[i].name = name

EventDrainAnytime ==
    /\ g_kernel_state = "RUN"
    /\ F!Take
    /\ UNCHANGED <<schedVars, g_kernel_state, boot, counters, acted>>

\* eventbus_process(): one event after the other until the queue is empty.
EventDrain ==
    /\ Running("event_drain")
    /\ F!Take
    /\ UNCHANGED <<schedVars, g_kernel_state, boot, counters, acted>>

MirrorSync ==
    /\ Running("mirror_sync") /\ ~acted
    /\ Synced
    /\ acted' = TRUE
    /\ UNCHANGED <<schedVars, g_kernel_state, boot, core_tick_count>>

\* plugin_tick_all(): of the four plugins only aura_core publishes.
PluginTick ==
    /\ Running("plugin_tick") /\ ~acted
    /\ core_tick_count' = (core_tick_count + 1) % CoreEvery
    /\ IF core_tick_count' = 0 THEN Publish("KERNEL_TICK") ELSE UNCHANGED busVars
    /\ acted' = TRUE
    /\ UNCHANGED <<schedVars, g_kernel_state, boot, sync_count>>

\* menu_tick() with key 4: mirror_capture, which syncs first.
MenuCapture ==
    /\ Running("menu_tick") /\ ~acted
    /\ Synced
    /\ acted' = TRUE
    /\ UNCHANGED <<schedVars, g_kernel_state, boot, core_tick_count>>

\* Key R: mirror_restore logs the restore on the bus.  The boot snapshot is
\* there and verifies (Mirror has that).
MenuRestore ==
    /\ Running("menu_tick") /\ ~acted
    /\ Publish("MIRROR_SYNC")
    /\ acted' = TRUE
    /\ UNCHANGED <<schedVars, g_kernel_state, boot, counters>>

\* Keys Q and K: kernel_shutdown() and kernel_panic() do not come back.
MenuHalt ==
    /\ Running("menu_tick") /\ ~acted
    /\ g_kernel_state' = "PANIC"
    /\ UNCHANGED <<schedVars, busVars, boot, counters, acted>>

\* What the running task still has to do before it returns.
Busy == \/ Running("event_drain") /\ q # <<>>
        \/ \E n \in {"mirror_sync", "plugin_tick"} : Running(n) /\ ~acted

\* A task returns when its work is done; menu_tick returns at once when no
\* key waits or when its key only prints.
TaskReturn == /\ g_kernel_state = "RUN"
              /\ ~Busy
              /\ UNCHANGED busVars
              /\ S!TaskReturn
              /\ UNCHANGED acted
              /\ RestUnchanged

Boot     == AddBuiltinTask \/ RegisterBuiltinPlugin \/ MenuRun
TickStep == TickStart \/ RunTask \/ SkipTask \/ TickEnd
TaskStep == EventDrain \/ MirrorSync \/ PluginTick \/ TaskReturn
MenuKey  == MenuCapture \/ MenuRestore \/ MenuHalt

KernelNext == Boot \/ TickStep \/ TaskStep \/ MenuKey

KernelSpec == KernelInit /\ [][KernelNext]_kernelVars

\* The CPU goes on executing kernel_main, what it calls included; keys are
\* nobody's duty.
KernelFairSpec ==
    KernelSpec /\ WF_kernelVars(Boot) /\ WF_kernelVars(TickStep) /\ WF_kernelVars(TaskStep)

-----------------------------------------------------------------------------
Halted == g_kernel_state = "PANIC"

\* The counters and the events stay in their types.
KernelTypeOK ==
    /\ q \in Seq(Event)
    /\ cur \in Event \cup {NoEvent}
    /\ g_kernel_state \in {"INIT", "RUN", "PANIC"}
    /\ sync_count \in 0 .. SyncEvery - 1
    /\ core_tick_count \in 0 .. CoreEvery - 1
    /\ acted \in BOOLEAN

\* No publication is ever refused: eventbus_publish's AURA_BUSY, which nobody
\* looks at, cannot happen with these tasks in this order, not even when the
\* mirror, the core module, a restore and the tick itself all publish in one
\* tick.
NothingRefused == ret # "AURA_BUSY"

\* An event waits one tick at most: between ticks the queue holds events of
\* the tick that has just ended only (the four of boot before the first one).
WaitsOneTick == pc = "idle" => \A k \in DOMAIN q : q[k].tick = sched_tick

\* No event is lost and none lies about: the queue is long enough and emptied
\* often enough for everything the kernel publishes.
QueueInv == KernelTypeOK /\ NothingRefused /\ WaitsOneTick

\* The kernel's tasks keep within what module Scheduler lets tasks do, so what
\* is shown and proved there holds of them: the tasks only use the bus while
\* they run, and a tick goes to its end unless the menu halts the kernel in it.
UsesScheduler == S!Spec

\* Every event in the queue is dispatched, or the kernel halts.
EventsDispatched == q # <<>> ~> (q = <<>> \/ Halted)
=============================================================================
