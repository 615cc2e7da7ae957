------------------------------ MODULE Plugins ------------------------------
(***************************************************************************)
(* kernel/plugin.c: the plugin manager.  The manager calls the hooks of a  *)
(* plugin (init, tick, shutdown) from the middle of its own operations,    *)
(* and a hook may call the manager again, for other plugins and for its    *)
(* own.  The operations in progress are a stack of frames; a hook is       *)
(* running when the top frame waits for it.                                *)
(*                                                                         *)
(* Nothing protects a slot in work: an operation keeps a pointer to it     *)
(* across the hook and writes its state afterwards, whatever the hook made *)
(* of the slot.  Two histories name what comes of that: the slots crossed  *)
(* by a second operation, and the drift of the counter.                    *)
(*                                                                         *)
(* Left out: the statistics tick_count and load_tick, plugin_list (which   *)
(* only prints), and the event published by plugin_register and            *)
(* plugin_unregister, whose result is ignored: to the bus it is a Publish  *)
(* of EventBus like any other.                                             *)
(***************************************************************************)
EXTENDS Integers, Sequences, FiniteSetsExt

CONSTANTS PluginMax,   \* PLUGIN_MAX
          Descs,       \* descriptors: a name and the hooks that are not NULL
          MaxDepth,    \* bound: manager operations in progress at once
          MaxErrors,   \* bound: error_count of a slot
          MaxDrift     \* bound: the drift up to which a hook frees its own slot

Hooks == {"init", "tick", "shutdown"}

ASSUME PluginConstants ==
    /\ PluginMax \in Nat \ {0} /\ MaxDepth \in Nat \ {0} /\ MaxErrors \in Nat /\ MaxDrift \in Nat
    /\ Descs # {} /\ \A d \in Descs : d.hooks \subseteq Hooks

Slots == 0 .. PluginMax - 1
Names == {d.name : d \in Descs}
State == {"UNLOADED", "LOADED", "ACTIVE", "ERROR"}

VARIABLES plugin_table, plugin_count_val,
          frames,  \* operations in progress, innermost last; the frame of
                   \* plugin_tick_all is "scan" between hooks, "tick" in one,
                   \* and "load" is the frame of loader_load (module Loader)
          up,      \* history: slots whose init succeeded with no shutdown since
          crossed, \* history: slots an operation was called for while another
                   \* one had still to write their state, until they are given
                   \* to a new plugin with no operation in progress
          drift    \* history: returns that found their slot already freed

history == <<up, crossed, drift>>
vars    == <<plugin_table, plugin_count_val, frames, history>>

\* The descriptor of a slot never used is never read.
Init ==
    /\ plugin_table = [s \in Slots |-> [state |-> "UNLOADED", desc |-> CHOOSE d \in Descs : TRUE,
                                        error_count |-> 0]]
    /\ plugin_count_val = 0
    /\ frames = <<>>
    /\ up = {} /\ crossed = {} /\ drift = 0

Registered == {s \in Slots : plugin_table[s].state # "UNLOADED"}

\* The slots plugin_find may return the first of.
Find(n) == {s \in Registered : plugin_table[s].desc.name = n}

-----------------------------------------------------------------------------
Push(fn, s) == frames' = Append(frames, [fn |-> fn, slot |-> s])
Top == frames[Len(frames)]
Pop == SubSeq(frames, 1, Len(frames) - 1)
In(fn) == frames # <<>> /\ Top.fn = fn

\* The manager is called by the kernel, or by the hook that is running.
MayCall == Len(frames) < MaxDepth /\ ~In("scan") /\ ~In("load")

\* A slot one of whose operations still has to write its state.
InWork == {frames[k].slot : k \in {k \in DOMAIN frames :
                                frames[k].fn \in {"activate", "deactivate", "unregister"}}}

\* plugin_find() returns the first match, also one that is in work.
Named(n) == IF Find(n) = {} THEN {} ELSE {Min(Find(n))}

\* History: an operation is called for slot s.
Called(s) == crossed' = crossed \cup ({s} \cap InWork)

NoSlot == {s \in Slots : plugin_table[s].state = "UNLOADED"} = {}

\* A full counter, a duplicate name and a full table are refused.
Registers(d) == /\ plugin_count_val < PluginMax
                /\ Find(d.name) = {}
                /\ ~NoSlot

FreeSlot == Min({s \in Slots : plugin_table[s].state = "UNLOADED"})

PutDesc(d) ==
    /\ plugin_table' = [plugin_table EXCEPT ![FreeSlot] =
                            [state |-> "LOADED", desc |-> d, error_count |-> 0]]
    /\ plugin_count_val' = plugin_count_val + 1
    /\ up' = up \ {FreeSlot}
    /\ crossed' = crossed \ ({FreeSlot} \ InWork)
    /\ UNCHANGED drift

Register(d) ==
    /\ MayCall
    /\ Registers(d)
    /\ PutDesc(d)
    /\ UNCHANGED frames

SetState(s, st) == plugin_table' = [plugin_table EXCEPT ![s].state = st]
Has(s, hook)    == hook \in plugin_table[s].desc.hooks

FreedUncounted(s) == /\ SetState(s, "UNLOADED")
                     /\ UNCHANGED plugin_count_val

\* The end of plugin_unregister.
Freed(s) == /\ SetState(s, "UNLOADED")
            /\ plugin_count_val' = plugin_count_val - 1

\* Only an ACTIVE plugin is shut down first.
Unregister(n) ==
    /\ MayCall
    /\ \E s \in Named(n) :
          /\ s \in InWork => drift < MaxDrift
          /\ Called(s)
          /\ IF plugin_table[s].state = "ACTIVE" /\ Has(s, "shutdown")
             THEN /\ Push("unregister", s)
                  /\ up' = up \ {s}
                  /\ UNCHANGED <<plugin_table, plugin_count_val>>
             ELSE Freed(s) /\ UNCHANGED <<frames, up>>
    /\ UNCHANGED drift

\* Anything but a LOADED plugin is refused: one in ERROR stays there.
Activate(n) ==
    /\ MayCall
    /\ \E s \in Named(n) :
          /\ plugin_table[s].state = "LOADED"
          /\ Called(s)
          /\ IF Has(s, "init") THEN Push("activate", s) /\ UNCHANGED plugin_table
                               ELSE SetState(s, "ACTIVE") /\ UNCHANGED frames
    /\ UNCHANGED <<plugin_count_val, up, drift>>

DeactivateSilently(n) ==
    /\ MayCall
    /\ \E s \in Named(n) : plugin_table[s].state = "ACTIVE" /\ SetState(s, "LOADED")
    /\ UNCHANGED <<plugin_count_val, frames, history>>

Deactivate(n) ==
    /\ MayCall
    /\ \E s \in Named(n) :
          /\ plugin_table[s].state = "ACTIVE"
          /\ Called(s)
          /\ IF Has(s, "shutdown")
             THEN Push("deactivate", s) /\ up' = up \ {s} /\ UNCHANGED plugin_table
             ELSE SetState(s, "LOADED") /\ UNCHANGED <<frames, up>>
    /\ UNCHANGED <<plugin_count_val, drift>>

\* The scheduler's task "plugin_tick" is the only caller.
TickAll == /\ frames = <<>>
           /\ Push("scan", 0)
           /\ UNCHANGED <<plugin_table, plugin_count_val, history>>

-----------------------------------------------------------------------------
\* What the operations do when a hook returns.

\* History: the slot whose state is about to be written may be free by now.
Returned == /\ drift' = drift + (IF plugin_table[Top.slot].state = "UNLOADED" THEN 1 ELSE 0)
            /\ UNCHANGED crossed

InitReturns(r) ==
    /\ In("activate")
    /\ frames' = Pop
    /\ IF r = "AURA_OK"
       THEN SetState(Top.slot, "ACTIVE") /\ up' = up \cup {Top.slot}
       ELSE /\ plugin_table[Top.slot].error_count < MaxErrors
            /\ plugin_table' = [plugin_table EXCEPT ![Top.slot].state = "ERROR",
                                                    ![Top.slot].error_count = @ + 1]
            /\ up' = up
    /\ Returned
    /\ UNCHANGED plugin_count_val

ShutdownReturns ==
    /\ frames' = Pop
    /\ \/ In("deactivate") /\ SetState(Top.slot, "LOADED") /\ UNCHANGED plugin_count_val
       \/ In("unregister") /\ Freed(Top.slot)
    /\ Returned
    /\ UNCHANGED up

ErrorAfterTick(s) == [plugin_table EXCEPT ![s].error_count = @ + 1]

\* The slot is counted on, whatever the hook did to it.
TickReturns(r) ==
    /\ In("tick")
    /\ frames' = Append(Pop, [fn |-> "scan", slot |-> Top.slot + 1])
    /\ IF r = "AURA_OK" THEN plugin_table' = plugin_table
       ELSE /\ plugin_table[Top.slot].error_count < MaxErrors
            /\ plugin_table' = ErrorAfterTick(Top.slot)
    /\ UNCHANGED <<plugin_count_val, history>>

Ticks(s) == plugin_table[s].state = "ACTIVE" /\ Has(s, "tick")

ScanStep ==
    /\ In("scan")
    /\ frames' = IF Top.slot = PluginMax THEN Pop
                 ELSE IF Ticks(Top.slot) THEN Append(Pop, [Top EXCEPT !.fn = "tick"])
                 ELSE Append(Pop, [Top EXCEPT !.slot = @ + 1])
    /\ UNCHANGED <<plugin_table, plugin_count_val, history>>

Api == \/ \E d \in Descs : Register(d)
       \/ \E n \in Names : Unregister(n) \/ Activate(n) \/ Deactivate(n)
       \/ TickAll

Return == \/ \E r \in {"AURA_OK", "AURA_ERR"} : InitReturns(r) \/ TickReturns(r)
          \/ ShutdownReturns

Next == Api \/ ScanStep \/ Return

Spec == Init /\ [][Next]_vars

-----------------------------------------------------------------------------
\* Every variable stays in its range.
TypeOK ==
    /\ plugin_table \in [Slots -> [state : State, desc : Descs, error_count : 0 .. MaxErrors]]
    /\ plugin_count_val \in Int /\ drift \in Nat
    /\ frames \in Seq([fn : {"activate", "deactivate", "unregister", "scan", "tick"},
                       slot : 0 .. PluginMax]
                       \cup [fn : {"load"}, slot : Slots, module : Names])
    /\ up \subseteq Slots /\ crossed \subseteq Slots

\* plugin_count_val is kept apart from the table.  In the middle of every nest
\* of hooks and operations it counts the slots in use, less one for each return
\* that has found its slot freed from under it: such a return brings the slot
\* back into use uncounted, or counts it out a second time.  Nothing else makes
\* them differ, and the counter is never above the table: plugin_register does
\* not refuse a plugin that would fit.
CountMatchesTable == plugin_count_val = Cardinality(Registered) - drift

\* plugin_api.md: a "unique name".  Two slots in use never have the same one,
\* whatever hooks register and unregister while others are in progress, so the
\* slot plugin_find returns is the only one it can mean.  A crossed slot may be
\* a double: its plugin has been unregistered and has come back.
UniqueNames == \A s, t \in Registered \ crossed :
                   plugin_table[s].desc.name = plugin_table[t].desc.name => s = t

\* The table, its counter and its names stay in order through every nest of
\* hooks that register, activate and unregister plugins, their own included,
\* up to the two exceptions named above.
PluginInv == TypeOK /\ CountMatchesTable /\ UniqueNames

\* A plugin's hooks alternate: outside its own operations, a plugin with both
\* hooks is ACTIVE exactly when its init has succeeded and its shutdown has
\* not been called since.  So no plugin is ticked before its init or after its
\* shutdown, none is initialised twice, and no slot is freed with its plugin up.
\* The exception are the crossed slots: the operation on the outside writes the
\* state it had in mind over what the one on the inside has done.
HooksPaired == \A s \in Slots \ (InWork \cup crossed) :
                   {"init", "shutdown"} \subseteq plugin_table[s].desc.hooks =>
                       (s \in up <=> plugin_table[s].state = "ACTIVE")

\* plugin_api.md: "On init() or tick() error the state transitions to
\* PLUGIN_STATE_ERROR and an error counter is incremented".  plugin_tick_all
\* counts the error and leaves the plugin ACTIVE.
FailedHookIsError ==
    [][\A s \in Slots :
          plugin_table'[s].error_count > plugin_table[s].error_count
              => plugin_table'[s].state = "ERROR"]_vars
=============================================================================
