------------------------------- MODULE Loader -------------------------------
(***************************************************************************)
(* modules/loader.c with the built-in modules, and the adapters: the code  *)
(* that brings plugins to the manager of module Plugins.  A module's       *)
(* load() and an adapter's registration register a plugin and activate it, *)
(* so loader_load is in progress while the plugin's init runs; the flag    *)
(* loaded is set after that, whatever the activation returned.             *)
(***************************************************************************)
EXTENDS Plugins

CONSTANT Modules   \* names in module_registry

VARIABLE loaded    \* module_registry[i].loaded

allVars == <<vars, loaded>>

\* The plugin a module or an adapter registers: only the serial adapter has
\* no tick.
DescOf(n) == [name |-> n, hooks |-> IF n = "serial-com1" THEN Hooks \ {"tick"} ELSE Hooks]

ASSUME ModulesAreDescribed == \A m \in Modules : DescOf(m) \in Descs

LoaderInit == Init /\ loaded = [m \in Modules |-> FALSE]

\* register, and activate what was registered.  The new plugin has an init,
\* which is called at once, above the frames of the caller.
Bring(d, below) ==
    /\ PutDesc(d)
    /\ frames' = frames \o below \o <<[fn |-> "activate", slot |-> FreeSlot]>>

LoaderLoadFlagsFirst(m) ==
    /\ MayCall
    /\ ~loaded[m]
    /\ Registers(DescOf(m))
    /\ Bring(DescOf(m), <<>>)
    /\ loaded' = [loaded EXCEPT ![m] = TRUE]

\* A loaded module, and one whose plugin is refused, are left alone.  The frame
\* holds the module's place in the registry, and the slot its plugin was given.
LoaderLoad(m) ==
    /\ MayCall
    /\ ~loaded[m]
    /\ Registers(DescOf(m))
    /\ Bring(DescOf(m), <<[fn |-> "load", slot |-> FreeSlot, module |-> m]>>)
    /\ UNCHANGED loaded

\* mod_..._load() returns 0: the plugin was registered.
LoadReturns ==
    /\ In("load")
    /\ loaded' = [loaded EXCEPT ![Top.module] = TRUE]
    /\ frames' = Pop
    /\ UNCHANGED <<plugin_table, plugin_count_val, history>>

\* The flag is cleared, the plugin stays.
LoaderUnload(m) ==
    /\ MayCall
    /\ loaded' = [loaded EXCEPT ![m] = FALSE]
    /\ UNCHANGED vars

AdapterRegister(d) ==
    /\ MayCall
    /\ Registers(d)
    /\ Bring(d, <<>>)
    /\ UNCHANGED loaded

Adapters == {d \in Descs : d.name \notin Modules /\ d = DescOf(d.name)}

LoaderNext == \/ Next /\ UNCHANGED loaded
              \/ \E m \in Modules : LoaderLoad(m) \/ LoaderUnload(m)
              \/ LoadReturns
              \/ \E d \in Adapters : AdapterRegister(d)

LoaderSpec == LoaderInit /\ [][LoaderNext]_allVars

-----------------------------------------------------------------------------
\* A module is flagged loaded only once its plugin's init has come to its
\* end, although init may itself load modules, call the manager and fail; and
\* the plugin that was brought is still there, in the slot it was given, unless
\* that slot was named to the manager while init was running.
LoadedAfterInit ==
    [][\A m \in Modules : (~loaded[m] /\ loaded'[m]) =>
          /\ In("load") /\ Top.module = m
          /\ \/ Top.slot \in crossed
             \/ /\ Top.slot \in Find(m) \ InWork
                /\ plugin_table[Top.slot].state \in {"ACTIVE", "ERROR"}]_allVars
=============================================================================
