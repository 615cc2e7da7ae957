------------------------------ MODULE EventBus ------------------------------
(***************************************************************************)
(* kernel/eventbus.c: a table of callbacks per topic and a ring buffer of  *)
(* pending events.  All of it runs in the kernel's only thread (no         *)
(* interrupt handler touches the bus), but eventbus_process() calls        *)
(* handlers, and a handler may itself publish, subscribe and unsubscribe   *)
(* while the dispatch loop stands in the middle of the handler table.      *)
(* A dispatch is therefore a sequence of steps, and a call to the API may  *)
(* come from outside a dispatch or from a running handler.                 *)
(*                                                                         *)
(* An event keeps its topic and its data; its timestamp is a third field   *)
(* copied along with them that no code reads.  The result codes of         *)
(* subscribe and unsubscribe are which disjunct was taken; publish's is    *)
(* kept because BoundedFifo promises something about it.  A handler that   *)
(* calls eventbus_process() itself is left out: nothing in the tree does.  *)
(***************************************************************************)
EXTENDS Integers, Sequences, FiniteSetsExt

CONSTANTS QueueDepth,    \* EVENTBUS_QUEUE_DEPTH
          MaxTopics,     \* EVENTBUS_MAX_TOPICS
          MaxHandlers,   \* EVENTBUS_MAX_HANDLERS, per topic
          Handlers,      \* the callbacks (event_handler_t)
          NULL,          \* an empty place of the handler table
          Data           \* payloads

ASSUME BusSizes == /\ QueueDepth \in Nat \ {0}
                   /\ MaxTopics \in Nat \ {0}
                   /\ MaxHandlers \in Nat \ {0}
ASSUME NullIsNoHandler == NULL \notin Handlers
ASSUME ZeroIsData == 0 \in Data

Topics == 0 .. MaxTopics - 1
Slots  == 0 .. MaxHandlers - 1
Ring   == 0 .. QueueDepth - 1
Event  == [topic : Topics, data : Data]

\* Static storage is zero until the first event is written to it.
ZeroEvent == [topic |-> 0, data |-> 0]

VARIABLES handlers, queue, q_head, q_tail, q_count,
          pc,       \* where eventbus_process stands, "idle" when not called
          evt,      \* its local copy of the event
          h,        \* its loop index over the handler table
          pub_ret,  \* the result of the last eventbus_publish
          calls,    \* history: calls of each handler for this event
          moved     \* history: handlers (un)subscribed during this dispatch

queueVars   == <<queue, q_head, q_tail, q_count>>
processVars == <<pc, evt, h>>
historyVars == <<calls, moved>>
busVars     == <<handlers, queueVars, processVars, pub_ret, historyVars>>

NoCalls == [f \in Handlers |-> 0]

-----------------------------------------------------------------------------
\* eventbus_init(), on zeroed static storage.
Init == /\ handlers = [t \in Topics |-> [s \in Slots |-> NULL]]
        /\ queue = [i \in Ring |-> ZeroEvent]
        /\ q_head = 0 /\ q_tail = 0 /\ q_count = 0
        /\ pc = "idle" /\ evt = ZeroEvent /\ h = 0
        /\ pub_ret = "AURA_OK"
        /\ calls = NoCalls /\ moved = {}

\* The API is called outside a dispatch, or by the handler being run.
MayCall == pc \in {"idle", "handler"}

\* The places of topic t that hold f (a callback, or NULL).
Places(t, f) == {s \in Slots : handlers[t][s] = f}

\* The row of topic t after f's first registration is removed; the others
\* keep their places.
RemovedCompacting(t, f) ==
    [s \in Slots |-> IF s < Min(Places(t, f)) THEN handlers[t][s]
                     ELSE IF s < MaxHandlers - 1 THEN handlers[t][s + 1]
                     ELSE NULL]

Removed(t, f) == [handlers[t] EXCEPT ![Min(Places(t, f))] = NULL]

\* A handler's change to the topic being dispatched disturbs f.
Touch(t, f) == moved' = IF pc = "handler" /\ t = evt.topic THEN moved \cup {f} ELSE moved

\* A topic outside the table and a NULL handler return AURA_ERR, a full
\* topic AURA_NOSLOT; none of these changes anything.
Subscribe(t, f) ==
    /\ MayCall
    /\ t \in Topics /\ f # NULL
    /\ Places(t, NULL) # {}
    /\ handlers' = [handlers EXCEPT ![t][Min(Places(t, NULL))] = f]
    /\ Touch(t, f)
    /\ UNCHANGED <<queueVars, processVars, pub_ret, calls>>

Unsubscribe(t, f) ==
    /\ MayCall
    /\ t \in Topics /\ f # NULL
    /\ Places(t, f) # {}
    /\ handlers' = [handlers EXCEPT ![t] = Removed(t, f)]
    /\ Touch(t, f)
    /\ UNCHANGED <<queueVars, processVars, pub_ret, calls>>

EnqueueInFront(e) ==
    /\ q_head' = (q_head + QueueDepth - 1) % QueueDepth
    /\ queue' = [queue EXCEPT ![q_head'] = e]
    /\ q_count' = q_count + 1
    /\ q_tail' = q_tail

EnqueueUncounted(e) ==
    /\ queue' = [queue EXCEPT ![q_tail] = e]
    /\ q_tail' = (q_tail + 1) % QueueDepth
    /\ UNCHANGED <<q_count, q_head>>

Enqueue(e) ==
    /\ queue' = [queue EXCEPT ![q_tail] = e]
    /\ q_tail' = (q_tail + 1) % QueueDepth
    /\ q_count' = q_count + 1
    /\ q_head' = q_head

PublishResultLate(t) == IF t \notin Topics THEN "AURA_ERR"
                        ELSE IF q_count > QueueDepth THEN "AURA_BUSY"
                        ELSE "AURA_OK"

PublishResult(t) == IF t \notin Topics THEN "AURA_ERR"
                    ELSE IF q_count >= QueueDepth THEN "AURA_BUSY"
                    ELSE "AURA_OK"

\* t ranges over the topics and one number past them.
Publish(t, d) ==
    /\ MayCall
    /\ pub_ret' = PublishResult(t)
    /\ IF pub_ret' = "AURA_OK" THEN Enqueue([topic |-> t, data |-> d])
                               ELSE UNCHANGED queueVars
    /\ UNCHANGED <<handlers, processVars, historyVars>>

-----------------------------------------------------------------------------
\* eventbus_process(), step by step.

ProcessCall ==
    /\ pc = "idle"
    /\ pc' = "loop"
    /\ UNCHANGED <<handlers, queueVars, evt, h, pub_ret, historyVars>>

\* Every queued topic passed publish's check, so process's own test of it
\* always succeeds.
ProcessTake ==
    /\ pc = "loop"
    /\ q_count > 0
    /\ evt' = queue[q_head]
    /\ q_head' = (q_head + 1) % QueueDepth
    /\ q_count' = q_count - 1
    /\ h' = 0
    /\ pc' = IF evt'.topic < MaxTopics THEN "scan" ELSE "loop"
    /\ UNCHANGED <<handlers, queue, q_tail, pub_ret, historyVars>>

\* The table is read again for every place, after the handlers before it ran.
ScanCall ==
    /\ pc = "scan"
    /\ h < MaxHandlers
    /\ handlers[evt.topic][h] # NULL
    /\ calls' = [calls EXCEPT ![handlers[evt.topic][h]] = @ + 1]
    /\ pc' = "handler"
    /\ UNCHANGED <<handlers, queueVars, evt, h, pub_ret, moved>>

ScanSkip ==
    /\ pc = "scan"
    /\ h < MaxHandlers
    /\ handlers[evt.topic][h] = NULL
    /\ h' = h + 1
    /\ UNCHANGED <<handlers, queueVars, pc, evt, pub_ret, historyVars>>

HandlerReturn ==
    /\ pc = "handler"
    /\ pc' = "scan"
    /\ h' = h + 1
    /\ UNCHANGED <<handlers, queueVars, evt, pub_ret, historyVars>>

ScanEnd ==
    /\ pc = "scan"
    /\ h = MaxHandlers
    /\ pc' = "loop"
    /\ h' = 0
    /\ calls' = NoCalls /\ moved' = {}
    /\ UNCHANGED <<handlers, queueVars, evt, pub_ret>>

ProcessReturn ==
    /\ pc = "loop"
    /\ q_count = 0
    /\ pc' = "idle"
    /\ UNCHANGED <<handlers, queueVars, evt, h, pub_ret, historyVars>>

Api == \/ \E t \in Topics, f \in Handlers : Subscribe(t, f) \/ Unsubscribe(t, f)
       \/ \E t \in 0 .. MaxTopics, d \in Data : Publish(t, d)

ProcessStep == \/ ProcessTake
               \/ ScanCall
               \/ ScanSkip
               \/ ScanEnd
               \/ ProcessReturn

Next == Api \/ ProcessCall \/ ProcessStep \/ HandlerReturn

Spec == Init /\ [][Next]_busVars

\* The scheduler runs eventbus_process as a task of period 1 (kernel.c), the
\* CPU executes it to its end, and a handler is cooperative: it returns.
FairSpec == /\ Spec
            /\ WF_busVars(ProcessCall)
            /\ WF_busVars(ProcessStep)
            /\ WF_busVars(HandlerReturn)

-----------------------------------------------------------------------------
\* Every variable stays in the range its C type and its uses allow.
TypeOK ==
    /\ handlers \in [Topics -> [Slots -> Handlers \cup {NULL}]]
    /\ queue \in [Ring -> Event]
    /\ q_head \in Ring /\ q_tail \in Ring
    /\ q_count \in 0 .. QueueDepth
    /\ pc \in {"idle", "loop", "scan", "handler"}
    /\ evt \in Event
    /\ h \in 0 .. MaxHandlers
    /\ pc = "handler" => h \in Slots
    /\ pub_ret \in {"AURA_OK", "AURA_ERR", "AURA_BUSY"}
    /\ calls \in [Handlers -> Nat]
    /\ moved \in SUBSET Handlers

\* eventbus_publish and eventbus_process move q_tail, q_head and q_count
\* separately: after any number of laps the occupied part of the ring is
\* still exactly the q_count places from q_head to q_tail.
RingCoherent == q_tail = (q_head + q_count) % QueueDepth

\* The state of the bus is well formed, the ring included, whatever handlers
\* publish, subscribe and unsubscribe in the middle of a dispatch.
RingInv == TypeOK /\ RingCoherent

\* eventbus_process walks a table that the handlers it calls may change:
\* whatever they subscribe, unsubscribe or publish, a callback that is
\* itself left alone is called exactly once per registration for the event
\* being dispatched, however the places around it were freed and reused.
UntouchedHandlersRunOnce ==
    (pc = "scan" /\ h = MaxHandlers) =>
        \A f \in Handlers \ moved : calls[f] = Cardinality(Places(evt.topic, f))

\* Place i of the ring holds an accepted event not yet taken.
Occupied(i) == \E k \in 0 .. q_count - 1 : i = (q_head + k) % QueueDepth

\* Every accepted event is taken by eventbus_process sooner or later, even
\* when handlers keep publishing, so that the drain loop never returns.
EveryEventIsTaken == \A i \in Ring : Occupied(i) ~> ~Occupied(i)

\* The occupied part of the ring, oldest event first.
Pending == [k \in 1 .. q_count |-> queue[(q_head + (k - 1)) % QueueDepth]]

Fifo == INSTANCE BoundedFifo WITH Depth <- QueueDepth, NoEvent <- ZeroEvent,
                                  q <- Pending, cur <- evt, ret <- pub_ret

\* The ring with its three indices behaves as the bounded queue of
\* BoundedFifo: nothing is lost, repeated, reordered or overwritten, and
\* AURA_BUSY is returned exactly when QueueDepth events are pending, also
\* for the publications handlers make in the middle of a dispatch.
ImplementsFifo == Fifo!Spec
=============================================================================
