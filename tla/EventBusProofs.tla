--------------------------- MODULE EventBusProofs ---------------------------
(***************************************************************************)
(* Theorems about EventBus, for every queue depth, number of topics and    *)
(* number of handlers per topic.                                           *)
(***************************************************************************)
EXTENDS EventBus, KernelLemmas, FiniteSetTheorems, SequenceTheorems

-----------------------------------------------------------------------------
\* The first place subscribe and unsubscribe find is one of the table's.
LEMMA PlaceFound ==
    ASSUME NEW t, NEW f, Places(t, f) # {}
    PROVE  Min(Places(t, f)) \in Slots
<1>1. Places(t, f) \subseteq Nat
  BY BusSizes DEF Places, Slots
<1>2. Min(Places(t, f)) \in Places(t, f)
  BY <1>1, MinOfNaturals
<1> QED
  BY <1>2 DEF Places

\* eventbus_init establishes the invariant.
LEMMA InitRing == Init => RingInv
<1> SUFFICES ASSUME Init PROVE RingInv
  OBVIOUS
<1>1. ZeroEvent \in Event
  BY BusSizes, ZeroIsData DEF ZeroEvent, Event, Topics
<1>2. 0 \in Ring /\ (0 + 0) % QueueDepth = 0
  BY BusSizes, ModSmall DEF Ring
<1>3. NoCalls \in [Handlers -> Nat]
  BY DEF NoCalls
<1> QED
  BY <1>1, <1>2, <1>3, BusSizes DEF Init, RingInv, TypeOK, RingCoherent

\* Appending to the ring keeps its indices coherent.
LEMMA EnqueueKeepsRing ==
    ASSUME RingInv, NEW e \in Event, q_count < QueueDepth, Enqueue(e)
    PROVE  /\ queue' \in [Ring -> Event]
           /\ q_head' \in Ring /\ q_tail' \in Ring
           /\ q_count' \in 0 .. QueueDepth
           /\ RingCoherent'
<1> USE BusSizes
<1>1. q_tail \in 0 .. QueueDepth - 1 /\ q_head \in 0 .. QueueDepth - 1
  BY DEF RingInv, TypeOK, Ring
<1>2. q_tail' = IF q_tail + 1 < QueueDepth THEN q_tail + 1 ELSE q_tail + 1 - QueueDepth
  BY <1>1, ModSum DEF Enqueue
<1>3. q_tail = IF q_head + q_count < QueueDepth THEN q_head + q_count
               ELSE q_head + q_count - QueueDepth
  BY <1>1, ModSum DEF RingInv, TypeOK, RingCoherent
<1>4. q_count' \in 0 .. QueueDepth
  BY DEF RingInv, TypeOK, Enqueue
<1>5. (q_head + q_count') % QueueDepth =
          IF q_head + q_count' < QueueDepth THEN q_head + q_count'
          ELSE q_head + q_count' - QueueDepth
  BY <1>1, <1>4, ModSum
<1>6. RingCoherent'
  BY <1>1, <1>2, <1>3, <1>5 DEF RingInv, TypeOK, RingCoherent, Enqueue
<1>7. q_tail' \in Ring
  BY <1>1, <1>2 DEF Ring
<1> QED
  BY <1>4, <1>6, <1>7 DEF RingInv, TypeOK, Enqueue

\* Taking the oldest event keeps the indices coherent.
LEMMA TakeKeepsRing ==
    ASSUME RingInv, ProcessTake
    PROVE  /\ q_head' \in Ring
           /\ q_count' \in 0 .. QueueDepth
           /\ RingCoherent'
<1> USE BusSizes
<1>1. q_head \in 0 .. QueueDepth - 1 /\ q_count \in 1 .. QueueDepth
  BY DEF RingInv, TypeOK, Ring, ProcessTake
<1>0. 1 \in 0 .. QueueDepth
  OBVIOUS
<1>2. q_head' = IF q_head + 1 < QueueDepth THEN q_head + 1 ELSE q_head + 1 - QueueDepth
  <2>1. (q_head + 1) % QueueDepth = IF q_head + 1 < QueueDepth THEN q_head + 1
                                    ELSE q_head + 1 - QueueDepth
    BY <1>0, <1>1, ModSum
  <2> QED
    BY <2>1 DEF ProcessTake
<1>3. q_tail = IF q_head + q_count < QueueDepth THEN q_head + q_count
               ELSE q_head + q_count - QueueDepth
  BY <1>1, ModSum DEF RingInv, TypeOK, RingCoherent
<1>4. q_count' = q_count - 1 /\ q_count' \in 0 .. QueueDepth
  BY <1>1 DEF ProcessTake
<1>5. (q_head' + q_count') % QueueDepth =
          IF q_head' + q_count' < QueueDepth THEN q_head' + q_count'
          ELSE q_head' + q_count' - QueueDepth
  <2>1. q_head' \in 0 .. QueueDepth - 1
    BY <1>1, <1>2
  <2> QED
    BY <1>4, <2>1, ModSum
<1>6. RingCoherent'
  BY <1>1, <1>2, <1>3, <1>4, <1>5 DEF RingCoherent, ProcessTake
<1>7. q_head' \in Ring
  BY <1>1, <1>2 DEF Ring
<1> QED
  BY <1>4, <1>6, <1>7

\* Every step of the bus keeps the invariant.
LEMMA StepRing == RingInv /\ [Next]_busVars => RingInv'
<1> SUFFICES ASSUME RingInv, [Next]_busVars PROVE RingInv'
  OBVIOUS
<1> USE BusSizes
<1>1. ASSUME NEW t \in Topics, NEW f \in Handlers, Subscribe(t, f) PROVE RingInv'
  <2>1. Min(Places(t, NULL)) \in Slots
    BY <1>1, PlaceFound DEF Subscribe
  <2>2. handlers' \in [Topics -> [Slots -> Handlers \cup {NULL}]]
    BY <1>1, <2>1 DEF Subscribe, RingInv, TypeOK
  <2>3. moved' \in SUBSET Handlers
    BY <1>1 DEF Subscribe, Touch, RingInv, TypeOK
  <2> QED
    BY <1>1, <2>2, <2>3
    DEF Subscribe, queueVars, processVars, RingInv, TypeOK, RingCoherent
<1>2. ASSUME NEW t \in Topics, NEW f \in Handlers, Unsubscribe(t, f) PROVE RingInv'
  <2>1. Min(Places(t, f)) \in Slots
    BY <1>2, PlaceFound DEF Unsubscribe
  <2>2. handlers' \in [Topics -> [Slots -> Handlers \cup {NULL}]]
    BY <1>2, <2>1 DEF Unsubscribe, Removed, RingInv, TypeOK
  <2>3. moved' \in SUBSET Handlers
    BY <1>2 DEF Unsubscribe, Touch, RingInv, TypeOK
  <2> QED
    BY <1>2, <2>2, <2>3
    DEF Unsubscribe, queueVars, processVars, RingInv, TypeOK, RingCoherent
<1>3. ASSUME NEW t \in 0 .. MaxTopics, NEW d \in Data, Publish(t, d) PROVE RingInv'
  <2>1. pub_ret' \in {"AURA_OK", "AURA_ERR", "AURA_BUSY"}
    BY <1>3 DEF Publish, PublishResult
  <2>2. CASE pub_ret' = "AURA_OK"
    <3>1. t \in Topics /\ q_count < QueueDepth
      BY <1>3, <2>2 DEF Publish, PublishResult, RingInv, TypeOK
    <3>2. [topic |-> t, data |-> d] \in Event
      BY <3>1 DEF Event
    <3>3. Enqueue([topic |-> t, data |-> d])
      BY <1>3, <2>2 DEF Publish
    <3> QED
      BY <1>3, <2>1, <3>1, <3>2, <3>3, EnqueueKeepsRing
      DEF Publish, processVars, historyVars, RingInv, TypeOK
  <2>3. CASE pub_ret' # "AURA_OK"
    BY <1>3, <2>1, <2>3
    DEF Publish, queueVars, processVars, historyVars, RingInv, TypeOK, RingCoherent
  <2> QED
    BY <2>2, <2>3
<1>4. CASE ProcessCall
  BY <1>4 DEF ProcessCall, queueVars, historyVars, RingInv, TypeOK, RingCoherent
<1>5. CASE ProcessTake
  <2>1. evt' \in Event
    BY <1>5 DEF ProcessTake, RingInv, TypeOK
  <2>2. pc' \in {"idle", "loop", "scan", "handler"}
    BY <1>5 DEF ProcessTake
  <2>3. h' \in 0 .. MaxHandlers
    BY <1>5 DEF ProcessTake
  <2> QED
    BY <1>5, <2>1, <2>2, <2>3, TakeKeepsRing DEF ProcessTake, historyVars, RingInv, TypeOK
<1>6. CASE ScanCall
  <2>1. handlers[evt.topic][h] \in Handlers
    BY <1>6 DEF ScanCall, RingInv, TypeOK, Event, Slots
  <2>2. calls' \in [Handlers -> Nat]
    BY <1>6, <2>1 DEF ScanCall, RingInv, TypeOK
  <2> QED
    BY <1>6, <2>2 DEF ScanCall, Slots, queueVars, RingInv, TypeOK, RingCoherent
<1>7. CASE ScanSkip
  BY <1>7 DEF ScanSkip, queueVars, historyVars, RingInv, TypeOK, RingCoherent
<1>8. CASE ScanEnd
  BY <1>8 DEF ScanEnd, NoCalls, queueVars, RingInv, TypeOK, RingCoherent
<1>9. CASE ProcessReturn
  BY <1>9 DEF ProcessReturn, queueVars, historyVars, RingInv, TypeOK, RingCoherent
<1>10. CASE HandlerReturn
  BY <1>10 DEF HandlerReturn, Slots, queueVars, historyVars, RingInv, TypeOK, RingCoherent
<1>11. CASE UNCHANGED busVars
  BY <1>11 DEF busVars, queueVars, processVars, historyVars, RingInv, TypeOK, RingCoherent
<1> QED
  BY <1>1, <1>2, <1>3, <1>4, <1>5, <1>6, <1>7, <1>8, <1>9, <1>10, <1>11
  DEF Next, Api, ProcessStep

\* Every variable of the event bus keeps its type, in particular no index ever
\* leaves the ring or the handler table, and the occupied part of the ring is
\* the q_count places from q_head to q_tail, through every interleaving of
\* publications and dispatches: for every queue depth, number of topics and
\* number of handlers.
THEOREM RingStaysCoherent == Spec => []RingInv
  BY InitRing, StepRing, PTL DEF Spec

-----------------------------------------------------------------------------
(* The ring implements the bounded queue.                                  *)

\* Pending as a sequence.
PendingIsSeq ==
    /\ Pending \in Seq(Event)
    /\ Len(Pending) = q_count
    /\ \A k \in 1 .. q_count : Pending[k] = queue[(q_head + (k - 1)) % QueueDepth]

\* The occupied part of the ring is a sequence of q_count events.
LEMMA PendingSeq == RingInv => PendingIsSeq
<1> SUFFICES ASSUME RingInv PROVE PendingIsSeq
  OBVIOUS
<1>1. \A k \in 1 .. q_count : (q_head + (k - 1)) % QueueDepth \in Ring
  BY BusSizes, ModRange DEF RingInv, TypeOK, Ring
<1>2. q_count \in Nat
  BY BusSizes DEF RingInv, TypeOK
<1>3. Pending \in [1 .. q_count -> Event]
  BY <1>1 DEF Pending, RingInv, TypeOK
<1>4. Pending \in Seq(Event)
  BY <1>2, <1>3, SeqDef, Zenon
<1>5. Len(Pending) = q_count
  BY <1>2, <1>3, <1>4, LenProperties
<1>6. \A k \in 1 .. q_count : Pending[k] = queue[(q_head + (k - 1)) % QueueDepth]
  BY DEF Pending
<1> QED
  BY <1>4, <1>5, <1>6 DEF PendingIsSeq

\* A publication appends to that sequence: it writes the one place after it.
LEMMA EnqueueAppends ==
    ASSUME RingInv, PendingIsSeq, PendingIsSeq', NEW e \in Event,
           q_count < QueueDepth, Enqueue(e)
    PROVE  Pending' = Append(Pending, e)
<1> USE BusSizes
<1>1. q_head \in 0 .. QueueDepth - 1 /\ q_count \in 0 .. QueueDepth - 1
  BY DEF RingInv, TypeOK, Ring
<1>2. /\ Append(Pending, e) \in Seq(Event)
      /\ Len(Append(Pending, e)) = q_count + 1
      /\ \A k \in 1 .. q_count : Append(Pending, e)[k] = Pending[k]
      /\ Append(Pending, e)[q_count + 1] = e
  BY AppendProperties DEF PendingIsSeq
<1>3. /\ Pending' \in Seq(Event) /\ Len(Pending') = q_count + 1
      /\ \A k \in 1 .. q_count + 1 : Pending'[k] = queue'[(q_head + (k - 1)) % QueueDepth]
  BY DEF PendingIsSeq, Enqueue
<1>4. q_tail = (q_head + q_count) % QueueDepth /\ q_tail \in Ring
  BY DEF RingInv, RingCoherent, TypeOK
<1>5. ASSUME NEW k \in 1 .. q_count PROVE Pending'[k] = Append(Pending, e)[k]
  <2>1. (q_head + (k - 1)) % QueueDepth =
            IF q_head + (k - 1) < QueueDepth THEN q_head + (k - 1)
            ELSE q_head + (k - 1) - QueueDepth
    <3>1. k - 1 \in 0 .. QueueDepth
      BY <1>1
    <3> QED
      BY <1>1, <3>1, ModSum
  <2>2. (q_head + q_count) % QueueDepth =
            IF q_head + q_count < QueueDepth THEN q_head + q_count
            ELSE q_head + q_count - QueueDepth
    <3>1. q_count \in 0 .. QueueDepth
      BY <1>1
    <3> QED
      BY <1>1, <3>1, ModSum
  <2>3. (q_head + (k - 1)) % QueueDepth # q_tail
    BY <1>1, <1>4, <2>1, <2>2
  <2>4. (q_head + (k - 1)) % QueueDepth \in Ring
    BY <1>1, <2>1 DEF Ring
  <2>5. queue'[(q_head + (k - 1)) % QueueDepth] = queue[(q_head + (k - 1)) % QueueDepth]
    BY <1>4, <2>3, <2>4 DEF Enqueue, RingInv, TypeOK
  <2>6. k \in 1 .. q_count + 1
    BY <1>1
  <2>7. Pending[k] = queue[(q_head + (k - 1)) % QueueDepth]
    BY DEF PendingIsSeq
  <2> QED
    BY <1>2, <1>3, <2>5, <2>6, <2>7
<1>6. Pending'[q_count + 1] = e
  <2>1. (q_head + (q_count + 1 - 1)) % QueueDepth = q_tail
    BY <1>1, <1>4
  <2>2. queue'[q_tail] = e
    BY <1>4 DEF Enqueue, RingInv, TypeOK
  <2> QED
    BY <1>1, <1>3, <2>1, <2>2
<1>7. ASSUME NEW k \in 1 .. q_count + 1 PROVE Pending'[k] = Append(Pending, e)[k]
  <2>1. k \in 1 .. q_count \/ k = q_count + 1
    BY <1>1
  <2>2. CASE k \in 1 .. q_count
    BY <1>5, <2>2
  <2>3. CASE k = q_count + 1
    BY <1>2, <1>6, <2>3
  <2> QED
    BY <2>1, <2>2, <2>3
<1> QED
  BY <1>2, <1>3, <1>7, SeqEqual

\* eventbus_process takes the first event of that sequence.
LEMMA TakeIsHead ==
    ASSUME RingInv, PendingIsSeq, PendingIsSeq', ProcessTake
    PROVE  /\ Pending # <<>>
           /\ evt' = Head(Pending)
           /\ Pending' = Tail(Pending)
<1> USE BusSizes
<1>1. q_head \in 0 .. QueueDepth - 1 /\ q_count \in 1 .. QueueDepth
  BY DEF RingInv, TypeOK, Ring, ProcessTake
<1>2. Pending \in Seq(Event) /\ Len(Pending) = q_count
  BY DEF PendingIsSeq
<1>3. Pending # <<>>
  BY <1>1, <1>2
<1>4. /\ Tail(Pending) \in Seq(Event)
      /\ Len(Tail(Pending)) = q_count - 1
      /\ \A k \in 1 .. q_count - 1 : Tail(Pending)[k] = Pending[k + 1]
  BY <1>2, <1>3, HeadTailProperties
<1>5. evt' = Head(Pending)
  <2>1. Head(Pending) = Pending[1]
    BY <1>2, <1>3
  <2>2. Pending[1] = queue[(q_head + (1 - 1)) % QueueDepth]
    BY <1>1 DEF PendingIsSeq
  <2>3. (q_head + (1 - 1)) % QueueDepth = q_head
    BY <1>1, ModSmall
  <2> QED
    BY <2>1, <2>2, <2>3 DEF ProcessTake
<1>6. /\ Pending' \in Seq(Event) /\ Len(Pending') = q_count - 1
      /\ \A k \in 1 .. q_count - 1 : Pending'[k] = queue[(q_head' + (k - 1)) % QueueDepth]
  BY DEF PendingIsSeq, ProcessTake
<1>7. ASSUME NEW k \in 1 .. q_count - 1 PROVE Pending'[k] = Tail(Pending)[k]
  <2>1. (q_head + k) % QueueDepth = IF q_head + k < QueueDepth THEN q_head + k
                                    ELSE q_head + k - QueueDepth
    <3>1. k \in 0 .. QueueDepth
      BY <1>1
    <3> QED
      BY <1>1, <3>1, ModSum
  <2>2. q_head' = IF q_head + 1 < QueueDepth THEN q_head + 1 ELSE q_head + 1 - QueueDepth
    <3>1. 1 \in 0 .. QueueDepth
      OBVIOUS
    <3>2. (q_head + 1) % QueueDepth = IF q_head + 1 < QueueDepth THEN q_head + 1
                                      ELSE q_head + 1 - QueueDepth
      BY <1>1, <3>1, ModSum
    <3> QED
      BY <3>2 DEF ProcessTake
  <2>3. (q_head' + (k - 1)) % QueueDepth =
            IF q_head' + (k - 1) < QueueDepth THEN q_head' + (k - 1)
            ELSE q_head' + (k - 1) - QueueDepth
    <3>1. k - 1 \in 0 .. QueueDepth /\ q_head' \in 0 .. QueueDepth - 1
      BY <1>1, <2>2
    <3> QED
      BY <3>1, ModSum
  <2>4. (q_head' + (k - 1)) % QueueDepth = (q_head + ((k + 1) - 1)) % QueueDepth
    BY <1>1, <2>1, <2>2, <2>3
  <2>5. k + 1 \in 1 .. q_count
    BY <1>1
  <2>6. Pending[k + 1] = queue[(q_head + ((k + 1) - 1)) % QueueDepth]
    BY <2>5 DEF PendingIsSeq
  <2> QED
    BY <1>4, <1>6, <2>4, <2>6
<1>8. Pending' = Tail(Pending)
  BY <1>4, <1>6, <1>7, SeqEqual
<1> QED
  BY <1>3, <1>5, <1>8

\* A step that leaves the ring, the event in hand and the last result alone
\* is a stutter of the abstract queue.
LEMMA QuietStep ==
    ASSUME UNCHANGED <<queue, q_head, q_count, evt, pub_ret>>
    PROVE  UNCHANGED Fifo!vars
  BY DEF Fifo!vars, Pending

\* Every step of the bus is a step of the bounded queue, or a stutter.
LEMMA StepRefines ==
    RingInv /\ RingInv' /\ PendingIsSeq /\ PendingIsSeq' /\ [Next]_busVars
        => [Fifo!Next]_(Fifo!vars)
<1> SUFFICES ASSUME RingInv, RingInv', PendingIsSeq, PendingIsSeq', [Next]_busVars
             PROVE  [Fifo!Next]_(Fifo!vars)
  OBVIOUS
<1>1. ASSUME NEW t \in Topics, NEW f \in Handlers, Subscribe(t, f) \/ Unsubscribe(t, f)
      PROVE  UNCHANGED Fifo!vars
  BY <1>1, QuietStep DEF Subscribe, Unsubscribe, queueVars, processVars
<1>2. ASSUME NEW t \in 0 .. MaxTopics, NEW d \in Data, Publish(t, d) PROVE Fifo!Next
  <2>1. evt' = evt
    BY <1>2 DEF Publish, processVars
  <2>2. CASE PublishResult(t) = "AURA_OK"
    <3>1. t \in Topics /\ q_count < QueueDepth
      BY <2>2, BusSizes DEF PublishResult, RingInv, TypeOK
    <3>2. [topic |-> t, data |-> d] \in Event
      BY <3>1 DEF Event
    <3>3. Enqueue([topic |-> t, data |-> d]) /\ pub_ret' = "AURA_OK"
      BY <1>2, <2>2 DEF Publish
    <3>4. Pending' = Append(Pending, [topic |-> t, data |-> d])
      BY <3>1, <3>2, <3>3, EnqueueAppends
    <3>5. Fifo!Accept([topic |-> t, data |-> d])
      BY <2>1, <3>1, <3>3, <3>4 DEF Fifo!Accept, PendingIsSeq
    <3> QED
      BY <3>2, <3>5 DEF Fifo!Next
  <2>3. CASE PublishResult(t) = "AURA_BUSY"
    <3>1. q_count = QueueDepth
      BY <2>3, BusSizes DEF PublishResult, RingInv, TypeOK
    <3>2. pub_ret' = "AURA_BUSY" /\ Pending' = Pending
      BY <1>2, <2>3 DEF Publish, queueVars, Pending
    <3>3. Fifo!Busy
      BY <2>1, <3>1, <3>2 DEF Fifo!Busy, PendingIsSeq
    <3> QED
      BY <3>3 DEF Fifo!Next
  <2>4. CASE PublishResult(t) = "AURA_ERR"
    <3>1. pub_ret' = "AURA_ERR" /\ Pending' = Pending
      BY <1>2, <2>4 DEF Publish, queueVars, Pending
    <3> QED
      BY <2>1, <3>1 DEF Fifo!Invalid, Fifo!Next
  <2> QED
    BY <2>2, <2>3, <2>4 DEF PublishResult
<1>3. CASE ProcessTake
  <2>1. pub_ret' = pub_ret
    BY <1>3 DEF ProcessTake
  <2>2. Fifo!Take
    BY <1>3, <2>1, TakeIsHead DEF Fifo!Take
  <2> QED
    BY <2>2 DEF Fifo!Next
<1>4. CASE ProcessCall \/ ScanCall \/ ScanSkip \/ ScanEnd \/ ProcessReturn \/ HandlerReturn
  BY <1>4, QuietStep
  DEF ProcessCall, ScanCall, ScanSkip, ScanEnd, ProcessReturn, HandlerReturn, queueVars
<1>5. CASE UNCHANGED busVars
  BY <1>5, QuietStep DEF busVars, queueVars, processVars
<1> QED
  BY <1>1, <1>2, <1>3, <1>4, <1>5 DEF Next, Api, ProcessStep

\* The event bus implements the bounded first-in first-out queue: what
\* eventbus_publish accepts is dispatched once, in order and unaltered, and
\* AURA_BUSY means exactly that QueueDepth events are pending.
THEOREM BusImplementsFifo == Spec => ImplementsFifo
<1>1. Init => Fifo!Init
  <2> SUFFICES ASSUME Init PROVE Fifo!Init
    OBVIOUS
  <2>1. RingInv
    BY InitRing
  <2>2. Pending \in Seq(Event) /\ Len(Pending) = 0
    BY <2>1, PendingSeq DEF PendingIsSeq, Init
  <2> QED
    BY <2>2 DEF Init, Fifo!Init
<1> QED
  BY <1>1, InitRing, StepRing, PendingSeq, StepRefines, PTL DEF Spec, ImplementsFifo, Fifo!Spec

-----------------------------------------------------------------------------
(* A dispatch over a table that its handlers change.                       *)

\* The places of the table that eventbus_process has read for the event in
\* hand, that of the running handler included.
Visited == 0 .. (IF pc = "handler" THEN h ELSE h - 1)

\* At every point of a dispatch: a callback left alone has been called once
\* for each of its places among those.
CallsInv == IF pc \in {"scan", "handler"}
            THEN \A f \in Handlers \ moved :
                     calls[f] = Cardinality(Places(evt.topic, f) \cap Visited)
            ELSE calls = NoCalls /\ moved = {}

\* A place that a callback leaves, or comes to, concerns no other callback.
LEMMA OthersKeepPlaces ==
    ASSUME TypeOK, NEW t \in Topics, NEW s \in Slots, NEW f \in Handlers, NEW new \in {f, NULL},
           handlers[t][s] \in {f, NULL}, handlers' = [handlers EXCEPT ![t][s] = new]
    PROVE  \A u \in Topics, g \in Handlers : (u # t \/ g # f) => Places(u, g)' = Places(u, g)
<1>1. \A u \in Topics, k \in Slots :
          handlers'[u][k] = IF u = t /\ k = s THEN new ELSE handlers[u][k]
  BY DEF TypeOK
<1> QED
  BY <1>1, NullIsNoHandler DEF Places

\* The calls a handler makes to the bus.
LEMMA ApiKeepsCalls ==
    ASSUME TypeOK, CallsInv, NEW t \in Topics, NEW f \in Handlers, Touch(t, f),
           MayCall, UNCHANGED <<pc, evt, h, calls>>,
           \A u \in Topics, g \in Handlers : (u # t \/ g # f) => Places(u, g)' = Places(u, g)
    PROVE  CallsInv'
<1>1. Visited' = Visited
  BY DEF Visited
<1>2. CASE pc = "handler"
  <2>1. evt.topic \in Topics
    BY DEF TypeOK, Event
  <2>2. ASSUME NEW g \in Handlers \ moved'
        PROVE  calls[g] = Cardinality(Places(evt.topic, g)' \cap Visited)
    <3>1. g \notin moved /\ (evt.topic # t \/ g # f)
      BY <1>2, <2>2 DEF Touch
    <3>2. Places(evt.topic, g)' = Places(evt.topic, g)
      BY <2>1, <3>1 DEF Places
    <3>3. calls[g] = Cardinality(Places(evt.topic, g) \cap Visited)
      BY <1>2, <3>1 DEF CallsInv
    <3> QED
      BY <3>2, <3>3
  <2>3. \A g \in Handlers \ moved' : calls'[g] = Cardinality(Places(evt.topic, g)' \cap Visited')
    BY <1>1, <2>2
  <2> QED
    BY <1>2, <2>3 DEF CallsInv
<1>3. CASE pc # "handler"
  BY <1>3 DEF CallsInv, MayCall, Touch
<1> QED
  BY <1>2, <1>3

\* Every step of the bus keeps count.
LEMMA StepCalls == RingInv /\ CallsInv /\ [Next]_busVars => CallsInv'
<1> SUFFICES ASSUME RingInv, CallsInv, [Next]_busVars PROVE CallsInv'
  OBVIOUS
<1> USE BusSizes
<1>t. TypeOK /\ evt.topic \in Topics /\ NULL \notin Handlers
  BY NullIsNoHandler DEF RingInv, TypeOK, Event
<1>1. ASSUME NEW t \in Topics, NEW f \in Handlers, Subscribe(t, f) PROVE CallsInv'
  <2>1. PICK s \in Slots : s = Min(Places(t, NULL)) /\ handlers[t][s] = NULL
    <3>1. Places(t, NULL) \subseteq Nat /\ Places(t, NULL) # {}
      BY <1>1 DEF Subscribe, Places, Slots
    <3>2. Min(Places(t, NULL)) \in Places(t, NULL)
      BY <3>1, MinOfNaturals
    <3> QED
      BY <3>2 DEF Places
  <2>2. handlers' = [handlers EXCEPT ![t][s] = f]
    BY <1>1, <2>1 DEF Subscribe
  <2>3. \A u \in Topics, g \in Handlers : (u # t \/ g # f) => Places(u, g)' = Places(u, g)
    BY <1>t, <2>1, <2>2, OthersKeepPlaces
  <2> QED
    BY <1>1, <1>t, <2>3, ApiKeepsCalls DEF Subscribe, processVars
<1>2. ASSUME NEW t \in Topics, NEW f \in Handlers, Unsubscribe(t, f) PROVE CallsInv'
  <2>1. PICK s \in Slots : s = Min(Places(t, f)) /\ handlers[t][s] = f
    <3>1. Places(t, f) \subseteq Nat /\ Places(t, f) # {}
      BY <1>2 DEF Unsubscribe, Places, Slots
    <3>2. Min(Places(t, f)) \in Places(t, f)
      BY <3>1, MinOfNaturals
    <3> QED
      BY <3>2 DEF Places
  <2>2. handlers' = [handlers EXCEPT ![t][s] = NULL]
    <3>1. handlers' = [handlers EXCEPT ![t] = [handlers[t] EXCEPT ![s] = NULL]]
      BY <1>2, <2>1, Zenon DEF Unsubscribe, Removed
    <3> QED
      BY <3>1, <1>t, SMT DEF TypeOK
  <2>3. \A u \in Topics, g \in Handlers : (u # t \/ g # f) => Places(u, g)' = Places(u, g)
    <3>1. handlers[t][s] \in {f, NULL} /\ NULL \in {f, NULL}
      BY <2>1
    <3> QED
      BY <1>t, <2>2, <3>1, OthersKeepPlaces
  <2> QED
    BY <1>2, <1>t, <2>3, ApiKeepsCalls DEF Unsubscribe, processVars
<1>3. CASE (\E t \in 0 .. MaxTopics, d \in Data : Publish(t, d)) \/ UNCHANGED busVars
  <2>1. UNCHANGED <<handlers, processVars, historyVars>>
    BY <1>3 DEF Publish, busVars
  <2>2. Visited' = Visited /\ \A t, f : Places(t, f)' = Places(t, f)
    BY <2>1 DEF processVars, Visited, Places
  <2> QED
    BY <2>1, <2>2 DEF processVars, historyVars, CallsInv
<1>4. CASE ProcessCall \/ ProcessReturn
  BY <1>4 DEF ProcessCall, ProcessReturn, historyVars, CallsInv
<1>5. CASE ProcessTake
  <2>1. calls' = NoCalls /\ moved' = {} /\ pc' \in {"scan", "loop"} /\ h' = 0
    BY <1>5 DEF ProcessTake, historyVars, CallsInv
  <2>2. Visited' = {}
    BY <2>1 DEF Visited
  <2>3. \A f \in Handlers : calls'[f] = Cardinality(Places(evt.topic, f)' \cap Visited')
    BY <2>1, <2>2, FS_EmptySet DEF NoCalls
  <2> QED
    BY <2>1, <2>3 DEF CallsInv
<1>6. CASE ScanCall
  <2> DEFINE g == handlers[evt.topic][h]
  <2>1. /\ g \in Handlers /\ h \in Slots /\ pc = "scan" /\ pc' = "handler"
        /\ calls' = [calls EXCEPT ![g] = @ + 1] /\ UNCHANGED <<handlers, evt, h, moved>>
    BY <1>6, <1>t DEF ScanCall, TypeOK, Slots
  <2>2. Visited' = Visited \cup {h} /\ h \notin Visited
    BY <2>1 DEF Visited, Slots
  <2>3. \A f \in Handlers : (h \in Places(evt.topic, f)) <=> (f = g)
    BY <2>1 DEF Places
  <2> HIDE DEF g
  <2>4. ASSUME NEW f \in Handlers \ moved
        PROVE  calls'[f] = Cardinality(Places(evt.topic, f) \cap Visited')
    <3> DEFINE S == Places(evt.topic, f) \cap Visited
    <3>1. calls[f] = Cardinality(S)
      BY <2>1 DEF CallsInv
    <3>2. IsFiniteSet(S)
      <4>1. IsFiniteSet(Visited)
        BY <2>1, FS_Interval DEF Visited, Slots
      <4> QED
        BY <4>1, FS_Subset
    <3>3. CASE f = g
      <4>1. Places(evt.topic, f) \cap Visited' = S \cup {h} /\ h \notin S
        BY <2>2, <2>3, <3>3
      <4>2. Cardinality(S \cup {h}) = Cardinality(S) + 1
        BY <3>2, <4>1, FS_AddElement
      <4> QED
        BY <1>t, <2>1, <3>1, <3>3, <4>1, <4>2 DEF TypeOK
    <3>4. CASE f # g
      <4>1. Places(evt.topic, f) \cap Visited' = S
        BY <2>2, <2>3, <3>4
      <4> QED
        BY <1>t, <2>1, <3>1, <3>4, <4>1 DEF TypeOK
    <3> QED
      BY <3>3, <3>4
  <2>5. \A f \in Handlers : Places(evt.topic, f)' = Places(evt.topic, f)
    BY <2>1 DEF Places
  <2> QED
    BY <2>1, <2>4, <2>5 DEF CallsInv
<1>7. CASE ScanSkip
  <2>1. /\ h \in Slots /\ pc = "scan" /\ pc' = "scan" /\ h' = h + 1
        /\ handlers[evt.topic][h] = NULL /\ UNCHANGED <<handlers, evt, calls, moved>>
    BY <1>7, <1>t DEF ScanSkip, historyVars, TypeOK, Slots
  <2>2. Visited' = Visited \cup {h}
    BY <2>1 DEF Visited, Slots
  <2>3. \A f \in Handlers : Places(evt.topic, f)' = Places(evt.topic, f) /\ h \notin Places(evt.topic, f)
    BY <1>t, <2>1 DEF Places
  <2>4. \A f \in Handlers : Places(evt.topic, f)' \cap Visited' = Places(evt.topic, f) \cap Visited
    BY <2>2, <2>3
  <2> QED
    BY <2>1, <2>4 DEF CallsInv
<1>8. CASE HandlerReturn
  <2>1. /\ pc = "handler" /\ pc' = "scan" /\ h' = h + 1 /\ h \in Slots
        /\ UNCHANGED <<handlers, evt, calls, moved>>
    BY <1>8, <1>t DEF HandlerReturn, historyVars, TypeOK
  <2>2. Visited' = Visited
    BY <2>1 DEF Visited, Slots
  <2>3. \A f \in Handlers : Places(evt.topic, f)' = Places(evt.topic, f)
    BY <2>1 DEF Places
  <2> QED
    BY <2>1, <2>2, <2>3 DEF CallsInv
<1>9. CASE ScanEnd
  BY <1>9 DEF ScanEnd, CallsInv
<1> QED
  BY <1>1, <1>2, <1>3, <1>4, <1>5, <1>6, <1>7, <1>8, <1>9 DEF Next, Api, ProcessStep

\* eventbus_process calls a callback that no handler subscribes or
\* unsubscribes during the dispatch exactly once per registration: for every
\* size of the table, whatever the handlers do to the places around it.
THEOREM EveryHandlerRunsOnce == Spec => []UntouchedHandlersRunOnce
<1>1. Init => CallsInv
  BY DEF Init, CallsInv
<1>2. RingInv /\ CallsInv => UntouchedHandlersRunOnce
  <2> SUFFICES ASSUME RingInv, CallsInv, pc = "scan", h = MaxHandlers, NEW f \in Handlers \ moved
               PROVE  calls[f] = Cardinality(Places(evt.topic, f))
    BY DEF UntouchedHandlersRunOnce
  <2>1. Places(evt.topic, f) \cap Visited = Places(evt.topic, f)
    BY BusSizes DEF Places, Visited, Slots
  <2> QED
    BY <2>1 DEF CallsInv
<1> QED
  BY <1>1, <1>2, InitRing, StepRing, StepCalls, PTL DEF Spec
=============================================================================
