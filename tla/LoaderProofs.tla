---------------------------- MODULE LoaderProofs ----------------------------
(***************************************************************************)
(* Theorems about Plugins and Loader, for every size of the table, every   *)
(* set of descriptors and modules, and hooks nested to any depth.          *)
(***************************************************************************)
EXTENDS Loader, KernelLemmas, FiniteSetTheorems, SequenceTheorems

Work == {"activate", "deactivate", "unregister"}

\* A plugin with both hooks, of which HooksPaired speaks.
Both(s) == {"init", "shutdown"} \subseteq plugin_table[s].desc.hooks

\* The operation in frame k finds its slot as it left it, unless another one
\* has crossed it: LOADED before init and ACTIVE before shutdown has returned,
\* and in both cases not up.
WorkFrame(k) ==
    LET s == frames[k].slot IN
    /\ s \in Slots
    /\ s \notin crossed =>
          /\ plugin_table[s].state = IF frames[k].fn = "activate" THEN "LOADED" ELSE "ACTIVE"
          /\ Both(s) => s \notin up

\* loader_load waits for the activation above it, or has just seen its end.
LoadFrame(k) ==
    LET s == frames[k].slot IN
    /\ s \in Slots
    /\ s \notin crossed => plugin_table[s].desc.name = frames[k].module
    /\ IF k = Len(frames)
       THEN s \notin crossed => plugin_table[s].state \in {"ACTIVE", "ERROR"} /\ s \notin InWork
       ELSE frames[k + 1] = [fn |-> "activate", slot |-> s]

\* No slot is in work twice without having been crossed.
FrameInv ==
    /\ \A k \in DOMAIN frames : frames[k].fn \in Work => WorkFrame(k)
    /\ \A k \in DOMAIN frames : frames[k].fn = "tick" => frames[k].slot \in Slots
    /\ \A k \in DOMAIN frames : frames[k].fn = "load" => LoadFrame(k)
    /\ \A j, k \in DOMAIN frames :
          (/\ frames[j].fn \in Work /\ frames[k].fn \in Work /\ frames[j].slot = frames[k].slot
           /\ frames[j].slot \notin crossed)
              => j = k

ManagerInv == PluginInv /\ FrameInv /\ HooksPaired

-----------------------------------------------------------------------------
\* Sets of slots are finite, and none has more members than the table.
LEMMA SlotsFinite ==
    ASSUME NEW S, S \subseteq Slots
    PROVE  IsFiniteSet(S) /\ Cardinality(S) \in 0 .. PluginMax
<1>1. IsFiniteSet(Slots) /\ Cardinality(Slots) = PluginMax
  BY PluginConstants, FS_Interval DEF Slots
<1> QED
  BY <1>1, PluginConstants, FS_Subset, FS_CardinalityType

\* The table after one slot has changed its state.
LEMMA StateChanges ==
    ASSUME TypeOK, NEW s \in Slots, NEW st \in State, SetState(s, st)
    PROVE  /\ plugin_table' \in [Slots -> [state : State, desc : Descs, error_count : 0 .. MaxErrors]]
           /\ \A t \in Slots : /\ plugin_table'[t].desc = plugin_table[t].desc
                               /\ plugin_table'[t].state =
                                      IF t = s THEN st ELSE plugin_table[t].state
  BY DEF TypeOK, SetState

\* The slots of the frames that are in work.
LEMMA InWorkIs ==
    ASSUME TypeOK
    PROVE  \A s : s \in InWork <=> \E k \in DOMAIN frames : frames[k].fn \in Work /\ frames[k].slot = s
  BY DEF InWork, Work

\* A slot in work is registered, or has been crossed.
LEMMA WorkIsRegistered ==
    ASSUME TypeOK, FrameInv
    PROVE  InWork \subseteq Registered \cup crossed
  BY InWorkIs DEF FrameInv, WorkFrame, Registered

\* The plugin a name stands for.
LEMMA NamedIs ==
    ASSUME TypeOK, NEW n, NEW s \in Named(n)
    PROVE  s \in Slots /\ s \in Registered
<1>1. Find(n) # {} /\ Find(n) \subseteq Nat /\ Find(n) \subseteq Registered
  BY PluginConstants DEF Named, Find, Registered, Slots
<1>2. Min(Find(n)) \in Find(n)
  BY <1>1, MinOfNaturals
<1> QED
  BY <1>1, <1>2 DEF Named, Registered

\* The place plugin_register takes.
LEMMA FreeSlotIs ==
    ASSUME TypeOK, ~NoSlot
    PROVE  FreeSlot \in Slots /\ plugin_table[FreeSlot].state = "UNLOADED"
<1> DEFINE S == {s \in Slots : plugin_table[s].state = "UNLOADED"}
<1>1. S # {} /\ S \subseteq Nat
  BY PluginConstants DEF NoSlot, Slots
<1>2. Min(S) \in S
  BY <1>1, MinOfNaturals
<1> QED
  BY <1>2 DEF FreeSlot

\* What a push and a pop do to the frames.
LEMMA Pushed ==
    ASSUME NEW T, NEW fr \in Seq(T), NEW f \in T, NEW fr2, fr2 = Append(fr, f)
    PROVE  /\ fr2 \in Seq(T) /\ Len(fr2) = Len(fr) + 1 /\ Len(fr) \in Nat
           /\ DOMAIN fr = 1 .. Len(fr) /\ DOMAIN fr2 = 1 .. Len(fr) + 1
           /\ \A k \in DOMAIN fr : fr2[k] = fr[k]
           /\ fr2[Len(fr) + 1] = f
  OBVIOUS

LEMMA Joined ==
    ASSUME NEW T, NEW fr \in Seq(T), NEW g \in Seq(T), NEW fr2, fr2 = fr \o g
    PROVE  /\ fr2 \in Seq(T) /\ Len(fr2) = Len(fr) + Len(g)
           /\ \A i \in 1 .. Len(fr) + Len(g) :
                 fr2[i] = IF i <= Len(fr) THEN fr[i] ELSE g[i - Len(fr)]
  OBVIOUS

LEMMA AppendPair ==
    ASSUME NEW T, NEW x \in T, NEW y \in T
    PROVE  Append(<<x>>, y) = <<x, y>>
<1> DEFINE s == Append(<<x>>, y)
           t == <<x, y>>
<1>1. s \in Seq(T) /\ t \in Seq(T) /\ Len(s) = 2 /\ Len(t) = 2
  OBVIOUS
<1>2. s[1] = x /\ s[2] = y /\ t[1] = x /\ t[2] = y
  OBVIOUS
<1> HIDE DEF s, t
<1>3. \A i \in 1 .. 2 : s[i] = t[i]
  BY <1>2
<1>4. Len(s) = Len(t) /\ \A i \in 1 .. Len(s) : s[i] = t[i]
  BY <1>1, <1>3
<1>5. s = t
  BY <1>1, <1>4, SeqEqual
<1> QED
  BY <1>5 DEF s, t

LEMMA Popped ==
    ASSUME NEW T, NEW fr \in Seq(T), fr # <<>>, NEW fr2, fr2 = SubSeq(fr, 1, Len(fr) - 1)
    PROVE  /\ fr2 \in Seq(T) /\ Len(fr) \in Nat \ {0} /\ Len(fr2) = Len(fr) - 1
           /\ DOMAIN fr = 1 .. Len(fr) /\ DOMAIN fr2 = 1 .. Len(fr) - 1
           /\ \A k \in DOMAIN fr2 : fr2[k] = fr[k]
           /\ fr[Len(fr)] \in T
<1>1. Len(fr) \in Nat \ {0} /\ DOMAIN fr = 1 .. Len(fr)
  OBVIOUS
<1>2. \A k \in 1 .. Len(fr) - 1 : fr[k] \in T
  BY <1>1
<1>3. /\ fr2 \in Seq(T) /\ Len(fr2) = Len(fr) - 1 /\ DOMAIN fr2 = 1 .. Len(fr) - 1
      /\ \A k \in 1 .. Len(fr) - 1 : fr2[k] = fr[k]
  BY <1>1, <1>2
<1> QED
  BY <1>1, <1>3

-----------------------------------------------------------------------------
Slot  == [state : State, desc : Descs, error_count : 0 .. MaxErrors]
Frame == [fn : {"activate", "deactivate", "unregister", "scan", "tick"}, slot : 0 .. PluginMax]
             \cup [fn : {"load"}, slot : Slots, module : Names]

\* Slot s goes to state st and nothing else changes but error counts.
Becomes(s, st) ==
    /\ plugin_table' \in [Slots -> Slot]
    /\ \A t \in Slots : /\ plugin_table'[t].desc = plugin_table[t].desc
                        /\ plugin_table'[t].state = IF t = s THEN st ELSE plugin_table[t].state
    /\ plugin_count_val' = IF st = "UNLOADED" THEN plugin_count_val - 1 ELSE plugin_count_val
    /\ drift' = drift + (IF plugin_table[s].state = "UNLOADED" THEN 1 ELSE 0)

\* The counter and its drift follow a slot that changes its state, whether it
\* is registered or has been freed meanwhile, and names stay unique.
LEMMA BecomesCounted ==
    ASSUME PluginInv, NEW s \in Slots, s \in Registered \cup crossed, NEW st \in State,
           Becomes(s, st), crossed \subseteq crossed'
    PROVE  /\ CountMatchesTable' /\ UniqueNames'
           /\ plugin_count_val' \in Int /\ drift' \in Nat
<1>1. Registered \subseteq Slots
  BY DEF Registered
<1>2. Registered' = IF st = "UNLOADED" THEN Registered \ {s} ELSE Registered \cup {s}
  BY <1>1 DEF Registered, Becomes
<1>3. IsFiniteSet(Registered) /\ Cardinality(Registered) \in Nat
  BY <1>1, SlotsFinite
<1>4. /\ Cardinality(Registered \ {s}) =
            IF s \in Registered THEN Cardinality(Registered) - 1 ELSE Cardinality(Registered)
      /\ Cardinality(Registered \cup {s}) =
            IF s \in Registered THEN Cardinality(Registered) ELSE Cardinality(Registered) + 1
  <2>1. Cardinality(Registered \ {s}) =
            IF s \in Registered THEN Cardinality(Registered) - 1 ELSE Cardinality(Registered)
    BY <1>3, FS_RemoveElement
  <2>2. Cardinality(Registered \cup {s}) =
            IF s \in Registered THEN Cardinality(Registered) ELSE Cardinality(Registered) + 1
    BY <1>3, FS_AddElement
  <2> QED
    BY <2>1, <2>2
<1>5. plugin_count_val \in Int /\ drift \in Nat /\ plugin_count_val = Cardinality(Registered) - drift
  BY DEF PluginInv, CountMatchesTable, TypeOK
<1>6. plugin_table[s].state = "UNLOADED" <=> s \notin Registered
  BY DEF Registered
<1>7. plugin_count_val' \in Int /\ drift' \in Nat
  BY <1>5 DEF Becomes
<1>8. plugin_count_val' = Cardinality(Registered') - drift'
  <2>1. Cardinality(Registered') = IF st = "UNLOADED" THEN Cardinality(Registered \ {s})
                                                     ELSE Cardinality(Registered \cup {s})
    BY <1>2
  <2>2. /\ plugin_count_val' = IF st = "UNLOADED" THEN plugin_count_val - 1 ELSE plugin_count_val
        /\ drift' = IF s \in Registered THEN drift ELSE drift + 1
    BY <1>5, <1>6 DEF Becomes
  <2> QED
    BY <1>3, <1>4, <1>5, <2>1, <2>2
<1>9. UniqueNames'
  <2>1. Registered' \ crossed' \subseteq Registered \ crossed
    BY <1>2
  <2> QED
    BY <1>1, <2>1 DEF PluginInv, UniqueNames, Becomes
<1> QED
  BY <1>7, <1>8, <1>9 DEF CountMatchesTable

\* Nobody calls the manager while loader_load waits for nothing.
LEMMA NoLoadOnTop ==
    ASSUME TypeOK, MayCall
    PROVE  \A k \in DOMAIN frames : frames[k].fn = "load" => k # Len(frames)
<1> SUFFICES ASSUME NEW k \in DOMAIN frames, k = Len(frames), frames[k].fn = "load" PROVE FALSE
  OBVIOUS
<1>1. frames # <<>>
  OBVIOUS
<1> QED
  BY <1>1 DEF MayCall, In, Top

\* An operation that calls a hook: plugin_activate, plugin_deactivate and
\* plugin_unregister up to the call.
LEMMA PushWork ==
    ASSUME ManagerInv, MayCall, NEW s \in Slots, NEW fn \in Work,
           plugin_table[s].state = IF fn = "activate" THEN "LOADED" ELSE "ACTIVE",
           Push(fn, s),
           up' = up \ (IF fn = "activate" THEN {} ELSE {s}),
           Called(s), drift' = drift,
           plugin_table' = plugin_table, plugin_count_val' = plugin_count_val
    PROVE  ManagerInv'
<1> DEFINE n == Len(frames)
           f == [fn |-> fn, slot |-> s]
<1>1. TypeOK /\ FrameInv /\ HooksPaired
  BY DEF ManagerInv, PluginInv
<1>2. frames \in Seq(Frame) /\ f \in Frame /\ frames' = Append(frames, f)
  BY <1>1, PluginConstants DEF TypeOK, Frame, Push, Work, Slots
<1>c. crossed' = crossed \cup ({s} \cap InWork) /\ crossed' \subseteq Slots
  BY <1>1 DEF Called, TypeOK
<1>3. /\ frames' \in Seq(Frame) /\ Len(frames') = n + 1 /\ n \in Nat
      /\ DOMAIN frames = 1 .. n /\ DOMAIN frames' = 1 .. n + 1
      /\ \A k \in DOMAIN frames : frames'[k] = frames[k]
      /\ frames'[n + 1] = f
  <2> HIDE DEF f
  <2> QED
    BY <1>2, Pushed
<1>4. f.fn = fn /\ f.slot = s
  OBVIOUS
<1> HIDE DEF f, n
<1>d. DOMAIN frames' = DOMAIN frames \cup {n + 1}
  BY <1>3
<1>5. \A t : t \in InWork' <=> t \in InWork \/ t = s
  <2>1. \A t : t \in InWork' <=> \E k \in DOMAIN frames' : frames'[k].fn \in Work /\ frames'[k].slot = t
    BY Zenon DEF InWork, Work
  <2>2. \A t : t \in InWork <=> \E k \in DOMAIN frames : frames[k].fn \in Work /\ frames[k].slot = t
    BY Zenon DEF InWork, Work
  <2>3. \A k \in DOMAIN frames : frames'[k] = frames[k]
    BY <1>3
  <2>4. frames'[n + 1].fn \in Work /\ frames'[n + 1].slot = s
    BY <1>3, <1>4
  <2>5. ASSUME NEW t PROVE t \in InWork' <=> t \in InWork \/ t = s
    <3>1. ASSUME t \in InWork' PROVE t \in InWork \/ t = s
      <4>1. PICK k \in DOMAIN frames' : frames'[k].fn \in Work /\ frames'[k].slot = t
        BY <2>1, <3>1
      <4> QED
        BY <1>d, <2>2, <2>3, <2>4, <4>1
    <3>2. ASSUME t \in InWork PROVE t \in InWork'
      <4>1. PICK k \in DOMAIN frames : frames[k].fn \in Work /\ frames[k].slot = t
        BY <2>2, <3>2
      <4>2. k \in DOMAIN frames' /\ frames'[k].fn \in Work /\ frames'[k].slot = t
        BY <1>d, <2>3, <4>1
      <4> QED
        BY <2>1, <4>2
    <3>3. s \in InWork'
      BY <1>d, <2>1, <2>4
    <3> QED
      BY <3>1, <3>2, <3>3
  <2> QED
    BY <2>5
<1>6. s \notin crossed' /\ Both(s) => s \notin up'
  <2>1. CASE fn = "activate"
    <3>1. plugin_table[s].state # "ACTIVE" /\ up' \subseteq up
      BY <2>1
    <3> QED
      BY <1>1, <1>c, <3>1 DEF HooksPaired, Both
  <2>2. CASE fn # "activate"
    <3>1. s \in (IF fn = "activate" THEN {} ELSE {s})
      BY <2>2
    <3> QED
      BY <3>1
  <2> QED
    BY <2>1, <2>2
<1>7. \A k \in 1 .. n : frames[k].fn # "load" \/ k # n
  <2>1. \A k \in DOMAIN frames : frames[k].fn = "load" => k # Len(frames)
    BY <1>1, NoLoadOnTop, Zenon
  <2>2. DOMAIN frames = 1 .. n /\ n = Len(frames)
    BY <1>3 DEF n
  <2> QED
    BY <2>1, <2>2, Zenon
<1>8. PluginInv'
  <2>1. TypeOK'
    BY <1>1, <1>3, <1>c DEF TypeOK, Frame
  <2> QED
    BY <1>c, <2>1 DEF ManagerInv, PluginInv, CountMatchesTable, UniqueNames, Registered
<1>9. FrameInv'
  <2>1. ASSUME NEW k \in DOMAIN frames', frames'[k].fn \in Work PROVE WorkFrame(k)'
    <3>1. CASE k = n + 1
      BY <1>3, <1>4, <1>6, <3>1 DEF WorkFrame, Both
    <3>2. CASE k \in DOMAIN frames
      <4>1. frames'[k] = frames[k] /\ WorkFrame(k)
        BY <1>1, <1>3, <2>1, <3>2 DEF FrameInv
      <4> QED
        BY <1>c, <4>1 DEF WorkFrame, Both
    <3> QED
      BY <1>3, <3>1, <3>2
  <2>2. ASSUME NEW k \in DOMAIN frames', frames'[k].fn = "tick" PROVE frames'[k].slot \in Slots
    BY <1>1, <1>3, <1>4, <2>2 DEF FrameInv, Work
  <2>3. ASSUME NEW k \in DOMAIN frames', frames'[k].fn = "load" PROVE LoadFrame(k)'
    <3>1. k \in DOMAIN frames /\ frames'[k] = frames[k] /\ k # n
      BY <1>3, <1>4, <1>7, <2>3 DEF Work
    <3>2. LoadFrame(k) /\ k + 1 \in DOMAIN frames
      BY <1>1, <1>3, <2>3, <3>1 DEF FrameInv
    <3>3. k # Len(frames') /\ frames'[k + 1] = frames[k + 1] /\ k # Len(frames)
      BY <1>3, <3>1, <3>2 DEF n
    <3> QED
      BY <1>c, <3>1, <3>2, <3>3 DEF LoadFrame
  <2>4. ASSUME NEW j \in DOMAIN frames', NEW k \in DOMAIN frames',
               frames'[j].fn \in Work, frames'[k].fn \in Work, frames'[j].slot = frames'[k].slot,
               frames'[j].slot \notin crossed'
        PROVE  j = k
    <3>1. \A m \in DOMAIN frames : frames[m].fn \in Work /\ frames[m].slot = s => s \in crossed'
      BY <1>1, <1>c, InWorkIs
    <3>2. \A m \in DOMAIN frames' : m \in DOMAIN frames \/ m = n + 1
      BY <1>d
    <3>3. frames'[j].slot \notin crossed
      BY <1>c, <2>4
    <3> QED
      BY <1>1, <1>3, <1>4, <2>4, <3>1, <3>2, <3>3 DEF FrameInv
  <2> QED
    BY <2>1, <2>2, <2>3, <2>4 DEF FrameInv
<1>10. HooksPaired'
  BY <1>1, <1>5, <1>c DEF HooksPaired
<1> QED
  BY <1>8, <1>9, <1>10 DEF ManagerInv

\* An operation that calls no hook, or whose slot has none.
LEMMA InPlace ==
    ASSUME ManagerInv, MayCall, NEW s \in Registered, NEW st \in State,
           Becomes(s, st), Called(s),
           (Both(s) /\ s \notin InWork \cup crossed) => (s \in up <=> st = "ACTIVE"),
           UNCHANGED <<frames, up>>
    PROVE  ManagerInv'
<1>1. TypeOK /\ FrameInv /\ HooksPaired /\ s \in Slots
  BY DEF ManagerInv, PluginInv, Registered
<1>c. crossed' = crossed \cup ({s} \cap InWork) /\ crossed' \subseteq Slots
  BY <1>1 DEF Called, TypeOK
<1>2. PluginInv'
  <2>1. TypeOK'
    BY <1>1, <1>c, BecomesCounted DEF ManagerInv, TypeOK, Becomes, Slot
  <2> QED
    BY <1>1, <1>c, <2>1, BecomesCounted DEF ManagerInv, PluginInv
<1>3. InWork' = InWork
  BY DEF InWork
<1>4. \A k \in DOMAIN frames : frames[k].fn \in Work /\ frames[k].slot = s => s \in crossed'
  BY <1>1, <1>c, InWorkIs
<1>5. FrameInv'
  <2>1. ASSUME NEW k \in DOMAIN frames, frames[k].fn \in Work PROVE WorkFrame(k)'
    <3>1. /\ WorkFrame(k) /\ frames' = frames /\ up' = up
          /\ frames[k].slot \notin crossed' => frames[k].slot # s /\ frames[k].slot \notin crossed
      BY <1>1, <1>4, <1>c, <2>1 DEF FrameInv
    <3> QED
      BY <3>1 DEF WorkFrame, Both, Becomes
  <2>2. ASSUME NEW k \in DOMAIN frames, frames[k].fn = "load" PROVE LoadFrame(k)'
    <3>1. LoadFrame(k) /\ frames' = frames /\ k # Len(frames)
      BY <1>1, <2>2, NoLoadOnTop DEF FrameInv
    <3> QED
      BY <1>c, <3>1 DEF LoadFrame, Becomes
  <2>3. \A j, k \in DOMAIN frames :
           (/\ frames[j].fn \in Work /\ frames[k].fn \in Work /\ frames[j].slot = frames[k].slot
            /\ frames[j].slot \notin crossed') => j = k
    BY <1>1, <1>c DEF FrameInv
  <2>4. \A k \in DOMAIN frames : frames[k].fn = "tick" => frames[k].slot \in Slots
    BY <1>1 DEF FrameInv
  <2> QED
    BY <2>1, <2>2, <2>3, <2>4 DEF FrameInv
<1>6. HooksPaired'
  <2> SUFFICES ASSUME NEW t \in Slots \ (InWork \cup crossed'), Both(t)'
               PROVE  t \in up <=> plugin_table'[t].state = "ACTIVE"
    BY <1>3 DEF HooksPaired, Both
  <2>1. Both(t)
    BY DEF Both, Becomes
  <2>2. t \in up <=> plugin_table[t].state = "ACTIVE"
    BY <1>1, <1>c, <2>1 DEF HooksPaired, Both
  <2>3. plugin_table'[t].state = IF t = s THEN st ELSE plugin_table[t].state
    BY DEF Becomes
  <2>4. t \notin InWork \cup crossed
    BY <1>c
  <2> QED
    BY <2>1, <2>2, <2>3, <2>4
<1> QED
  BY <1>2, <1>5, <1>6 DEF ManagerInv

\* A hook returns: the rest of the operation on top, which leaves its slot in
\* state st.
Ends(fn, st) ==
    /\ In(fn) /\ frames' = Pop
    /\ Becomes(Top.slot, st)
    /\ fn = "activate" => st \in {"ACTIVE", "ERROR"}
    /\ up' \subseteq Slots
    /\ crossed' = crossed
    /\ (Both(Top.slot) /\ Top.slot \notin crossed) => (Top.slot \in up' <=> st = "ACTIVE")
    /\ \A t \in Slots \ {Top.slot} : t \in up' <=> t \in up

LEMMA PopWork ==
    ASSUME ManagerInv, NEW fn \in Work, NEW st \in State, Ends(fn, st)
    PROVE  ManagerInv'
<1> DEFINE n == Len(frames)
           s == Top.slot
<1>1. TypeOK /\ FrameInv /\ HooksPaired
  BY DEF ManagerInv, PluginInv
<1>2. frames \in Seq(Frame) /\ frames # <<>> /\ frames' = SubSeq(frames, 1, Len(frames) - 1)
  BY <1>1 DEF TypeOK, Frame, In, Pop, Ends
<1>3. /\ frames' \in Seq(Frame) /\ n \in Nat \ {0} /\ Len(frames') = n - 1
      /\ DOMAIN frames = 1 .. n /\ DOMAIN frames' = 1 .. n - 1
      /\ \A k \in DOMAIN frames' : frames'[k] = frames[k]
  <2>1. n = Len(frames)
    OBVIOUS
  <2> HIDE DEF n
  <2> QED
    BY <1>2, <2>1, Popped
<1>4. frames[n].fn = fn /\ frames[n].slot = s /\ n \in DOMAIN frames
  BY <1>3 DEF In, Top, Ends
<1>5. WorkFrame(n)
  BY <1>1, <1>4 DEF FrameInv
<1>6. s \in Slots /\ s \in Registered \cup crossed
  BY <1>4, <1>5 DEF WorkFrame, Registered
<1>c. crossed' = crossed
  BY DEF Ends
<1> HIDE DEF n, s
<1>7. \A k \in DOMAIN frames' : frames[k].fn \in Work => frames[k].slot # s \/ s \in crossed
  BY <1>1, <1>3, <1>4 DEF FrameInv
<1>8. \A t : t \in InWork' => t \in InWork /\ (t # s \/ s \in crossed)
  BY <1>3, <1>7 DEF InWork, Work
<1>9. \A t : t \in InWork /\ t # s => t \in InWork'
  BY <1>3, <1>4 DEF InWork, Work
<1>10. s \in Slots /\ Becomes(s, st)
  BY <1>6 DEF s, Ends
<1>11. PluginInv'
  <2>1. CountMatchesTable' /\ UniqueNames' /\ plugin_count_val' \in Int /\ drift' \in Nat
    BY <1>6, <1>10, <1>c, BecomesCounted DEF ManagerInv
  <2>2. TypeOK'
    BY <1>1, <1>3, <1>10, <1>c, <2>1 DEF TypeOK, Becomes, Slot, Frame, Ends
  <2> QED
    BY <2>1, <2>2 DEF PluginInv
<1>12. FrameInv'
  <2>1. ASSUME NEW k \in DOMAIN frames', frames'[k].fn \in Work PROVE WorkFrame(k)'
    <3>1. WorkFrame(k) /\ frames'[k] = frames[k] /\ (frames[k].slot # s \/ s \in crossed)
      BY <1>1, <1>3, <1>7, <2>1 DEF FrameInv
    <3>2. \A t \in Slots \ {s} : t \in up' <=> t \in up
      BY DEF s, Ends
    <3> QED
      BY <1>10, <1>c, <3>1, <3>2 DEF WorkFrame, Both, Becomes
  <2>2. ASSUME NEW k \in DOMAIN frames', frames'[k].fn = "load" PROVE LoadFrame(k)'
    <3>1. LoadFrame(k) /\ frames'[k] = frames[k] /\ k # n /\ k \in Nat /\ k + 1 \in DOMAIN frames
      BY <1>1, <1>3, <2>2 DEF FrameInv
    <3>2. frames[k + 1] = [fn |-> "activate", slot |-> frames[k].slot] /\ frames[k].slot \in Slots
      BY <3>1 DEF LoadFrame, n
    <3>3. CASE k + 1 = n
      <4>1. fn = "activate" /\ frames[k].slot = s
        BY <1>4, <3>2, <3>3
      <4>2. k = Len(frames') /\ (s \notin crossed => s \notin InWork')
        BY <1>3, <1>8, <3>1, <3>3
      <4>3. plugin_table'[s].state \in {"ACTIVE", "ERROR"}
        BY <1>10, <4>1 DEF Becomes, Ends
      <4>4. plugin_table'[s].desc = plugin_table[s].desc
        BY <1>10 DEF Becomes
      <4> QED
        BY <1>c, <3>1, <3>2, <4>1, <4>2, <4>3, <4>4 DEF LoadFrame
    <3>4. CASE k + 1 # n
      <4>1. k + 1 \in DOMAIN frames' /\ k # Len(frames')
        BY <1>3, <3>1, <3>4
      <4>2. frames'[k + 1] = frames[k + 1]
        BY <1>3, <4>1
      <4>3. plugin_table'[frames[k].slot].desc = plugin_table[frames[k].slot].desc
        BY <1>10, <3>2 DEF Becomes
      <4> QED
        BY <1>c, <3>1, <3>2, <4>1, <4>2, <4>3 DEF LoadFrame
    <3> QED
      BY <3>3, <3>4
  <2> QED
    BY <1>1, <1>3, <1>c, <2>1, <2>2 DEF FrameInv
<1>13. HooksPaired'
  <2> SUFFICES ASSUME NEW t \in Slots \ (InWork' \cup crossed'), Both(t)'
               PROVE  t \in up' <=> plugin_table'[t].state = "ACTIVE"
    BY DEF HooksPaired, Both
  <2>1. Both(t)
    BY <1>10 DEF Both, Becomes
  <2>2. CASE t = s
    BY <1>10, <1>c, <2>1, <2>2 DEF Becomes, Ends, s
  <2>3. CASE t # s
    <3>1. t \notin InWork
      BY <1>9, <2>3
    <3>2. t \in up <=> plugin_table[t].state = "ACTIVE"
      BY <1>1, <1>c, <2>1, <3>1 DEF HooksPaired, Both
    <3> QED
      BY <1>10, <2>3, <3>2 DEF Becomes, Ends, s
  <2> QED
    BY <2>2, <2>3
<1> QED
  BY <1>11, <1>12, <1>13 DEF ManagerInv

\* A plugin is put into a free slot, and possibly activated at once, by the
\* loader or directly: plugin_register, adapter_register and loader_load.
LEMMA PutPlugin ==
    ASSUME ManagerInv, MayCall, NEW d \in Descs, Registers(d), PutDesc(d),
           up' = up \ {FreeSlot},
           NEW below, below \in {<<>>, <<[fn |-> "activate", slot |-> FreeSlot]>>,
                                 <<[fn |-> "load", slot |-> FreeSlot, module |-> d.name],
                                   [fn |-> "activate", slot |-> FreeSlot]>>},
           frames' = frames \o below
    PROVE  ManagerInv'
<1> DEFINE n == Len(frames)
           s == FreeSlot
<1>1. TypeOK /\ FrameInv /\ HooksPaired
  BY DEF ManagerInv, PluginInv
<1>2. s \in Slots /\ plugin_table[s].state = "UNLOADED" /\ s \notin Registered
  BY <1>1, FreeSlotIs DEF Registers, Registered
<1>3. s \in InWork => s \in crossed
  BY <1>1, <1>2, WorkIsRegistered
<1>c. /\ crossed' = crossed \ ({s} \ InWork) /\ crossed' \subseteq Slots /\ drift' = drift
      /\ s \in InWork => s \in crossed'
      /\ \A t : t # s => (t \in crossed' <=> t \in crossed)
  BY <1>1, <1>3 DEF PutDesc, TypeOK
<1>4. /\ plugin_table' = [plugin_table EXCEPT ![s] = [state |-> "LOADED", desc |-> d, error_count |-> 0]]
      /\ plugin_count_val' = plugin_count_val + 1 /\ plugin_count_val < PluginMax
      /\ up' = up \ {s}
  BY DEF PutDesc, Registers
<1>5. /\ plugin_table' \in [Slots -> Slot]
      /\ \A t \in Slots \ {s} : plugin_table'[t] = plugin_table[t]
      /\ plugin_table'[s].state = "LOADED" /\ plugin_table'[s].desc = d
  BY <1>1, <1>2, <1>4, PluginConstants DEF TypeOK, Slot, State
<1>6. /\ frames' \in Seq(Frame) /\ n \in Nat /\ DOMAIN frames = 1 .. n
      /\ Len(frames') = n + Len(below) /\ DOMAIN frames' = 1 .. n + Len(below)
      /\ \A k \in DOMAIN frames : frames'[k] = frames[k] /\ k \in DOMAIN frames'
      /\ \A k \in 1 .. Len(below) : frames'[n + k] = below[k]
      /\ Len(below) \in 0 .. 2
  <2>1. frames \in Seq(Frame) /\ s \in 0 .. PluginMax
    BY <1>1, <1>2, PluginConstants DEF TypeOK, Frame, Slots
  <2> HIDE DEF s
  <2>2. below \in Seq(Frame) /\ Len(below) \in 0 .. 2
    <3> DEFINE a == [fn |-> "activate", slot |-> s]
               l == [fn |-> "load", slot |-> s, module |-> d.name]
    <3>1. a \in Frame /\ l \in Frame
      BY <1>2, <2>1 DEF Frame, Names
    <3>2. below = <<>> \/ below = <<a>> \/ below = <<l, a>>
      BY DEF s
    <3> HIDE DEF a, l
    <3>3. <<>> \in Seq(Frame) /\ <<a>> \in Seq(Frame) /\ <<l, a>> \in Seq(Frame)
      BY <3>1
    <3>4. Len(<<>>) = 0 /\ Len(<<a>>) = 1 /\ Len(<<l, a>>) = 2
      OBVIOUS
    <3>5. CASE below = <<>>
      BY <3>3, <3>4, <3>5
    <3>6. CASE below = <<a>>
      BY <3>3, <3>4, <3>6
    <3>7. CASE below = <<l, a>>
      BY <3>3, <3>4, <3>7
    <3> QED
      BY <3>2, <3>5, <3>6, <3>7
  <2>3. /\ frames' \in Seq(Frame) /\ Len(frames') = Len(frames) + Len(below)
        /\ \A i \in 1 .. Len(frames) + Len(below) :
              frames'[i] = IF i <= Len(frames) THEN frames[i] ELSE below[i - Len(frames)]
    BY <2>1, <2>2, Joined
  <2>4. n \in Nat /\ DOMAIN frames = 1 .. n /\ DOMAIN frames' = 1 .. Len(frames')
    BY <2>1, <2>3
  <2> HIDE DEF n
  <2>5. \A i \in 1 .. n + Len(below) : frames'[i] = IF i <= n THEN frames[i] ELSE below[i - n]
    BY <2>3 DEF n
  <2>6. \A k \in 1 .. Len(below) : n + k \in 1 .. n + Len(below) /\ ~(n + k <= n) /\ (n + k) - n = k
    BY <2>2, <2>4
  <2>7. \A k \in 1 .. Len(below) : frames'[n + k] = below[k]
    BY <2>5, <2>6
  <2>8. Len(frames') = n + Len(below)
    BY <2>3 DEF n
  <2> QED
    BY <2>2, <2>3, <2>4, <2>5, <2>7, <2>8
<1>7. /\ \A k \in 1 .. Len(below) : below[k].slot = s /\ below[k].fn \in {"load", "activate"}
      /\ \A k \in 1 .. Len(below) : below[k].fn = "activate" => k = Len(below)
      /\ \A k \in 1 .. Len(below) : below[k].fn = "load" =>
                                        k = 1 /\ Len(below) = 2 /\ below[k].module = d.name
      /\ Len(below) = 2 => below[2] = [fn |-> "activate", slot |-> s]
  <2> HIDE DEF s
  <2>1. CASE below = <<>>
    BY <2>1
  <2>2. CASE below = <<[fn |-> "activate", slot |-> s]>>
    BY <2>2
  <2>3. CASE below = <<[fn |-> "load", slot |-> s, module |-> d.name],
                       [fn |-> "activate", slot |-> s]>>
    <3>1. Len(below) = 2 /\ below[1].fn = "load" /\ below[1].slot = s /\ below[1].module = d.name
          /\ below[2] = [fn |-> "activate", slot |-> s]
      BY <2>3
    <3>2. \A k \in 1 .. Len(below) : k = 1 \/ k = 2
      BY <3>1
    <3>3. below[2].fn = "activate" /\ below[2].slot = s
      BY <3>1
    <3> QED
      BY <3>1, <3>2, <3>3
  <2> QED
    BY <2>1, <2>2, <2>3 DEF s
<1>8. \A k \in DOMAIN frames' : k \in DOMAIN frames \/ (k - n \in 1 .. Len(below) /\ k = n + (k - n))
  BY <1>6
<1> HIDE DEF n, s
<1>9. \A t : t \in InWork => t \in InWork'
  BY <1>6 DEF InWork, Work
<1>10. \A t : t \in InWork' => t \in InWork \/ t = s
  <2> SUFFICES ASSUME NEW k \in DOMAIN frames', frames'[k].fn \in Work
               PROVE  frames'[k].slot \in InWork \/ frames'[k].slot = s
    BY DEF InWork, Work
  <2>1. CASE k \in DOMAIN frames
    BY <1>6, <2>1 DEF InWork, Work
  <2>2. CASE k - n \in 1 .. Len(below) /\ k = n + (k - n)
    BY <1>6, <1>7, <2>2
  <2> QED
    BY <1>8, <2>1, <2>2
<1>11. PluginInv'
  <2>1. Registered' = Registered \cup {s} /\ Registered \subseteq Slots
    BY <1>2, <1>5 DEF Registered
  <2>2. Cardinality(Registered \cup {s}) = Cardinality(Registered) + 1
    BY <1>2, <2>1, SlotsFinite, FS_AddElement
  <2>3. CountMatchesTable'
    <3>1. /\ plugin_count_val \in Int /\ drift \in Nat /\ Cardinality(Registered) \in Nat
          /\ plugin_count_val = Cardinality(Registered) - drift
      BY <2>1, SlotsFinite DEF ManagerInv, PluginInv, CountMatchesTable, TypeOK
    <3> QED
      BY <1>c, <1>4, <2>1, <2>2, <3>1 DEF CountMatchesTable
  <2>4. UniqueNames'
    <3>1. \A t \in Registered : plugin_table[t].desc.name # d.name
      BY DEF Registers, Find
    <3>2. \A t \in Registered : plugin_table'[t].desc = plugin_table[t].desc
      BY <1>2, <1>5, <2>1
    <3> QED
      BY <1>c, <1>5, <2>1, <3>1, <3>2 DEF ManagerInv, PluginInv, UniqueNames
  <2>5. plugin_count_val' \in Int
    BY <1>1, <1>4 DEF TypeOK
  <2>6. TypeOK'
    BY <1>1, <1>c, <1>4, <1>5, <1>6, <2>5 DEF TypeOK, Slot, Frame
  <2> QED
    BY <2>3, <2>4, <2>6 DEF PluginInv
<1>12. FrameInv'
  <2>1. ASSUME NEW k \in DOMAIN frames', frames'[k].fn \in Work PROVE WorkFrame(k)'
    <3>1. CASE k \in DOMAIN frames
      <4>1. WorkFrame(k) /\ frames'[k] = frames[k] /\ (frames[k].slot = s => s \in crossed')
        <5>1. frames'[k] = frames[k] /\ frames[k].fn \in Work
          BY <1>6, <2>1, <3>1
        <5>2. WorkFrame(k) /\ frames[k].slot \in InWork
          BY <1>1, <3>1, <5>1, InWorkIs DEF FrameInv
        <5> QED
          BY <1>c, <5>1, <5>2
      <4>2. frames[k].slot \in Slots
        BY <4>1 DEF WorkFrame
      <4>3. CASE frames[k].slot = s
        BY <4>1, <4>2, <4>3 DEF WorkFrame
      <4>4. CASE frames[k].slot # s
        <5>1. plugin_table'[frames[k].slot] = plugin_table[frames[k].slot] /\ up' \subseteq up
          BY <1>4, <1>5, <4>2, <4>4
        <5> QED
          BY <1>c, <4>1, <4>4, <5>1 DEF WorkFrame, Both
      <4> QED
        BY <4>3, <4>4
    <3>2. CASE k - n \in 1 .. Len(below) /\ k = n + (k - n)
      <4>1. PICK j \in 1 .. Len(below) : k = n + j
        BY <3>2
      <4>2. frames'[k] = below[j]
        BY <1>6, <4>1
      <4>3. frames'[k].slot = s /\ frames'[k].fn = "activate"
        BY <1>7, <2>1, <4>2 DEF Work
      <4> QED
        BY <1>2, <1>4, <1>5, <4>3 DEF WorkFrame
    <3> QED
      BY <1>8, <3>1, <3>2
  <2>2. ASSUME NEW k \in DOMAIN frames', frames'[k].fn = "tick" PROVE frames'[k].slot \in Slots
    <3>1. CASE k \in DOMAIN frames
      BY <1>1, <1>6, <2>2, <3>1 DEF FrameInv
    <3>2. CASE k - n \in 1 .. Len(below) /\ k = n + (k - n)
      BY <1>2, <1>6, <1>7, <3>2
    <3> QED
      BY <1>8, <3>1, <3>2
  <2>3. ASSUME NEW k \in DOMAIN frames', frames'[k].fn = "load" PROVE LoadFrame(k)'
    <3>1. CASE k \in DOMAIN frames
      <4>1. LoadFrame(k) /\ frames'[k] = frames[k] /\ k # Len(frames)
        BY <1>1, <1>6, <2>3, <3>1, NoLoadOnTop DEF FrameInv
      <4>2. k + 1 \in DOMAIN frames /\ k # Len(frames')
        BY <1>6, <3>1, <4>1 DEF n
      <4>3. frames'[k + 1] = frames[k + 1] /\ frames[k + 1] = [fn |-> "activate", slot |-> frames[k].slot]
        BY <1>6, <4>1, <4>2 DEF LoadFrame
      <4>4. frames[k].slot \in InWork
        <5>1. frames[k + 1].fn \in Work /\ frames[k + 1].slot = frames[k].slot
          BY <4>3 DEF Work
        <5> QED
          BY <1>1, <4>2, <5>1, InWorkIs
      <4>5. frames[k].slot \notin crossed' =>
                frames[k].slot # s /\ frames[k].slot \notin crossed
        BY <1>c, <4>4
      <4>6. frames[k].slot \in Slots /\
            (frames[k].slot \notin crossed' =>
                plugin_table'[frames[k].slot].desc.name = frames[k].module)
        BY <1>5, <4>1, <4>5 DEF LoadFrame
      <4> QED
        BY <4>1, <4>2, <4>3, <4>6 DEF LoadFrame
    <3>2. CASE k - n \in 1 .. Len(below) /\ k = n + (k - n)
      <4>1. frames'[k].slot = s /\ k = n + 1 /\ Len(below) = 2 /\ frames'[k].module = d.name
        BY <1>6, <1>7, <2>3, <3>2
      <4>2. frames'[k + 1] = [fn |-> "activate", slot |-> s] /\ k # Len(frames')
        <5>1. k + 1 = n + 2 /\ 2 \in 1 .. Len(below)
          BY <1>6, <4>1
        <5> QED
          BY <1>6, <1>7, <4>1, <5>1
      <4> QED
        BY <1>2, <1>5, <4>1, <4>2 DEF LoadFrame
    <3> QED
      BY <1>8, <3>1, <3>2
  <2>4. ASSUME NEW j \in DOMAIN frames', NEW k \in DOMAIN frames',
               frames'[j].fn \in Work, frames'[k].fn \in Work, frames'[j].slot = frames'[k].slot,
               frames'[j].slot \notin crossed'
        PROVE  j = k
    <3>1. \A m \in DOMAIN frames : frames[m].fn \in Work /\ frames[m].slot = s => s \in crossed'
      BY <1>1, <1>c, InWorkIs
    <3>3. frames'[j].slot # s => frames'[j].slot \notin crossed
      BY <1>c, <2>4
    <3>2. \A m \in DOMAIN frames' : (m \notin DOMAIN frames /\ frames'[m].fn \in Work) =>
                                        frames'[m].slot = s /\ m = n + Len(below)
      <4> SUFFICES ASSUME NEW m \in DOMAIN frames', m \notin DOMAIN frames, frames'[m].fn \in Work
                   PROVE  frames'[m].slot = s /\ m = n + Len(below)
        OBVIOUS
      <4>1. m - n \in 1 .. Len(below) /\ m = n + (m - n)
        BY <1>8
      <4>2. frames'[m] = below[m - n]
        BY <1>6, <4>1
      <4> QED
        BY <1>7, <4>1, <4>2 DEF Work
    <3> QED
      BY <1>1, <1>6, <2>4, <3>1, <3>2, <3>3 DEF FrameInv
  <2> QED
    BY <2>1, <2>2, <2>3, <2>4 DEF FrameInv
<1>13. HooksPaired'
  <2> SUFFICES ASSUME NEW t \in Slots \ (InWork' \cup crossed'), Both(t)'
               PROVE  t \in up' <=> plugin_table'[t].state = "ACTIVE"
    BY DEF HooksPaired, Both
  <2>1. CASE t = s
    BY <1>4, <1>5, <2>1
  <2>2. CASE t # s
    <3>1. Both(t) /\ t \notin InWork /\ plugin_table'[t] = plugin_table[t]
      BY <1>5, <1>9, <2>2 DEF Both
    <3> QED
      BY <1>1, <1>c, <1>4, <2>2, <3>1 DEF HooksPaired, Both
  <2> QED
    BY <2>1, <2>2
<1> QED
  BY <1>11, <1>12, <1>13 DEF ManagerInv

\* A step of plugin_tick_all, and the end of loader_load: above the first n
\* frames, which stay, there is no operation in work before or after.
QuietBefore(n) == \/ frames = <<>> /\ n = 0
                  \/ Len(frames) = n + 1 /\ frames[n + 1].fn \notin Work

QuietAfter(n) == \/ Len(frames') = n
                 \/ /\ Len(frames') = n + 1 /\ frames'[n + 1].fn \in {"scan", "tick"}
                    /\ frames'[n + 1].fn = "tick" => frames'[n + 1].slot \in Slots

StatesStay == /\ plugin_table' \in [Slots -> Slot]
              /\ \A t \in Slots : /\ plugin_table'[t].desc = plugin_table[t].desc
                                  /\ plugin_table'[t].state = plugin_table[t].state
              /\ UNCHANGED <<plugin_count_val, history>>

\* The frames are well formed after the step, too.
FramesTyped == frames' \in Seq(Frame)

LEMMA TopChanges ==
    ASSUME ManagerInv, NEW n \in Nat, QuietBefore(n), QuietAfter(n), FramesTyped,
           \A k \in 1 .. n : frames'[k] = frames[k], StatesStay
    PROVE  ManagerInv'
<1>1. TypeOK /\ FrameInv /\ HooksPaired
  BY DEF ManagerInv, PluginInv
<1>2. PICK p \in Nat : p = Len(frames) /\ DOMAIN frames = 1 .. p
  <2>1. frames \in Seq(Frame)
    BY <1>1 DEF TypeOK, Frame
  <2> QED
    BY <2>1
<1>3. PICK q \in Nat : q = Len(frames') /\ DOMAIN frames' = 1 .. q
  BY DEF FramesTyped
<1>p. p = n \/ p = n + 1
  <2>1. frames = <<>> => p = 0
    BY <1>2
  <2> QED
    BY <1>2, <2>1 DEF QuietBefore
<1>q. q = n \/ q = n + 1
  BY <1>3 DEF QuietAfter
<1>4. \A k \in 1 .. n : k \in DOMAIN frames /\ k \in DOMAIN frames'
  BY <1>2, <1>3, <1>p, <1>q
<1>5. \A k \in DOMAIN frames : frames[k].fn \in Work => k \in 1 .. n
  <2> SUFFICES ASSUME NEW k \in DOMAIN frames, k \notin 1 .. n PROVE frames[k].fn \notin Work
    OBVIOUS
  <2>1. p = n + 1 /\ k = n + 1
    BY <1>2, <1>p
  <2>2. ~(frames = <<>> /\ n = 0)
    BY <1>2, <2>1
  <2> QED
    BY <2>1, <2>2 DEF QuietBefore
<1>6. \A k \in DOMAIN frames' : k \notin 1 .. n => k = n + 1 /\ q = n + 1
  BY <1>3, <1>q
<1>7. \A k \in DOMAIN frames' : frames'[k].fn \in Work \cup {"load"} => k \in 1 .. n
  <2> SUFFICES ASSUME NEW k \in DOMAIN frames', k \notin 1 .. n,
                      frames'[k].fn \in Work \cup {"load"}
               PROVE  FALSE
    OBVIOUS
  <2>1. k = n + 1 /\ Len(frames') = n + 1 /\ Len(frames') # n
    BY <1>3, <1>6
  <2>2. frames'[k].fn \in {"scan", "tick"}
    BY <2>1 DEF QuietAfter
  <2> QED
    BY <2>2 DEF Work
<1>8. InWork' = InWork
  <2>1. \A t : t \in InWork <=> \E k \in 1 .. n : frames[k].fn \in Work /\ frames[k].slot = t
    BY <1>4, <1>5, Zenon DEF InWork, Work
  <2>2. \A t : t \in InWork' <=> \E k \in 1 .. n : frames'[k].fn \in Work /\ frames'[k].slot = t
    BY <1>4, <1>7, Zenon DEF InWork, Work
  <2>3. \A t : t \in InWork <=> t \in InWork'
    BY <2>1, <2>2
  <2> QED
    BY <2>3
<1>9. PluginInv'
  <2>1. TypeOK'
    BY <1>1 DEF TypeOK, Slot, Frame, StatesStay, history, FramesTyped
  <2>2. Registered' = Registered
    BY DEF Registered, StatesStay
  <2>3. CountMatchesTable'
    BY <2>2 DEF ManagerInv, PluginInv, CountMatchesTable, StatesStay, history
  <2>4. UniqueNames'
    <3>1. \A t \in Registered : plugin_table'[t].desc = plugin_table[t].desc
      BY DEF Registered, StatesStay
    <3>2. crossed' = crossed
      BY DEF StatesStay, history
    <3> QED
      BY <2>2, <3>1, <3>2 DEF ManagerInv, PluginInv, UniqueNames
  <2> QED
    BY <2>1, <2>3, <2>4 DEF PluginInv
<1>10. FrameInv'
  <2>1. ASSUME NEW k \in DOMAIN frames', frames'[k].fn \in Work PROVE WorkFrame(k)'
    <3>1. k \in DOMAIN frames /\ frames'[k] = frames[k] /\ WorkFrame(k)
      BY <1>1, <1>4, <1>7, <2>1 DEF FrameInv
    <3> QED
      BY <3>1 DEF WorkFrame, Both, StatesStay, history
  <2>2. ASSUME NEW k \in DOMAIN frames', frames'[k].fn = "tick" PROVE frames'[k].slot \in Slots
    <3>1. CASE k \in 1 .. n
      BY <1>1, <1>4, <2>2, <3>1 DEF FrameInv
    <3>2. CASE k \notin 1 .. n
      <4>1. k = n + 1 /\ Len(frames') # n
        BY <1>3, <1>6, <3>2
      <4> QED
        BY <2>2, <4>1 DEF QuietAfter
    <3> QED
      BY <3>1, <3>2
  <2>3. ASSUME NEW k \in DOMAIN frames', frames'[k].fn = "load" PROVE LoadFrame(k)'
    <3>1. k \in 1 .. n /\ frames'[k] = frames[k] /\ LoadFrame(k)
      BY <1>1, <1>4, <1>7, <2>3 DEF FrameInv
    <3>2. k # Len(frames) /\ k + 1 \in DOMAIN frames /\ k \in Nat
      <4>1. n # 0
        BY <3>1
      <4>2. Len(frames) = n + 1
        BY <4>1 DEF QuietBefore
      <4>3. DOMAIN frames = 1 .. n + 1 /\ k \in 1 .. n
        BY <1>2, <3>1, <4>2
      <4>4. k # n + 1 /\ k + 1 \in 1 .. n + 1
        BY <4>3
      <4> QED
        BY <4>2, <4>3, <4>4
    <3>3. frames[k + 1] = [fn |-> "activate", slot |-> frames[k].slot] /\ frames[k].slot \in Slots
      BY <3>1, <3>2 DEF LoadFrame
    <3>4. frames[k + 1].fn \in Work
      BY <3>3 DEF Work
    <3>5. k + 1 \in 1 .. n /\ k # Len(frames')
      <4>1. k + 1 \in 1 .. n
        BY <1>5, <3>2, <3>4
      <4> QED
        BY <1>3, <1>q, <3>1, <4>1
    <3>6. frames'[k + 1] = [fn |-> "activate", slot |-> frames'[k].slot] /\ frames'[k].slot \in Slots
      BY <3>1, <3>3, <3>5
    <3>7. frames'[k].slot \notin crossed' => plugin_table'[frames'[k].slot].desc.name = frames'[k].module
      BY <3>1, <3>3 DEF LoadFrame, StatesStay, history
    <3> QED
      BY <3>5, <3>6, <3>7 DEF LoadFrame
  <2>4. ASSUME NEW j \in DOMAIN frames', NEW k \in DOMAIN frames',
               frames'[j].fn \in Work, frames'[k].fn \in Work, frames'[j].slot = frames'[k].slot,
               frames'[j].slot \notin crossed'
        PROVE  j = k
    BY <1>1, <1>4, <1>7, <2>4 DEF FrameInv, StatesStay, history
  <2> QED
    BY <2>1, <2>2, <2>3, <2>4 DEF FrameInv
<1>11. HooksPaired'
  BY <1>1, <1>8 DEF HooksPaired, StatesStay, history
<1> QED
  BY <1>9, <1>10, <1>11 DEF ManagerInv

-----------------------------------------------------------------------------
\* A slot takes another state, and the counter and its drift with it.
LEMMA SetStateBecomes ==
    ASSUME TypeOK, NEW s \in Slots, NEW st \in State, SetState(s, st),
           plugin_count_val' = IF st = "UNLOADED" THEN plugin_count_val - 1 ELSE plugin_count_val,
           drift' = drift + (IF plugin_table[s].state = "UNLOADED" THEN 1 ELSE 0)
    PROVE  Becomes(s, st)
  BY StateChanges DEF Becomes, Slot

LEMMA RegisterKeeps ==
    ASSUME ManagerInv, NEW d \in Descs, Register(d)
    PROVE  ManagerInv'
<1>1. MayCall /\ Registers(d) /\ PutDesc(d) /\ up' = up \ {FreeSlot} /\ frames' = frames
  BY DEF Register, PutDesc
<1>2. frames \o <<>> = frames
  <2>1. frames \in Seq(Frame)
    BY DEF ManagerInv, PluginInv, TypeOK, Frame
  <2> QED
    BY <2>1
<1>3. \E below : /\ below \in {<<>>, <<[fn |-> "activate", slot |-> FreeSlot]>>,
                               <<[fn |-> "load", slot |-> FreeSlot, module |-> d.name],
                                 [fn |-> "activate", slot |-> FreeSlot]>>}
                 /\ frames' = frames \o below
  BY <1>1, <1>2
<1> QED
  BY <1>1, <1>3, PutPlugin

LEMMA UnregisterKeeps ==
    ASSUME ManagerInv, NEW n, Unregister(n)
    PROVE  ManagerInv'
<1>1. TypeOK /\ HooksPaired /\ MayCall
  BY DEF ManagerInv, PluginInv, Unregister
<1>2. PICK s \in Named(n) :
          /\ Called(s)
          /\ IF plugin_table[s].state = "ACTIVE" /\ Has(s, "shutdown")
             THEN /\ Push("unregister", s)
                  /\ up' = up \ {s}
                  /\ UNCHANGED <<plugin_table, plugin_count_val>>
             ELSE Freed(s) /\ UNCHANGED <<frames, up>>
  BY DEF Unregister
<1>3. s \in Slots /\ s \in Registered /\ plugin_table[s].state # "UNLOADED"
  BY <1>1, NamedIs DEF Registered
<1>d. drift' = drift /\ drift' = drift + (IF plugin_table[s].state = "UNLOADED" THEN 1 ELSE 0)
  BY <1>1, <1>3 DEF Unregister, TypeOK
<1>4. CASE plugin_table[s].state = "ACTIVE" /\ Has(s, "shutdown")
  <2>1. /\ "unregister" \in Work
        /\ plugin_table[s].state = IF "unregister" = "activate" THEN "LOADED" ELSE "ACTIVE"
    BY <1>4 DEF Work
  <2>2. up' = up \ (IF "unregister" = "activate" THEN {} ELSE {s})
    BY <1>2, <1>4
  <2> QED
    BY <1>1, <1>2, <1>3, <1>d, <1>4, <2>1, <2>2, PushWork
<1>5. CASE ~(plugin_table[s].state = "ACTIVE" /\ Has(s, "shutdown"))
  <2>1. Becomes(s, "UNLOADED")
    BY <1>1, <1>2, <1>3, <1>d, <1>5, SetStateBecomes DEF Freed, State
  <2>2. (Both(s) /\ s \notin InWork \cup crossed) => (s \in up <=> "UNLOADED" = "ACTIVE")
    BY <1>1, <1>3, <1>5 DEF HooksPaired, Both, Has
  <2> QED
    BY <1>1, <1>2, <1>3, <1>5, <2>1, <2>2, InPlace DEF State
<1> QED
  BY <1>4, <1>5

LEMMA ActivateKeeps ==
    ASSUME ManagerInv, NEW n, Activate(n)
    PROVE  ManagerInv'
<1>1. TypeOK /\ HooksPaired /\ MayCall /\ plugin_count_val' = plugin_count_val /\ up' = up
  BY DEF ManagerInv, PluginInv, Activate
<1>2. PICK s \in Named(n) :
          /\ plugin_table[s].state = "LOADED"
          /\ Called(s)
          /\ IF Has(s, "init") THEN Push("activate", s) /\ UNCHANGED plugin_table
                               ELSE SetState(s, "ACTIVE") /\ UNCHANGED frames
  BY DEF Activate
<1>3. s \in Slots /\ s \in Registered /\ plugin_table[s].state # "UNLOADED"
  BY <1>1, NamedIs DEF Registered
<1>d. drift' = drift /\ drift' = drift + (IF plugin_table[s].state = "UNLOADED" THEN 1 ELSE 0)
  BY <1>1, <1>3 DEF Activate, TypeOK
<1>4. CASE Has(s, "init")
  <2>1. /\ "activate" \in Work
        /\ plugin_table[s].state = IF "activate" = "activate" THEN "LOADED" ELSE "ACTIVE"
    BY <1>2 DEF Work
  <2>2. up' = up \ (IF "activate" = "activate" THEN {} ELSE {s})
    BY <1>1, <1>2, <1>4
  <2> QED
    BY <1>1, <1>2, <1>3, <1>d, <1>4, <2>1, <2>2, PushWork
<1>5. CASE ~Has(s, "init")
  <2>1. Becomes(s, "ACTIVE")
    BY <1>1, <1>2, <1>3, <1>d, <1>5, SetStateBecomes DEF State
  <2>2. ~Both(s)
    BY <1>5 DEF Both, Has
  <2> QED
    BY <1>1, <1>2, <1>3, <1>5, <2>1, <2>2, InPlace DEF State
<1> QED
  BY <1>4, <1>5

LEMMA DeactivateKeeps ==
    ASSUME ManagerInv, NEW n, Deactivate(n)
    PROVE  ManagerInv'
<1>1. TypeOK /\ HooksPaired /\ MayCall /\ plugin_count_val' = plugin_count_val
  BY DEF ManagerInv, PluginInv, Deactivate
<1>2. PICK s \in Named(n) :
          /\ plugin_table[s].state = "ACTIVE"
          /\ Called(s)
          /\ IF Has(s, "shutdown")
             THEN Push("deactivate", s) /\ up' = up \ {s} /\ UNCHANGED plugin_table
             ELSE SetState(s, "LOADED") /\ UNCHANGED <<frames, up>>
  BY DEF Deactivate
<1>3. s \in Slots /\ s \in Registered /\ plugin_table[s].state # "UNLOADED"
  BY <1>1, NamedIs DEF Registered
<1>d. drift' = drift /\ drift' = drift + (IF plugin_table[s].state = "UNLOADED" THEN 1 ELSE 0)
  BY <1>1, <1>3 DEF Deactivate, TypeOK
<1>4. CASE Has(s, "shutdown")
  <2>1. /\ "deactivate" \in Work
        /\ plugin_table[s].state = IF "deactivate" = "activate" THEN "LOADED" ELSE "ACTIVE"
    BY <1>2 DEF Work
  <2>2. up' = up \ (IF "deactivate" = "activate" THEN {} ELSE {s})
    BY <1>1, <1>2, <1>4
  <2> QED
    BY <1>1, <1>2, <1>3, <1>d, <1>4, <2>1, <2>2, PushWork
<1>5. CASE ~Has(s, "shutdown")
  <2>1. Becomes(s, "LOADED")
    BY <1>1, <1>2, <1>3, <1>d, <1>5, SetStateBecomes DEF State
  <2>2. ~Both(s)
    BY <1>5 DEF Both, Has
  <2> QED
    BY <1>1, <1>2, <1>3, <1>5, <2>1, <2>2, InPlace DEF State
<1> QED
  BY <1>4, <1>5

LEMMA TickAllKeeps ==
    ASSUME ManagerInv, TickAll
    PROVE  ManagerInv'
<1>1. frames' = <<[fn |-> "scan", slot |-> 0]>> /\ frames = <<>>
  BY DEF TickAll, Push
<1>2. [fn |-> "scan", slot |-> 0] \in Frame
  BY PluginConstants DEF Frame
<1>3. frames' \in Seq(Frame) /\ Len(frames') = 1 /\ frames'[1].fn = "scan"
  BY <1>1, <1>2
<1>4. QuietBefore(0) /\ QuietAfter(0)
  BY <1>1, <1>3 DEF QuietBefore, QuietAfter
<1>5. StatesStay
  BY DEF ManagerInv, PluginInv, TypeOK, TickAll, StatesStay, Slot
<1>6. \A k \in 1 .. 0 : frames'[k] = frames[k]
  OBVIOUS
<1> QED
  BY <1>3, <1>4, <1>5, <1>6, TopChanges DEF FramesTyped

\* The frame on top is popped, or gives way to one of plugin_tick_all.
Moves == \/ frames' = Pop
         \/ \E f \in Frame : /\ frames' = Append(Pop, f) /\ f.fn \in {"scan", "tick"}
                             /\ f.fn = "tick" => f.slot \in Slots

LEMMA TopMoves ==
    ASSUME ManagerInv, frames # <<>>, Top.fn \notin Work, StatesStay, Moves
    PROVE  ManagerInv'
<1> DEFINE p == Len(frames)
           n == p - 1
           rest == SubSeq(frames, 1, Len(frames) - 1)
<1>1. frames \in Seq(Frame)
  BY DEF ManagerInv, PluginInv, TypeOK, Frame
<1>2. /\ rest \in Seq(Frame) /\ p \in Nat \ {0} /\ Len(rest) = p - 1
      /\ DOMAIN rest = 1 .. p - 1
      /\ \A k \in DOMAIN rest : rest[k] = frames[k]
  <2>1. rest = SubSeq(frames, 1, Len(frames) - 1) /\ p = Len(frames)
    OBVIOUS
  <2> HIDE DEF rest, p
  <2> QED
    BY <1>1, <2>1, Popped
<1>3. n \in Nat /\ p = n + 1 /\ Len(rest) = n /\ DOMAIN rest = 1 .. n /\ Len(frames) = p
  <2>1. p = Len(frames)
    OBVIOUS
  <2> HIDE DEF p
  <2> QED
    BY <1>2, <2>1
<1>4. Pop = rest
  BY DEF Pop
<1> HIDE DEF p, n, rest
<1>5. QuietBefore(n)
  BY <1>3 DEF QuietBefore, Top
<1>6. CASE frames' = Pop
  <2>1. QuietAfter(n) /\ frames' \in Seq(Frame) /\ \A k \in 1 .. n : frames'[k] = frames[k]
    BY <1>2, <1>3, <1>4, <1>6 DEF QuietAfter
  <2> QED
    BY <1>3, <1>5, <2>1, TopChanges DEF FramesTyped
<1>7. ASSUME NEW f \in Frame, frames' = Append(Pop, f), f.fn \in {"scan", "tick"},
             f.fn = "tick" => f.slot \in Slots
      PROVE  ManagerInv'
  <2>1. /\ frames' \in Seq(Frame) /\ Len(frames') = n + 1 /\ frames'[n + 1] = f
        /\ \A k \in DOMAIN rest : frames'[k] = rest[k]
    BY <1>2, <1>3, <1>4, <1>7, Pushed
  <2>2. QuietAfter(n)
    BY <1>7, <2>1 DEF QuietAfter
  <2>3. \A k \in 1 .. n : frames'[k] = frames[k]
    BY <1>2, <1>3, <2>1
  <2> QED
    BY <1>3, <1>5, <2>1, <2>2, <2>3, TopChanges DEF FramesTyped
<1> QED
  BY <1>6, <1>7 DEF Moves

LEMMA TopIsFrame ==
    ASSUME ManagerInv, NEW fn, In(fn)
    PROVE  /\ frames # <<>> /\ Top \in Frame /\ Top.fn = fn /\ Len(frames) \in DOMAIN frames
           /\ Top.slot \in 0 .. PluginMax
           /\ fn # "load" => Top \in [fn : {"activate", "deactivate", "unregister", "scan", "tick"},
                                      slot : 0 .. PluginMax]
<1>1. frames \in Seq(Frame) /\ frames # <<>> /\ Top.fn = fn
  BY DEF ManagerInv, PluginInv, TypeOK, Frame, In
<1>2. Len(frames) \in DOMAIN frames /\ frames[Len(frames)] \in Frame
  BY <1>1
<1>3. Top \in Frame
  BY <1>2 DEF Top
<1> QED
  BY <1>1, <1>2, <1>3, PluginConstants DEF Frame, Slots

LEMMA ScanKeeps ==
    ASSUME ManagerInv, ScanStep
    PROVE  ManagerInv'
<1>1. In("scan")
  BY DEF ScanStep
<1>2. /\ frames # <<>> /\ Top.fn = "scan" /\ Top.slot \in 0 .. PluginMax
      /\ Top \in [fn : {"activate", "deactivate", "unregister", "scan", "tick"}, slot : 0 .. PluginMax]
  BY <1>1, TopIsFrame
<1>3. StatesStay
  BY DEF ManagerInv, PluginInv, TypeOK, ScanStep, StatesStay, Slot
<1>4. CASE Top.slot = PluginMax
  BY <1>2, <1>3, <1>4, TopMoves DEF ScanStep, Work, Moves
<1>5. CASE Top.slot # PluginMax
  <2>1. Top.slot \in Slots /\ Top.slot + 1 \in 0 .. PluginMax
    BY <1>2, <1>5, PluginConstants DEF Slots
  <2> DEFINE f == [Top EXCEPT !.fn = "tick"]
             g == [Top EXCEPT !.slot = @ + 1]
  <2>2. f \in Frame /\ f.fn = "tick" /\ f.slot = Top.slot
    BY <1>2 DEF Frame
  <2>3. g \in Frame /\ g.fn = "scan"
    BY <1>2, <2>1 DEF Frame
  <2>4. frames' = Append(Pop, f) \/ frames' = Append(Pop, g)
    BY <1>5 DEF ScanStep
  <2> HIDE DEF f, g
  <2>5. \E h \in Frame : /\ frames' = Append(Pop, h) /\ h.fn \in {"scan", "tick"}
                         /\ h.fn = "tick" => h.slot \in Slots
    BY <2>1, <2>2, <2>3, <2>4
  <2> QED
    BY <1>2, <1>3, <2>5, TopMoves DEF Work, Moves
<1> QED
  BY <1>4, <1>5

LEMMA TickReturnsKeeps ==
    ASSUME ManagerInv, NEW r, TickReturns(r)
    PROVE  ManagerInv'
<1>1. In("tick")
  BY DEF TickReturns
<1>2. /\ frames # <<>> /\ Top \in Frame /\ Top.fn = "tick" /\ Len(frames) \in DOMAIN frames
  BY <1>1, TopIsFrame
<1>3. Top.slot \in Slots
  BY <1>2 DEF ManagerInv, FrameInv, Top
<1>4. TypeOK
  BY DEF ManagerInv, PluginInv
<1> DEFINE f == [fn |-> "scan", slot |-> Top.slot + 1]
<1>5. f \in Frame /\ f.fn = "scan"
  BY <1>3, PluginConstants DEF Frame, Slots
<1>6. frames' = Append(Pop, f)
  BY DEF TickReturns
<1> HIDE DEF f
<1>7. StatesStay
  <2>1. CASE r = "AURA_OK"
    BY <1>4, <2>1 DEF TypeOK, TickReturns, StatesStay, Slot
  <2>2. CASE r # "AURA_OK"
    <3>1. /\ plugin_table[Top.slot].error_count < MaxErrors
          /\ plugin_table' = ErrorAfterTick(Top.slot)
      BY <2>2 DEF TickReturns
    <3>2. plugin_table \in [Slots -> Slot] /\ plugin_table[Top.slot].error_count + 1 \in 0 .. MaxErrors
      <4>1. plugin_table \in [Slots -> Slot]
        BY <1>4 DEF TypeOK, Slot
      <4>2. plugin_table[Top.slot].error_count \in 0 .. MaxErrors
        BY <1>3, <4>1 DEF Slot
      <4> QED
        BY <3>1, <4>1, <4>2, PluginConstants
    <3>3. /\ plugin_table' \in [Slots -> Slot]
          /\ \A t \in Slots : /\ plugin_table'[t].desc = plugin_table[t].desc
                              /\ plugin_table'[t].state = plugin_table[t].state
      BY <1>3, <3>1, <3>2 DEF ErrorAfterTick, Slot
    <3> QED
      BY <3>3 DEF StatesStay, TickReturns
  <2> QED
    BY <2>1, <2>2
<1>8. \E h \in Frame : /\ frames' = Append(Pop, h) /\ h.fn \in {"scan", "tick"}
                       /\ h.fn = "tick" => h.slot \in Slots
  BY <1>5, <1>6
<1> QED
  BY <1>2, <1>7, <1>8, TopMoves DEF Work, Moves

LEMMA InitReturnsKeeps ==
    ASSUME ManagerInv, NEW r, InitReturns(r)
    PROVE  ManagerInv'
<1>1. In("activate") /\ frames' = Pop /\ plugin_count_val' = plugin_count_val
  BY DEF InitReturns
<1>2. Top.fn = "activate" /\ Len(frames) \in DOMAIN frames /\ TypeOK
  BY <1>1, TopIsFrame DEF ManagerInv, PluginInv
<1>3. WorkFrame(Len(frames))
  BY <1>2 DEF ManagerInv, FrameInv, Top, Work
<1>4. Top.slot \in Slots /\ (Both(Top.slot) /\ Top.slot \notin crossed => Top.slot \notin up)
  BY <1>3 DEF WorkFrame, Top
<1>d. /\ drift' = drift + (IF plugin_table[Top.slot].state = "UNLOADED" THEN 1 ELSE 0)
      /\ crossed' = crossed
  BY DEF InitReturns, Returned
<1>5. CASE r = "AURA_OK"
  <2>1. SetState(Top.slot, "ACTIVE") /\ up' = up \cup {Top.slot}
    BY <1>5 DEF InitReturns
  <2>2. Becomes(Top.slot, "ACTIVE")
    BY <1>1, <1>2, <1>4, <1>d, <2>1, SetStateBecomes DEF State
  <2>3. Ends("activate", "ACTIVE")
    BY <1>1, <1>2, <1>4, <1>d, <2>1, <2>2 DEF Ends, TypeOK
  <2> QED
    BY <2>3, PopWork DEF Work, State
<1>6. CASE r # "AURA_OK"
  <2>1. /\ plugin_table[Top.slot].error_count < MaxErrors
        /\ plugin_table' = [plugin_table EXCEPT ![Top.slot].state = "ERROR",
                                                ![Top.slot].error_count = @ + 1]
        /\ up' = up
    BY <1>6 DEF InitReturns
  <2>2. plugin_table \in [Slots -> Slot] /\ plugin_table[Top.slot].error_count + 1 \in 0 .. MaxErrors
    <3>1. plugin_table \in [Slots -> Slot]
      BY <1>2 DEF TypeOK, Slot
    <3>2. plugin_table[Top.slot].error_count \in 0 .. MaxErrors
      BY <1>4, <3>1 DEF Slot
    <3> QED
      BY <2>1, <3>1, <3>2, PluginConstants
  <2>3. Becomes(Top.slot, "ERROR")
    <3>1. /\ plugin_table' \in [Slots -> Slot]
          /\ \A t \in Slots : /\ plugin_table'[t].desc = plugin_table[t].desc
                              /\ plugin_table'[t].state = IF t = Top.slot THEN "ERROR"
                                                                           ELSE plugin_table[t].state
      BY <1>4, <2>1, <2>2 DEF Slot, State
    <3> QED
      BY <1>1, <1>d, <3>1 DEF Becomes
  <2>4. Ends("activate", "ERROR")
    BY <1>1, <1>2, <1>4, <1>d, <2>1, <2>3 DEF Ends, TypeOK
  <2> QED
    BY <2>4, PopWork DEF Work, State
<1> QED
  BY <1>5, <1>6

LEMMA ShutdownReturnsKeeps ==
    ASSUME ManagerInv, ShutdownReturns
    PROVE  ManagerInv'
<1>1. PICK fn \in {"deactivate", "unregister"} :
          /\ In(fn)
          /\ SetState(Top.slot, IF fn = "deactivate" THEN "LOADED" ELSE "UNLOADED")
          /\ plugin_count_val' = IF fn = "deactivate" THEN plugin_count_val ELSE plugin_count_val - 1
  BY DEF ShutdownReturns, Freed
<1> DEFINE st == IF fn = "deactivate" THEN "LOADED" ELSE "UNLOADED"
<1>2. st \in State /\ st # "ACTIVE" /\ fn # "activate" /\ (st = "UNLOADED" <=> fn # "deactivate")
  BY DEF State
<1>3. SetState(Top.slot, st)
  BY <1>1
<1> HIDE DEF st
<1>4. Top.fn = fn /\ Len(frames) \in DOMAIN frames /\ TypeOK /\ fn \in Work
  BY <1>1, TopIsFrame DEF ManagerInv, PluginInv, Work
<1>5. WorkFrame(Len(frames))
  BY <1>4 DEF ManagerInv, FrameInv, Top
<1>6. Top.slot \in Slots /\ (Both(Top.slot) /\ Top.slot \notin crossed => Top.slot \notin up)
  BY <1>5 DEF WorkFrame, Top
<1>d. /\ drift' = drift + (IF plugin_table[Top.slot].state = "UNLOADED" THEN 1 ELSE 0)
      /\ crossed' = crossed
  BY DEF ShutdownReturns, Returned
<1>7. Becomes(Top.slot, st)
  BY <1>1, <1>2, <1>3, <1>4, <1>6, <1>d, SetStateBecomes
<1>8. Ends(fn, st)
  BY <1>1, <1>2, <1>4, <1>6, <1>d, <1>7 DEF Ends, TypeOK, ShutdownReturns
<1> QED
  BY <1>2, <1>4, <1>8, PopWork

LEMMA NextKeeps ==
    ASSUME ManagerInv, Next
    PROVE  ManagerInv'
<1>1. ASSUME NEW d \in Descs, Register(d) PROVE ManagerInv'
  BY <1>1, RegisterKeeps
<1>2. ASSUME NEW n \in Names, Unregister(n) \/ Activate(n) \/ Deactivate(n) PROVE ManagerInv'
  BY <1>2, UnregisterKeeps, ActivateKeeps, DeactivateKeeps
<1>3. ASSUME NEW r \in {"AURA_OK", "AURA_ERR"}, InitReturns(r) \/ TickReturns(r) PROVE ManagerInv'
  BY <1>3, InitReturnsKeeps, TickReturnsKeeps
<1> QED
  BY <1>1, <1>2, <1>3, TickAllKeeps, ScanKeeps, ShutdownReturnsKeeps DEF Next, Api, Return

\* loader_load and adapter_register: the plugin is put into the table and its
\* init called.
LEMMA BringKeeps ==
    ASSUME ManagerInv, MayCall, NEW d \in Descs, Registers(d), NEW lower,
           lower \in {<<>>, <<[fn |-> "load", slot |-> FreeSlot, module |-> d.name]>>},
           Bring(d, lower)
    PROVE  ManagerInv'
<1> DEFINE a == [fn |-> "activate", slot |-> FreeSlot]
           l == [fn |-> "load", slot |-> FreeSlot, module |-> d.name]
<1>1. PutDesc(d) /\ up' = up \ {FreeSlot} /\ frames' = frames \o lower \o <<a>>
  BY DEF Bring, PutDesc
<1>2. frames \in Seq(Frame) /\ a \in Frame /\ l \in Frame
  <2>1. TypeOK
    BY DEF ManagerInv, PluginInv
  <2>2. FreeSlot \in Slots
    BY <2>1, FreeSlotIs DEF Registers
  <2> QED
    BY <2>1, <2>2, PluginConstants DEF TypeOK, Frame, Slots, Names
<1> HIDE DEF a, l
<1>3. CASE lower = <<>>
  <2>1. frames' = frames \o <<a>>
    BY <1>1, <1>2, <1>3
  <2> QED
    BY <1>1, <2>1, PutPlugin DEF a
<1>4. CASE lower = <<l>>
  <2>1. frames' = frames \o <<l, a>>
    <3>1. <<l>> \in Seq(Frame) /\ <<a>> \in Seq(Frame)
      BY <1>2
    <3>2. <<l>> \o <<a>> = <<l, a>>
      <4>1. Append(<<l>>, a) = <<l>> \o <<a>>
        BY <1>2, <3>1, AppendIsConcat
      <4>2. Append(<<l>>, a) = <<l, a>>
        BY <1>2, AppendPair
      <4> QED
        BY <4>1, <4>2
    <3>3. (frames \o <<l>>) \o <<a>> = frames \o (<<l>> \o <<a>>)
      BY <1>2, <3>1, ConcatAssociative
    <3> QED
      BY <1>1, <1>4, <3>2, <3>3
  <2> QED
    BY <1>1, <2>1, PutPlugin DEF a, l
<1> QED
  BY <1>3, <1>4 DEF l

\* Every state of the manager and of the loader satisfies the invariant.
LEMMA ManagerInvInit ==
    LoaderInit => ManagerInv
<1> SUFFICES ASSUME Init PROVE ManagerInv
  BY DEF LoaderInit
<1> DEFINE d0 == CHOOSE d \in Descs : TRUE
<1>1. d0 \in Descs
  BY PluginConstants
<1>2. plugin_table = [s \in Slots |-> [state |-> "UNLOADED", desc |-> d0, error_count |-> 0]]
  BY DEF Init
<1> HIDE DEF d0
<1>3. plugin_count_val = 0 /\ frames = <<>> /\ up = {} /\ crossed = {} /\ drift = 0
  BY DEF Init
<1>4. TypeOK
  BY <1>1, <1>2, <1>3, PluginConstants DEF TypeOK, State
<1>5. Registered = {}
  BY <1>2 DEF Registered
<1>6. CountMatchesTable /\ UniqueNames
  BY <1>3, <1>5, FS_EmptySet DEF CountMatchesTable, UniqueNames
<1>7. FrameInv
  BY <1>3 DEF FrameInv
<1>8. HooksPaired
  BY <1>2, <1>3 DEF HooksPaired
<1> QED
  BY <1>4, <1>6, <1>7, <1>8 DEF ManagerInv, PluginInv

LEMMA LoadReturnsKeeps ==
    ASSUME ManagerInv, LoadReturns
    PROVE  ManagerInv'
<1>1. In("load") /\ frames' = Pop
  BY DEF LoadReturns
<1>2. frames # <<>> /\ Top.fn = "load"
  BY <1>1, TopIsFrame
<1>3. StatesStay
  BY DEF ManagerInv, PluginInv, TypeOK, LoadReturns, StatesStay, Slot
<1> QED
  BY <1>1, <1>2, <1>3, TopMoves DEF Work, Moves

LEMMA ManagerInvStep ==
    ManagerInv /\ [LoaderNext]_allVars => ManagerInv'
<1> SUFFICES ASSUME ManagerInv, [LoaderNext]_allVars PROVE ManagerInv'
  OBVIOUS
<1>1. ASSUME Next PROVE ManagerInv'
  BY <1>1, NextKeeps
<1>2. ASSUME NEW m \in Modules, LoaderLoad(m) PROVE ManagerInv'
  <2>1. DescOf(m) \in Descs /\ MayCall /\ Registers(DescOf(m))
    BY <1>2, ModulesAreDescribed DEF LoaderLoad
  <2>2. Bring(DescOf(m), <<[fn |-> "load", slot |-> FreeSlot, module |-> DescOf(m).name]>>)
    BY <1>2 DEF LoaderLoad, DescOf
  <2> QED
    BY <2>1, <2>2, BringKeeps
<1>3. ASSUME NEW d \in Adapters, AdapterRegister(d) PROVE ManagerInv'
  <2>1. d \in Descs /\ MayCall /\ Registers(d) /\ Bring(d, <<>>)
    BY <1>3 DEF AdapterRegister, Adapters
  <2> QED
    BY <2>1, BringKeeps
<1>4. ASSUME UNCHANGED vars PROVE ManagerInv'
  <2>1. /\ plugin_table' = plugin_table /\ plugin_count_val' = plugin_count_val
        /\ frames' = frames /\ up' = up /\ crossed' = crossed /\ drift' = drift
    BY <1>4 DEF vars, history
  <2>2. TypeOK' /\ CountMatchesTable' /\ UniqueNames'
    BY <2>1 DEF ManagerInv, PluginInv, TypeOK, CountMatchesTable, UniqueNames, Registered
  <2>3. InWork' = InWork
    BY <2>1 DEF InWork
  <2>4. FrameInv'
    BY <2>1, <2>3 DEF ManagerInv, FrameInv, WorkFrame, LoadFrame, Both
  <2>5. HooksPaired'
    BY <2>1, <2>3 DEF ManagerInv, HooksPaired
  <2> QED
    BY <2>2, <2>4, <2>5 DEF ManagerInv, PluginInv
<1>5. ASSUME NEW m \in Modules, LoaderUnload(m) PROVE ManagerInv'
  BY <1>4, <1>5 DEF LoaderUnload
<1> QED
  BY <1>1, <1>2, <1>3, <1>4, <1>5, LoadReturnsKeeps DEF LoaderNext, allVars

-----------------------------------------------------------------------------
\* The plugin table and its counter (plugin_register, plugin_unregister and
\* everything the hooks, the modules and the adapters make of them), whatever
\* the size of the table and the depth of the nest, and also when a hook has its
\* own plugin unregistered: the counter is then off by exactly the returns that
\* found their slot freed, and two slots have the same name only if an operation
\* was called for one of them inside another.
THEOREM TableInOrder ==
    LoaderSpec => []PluginInv
<1>1. ManagerInv => PluginInv
  BY DEF ManagerInv
<1> QED
  BY <1>1, ManagerInvInit, ManagerInvStep, PTL DEF LoaderSpec

\* A plugin's init and shutdown alternate (plugin_activate, plugin_deactivate
\* and plugin_unregister), through every nest of hooks, for every plugin no
\* operation was called for while another one had its state still to write.
THEOREM HooksAlternate ==
    LoaderSpec => []HooksPaired
<1>1. ManagerInv => HooksPaired
  BY DEF ManagerInv
<1> QED
  BY <1>1, ManagerInvInit, ManagerInvStep, PTL DEF LoaderSpec

\* The flags of module_registry.
FlagsOK == loaded \in [Modules -> BOOLEAN]

LEMMA FlagsOKInit ==
    LoaderInit => FlagsOK
  BY DEF LoaderInit, FlagsOK

LEMMA FlagsOKStep ==
    FlagsOK /\ [LoaderNext]_allVars => FlagsOK'
<1> SUFFICES ASSUME FlagsOK, loaded' # loaded, LoaderNext PROVE FlagsOK'
  BY DEF FlagsOK, allVars
<1>1. \E i : \E b \in BOOLEAN : loaded' = [loaded EXCEPT ![i] = b]
  BY DEF LoaderNext, LoaderLoad, LoaderUnload, LoadReturns, AdapterRegister
<1> QED
  BY <1>1 DEF FlagsOK

LEMMA FlagStep ==
    ManagerInv /\ FlagsOK /\ [LoaderNext]_allVars =>
        [\A m \in Modules : (~loaded[m] /\ loaded'[m]) =>
            /\ In("load") /\ Top.module = m
            /\ \/ Top.slot \in crossed
               \/ /\ Top.slot \in Find(m) \ InWork
                  /\ plugin_table[Top.slot].state \in {"ACTIVE", "ERROR"}]_allVars
<1> SUFFICES ASSUME ManagerInv, FlagsOK, LoaderNext, NEW m \in Modules, ~loaded[m], loaded'[m]
             PROVE  /\ In("load") /\ Top.module = m
                    /\ \/ Top.slot \in crossed
                       \/ /\ Top.slot \in Find(m) \ InWork
                          /\ plugin_table[Top.slot].state \in {"ACTIVE", "ERROR"}
  OBVIOUS
<1>1. LoadReturns
  <2>1. loaded' # loaded
    OBVIOUS
  <2>2. ~(\E i \in Modules : LoaderUnload(i))
    BY DEF LoaderUnload, FlagsOK
  <2> QED
    BY <2>1, <2>2 DEF LoaderNext, LoaderLoad, AdapterRegister
<1>2. In("load") /\ loaded' = [loaded EXCEPT ![Top.module] = TRUE]
  BY <1>1 DEF LoadReturns
<1>3. Top.module = m
  BY <1>2 DEF FlagsOK
<1>4. Len(frames) \in DOMAIN frames /\ Top.fn = "load"
  BY <1>2, TopIsFrame
<1>5. LoadFrame(Len(frames))
  BY <1>4 DEF ManagerInv, FrameInv, Top
<1>6. CASE Top.slot \notin crossed
  <2>1. /\ Top.slot \in Slots /\ Top.slot \notin InWork
        /\ plugin_table[Top.slot].state \in {"ACTIVE", "ERROR"}
        /\ plugin_table[Top.slot].desc.name = m
    BY <1>3, <1>5, <1>6 DEF LoadFrame, Top
  <2>2. Top.slot \in Find(m)
    BY <2>1 DEF Find, Registered
  <2> QED
    BY <1>2, <1>3, <2>1, <2>2
<1> QED
  BY <1>2, <1>3, <1>6

\* loader_load sets the flag of the module it was called for, after the init of
\* the plugin it brought; the plugin is then still in its slot, whatever init
\* called, unless that named the plugin itself.
THEOREM FlaggedAfterInit ==
    LoaderSpec => LoadedAfterInit
  BY ManagerInvInit, ManagerInvStep, FlagsOKInit, FlagsOKStep, FlagStep, PTL
     DEF LoaderSpec, LoadedAfterInit
=============================================================================
