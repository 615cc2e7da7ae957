------------------------------- MODULE Mirror -------------------------------
(***************************************************************************)
(* The mirroring engine (kernel/mirror.c) as the menu (kernel/menu.c) and  *)
(* the scheduler task "mirror_sync" use it, on top of the clock it stamps  *)
(* its snapshots with.  The tasks run one after the other, so each of its  *)
(* functions is one step, and none runs inside a heartbeat; the timer      *)
(* interrupts between any two.  Of the figures a snapshot holds the number *)
(* of pending events stands for all: the others are copied and summed up   *)
(* in the same way, and the engine itself changes only this one.           *)
(***************************************************************************)
EXTENDS KernelClock, Sequences, FiniteSets

CONSTANTS MirrorSlots,  \* MIRROR_SLOTS
          SyncPeriod,   \* 0x100: a sync in so many is announced on the bus
          QueueDepth,   \* EVENTBUS_QUEUE_DEPTH
          LabelSum,     \* the labels, each with the XOR of its characters
          FlagAll,      \* MIRROR_FLAG_ALL
          MaxSyncs,     \* bound: calls of mirror_sync
          WordMod,      \* the checksum is a uint32_t: a number below 2^32
          BitXor(_, _)     \* ^ on such numbers

ASSUME MirrorConstants ==
    /\ MirrorSlots \in Nat /\ MirrorSlots > 2
    /\ SyncPeriod \in Nat \ {0} /\ QueueDepth \in Nat /\ MaxSyncs \in Nat

NoLabel == ""

ASSUME LabelsOfTheCode ==
    {NoLabel, "LIVE", "boot-snapshot", "user-snap"} \subseteq DOMAIN LabelSum

Word == 0 .. WordMod - 1

\* What is summed up fits the checksum, and so do the sums.
ASSUME ChecksumWidth ==
    /\ WordMod \in Nat /\ TickMod <= WordMod /\ QueueDepth < WordMod
    /\ FlagAll \in Word /\ LabelSum \in [DOMAIN LabelSum -> Word]
    /\ \A a, b \in Word : BitXor(a, b) \in Word

VARIABLES g_kernel_state,  \* "INIT", "RUN", "PANIC"
          snapshots, sync_count,
          snap_slot,       \* static in menu_tick: where key '4' goes next
          pending,         \* eventbus_pending(), for all the figures of a snapshot
          taken,           \* history: what the last user captures were to keep
          synced           \* history: the clock's histories at the last sync

mirrorVars == <<snapshots, sync_count, snap_slot, taken, synced>>
allVars    == <<clockVars, g_kernel_state, mirrorVars, pending>>

Slots     == 0 .. MirrorSlots - 1
LiveSlot  == 0
BootSlot  == 1
FirstUser == 2
UserSlots == FirstUser .. MirrorSlots - 1

Snapshot == [label : DOMAIN LabelSum, timestamp : 0 .. TickMod - 1, flags : {0, FlagAll},
             event_pending : 0 .. QueueDepth, checksum : Word, valid : BOOLEAN]

\* snapshot_checksum(): every field but checksum and valid.
Checksum(s) ==
    BitXor(BitXor(BitXor(LabelSum[s.label], s.timestamp), s.flags), s.event_pending)

\* mirror_verify()
Verify(slot) == snapshots[slot].valid /\ snapshots[slot].checksum = Checksum(snapshots[slot])

Cleared == [label |-> NoLabel, timestamp |-> 0, flags |-> 0, event_pending |-> 0,
            checksum |-> 0, valid |-> FALSE]

\* mirror_init(); kernel_main comes to menu_run with the timer on.
MirrorInit ==
    /\ ClockInit
    /\ g_kernel_state = "INIT"
    /\ snapshots = [s \in Slots |-> Cleared]
    /\ sync_count = 0
    /\ snap_slot = FirstUser
    /\ pending = 0
    /\ taken = <<>>
    /\ synced = [irqs |-> 0, beats |-> 0, lost |-> 0]

-----------------------------------------------------------------------------
\* A publication whose result nobody looks at: a full queue drops it.
PendingAfter(n) == IF n < QueueDepth THEN n + 1 ELSE n

\* The live slot after mirror_sync(), which sums the fields up before it
\* sets the label.
Live ==
    LET s == [snapshots[LiveSlot] EXCEPT !.timestamp = g_tick_count, !.flags = FlagAll,
                                         !.event_pending = pending]
    IN [s EXCEPT !.checksum = Checksum(s), !.valid = TRUE, !.label = "LIVE"]

\* The rest of mirror_sync(), the snapshots aside.
Synced ==
    /\ sync_count < MaxSyncs
    /\ sync_count' = sync_count + 1
    /\ pending' = IF sync_count' % SyncPeriod = 0 THEN PendingAfter(pending) ELSE pending
    /\ synced' = [irqs |-> irqs, beats |-> beats, lost |-> lost]

MirrorSync ==
    /\ g_kernel_state = "RUN" /\ pc = "idle"
    /\ Synced
    /\ snapshots' = [snapshots EXCEPT ![LiveSlot] = Live]
    /\ UNCHANGED <<clockVars, g_kernel_state, snap_slot, taken>>

CopyKeepsSum(label) == [Live EXCEPT !.label = label]

\* What mirror_capture() puts into its slot.
Copy(label) ==
    LET s == [Live EXCEPT !.flags = FlagAll, !.label = label]
    IN [s EXCEPT !.checksum = Checksum(s), !.valid = TRUE]

\* mirror_capture()
Capture(slot, label) ==
    IF slot >= MirrorSlots
    THEN UNCHANGED <<snapshots, sync_count, pending, synced>>  \* AURA_ERR
    ELSE /\ Synced
         /\ snapshots' = [snapshots EXCEPT ![LiveSlot] = Live, ![slot] = Copy(label)]

\* kernel_main enters the running state and menu_run() captures the boot
\* snapshot.
MenuRun ==
    /\ g_kernel_state = "INIT"
    /\ g_kernel_state' = "RUN"
    /\ Capture(BootSlot, "boot-snapshot")
    /\ UNCHANGED <<clockVars, snap_slot, taken>>

\* menu_tick() with a key that changes something; the others only print.
MenuTakes == g_kernel_state = "RUN" /\ pc = "idle"

ThisSlotToBoot == IF snap_slot >= MirrorSlots THEN BootSlot ELSE snap_slot
ThisSlot == IF snap_slot >= MirrorSlots THEN FirstUser ELSE snap_slot

Key4 ==
    /\ MenuTakes
    /\ Capture(ThisSlot, "user-snap")
    /\ snap_slot' = ThisSlot + 1
    /\ taken' = LET all == Append(taken, Copy("user-snap"))
                    n   == Cardinality(UserSlots)
                IN IF Len(all) > n THEN Tail(all) ELSE all
    /\ UNCHANGED <<clockVars, g_kernel_state>>

\* mirror_restore(BootSlot): no snapshot is touched.  The environment goes
\* back to its defaults (see Env); the restore is announced.
KeyR ==
    /\ MenuTakes
    /\ pending' = IF Verify(BootSlot) THEN PendingAfter(pending) ELSE pending
    /\ UNCHANGED <<clockVars, g_kernel_state, mirrorVars>>

\* kernel_panic() or kernel_shutdown(): interrupts off, for good.
KeyKQ ==
    /\ MenuTakes
    /\ g_kernel_state' = "PANIC"
    /\ UNCHANGED <<clockVars, mirrorVars, pending>>

-----------------------------------------------------------------------------
\* The interrupt comes from pit_init on, the heartbeat once the loop runs.
Clock ==
    /\ \/ g_kernel_state # "PANIC" /\ Irq0
       \/ g_kernel_state = "RUN" /\ (HeartbeatLoad \/ HeartbeatStore)
    /\ UNCHANGED <<g_kernel_state, mirrorVars, pending>>

\* The other tasks change the figures a snapshot holds.
OtherTasks ==
    /\ MenuTakes
    /\ pending' \in 0 .. QueueDepth
    /\ UNCHANGED <<clockVars, g_kernel_state, mirrorVars>>

MirrorNext == MenuRun \/ MirrorSync \/ Key4 \/ KeyR \/ KeyKQ \/ Clock \/ OtherTasks

MirrorSpec == MirrorInit /\ [][MirrorNext]_allVars

-----------------------------------------------------------------------------
\* Every variable stays in its range.
MirrorTypeOK ==
    /\ g_kernel_state \in {"INIT", "RUN", "PANIC"}
    /\ snapshots \in [Slots -> Snapshot]
    /\ sync_count \in 0 .. MaxSyncs
    /\ snap_slot \in FirstUser .. MirrorSlots
    /\ pending \in 0 .. QueueDepth
    /\ g_tick_count \in 0 .. TickMod - 1

\* mirror_verify succeeds on every captured snapshot for as long as it is
\* kept, so that '[R]' can restore; and on the live one from the second
\* mirror_sync on.
CapturesVerify ==
    \A s \in Slots : snapshots[s].valid => \/ Verify(s)
                                           \/ s = LiveSlot /\ sync_count = 1

\* menu.c, "[R] Restore from boot snapshot": the boot snapshot is the one
\* menu_run took, however many snapshots the user captures after it.
BootSnapshotKept ==
    [][g_kernel_state = "RUN" => snapshots'[BootSlot] = snapshots[BootSlot]]_allVars

\* menu.c, "Capture into the next available user slot": the user's slots hold
\* the most recent captures, as many as there are slots; a new one replaces
\* the oldest and no other.
RecentCapturesKept ==
    {snapshots[s] : s \in {u \in UserSlots : snapshots[u].valid}} =
        {taken[k] : k \in DOMAIN taken}

\* What '[4]' and '[R]' rely on: the slots hold the latest captures, and they
\* verify.
SnapshotInv == MirrorTypeOK /\ CapturesVerify /\ RecentCapturesKept

\* The age of the live snapshot, g_tick_count - timestamp in uint32_t
\* arithmetic, is a sane duration whenever a task can compute it: at least
\* the heartbeats since the sync and at most those and the interrupts, across
\* the wrap of the counter and although a heartbeat may put g_tick_count back
\* over interrupts that have come.  Tasks never see the clock behind a stamp.
AgeIsElapsed ==
    LET hb   == beats - synced.beats
        irq  == irqs - synced.irqs
    IN (pc = "idle" /\ snapshots[LiveSlot].valid /\ hb + irq < TickMod) =>
           (g_tick_count - snapshots[LiveSlot].timestamp) % TickMod \in hb .. hb + irq
=============================================================================
