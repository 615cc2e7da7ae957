----------------------------- MODULE RaceProofs -----------------------------
(***************************************************************************)
(* Theorems about the two pieces of state that an interrupt handler and    *)
(* the main thread both load, change and store with interrupts enabled:    *)
(* the keyboard driver's ring and modifier flags (Keyboard), and the tick  *)
(* counter (KernelClock) with the mirroring engine that stamps its         *)
(* snapshots with it (Mirror).  They hold for every size of the buffer,    *)
(* every width of the counter, every number of slots and every number of   *)
(* bytes, interrupts, heartbeats and captures.                             *)
(***************************************************************************)
EXTENDS Keyboard, Mirror, KernelLemmas, SequenceTheorems, FiniteSetTheorems

-----------------------------------------------------------------------------
\* Where the main thread may stand: what is left of keyboard_poll, of
\* keyboard_push in serial_poll, and of keyboard_getchar.

Done == <<>>
P1 == PollOps
P2 == <<"ldcaps", "ldshift", "data", "status">>
P3 == <<"ldshift", "data", "status">>
P4 == <<"data", "status">>
P5 == <<"status">>
K1 == <<"pushcount", "ldhead", "stchar", "sthead", "stcount_up", "status">>
K2 == <<"ldhead", "stchar", "sthead", "stcount_up", "status">>
K3 == <<"stchar", "sthead", "stcount_up", "status">>
K4 == <<"sthead", "stcount_up", "status">>
K5 == <<"stcount_up", "status">>
M1 == <<"stcaps", "stshift">>
M2 == <<"stshift">>
S1 == SerialPush
S2 == <<"ldhead", "stcount_up", "stchar", "sthead">>
S3 == <<"stcount_up", "stchar", "sthead">>
S4 == <<"stchar", "sthead">>
S5 == <<"sthead">>
G1 == GetcharOps
G2 == <<"ldtail", "stcount_down", "ldchar", "sttail">>
G3 == <<"stcount_down", "ldchar", "sttail">>
G4 == <<"ldchar", "sttail">>
G5 == <<"sttail">>

\* Inside the ring: after the load of kb_count, before the last store.
Pushing == {K2, K3, K4, K5, S2, S3, S4, S5}
Taking  == {G2, G3, G4, G5}

Resting == {Done, P1, P2, P3, P4, P5, K1, M1, M2, S1, G1}

Places == Resting \cup Pushing \cup Taking

\* The count in a register fits the store that waits for it, raced or not.
CountFits == /\ todo \in {K2, K3, K4, K5, S2, S3} => r.count < BufferSize
             /\ todo \in {G2, G3} => r.count > 0

\* The characters accepted and not yet returned lie in the ring from kb_tail
\* on, at every point of the main thread.
Contents == /\ Len(fifo) <= BufferSize
            /\ \A k \in 1 .. Len(fifo) : fifo[k] = kb_buf[(kb_tail + k - 1) % BufferSize]

\* kb_count and kb_head lag behind or run ahead while the main thread is
\* between its stores; its registers hold what it loaded.
CountAt == Len(fifo) = IF todo \in {K4, K5, G4, G5} THEN kb_count + 1
                       ELSE IF todo = S4 THEN kb_count - 1
                       ELSE kb_count

HeadAt == kb_head = (kb_tail + (IF todo \in {K4, S5} THEN Len(fifo) - 1 ELSE Len(fifo))) % BufferSize

RegistersAt == /\ todo \in {K2, K3, K4, K5, S2, S3, G2, G3} => r.count = kb_count
               /\ todo \in {S4, S5} => kb_count = r.count + 1
               /\ todo \in {K3, K4, S3, S4, S5} => r.index = kb_head
               /\ todo \in {G3, G4, G5} => r.index = kb_tail
               /\ todo = G5 => r.char = kb_buf[kb_tail]

RingAt == "ring" \notin raced => /\ Contents /\ CountAt /\ HeadAt /\ RegistersAt
                                 /\ got.char = got.next

BufferIInv == TypeOK /\ todo \in Places /\ CountFits /\ RingAt

\* The flags: each is right in memory unless keyboard_poll has it in a
\* register, and then it is right there; a copy that will not be stored is
\* unchanged, and the byte about to be read is still in the controller.
CapsHeld  == {P3, P4, P5, K1, K2, K3, K4, K5, M1}
ShiftHeld == {P4, P5, K1, K2, K3, K4, K5, M1, M2}

ByteWaits == todo \in {P2, P3, P4} => obf

CapsAt == /\ todo \notin CapsHeld => caps_active = capsOn
          /\ todo \in CapsHeld => r.caps = capsOn /\ (r.capsSet \/ caps_active = capsOn)

\* What one flag can say of two keys.
ShiftShown == shiftKeys # {} /\ ~halfUp

ShiftAt == /\ todo \notin ShiftHeld => shift_held = ShiftShown
           /\ todo \in ShiftHeld => r.shift = ShiftShown /\ (r.shiftSet \/ shift_held = ShiftShown)

FlagsAt == raced \subseteq {"ring"} => ByteWaits /\ CapsAt /\ ShiftAt

KeyboardIInv == BufferIInv /\ FlagsAt

-----------------------------------------------------------------------------
\* The next operation and the length of what is left, as the provers see them.
NextOp(p) == Head(p)
Size(p)   == Len(p)
LastOp(p) == p[Len(p)]

\* The next operation and the length tell the places apart.
LEMMA Labels ==
    /\ NextOp(P1) = "status0" /\ Size(P1) = 5
    /\ NextOp(P2) = "ldcaps" /\ Size(P2) = 4
    /\ NextOp(P3) = "ldshift" /\ Size(P3) = 3
    /\ NextOp(P4) = "data" /\ Size(P4) = 2
    /\ NextOp(P5) = "status" /\ Size(P5) = 1
    /\ NextOp(K1) = "pushcount" /\ Size(K1) = 6
    /\ NextOp(K2) = "ldhead" /\ Size(K2) = 5
    /\ NextOp(K3) = "stchar" /\ Size(K3) = 4
    /\ NextOp(K4) = "sthead" /\ Size(K4) = 3
    /\ NextOp(K5) = "stcount_up" /\ Size(K5) = 2
    /\ NextOp(M1) = "stcaps" /\ Size(M1) = 2
    /\ NextOp(M2) = "stshift" /\ Size(M2) = 1
    /\ NextOp(S1) = "pushcount" /\ Size(S1) = 5
    /\ NextOp(S2) = "ldhead" /\ Size(S2) = 4
    /\ NextOp(S3) = "stcount_up" /\ Size(S3) = 3
    /\ NextOp(S4) = "stchar" /\ Size(S4) = 2
    /\ NextOp(S5) = "sthead" /\ Size(S5) = 1
    /\ NextOp(G1) = "getcount" /\ Size(G1) = 5
    /\ NextOp(G2) = "ldtail" /\ Size(G2) = 4
    /\ NextOp(G3) = "stcount_down" /\ Size(G3) = 3
    /\ NextOp(G4) = "ldchar" /\ Size(G4) = 2
    /\ NextOp(G5) = "sttail" /\ Size(G5) = 1
    /\ Size(Done) = 0
<1>1. /\ NextOp(P1) = "status0" /\ Size(P1) = 5
      /\ NextOp(P2) = "ldcaps" /\ Size(P2) = 4
      /\ NextOp(P3) = "ldshift" /\ Size(P3) = 3
      /\ NextOp(P4) = "data" /\ Size(P4) = 2
      /\ NextOp(P5) = "status" /\ Size(P5) = 1
  BY DEF NextOp, Size, P1, P2, P3, P4, P5, PollOps
<1>2. /\ NextOp(K1) = "pushcount" /\ Size(K1) = 6
      /\ NextOp(K2) = "ldhead" /\ Size(K2) = 5
      /\ NextOp(K3) = "stchar" /\ Size(K3) = 4
      /\ NextOp(K4) = "sthead" /\ Size(K4) = 3
      /\ NextOp(K5) = "stcount_up" /\ Size(K5) = 2
  BY DEF NextOp, Size, K1, K2, K3, K4, K5, P5
<1>3. /\ NextOp(M1) = "stcaps" /\ Size(M1) = 2
      /\ NextOp(M2) = "stshift" /\ Size(M2) = 1
  BY DEF NextOp, Size, M1, M2
<1>4. /\ NextOp(S1) = "pushcount" /\ Size(S1) = 5
      /\ NextOp(S2) = "ldhead" /\ Size(S2) = 4
      /\ NextOp(S3) = "stcount_up" /\ Size(S3) = 3
      /\ NextOp(S4) = "stchar" /\ Size(S4) = 2
      /\ NextOp(S5) = "sthead" /\ Size(S5) = 1
  BY DEF NextOp, Size, S1, S2, S3, S4, S5, SerialPush
<1>5. /\ NextOp(G1) = "getcount" /\ Size(G1) = 5
      /\ NextOp(G2) = "ldtail" /\ Size(G2) = 4
      /\ NextOp(G3) = "stcount_down" /\ Size(G3) = 3
      /\ NextOp(G4) = "ldchar" /\ Size(G4) = 2
      /\ NextOp(G5) = "sttail" /\ Size(G5) = 1
  BY DEF NextOp, Size, G1, G2, G3, G4, G5, GetcharOps
<1>6. Size(Done) = 0
  BY DEF Size, Done
<1> QED
  BY <1>1, <1>2, <1>3, <1>4, <1>5, <1>6

\* Where an operation leads.
LEMMA Rests ==
    /\ Tail(P1) = P2 /\ Tail(P2) = P3 /\ Tail(P3) = P4 /\ Tail(P4) = P5 /\ Tail(P5) = Done
    /\ Tail(K1) = K2 /\ Tail(K2) = K3 /\ Tail(K3) = K4 /\ Tail(K4) = K5 /\ Tail(K5) = P5
    /\ Tail(M1) = M2 /\ Tail(M2) = Done
    /\ Tail(S1) = S2 /\ Tail(S2) = S3 /\ Tail(S3) = S4 /\ Tail(S4) = S5 /\ Tail(S5) = Done
    /\ Tail(G1) = G2 /\ Tail(G2) = G3 /\ Tail(G3) = G4 /\ Tail(G4) = G5 /\ Tail(G5) = Done
<1>1. Tail(P1) = P2 /\ Tail(P2) = P3 /\ Tail(P3) = P4 /\ Tail(P4) = P5 /\ Tail(P5) = Done
  BY DEF Done, P1, P2, P3, P4, P5, PollOps
<1>2. Tail(K1) = K2 /\ Tail(K2) = K3 /\ Tail(K3) = K4 /\ Tail(K4) = K5 /\ Tail(K5) = P5
  BY DEF K1, K2, K3, K4, K5, P5
<1>3. Tail(M1) = M2 /\ Tail(M2) = Done
  BY DEF Done, M1, M2
<1>4. Tail(S1) = S2 /\ Tail(S2) = S3 /\ Tail(S3) = S4 /\ Tail(S4) = S5 /\ Tail(S5) = Done
  BY DEF Done, S1, S2, S3, S4, S5, SerialPush
<1>5. Tail(G1) = G2 /\ Tail(G2) = G3 /\ Tail(G3) = G4 /\ Tail(G4) = G5 /\ Tail(G5) = Done
  BY DEF Done, G1, G2, G3, G4, G5, GetcharOps
<1> QED
  BY <1>1, <1>2, <1>3, <1>4, <1>5

\* Every place is a list of operations.
LEMMA PlacesAreOps == Places \subseteq Seq(Op)
<1>1. {Done, P1, P2, P3, P4, P5} \subseteq Seq(Op)
  BY DEF Op, Done, P1, P2, P3, P4, P5, PollOps
<1>2. {K1, K2, K3, K4, K5, M1, M2} \subseteq Seq(Op)
  BY DEF Op, K1, K2, K3, K4, K5, M1, M2
<1>3. {S1, S2, S3, S4, S5} \subseteq Seq(Op)
  BY DEF Op, S1, S2, S3, S4, S5, SerialPush
<1>4. {G1, G2, G3, G4, G5} \subseteq Seq(Op)
  BY DEF Op, G1, G2, G3, G4, G5, GetcharOps
<1> QED
  BY <1>1, <1>2, <1>3, <1>4 DEF Places, Resting, Pushing, Taking

\* keyboard_poll's places, from its loads on, end in its last operations.
LEMMA Ends ==
    /\ LastOp(P3) = "status" /\ LastOp(P4) = "status" /\ LastOp(P5) = "status"
    /\ LastOp(K1) = "status" /\ LastOp(K2) = "status" /\ LastOp(K3) = "status"
    /\ LastOp(K4) = "status" /\ LastOp(K5) = "status"
    /\ LastOp(M1) = "stshift" /\ LastOp(M2) = "stshift"
  BY DEF LastOp, P3, P4, P5, K1, K2, K3, K4, K5, M1, M2

\* A place at rest is not inside the ring.
LEMMA Apart ==
    /\ \A p \in Resting : p \notin Pushing /\ p \notin Taking
    /\ \A p \in Pushing : p \notin Taking
<1>1. \A p \in Pushing : p \notin Taking
  BY Labels DEF Pushing, Taking
<1>2. \A p \in Resting : p \notin Taking
  BY Labels DEF Resting, Taking
<1>3. \A p \in Resting : p \notin Pushing
  BY Labels DEF Resting, Pushing
<1> QED
  BY <1>1, <1>2, <1>3

\* The operation to be executed tells where the main thread stands.
LEMMA Where ==
    ASSUME todo \in Places
    PROVE  /\ Exec("status0") => todo = P1
           /\ Exec("ldcaps") => todo = P2
           /\ Exec("ldshift") => todo = P3
           /\ Exec("data") => todo = P4
           /\ Exec("status") => todo = P5
           /\ Exec("stcaps") => todo = M1
           /\ Exec("stshift") => todo = M2
           /\ Exec("pushcount") => todo \in {K1, S1}
           /\ Exec("ldhead") => todo \in {K2, S2}
           /\ Exec("stchar") => todo \in {K3, S4}
           /\ Exec("sthead") => todo \in {K4, S5}
           /\ Exec("stcount_up") => todo \in {K5, S3}
           /\ Exec("getcount") => todo = G1
           /\ Exec("ldtail") => todo = G2
           /\ Exec("stcount_down") => todo = G3
           /\ Exec("ldchar") => todo = G4
           /\ Exec("sttail") => todo = G5
<1>1. \A op : Exec(op) => todo # Done /\ NextOp(todo) = op
  BY DEF Exec, Idle, NextOp, Done
<1>2. CASE todo \in Resting
  BY <1>1, <1>2, Labels DEF Resting
<1>3. CASE todo \in Pushing
  BY <1>1, <1>3, Labels DEF Pushing
<1>4. CASE todo \in Taking
  BY <1>1, <1>4, Labels DEF Taking
<1> QED
  BY <1>2, <1>3, <1>4 DEF Places

\* Inside the ring is where an IRQ1's push would be a race.
LEMMA InRing ==
    ASSUME todo \in Places, ~InRingOp
    PROVE  todo \in Resting
<1>1. todo \in Pushing \cup Taking => todo # Done
  BY Labels DEF Pushing, Taking
<1>2. todo \in Pushing => NextOp(todo) \in {"ldhead", "stchar", "sthead", "stcount_up"}
  BY Labels DEF Pushing
<1>3. todo \in Taking => NextOp(todo) \in {"ldtail", "stcount_down", "ldchar", "sttail"}
  BY Labels DEF Taking
<1> QED
  BY <1>1, <1>2, <1>3 DEF InRingOp, Idle, Done, NextOp, Places

-----------------------------------------------------------------------------
\* The ring.

\* The places of a ring of d from t on: the next free one is none of the n
\* in use, and its successor follows them.
LEMMA FreePlace ==
    ASSUME NEW d \in Nat \ {0}, NEW t \in 0 .. d - 1, NEW n \in 0 .. d - 1
    PROVE  /\ (t + n) % d \in 0 .. d - 1
           /\ \A k \in 1 .. n : (t + k - 1) % d \in (0 .. d - 1) \ {(t + n) % d}
           /\ (((t + n) % d) + 1) % d = (t + n + 1) % d
<1>0. n \in 0 .. d /\ t + n \in Int
  OBVIOUS
<1>1. (t + n) % d = IF t + n < d THEN t + n ELSE t + n - d
  BY <1>0, ModSum
<1>2. ASSUME NEW k \in 1 .. n PROVE (t + k - 1) % d \in (0 .. d - 1) \ {(t + n) % d}
  <2>1. k - 1 \in 0 .. d /\ t + k - 1 = t + (k - 1)
    OBVIOUS
  <2>2. (t + (k - 1)) % d = IF t + (k - 1) < d THEN t + (k - 1) ELSE t + (k - 1) - d
    BY <2>1, ModSum
  <2> QED
    BY <1>1, <2>1, <2>2
<1>3. (((t + n) % d) + 1) % d = (t + n + 1) % d
  BY <1>0, ModSucc
<1> QED
  BY <1>1, <1>2, <1>3

\* From the second place on, the ring starts one later.
LEMMA NextPlace ==
    ASSUME NEW d \in Nat \ {0}, NEW t \in 0 .. d - 1, NEW k \in Nat, k < d
    PROVE  (((t + 1) % d) + k) % d = (t + (k + 1)) % d
<1>0. 1 \in 0 .. d
  OBVIOUS
<1>1. (t + 1) % d = IF t + 1 < d THEN t + 1 ELSE t + 1 - d
  BY <1>0, ModSum
<1>2. (t + 1) % d \in 0 .. d - 1 /\ k \in 0 .. d /\ k + 1 \in 0 .. d
  BY <1>1
<1>3. (t + (k + 1)) % d = IF t + (k + 1) < d THEN t + (k + 1) ELSE t + (k + 1) - d
  BY <1>2, ModSum
<1>4. CASE t + 1 < d
  <2>1. (t + 1) + k = t + (k + 1)
    OBVIOUS
  <2> QED
    BY <1>1, <1>4, <2>1
<1>5. CASE t + 1 >= d
  <2>1. (t + 1) % d = 0 /\ t + (k + 1) - d = k
    BY <1>1, <1>5
  <2> QED
    BY <1>2, <1>3, <1>5, <2>1, ModSmall
<1> QED
  BY <1>4, <1>5

\* Storing a character after the last one, at the place the next push uses.
LEMMA Stored ==
    ASSUME TypeOK, Contents, NEW c \in Char, Len(fifo) < BufferSize,
           kb_head = (kb_tail + Len(fifo)) % BufferSize,
           kb_buf' = [kb_buf EXCEPT ![kb_head] = c], fifo' = Append(fifo, c), kb_tail' = kb_tail
    PROVE  /\ Contents' /\ Len(fifo') = Len(fifo) + 1
           /\ Successor(kb_head) = (kb_tail + (Len(fifo) + 1)) % BufferSize
<1> DEFINE n == Len(fifo)
           at(k) == (kb_tail + k - 1) % BufferSize
<1>1. /\ fifo \in Seq(Char) /\ n \in Nat /\ n < BufferSize /\ kb_tail \in 0 .. BufferSize - 1
      /\ kb_buf \in [Index -> Char] /\ BufferSize \in Nat \ {0}
  BY BufferNotEmpty DEF TypeOK, Index
<1>2. Len(fifo') = n + 1 /\ (\A k \in 1 .. n : fifo'[k] = fifo[k]) /\ fifo'[n + 1] = c
  BY <1>1
<1>3. /\ \A k \in 1 .. n : at(k) \in Index \ {kb_head}
      /\ Successor(kb_head) = (kb_tail + n + 1) % BufferSize /\ kb_head \in Index
  <2> HIDE DEF n
  <2>1. n \in 0 .. BufferSize - 1 /\ kb_head = (kb_tail + n) % BufferSize
    BY <1>1 DEF n
  <2>2. /\ (kb_tail + n) % BufferSize \in 0 .. BufferSize - 1
        /\ \A k \in 1 .. n : at(k) \in (0 .. BufferSize - 1) \ {(kb_tail + n) % BufferSize}
        /\ (((kb_tail + n) % BufferSize) + 1) % BufferSize = (kb_tail + n + 1) % BufferSize
    BY <1>1, <2>1, FreePlace, Zenon
  <2> QED
    BY <2>1, <2>2, Zenon DEF Successor, Index
<1>4. \A k \in 1 .. n : fifo[k] = kb_buf[at(k)]
  BY DEF Contents
<1>5. kb_tail + (n + 1) - 1 = kb_tail + n /\ kb_tail + n + 1 = kb_tail + (n + 1)
  BY <1>1
<1>6. at(n + 1) = kb_head
  BY <1>5
<1> HIDE DEF n, at
<1>7. \A k \in 1 .. n : kb_buf'[at(k)] = kb_buf[at(k)]
  BY <1>1, <1>3
<1>8. kb_buf'[at(n + 1)] = c
  BY <1>1, <1>3, <1>6
<1>9. \A k \in 1 .. n + 1 : fifo'[k] = kb_buf'[at(k)]
  BY <1>1, <1>2, <1>4, <1>7, <1>8
<1>10. n + 1 <= BufferSize
  BY <1>1
<1>11. Contents'
  BY <1>2, <1>9, <1>10 DEF Contents, at
<1> QED
  BY <1>2, <1>3, <1>5, <1>11 DEF n

\* Advancing kb_tail over the oldest character.
LEMMA Taken ==
    ASSUME TypeOK, Contents, fifo # <<>>,
           kb_tail' = Successor(kb_tail), fifo' = Tail(fifo), kb_buf' = kb_buf
    PROVE  /\ Contents' /\ Len(fifo') = Len(fifo) - 1
           /\ Head(fifo) = kb_buf[kb_tail]
           /\ (kb_tail' + Len(fifo')) % BufferSize = (kb_tail + Len(fifo)) % BufferSize
<1> DEFINE n == Len(fifo)
           at(k) == (kb_tail + k) % BufferSize
           after(k) == (kb_tail' + k) % BufferSize
<1>1. /\ fifo \in Seq(Char) /\ n \in Nat \ {0} /\ n <= BufferSize /\ kb_tail \in 0 .. BufferSize - 1
      /\ BufferSize \in Nat \ {0}
  BY BufferNotEmpty DEF TypeOK, Index, Contents
<1>2. Len(fifo') = n - 1 /\ \A k \in 1 .. n - 1 : fifo'[k] = fifo[k + 1]
  BY <1>1
<1>3. Head(fifo) = fifo[1]
  BY <1>1
<1> HIDE DEF n
<1>4. \A k \in 0 .. n - 1 : k \in Nat /\ k < BufferSize
  BY <1>1
<1>5. \A k \in 0 .. n - 1 : after(k) = at(k + 1)
  BY <1>1, <1>4, NextPlace DEF Successor
<1>6. \A k \in 1 .. n : fifo[k] = kb_buf[(kb_tail + k - 1) % BufferSize]
  BY DEF Contents, n
<1>7. \A k \in 0 .. n - 1 : fifo[k + 1] = kb_buf[at(k)]
  <2> TAKE k \in 0 .. n - 1
  <2>1. k + 1 \in 1 .. n /\ kb_tail + (k + 1) - 1 = kb_tail + k
    BY <1>1
  <2> QED
    BY <1>6, <2>1
<1>8. kb_tail' \in Nat
  BY <1>1, ModRange DEF Successor
<1>9. \A k \in 1 .. n - 1 : fifo'[k] = kb_buf'[(kb_tail' + k - 1) % BufferSize]
  <2> TAKE k \in 1 .. n - 1
  <2>1. /\ k - 1 \in 0 .. n - 1 /\ (k - 1) + 1 = k /\ k \in 0 .. n - 1
        /\ kb_tail' + k - 1 = kb_tail' + (k - 1)
    BY <1>1, <1>8
  <2>2. fifo'[k] = kb_buf[at(k)]
    BY <1>2, <1>7, <2>1
  <2>3. after(k - 1) = at(k)
    BY <1>5, <2>1
  <2> QED
    BY <2>1, <2>2, <2>3
<1>10. Contents'
  BY <1>1, <1>2, <1>9 DEF Contents
<1>11. Head(fifo) = kb_buf[kb_tail]
  <2>1. 0 \in 0 .. n - 1 /\ kb_tail + 0 = kb_tail /\ kb_tail % BufferSize = kb_tail
    BY <1>1, ModSmall
  <2> QED
    BY <1>3, <1>7, <2>1
<1>12. after(n - 1) = at(n)
  <2>1. n - 1 \in 0 .. n - 1 /\ (n - 1) + 1 = n
    BY <1>1
  <2> QED
    BY <1>5, <2>1
<1> QED
  BY <1>2, <1>10, <1>11, <1>12 DEF n

-----------------------------------------------------------------------------
\* BufferIInv, step by step.

\* Between two places at rest the ring is the same.
LEMMA RestKeepsRing ==
    ASSUME BufferIInv, UNCHANGED <<ringVars, fifo, raced>>,
           "ring" \notin raced => got'.char = got'.next,
           todo \in Resting, todo' \in Resting
    PROVE  RingAt' /\ CountFits'
<1>1. /\ todo \notin Pushing /\ todo \notin Taking
      /\ todo' \notin Pushing /\ todo' \notin Taking
  BY Apart
<1>2. CountFits'
  BY <1>1 DEF CountFits, Pushing, Taking
<1>3. "ring" \notin raced => CountAt' /\ HeadAt'
  BY <1>1 DEF BufferIInv, RingAt, CountAt, HeadAt, ringVars, Pushing, Taking
<1>4. RegistersAt'
  BY <1>1 DEF RegistersAt, Pushing, Taking
<1>5. "ring" \notin raced => Contents'
  BY DEF BufferIInv, RingAt, Contents, ringVars
<1> QED
  BY <1>2, <1>3, <1>4, <1>5 DEF BufferIInv, RingAt

\* A call of the main thread starts at rest.
LEMMA CallBuffer == BufferIInv /\ MainCall => BufferIInv'
<1> SUFFICES ASSUME BufferIInv, MainCall PROVE BufferIInv'
  OBVIOUS
<1>1. todo \in Resting /\ todo' \in Resting
  BY DEF MainCall, PollCall, GetcharCall, SerialCall, Call, Idle, Resting, Done, P1, S1, G1
<1>2. UNCHANGED <<ringVars, fifo, raced, got>>
  BY DEF MainCall, PollCall, GetcharCall, SerialCall
<1>3. todo' \in Places /\ todo' \in Seq(Op)
  BY <1>1, PlacesAreOps DEF Places
<1>4. r' \in Registers /\ sent' \in 0 .. MaxBytes
  <2>1. CASE PollCall \/ GetcharCall
    BY <2>1 DEF PollCall, GetcharCall, BufferIInv, TypeOK
  <2>2. CASE SerialCall
    <3>1. r \in Registers /\ r' = [r EXCEPT !.char = "plain"] /\ "plain" \in Char
      BY <2>2 DEF SerialCall, BufferIInv, TypeOK, Char
    <3>2. r' \in Registers
      BY <3>1 DEF Registers
    <3>3. sent' \in 0 .. MaxBytes
      BY <2>2, BytesBound DEF SerialCall, BufferIInv, TypeOK
    <3> QED
      BY <3>2, <3>3
  <2> QED
    BY <2>1, <2>2 DEF MainCall
<1>5. TypeOK'
  BY <1>2, <1>3, <1>4 DEF MainCall, PollCall, GetcharCall, SerialCall, BufferIInv, TypeOK,
     ringVars, modVars, portVars, keyVars
<1> QED
  BY <1>1, <1>2, <1>3, <1>5, RestKeepsRing DEF BufferIInv, RingAt

\* A byte consumed: the keys known to be down, and what the flag must say.
LEMMA ConsumedTypes ==
    ASSUME TypeOK, NEW sc, Consumed(sc)
    PROVE  shiftKeys' \subseteq ShiftKey /\ halfUp' \in BOOLEAN /\ capsOn' \in BOOLEAN
  BY DEF TypeOK, Consumed, KeysAfter

LEMMA ConsumedShift ==
    ASSUME TypeOK, NEW sc \in Scancode, Consumed(sc)
    PROVE  ShiftShown' = ShiftAfter(sc, ShiftShown)
<1>1. shiftKeys \subseteq ShiftKey /\ shiftKeys' = KeysAfter(sc, shiftKeys) /\ halfUp \in BOOLEAN
  BY DEF TypeOK, Consumed
<1>2. CASE sc \in Pressing
  <2>1. sc \notin Releasing
    BY <1>2 DEF Pressing, Releasing, PressOf, ReleaseOf, ShiftKey
  <2>2. shiftKeys' # {} /\ ~halfUp'
    BY <1>1, <1>2, <2>1 DEF Pressing, KeysAfter, Consumed
  <2> QED
    BY <1>2, <2>2 DEF ShiftShown, ShiftAfter
<1>3. CASE sc \in Releasing
  <2>1. sc \notin Pressing
    BY <1>3 DEF Pressing, Releasing, PressOf, ReleaseOf, ShiftKey
  <2> QED
    BY <1>3, <2>1 DEF ShiftShown, ShiftAfter, Consumed
<1>4. CASE sc \notin Pressing \cup Releasing
  <2>1. shiftKeys' = shiftKeys /\ halfUp' = halfUp
    BY <1>1, <1>4 DEF KeysAfter, Consumed, Pressing, Releasing
  <2> QED
    BY <1>4, <2>1 DEF ShiftShown, ShiftAfter
<1> QED
  BY <1>2, <1>3, <1>4

\* keyboard_poll with and without a push before it looks at the status again.
LEMMA PushInPoll == PollPush \o P5 = K1 /\ <<>> \o P5 = P5
<1>1. PollPush \in Seq(Op) /\ P5 \in Seq(Op) /\ K1 \in Seq(Op)
  BY DEF PollPush, P5, K1, Op
<1>2. Len(PollPush) = 5 /\ Len(P5) = 1 /\ Len(K1) = 6
  BY DEF PollPush, P5, K1
<1>3. /\ PollPush \o P5 \in Seq(Op) /\ Len(PollPush \o P5) = 6
      /\ \A k \in 1 .. 6 : (PollPush \o P5)[k] = IF k <= 5 THEN PollPush[k] ELSE P5[k - 5]
  <2>1. /\ PollPush \o P5 \in Seq(Op) /\ Len(PollPush \o P5) = Len(PollPush) + Len(P5)
        /\ \A k \in 1 .. Len(PollPush) + Len(P5) :
              (PollPush \o P5)[k] = IF k <= Len(PollPush) THEN PollPush[k] ELSE P5[k - Len(PollPush)]
    BY <1>1, ConcatProperties, Zenon
  <2> QED
    BY <1>2, <2>1
<1>4. /\ K1[1] = PollPush[1] /\ K1[2] = PollPush[2] /\ K1[3] = PollPush[3]
      /\ K1[4] = PollPush[4] /\ K1[5] = PollPush[5] /\ K1[6] = P5[1]
  BY DEF PollPush, P5, K1
<1>5. \A k \in 1 .. 6 : K1[k] = IF k <= 5 THEN PollPush[k] ELSE P5[k - 5]
  <2> TAKE k \in 1 .. 6
  <2>1. k = 1 \/ k = 2 \/ k = 3 \/ k = 4 \/ k = 5 \/ k = 6
    OBVIOUS
  <2> QED
    BY <1>4, <2>1
<1>6. \A k \in 1 .. Len(K1) : (PollPush \o P5)[k] = K1[k]
  BY <1>2, <1>3, <1>5
<1>7. PollPush \o P5 = K1
  BY <1>1, <1>2, <1>3, <1>6, SeqEqual
<1> QED
  BY <1>1, <1>7, ConcatEmptySeq

\* Both pushes return at once on a full buffer.
LEMMA SkippedPush == SubSeq(K1, 6, Len(K1)) = P5 /\ SubSeq(S1, 6, Len(S1)) = Done
<1>1. Len(K1) = 6 /\ K1[6] = "status" /\ Len(S1) = 5
  BY DEF K1, S1, SerialPush
<1>2. SubSeq(S1, 6, 5) = Done
  BY SubSeqEmpty DEF Done
<1>3. SubSeq(K1, 6, 6) = P5
  <2>1. \A i \in 6 .. 6 : K1[i] \in Op
    BY <1>1 DEF Op
  <2>2. /\ SubSeq(K1, 6, 6) \in Seq(Op) /\ Len(SubSeq(K1, 6, 6)) = 1
        /\ SubSeq(K1, 6, 6)[1] = "status"
    BY <1>1, <2>1, SubSeqProperties
  <2>3. P5 \in Seq(Op) /\ Len(P5) = 1 /\ P5[1] = "status"
    BY DEF P5, Op
  <2> QED
    BY <2>2, <2>3, SeqEqual
<1> QED
  BY <1>1, <1>2, <1>3

\* keyboard_poll's steps outside the ring.
PollStep == ReadStatus \/ LoadModifiers \/ ReadData \/ StoreModifiers

\* Where they lead.
LEMMA PollMoves ==
    ASSUME todo \in Places, PollStep
    PROVE  \/ ReadStatus /\ todo = P1 /\ todo' = (IF obf THEN P2 ELSE Done)
           \/ ReadStatus /\ todo = P5 /\ todo' = (IF obf THEN P4 ELSE M1)
           \/ LoadModifiers /\ todo = P2 /\ todo' = P3
           \/ LoadModifiers /\ todo = P3 /\ todo' = P4
           \/ ReadData /\ todo = P4 /\ todo' = (IF obuf = "KEY" THEN K1 ELSE P5)
           \/ StoreModifiers /\ todo = M1 /\ todo' = M2
           \/ StoreModifiers /\ todo = M2 /\ todo' = Done
<1>1. CASE ReadStatus
  <2>1. CASE Exec("status0")
    <3>1. ~Exec("status")
      BY <2>1 DEF Exec
    <3>2. todo = P1 /\ Tail(todo) = P2
      BY <2>1, Where, Rests
    <3> QED
      BY <1>1, <3>1, <3>2 DEF ReadStatus, Done
  <2>2. CASE Exec("status")
    <3>1. ~Exec("status0")
      BY <2>2 DEF Exec
    <3>2. todo' = IF obf THEN P4 ELSE M1
      BY <1>1, <3>1 DEF ReadStatus, P4, M1
    <3> QED
      BY <1>1, <2>2, <3>2, Where
  <2> QED
    BY <1>1, <2>1, <2>2 DEF ReadStatus
<1>2. CASE LoadModifiers
  BY <1>2, Where, Rests DEF LoadModifiers, Step
<1>3. CASE ReadData
  <2>1. todo = P4 /\ Tail(todo) = P5
    BY <1>3, Where, Rests DEF ReadData
  <2>3. todo' = (IF obuf = "KEY" THEN PollPush ELSE <<>>) \o P5
    BY <1>3, <2>1 DEF ReadData
  <2>4. todo' = IF obuf = "KEY" THEN K1 ELSE P5
    BY <2>3, PushInPoll
  <2> QED
    BY <1>3, <2>1, <2>4
<1>4. CASE StoreModifiers
  BY <1>4, Where, Rests DEF StoreModifiers, Step
<1> QED
  BY <1>1, <1>2, <1>3, <1>4 DEF PollStep

\* None of them touches the ring.
LEMMA PollBuffer == BufferIInv /\ PollStep => BufferIInv'
<1> SUFFICES ASSUME BufferIInv, PollStep PROVE BufferIInv'
  OBVIOUS
<1>1. todo \in Resting /\ todo' \in Resting
  BY PollMoves DEF BufferIInv, Resting
<1>2. UNCHANGED <<ringVars, fifo, raced, got, obuf, irq1, sent>>
  BY DEF PollStep, ReadStatus, LoadModifiers, ReadData, StoreModifiers, portVars
<1>3. todo' \in Places /\ todo' \in Seq(Op)
  BY <1>1, PlacesAreOps DEF Places
<1>4. r' \in Registers
  <2>1. CASE LoadModifiers
    <3>1. r \in Registers /\ caps_active \in BOOLEAN /\ shift_held \in BOOLEAN
      BY DEF BufferIInv, TypeOK
    <3>2. \/ r' = [r EXCEPT !.caps = caps_active, !.capsSet = FALSE]
          \/ r' = [r EXCEPT !.shift = shift_held, !.shiftSet = FALSE]
      BY <2>1 DEF LoadModifiers
    <3> QED
      BY <3>1, <3>2 DEF Registers
  <2>2. CASE ReadData
    <3> DEFINE sh == ShiftAfter(obuf, r.shift)
               ca == CapsAfter(obuf, r.caps)
               ss == r.shiftSet \/ obuf \in Pressing \cup Releasing
               cs == r.capsSet \/ obuf = "CAPSLOCK_PRESS"
               ch == Typed(r.shift, r.caps)
    <3>1. r \in Registers /\ sh \in BOOLEAN /\ ca \in BOOLEAN /\ ch \in Char
      BY DEF BufferIInv, TypeOK, Registers, Char, ShiftAfter, CapsAfter, Typed
    <3>2. ss \in BOOLEAN /\ cs \in BOOLEAN
      OBVIOUS
    <3>3. r' = [r EXCEPT !.shift = sh, !.shiftSet = ss, !.caps = ca, !.capsSet = cs, !.char = ch]
      BY <2>2 DEF ReadData
    <3> HIDE DEF sh, ca, ss, cs, ch
    <3> QED
      BY <3>1, <3>2, <3>3 DEF Registers
  <2>3. CASE ReadStatus \/ StoreModifiers
    BY <2>3 DEF ReadStatus, StoreModifiers, BufferIInv, TypeOK
  <2> QED
    BY <2>1, <2>2, <2>3 DEF PollStep
<1>5. shift_held' \in BOOLEAN /\ caps_active' \in BOOLEAN
  BY DEF PollStep, ReadStatus, LoadModifiers, ReadData, StoreModifiers, modVars, BufferIInv, TypeOK, Registers
<1>6. shiftKeys' \subseteq ShiftKey /\ halfUp' \in BOOLEAN /\ capsOn' \in BOOLEAN /\ obf' \in BOOLEAN
  BY ConsumedTypes
  DEF PollStep, ReadStatus, LoadModifiers, ReadData, StoreModifiers, keyVars, portVars, BufferIInv, TypeOK
<1>7. TypeOK'
  BY <1>2, <1>3, <1>4, <1>5, <1>6 DEF BufferIInv, TypeOK, ringVars
<1> QED
  BY <1>1, <1>2, <1>3, <1>7, RestKeepsRing DEF BufferIInv, RingAt

\* A step inside the ring moves todo on and keeps every other type.
LEMMA RingTypes ==
    ASSUME BufferIInv, todo' \in Places, kb_buf' \in [Index -> Char], kb_head' \in Index,
           kb_tail' \in Index, kb_count' \in 0 .. BufferSize, r' \in Registers, fifo' \in Seq(Char),
           got' \in [char : Char \cup {"none"}, next : Char \cup {"none"}],
           UNCHANGED <<modVars, portVars, sent, keyVars, raced>>
    PROVE  TypeOK'
<1>1. todo' \in Seq(Op)
  BY PlacesAreOps
<1> QED
  BY <1>1 DEF BufferIInv, TypeOK, modVars, portVars, keyVars

\* The ring's own variables unchanged, its contents are.
LEMMA SameContents ==
    ASSUME Contents, UNCHANGED <<kb_buf, kb_tail, fifo>>
    PROVE  Contents'
  BY DEF Contents

\* keyboard_push or keyboard_getchar loads kb_count and decides.
LEMMA LoadCountBuffer == BufferIInv /\ LoadCount => BufferIInv'
<1> SUFFICES ASSUME BufferIInv, LoadCount PROVE BufferIInv'
  OBVIOUS
<1>1. /\ r \in Registers /\ r' = [r EXCEPT !.count = kb_count] /\ kb_count \in 0 .. BufferSize
      /\ TypeOK /\ todo \in Places
  BY DEF LoadCount, BufferIInv, TypeOK
<1>2. r' \in Registers /\ r'.count = kb_count
  BY <1>1 DEF Registers
<1>3. UNCHANGED <<ringVars, fifo, raced>>
  BY DEF LoadCount
<1>4. \/ todo = K1 /\ todo' = (IF Full(kb_count) THEN P5 ELSE K2) /\ got' = got
      \/ todo = S1 /\ todo' = (IF Full(kb_count) THEN Done ELSE S2) /\ got' = got
      \/ /\ todo = G1 /\ todo' = (IF kb_count = 0 THEN Done ELSE G2)
         /\ got' = IF kb_count = 0 THEN [char |-> "none", next |-> NextChar] ELSE got
  <2>1. CASE Exec("pushcount")
    <3>1. ~Exec("getcount")
      BY <2>1 DEF Exec
    <3>2. todo' = (IF Full(kb_count) THEN AfterPush ELSE Tail(todo)) /\ got' = got
      BY <3>1 DEF LoadCount
    <3>3. todo = K1 \/ todo = S1
      BY <1>1, <2>1, Where
    <3> QED
      BY <3>2, <3>3, Rests, SkippedPush DEF AfterPush
  <2>2. CASE Exec("getcount")
    <3>1. ~Exec("pushcount")
      BY <2>2 DEF Exec
    <3>2. todo = G1
      BY <1>1, <2>2, Where
    <3> QED
      BY <3>1, <3>2, Rests DEF LoadCount, Done
  <2> QED
    BY <2>1, <2>2 DEF LoadCount
<1>5. todo \in Resting /\ todo' \in Places
  BY <1>4 DEF Places, Resting, Pushing, Taking
<1>6. NextChar \in Char \cup {"none"} /\ (fifo = <<>> => NextChar = "none")
  BY <1>1 DEF TypeOK, NextChar
<1>7. TypeOK'
  <2>1. got' \in [char : Char \cup {"none"}, next : Char \cup {"none"}]
    BY <1>1, <1>4, <1>6 DEF TypeOK
  <2> QED
    BY <1>1, <1>2, <1>5, <2>1, RingTypes DEF LoadCount, TypeOK, ringVars
<1>8. "ring" \notin raced => got'.char = got'.next
  <2> SUFFICES ASSUME "ring" \notin raced, kb_count = 0 PROVE NextChar = "none"
    BY <1>4 DEF BufferIInv, RingAt
  <2>1. Len(fifo) = kb_count
    BY <1>5, Apart DEF BufferIInv, RingAt, CountAt, Pushing, Taking
  <2> QED
    BY <1>1, <1>6, <2>1, EmptySeq DEF TypeOK
<1>9. CASE todo' \in Resting
  BY <1>3, <1>5, <1>7, <1>8, <1>9, RestKeepsRing DEF BufferIInv
<1>10. CASE todo' \in {K2, S2, G2}
  <2>1. CountFits'
    <3>1. CASE todo' \in {K2, S2}
      <4>1. todo' \notin {G2, G3} /\ ~Full(kb_count)
        BY <1>4, <3>1, Labels
      <4> QED
        BY <1>1, <1>2, <4>1, BufferNotEmpty DEF CountFits, Full
    <3>2. CASE todo' = G2
      <4>1. todo' \notin {K2, K3, K4, K5, S2, S3} /\ kb_count # 0
        BY <1>4, <3>2, Labels
      <4> QED
        BY <1>1, <1>2, <4>1 DEF CountFits
    <3> QED
      BY <1>10, <3>1, <3>2
  <2>2. ASSUME "ring" \notin raced PROVE Contents' /\ CountAt' /\ HeadAt' /\ RegistersAt'
    <3>1. Contents'
      BY <1>3, <2>2, SameContents DEF BufferIInv, RingAt, ringVars
    <3>2. Len(fifo) = kb_count /\ kb_head = (kb_tail + Len(fifo)) % BufferSize
      BY <1>5, <2>2, Apart DEF BufferIInv, RingAt, CountAt, HeadAt, Pushing, Taking
    <3>3. CountAt' /\ HeadAt'
      BY <1>3, <1>10, <3>2, Labels DEF CountAt, HeadAt, ringVars
    <3>4. RegistersAt'
      BY <1>2, <1>3, <1>10, Labels DEF RegistersAt, ringVars
    <3> QED
      BY <3>1, <3>3, <3>4
  <2> QED
    BY <1>3, <1>5, <1>7, <1>8, <2>1, <2>2 DEF BufferIInv, RingAt
<1> QED
  BY <1>4, <1>9, <1>10 DEF Resting

\* The index of the slot is loaded.
LEMMA LoadIndexBuffer == BufferIInv /\ LoadIndex => BufferIInv'
<1> SUFFICES ASSUME BufferIInv, LoadIndex PROVE BufferIInv'
  OBVIOUS
<1>1. TypeOK /\ todo \in Places /\ r \in Registers /\ kb_head \in Index /\ kb_tail \in Index
  BY DEF BufferIInv, TypeOK
<1>2. \/ todo = K2 /\ todo' = K3 /\ r' = [r EXCEPT !.index = kb_head]
      \/ todo = S2 /\ todo' = S3 /\ r' = [r EXCEPT !.index = kb_head]
      \/ todo = G2 /\ todo' = G3 /\ r' = [r EXCEPT !.index = kb_tail]
  BY <1>1, Where, Rests DEF LoadIndex, Step
<1>3. r' \in Registers /\ r'.count = r.count /\ r'.index = (IF todo = G2 THEN kb_tail ELSE kb_head)
  BY <1>1, <1>2, Labels DEF Registers
<1>4. UNCHANGED <<ringVars, fifo, raced, got>>
  BY DEF LoadIndex
<1>5. todo' \in Places
  BY <1>2 DEF Places, Pushing, Taking
<1>6. TypeOK'
  BY <1>1, <1>3, <1>5, RingTypes DEF LoadIndex, TypeOK, ringVars
<1>7. CountFits'
  BY <1>2, <1>3, Labels DEF BufferIInv, CountFits
<1>8. ASSUME "ring" \notin raced PROVE Contents' /\ CountAt' /\ HeadAt' /\ RegistersAt'
  <2>1. Contents'
    BY <1>4, <1>8, SameContents DEF BufferIInv, RingAt, ringVars
  <2>2. /\ Len(fifo) = kb_count /\ kb_head = (kb_tail + Len(fifo)) % BufferSize
        /\ r.count = kb_count
    BY <1>2, <1>8, Labels DEF BufferIInv, RingAt, CountAt, HeadAt, RegistersAt
  <2>3. CountAt' /\ HeadAt'
    BY <1>2, <1>4, <2>2, Labels DEF CountAt, HeadAt, ringVars
  <2>4. RegistersAt'
    BY <1>2, <1>3, <1>4, <2>2, Labels DEF RegistersAt, ringVars
  <2> QED
    BY <2>1, <2>3, <2>4
<1> QED
  BY <1>4, <1>5, <1>6, <1>7, <1>8 DEF BufferIInv, RingAt

\* kb_count is stored from the register, whatever it is by then.
LEMMA StoreCountBuffer == BufferIInv /\ StoreCount => BufferIInv'
<1> SUFFICES ASSUME BufferIInv, StoreCount PROVE BufferIInv'
  OBVIOUS
<1>1. TypeOK /\ todo \in Places /\ r \in Registers /\ r.count \in 0 .. BufferSize /\ BufferSize \in Nat
  BY BufferNotEmpty DEF BufferIInv, TypeOK, Registers
<1>2. \/ todo = K5 /\ todo' = P5 /\ kb_count' = r.count + 1 /\ r.count < BufferSize
      \/ todo = S3 /\ todo' = S4 /\ kb_count' = r.count + 1 /\ r.count < BufferSize
      \/ todo = G3 /\ todo' = G4 /\ kb_count' = r.count - 1 /\ r.count > 0
  <2>1. \/ todo \in {K5, S3} /\ todo' = Tail(todo) /\ kb_count' = r.count + 1
        \/ todo = G3 /\ todo' = Tail(todo) /\ kb_count' = r.count - 1
    BY <1>1, Where DEF StoreCount, Step
  <2> QED
    BY <2>1, Rests DEF BufferIInv, CountFits
<1>3. kb_count' \in 0 .. BufferSize
  BY <1>1, <1>2
<1>4. UNCHANGED <<kb_buf, kb_head, kb_tail, r, fifo, raced, got>>
  BY DEF StoreCount
<1>5. todo' \in Places
  BY <1>2 DEF Places, Resting, Pushing, Taking
<1>6. TypeOK'
  BY <1>1, <1>3, <1>4, <1>5, RingTypes DEF StoreCount, TypeOK
<1>7. CountFits'
  BY <1>2, <1>4, Labels DEF CountFits
<1>8. ASSUME "ring" \notin raced PROVE Contents' /\ CountAt' /\ HeadAt' /\ RegistersAt'
  <2>1. Contents'
    BY <1>4, <1>8, SameContents DEF BufferIInv, RingAt
  <2>2. r.count = kb_count /\ kb_head = (kb_tail + Len(fifo)) % BufferSize
    BY <1>2, <1>8, Labels DEF BufferIInv, RingAt, HeadAt, RegistersAt
  <2>3. Len(fifo) = IF todo = K5 THEN kb_count + 1 ELSE kb_count
    BY <1>2, <1>8, Labels DEF BufferIInv, RingAt, CountAt
  <2>4. CountAt'
    BY <1>1, <1>2, <1>4, <2>2, <2>3, Labels DEF CountAt
  <2>5. HeadAt'
    BY <1>2, <1>4, <2>2, Labels DEF HeadAt
  <2>6. RegistersAt'
    <3>1. todo \in {S3, G3} => r.index = IF todo = S3 THEN kb_head ELSE kb_tail
      BY <1>8, Labels DEF BufferIInv, RingAt, RegistersAt
    <3> QED
      BY <1>2, <1>4, <3>1, Labels DEF RegistersAt
  <2> QED
    BY <2>1, <2>4, <2>5, <2>6
<1> QED
  BY <1>4, <1>5, <1>6, <1>7, <1>8 DEF BufferIInv, RingAt

\* The character is stored in the slot.
LEMMA StoreCharBuffer == BufferIInv /\ StoreChar => BufferIInv'
<1> SUFFICES ASSUME BufferIInv, StoreChar PROVE BufferIInv'
  OBVIOUS
<1>1. /\ TypeOK /\ todo \in Places /\ r \in Registers /\ r.index \in Index /\ r.char \in Char
      /\ kb_count \in 0 .. BufferSize /\ BufferSize \in Nat /\ fifo \in Seq(Char)
  BY BufferNotEmpty DEF BufferIInv, TypeOK, Registers
<1>2. \/ todo = K3 /\ todo' = K4
      \/ todo = S4 /\ todo' = S5
  BY <1>1, Where, Rests DEF StoreChar, Step
<1>3. /\ kb_buf' = [kb_buf EXCEPT ![r.index] = r.char] /\ fifo' = Append(fifo, r.char)
      /\ UNCHANGED <<kb_head, kb_tail, kb_count, r, raced, got>>
  BY DEF StoreChar
<1>4. todo' \in Places
  BY <1>2 DEF Places, Pushing
<1>5. TypeOK'
  <2>1. kb_buf' \in [Index -> Char] /\ fifo' \in Seq(Char)
    BY <1>1, <1>3 DEF TypeOK
  <2> QED
    BY <1>1, <1>3, <1>4, <2>1, RingTypes DEF StoreChar, TypeOK
<1>6. CountFits'
  BY <1>2, <1>3, Labels DEF BufferIInv, CountFits
<1>7. ASSUME "ring" \notin raced PROVE Contents' /\ CountAt' /\ HeadAt' /\ RegistersAt'
  <2>1. Contents /\ r.index = kb_head /\ kb_head = (kb_tail + Len(fifo)) % BufferSize
    BY <1>2, <1>7, Labels DEF BufferIInv, RingAt, HeadAt, RegistersAt
  <2>2. /\ Len(fifo) = IF todo = K3 THEN kb_count ELSE kb_count - 1
        /\ todo = K3 => r.count = kb_count /\ r.count < BufferSize
        /\ todo = S4 => kb_count = r.count + 1
    BY <1>2, <1>7, Labels DEF BufferIInv, RingAt, CountAt, RegistersAt, CountFits
  <2>3. Len(fifo) < BufferSize /\ Len(fifo) \in Nat
    BY <1>1, <1>2, <2>2
  <2>4. Contents' /\ Len(fifo') = Len(fifo) + 1
    BY <1>1, <1>3, <2>1, <2>3, Stored
  <2>5. CountAt'
    BY <1>1, <1>2, <1>3, <2>2, <2>4, Labels DEF CountAt
  <2>6. HeadAt'
    <3>1. Len(fifo') - 1 = Len(fifo)
      BY <2>3, <2>4
    <3> QED
      BY <1>2, <1>3, <2>1, <3>1, Labels DEF HeadAt
  <2>7. RegistersAt'
    BY <1>2, <1>3, <2>1, <2>2, Labels DEF RegistersAt
  <2> QED
    BY <2>4, <2>5, <2>6, <2>7
<1> QED
  BY <1>3, <1>4, <1>5, <1>6, <1>7 DEF BufferIInv, RingAt

\* kb_head moves past the character.
LEMMA StoreHeadBuffer == BufferIInv /\ StoreHead => BufferIInv'
<1> SUFFICES ASSUME BufferIInv, StoreHead PROVE BufferIInv'
  OBVIOUS
<1>1. /\ TypeOK /\ todo \in Places /\ r \in Registers /\ r.index \in Index
      /\ kb_tail \in Index /\ fifo \in Seq(Char)
  BY DEF BufferIInv, TypeOK, Registers
<1>2. \/ todo = K4 /\ todo' = K5
      \/ todo = S5 /\ todo' = Done
  BY <1>1, Where, Rests DEF StoreHead, Step
<1>3. kb_head' = Successor(r.index) /\ UNCHANGED <<kb_buf, kb_tail, kb_count, r, fifo, raced, got>>
  BY DEF StoreHead
<1>4. todo' \in Places
  BY <1>2 DEF Places, Pushing, Resting
<1>5. TypeOK'
  <2>1. r.index + 1 \in Int
    BY <1>1, BufferNotEmpty DEF Index
  <2>2. kb_head' \in Index
    BY <1>3, <2>1, ModRange, BufferNotEmpty DEF Successor, Index
  <2> QED
    BY <1>1, <1>3, <1>4, <2>2, RingTypes DEF StoreHead, TypeOK
<1>6. CountFits'
  BY <1>2, <1>3, Labels DEF BufferIInv, CountFits
<1>7. ASSUME "ring" \notin raced PROVE Contents' /\ CountAt' /\ HeadAt' /\ RegistersAt'
  <2>1. r.index = kb_head /\ kb_head = (kb_tail + (Len(fifo) - 1)) % BufferSize
    BY <1>2, <1>7, Labels DEF BufferIInv, RingAt, HeadAt, RegistersAt
  <2>2. Contents'
    BY <1>3, <1>7, SameContents DEF BufferIInv, RingAt
  <2>3. CountAt'
    BY <1>2, <1>3, <1>7, Labels DEF BufferIInv, RingAt, CountAt
  <2>4. HeadAt'
    <3>1. kb_tail + (Len(fifo) - 1) \in Int /\ kb_tail + (Len(fifo) - 1) + 1 = kb_tail + Len(fifo)
      BY <1>1, BufferNotEmpty DEF Index
    <3>2. kb_head' = (kb_tail + Len(fifo)) % BufferSize
      BY <1>3, <2>1, <3>1, ModSucc, BufferNotEmpty DEF Successor
    <3> QED
      BY <1>2, <1>3, <3>2, Labels DEF HeadAt
  <2>5. RegistersAt'
    BY <1>2, <1>3, <1>7, Labels DEF BufferIInv, RingAt, RegistersAt
  <2> QED
    BY <2>2, <2>3, <2>4, <2>5
<1> QED
  BY <1>3, <1>4, <1>5, <1>6, <1>7 DEF BufferIInv, RingAt

\* keyboard_getchar loads the character.
LEMMA LoadCharBuffer == BufferIInv /\ LoadChar => BufferIInv'
<1> SUFFICES ASSUME BufferIInv, LoadChar PROVE BufferIInv'
  OBVIOUS
<1>1. /\ TypeOK /\ todo \in Places /\ r \in Registers /\ r.index \in Index
      /\ kb_buf \in [Index -> Char]
  BY DEF BufferIInv, TypeOK, Registers
<1>2. todo = G4 /\ todo' = G5
  BY <1>1, Where, Rests DEF LoadChar, Step
<1>3. r' = [r EXCEPT !.char = kb_buf[r.index]] /\ UNCHANGED <<ringVars, fifo, raced, got>>
  BY DEF LoadChar
<1>4. todo' \in Places
  BY <1>2 DEF Places, Taking
<1>5. r' \in Registers /\ r'.index = r.index /\ r'.char = kb_buf[r.index]
  BY <1>1, <1>3 DEF Registers
<1>6. TypeOK'
  BY <1>1, <1>3, <1>4, <1>5, RingTypes DEF LoadChar, TypeOK, ringVars
<1>7. CountFits'
  BY <1>2, Labels DEF CountFits
<1>8. ASSUME "ring" \notin raced PROVE Contents' /\ CountAt' /\ HeadAt' /\ RegistersAt'
  <2>1. Contents'
    BY <1>3, <1>8, SameContents DEF BufferIInv, RingAt, ringVars
  <2>2. CountAt' /\ HeadAt'
    BY <1>2, <1>3, <1>8, Labels DEF BufferIInv, RingAt, CountAt, HeadAt, ringVars
  <2>3. RegistersAt'
    BY <1>2, <1>3, <1>5, <1>8, Labels DEF BufferIInv, RingAt, RegistersAt, ringVars
  <2> QED
    BY <2>1, <2>2, <2>3
<1> QED
  BY <1>3, <1>4, <1>6, <1>7, <1>8 DEF BufferIInv, RingAt

\* keyboard_getchar moves kb_tail on and returns.
LEMMA StoreTailBuffer == BufferIInv /\ StoreTail => BufferIInv'
<1> SUFFICES ASSUME BufferIInv, StoreTail PROVE BufferIInv'
  OBVIOUS
<1>1. /\ TypeOK /\ todo \in Places /\ r \in Registers /\ r.index \in Index /\ r.char \in Char
      /\ fifo \in Seq(Char) /\ kb_count \in Nat
  BY BufferNotEmpty DEF BufferIInv, TypeOK, Registers
<1>2. todo = G5 /\ todo' = Done
  BY <1>1, Where, Rests DEF StoreTail, Step
<1>3. /\ kb_tail' = Successor(r.index) /\ got' = [char |-> r.char, next |-> NextChar]
      /\ fifo' = (IF fifo = <<>> THEN fifo ELSE Tail(fifo))
      /\ UNCHANGED <<kb_buf, kb_head, kb_count, r, raced>>
  BY DEF StoreTail
<1>4. todo' \in Places
  BY <1>2 DEF Places, Resting
<1>5. TypeOK'
  <2>1. kb_tail' \in Index
    <3>1. r.index + 1 \in Int
      BY <1>1, BufferNotEmpty DEF Index
    <3> QED
      BY <1>3, <3>1, ModRange, BufferNotEmpty DEF Successor, Index
  <2>2. fifo' \in Seq(Char) /\ NextChar \in Char \cup {"none"}
    BY <1>1, <1>3 DEF NextChar
  <2>3. got' \in [char : Char \cup {"none"}, next : Char \cup {"none"}]
    BY <1>1, <1>3, <2>2
  <2> QED
    BY <1>1, <1>3, <1>4, <2>1, <2>2, <2>3, RingTypes DEF StoreTail, TypeOK
<1>6. CountFits'
  BY <1>2, Labels DEF CountFits
<1>7. ASSUME "ring" \notin raced
      PROVE  Contents' /\ CountAt' /\ HeadAt' /\ RegistersAt' /\ got'.char = got'.next
  <2>1. /\ Contents /\ r.index = kb_tail /\ r.char = kb_buf[kb_tail]
        /\ kb_head = (kb_tail + Len(fifo)) % BufferSize /\ Len(fifo) = kb_count + 1
    BY <1>2, <1>7, Labels DEF BufferIInv, RingAt, CountAt, HeadAt, RegistersAt
  <2>2. fifo # <<>>
    BY <1>1, <2>1
  <2>3. kb_tail' = Successor(kb_tail) /\ fifo' = Tail(fifo)
    BY <1>3, <2>1, <2>2
  <2>4. /\ Contents' /\ Len(fifo') = Len(fifo) - 1 /\ Head(fifo) = kb_buf[kb_tail]
        /\ (kb_tail' + Len(fifo')) % BufferSize = (kb_tail + Len(fifo)) % BufferSize
    BY <1>1, <1>3, <2>1, <2>2, <2>3, Taken
  <2>5. CountAt'
    BY <1>1, <1>2, <1>3, <2>1, <2>4, Labels DEF CountAt
  <2>6. HeadAt'
    BY <1>2, <1>3, <2>1, <2>4, Labels DEF HeadAt
  <2>7. RegistersAt'
    BY <1>2, Labels DEF RegistersAt
  <2>8. got'.char = got'.next
    BY <1>3, <2>1, <2>2, <2>4 DEF NextChar
  <2> QED
    BY <2>4, <2>5, <2>6, <2>7, <2>8
<1> QED
  BY <1>3, <1>4, <1>5, <1>6, <1>7 DEF BufferIInv, RingAt

\* The handler: a push where the main thread is not inside the ring leaves a
\* ring; any other is recorded as a race.
LEMMA IrqBuffer == BufferIInv /\ Irq1 => BufferIInv'
<1> SUFFICES ASSUME BufferIInv, Irq1 PROVE BufferIInv'
  OBVIOUS
<1> DEFINE c == Typed(shift_held, caps_active)
           push == obuf = "KEY" /\ ~Full(kb_count)
<1>1. /\ TypeOK /\ todo \in Places /\ kb_count \in 0 .. BufferSize /\ BufferSize \in Nat
      /\ kb_head \in Index /\ fifo \in Seq(Char) /\ kb_buf \in [Index -> Char]
  BY BufferNotEmpty DEF BufferIInv, TypeOK
<1>2. c \in Char /\ UNCHANGED <<obuf, todo, r, sent, got>> /\ irq1' = FALSE
  BY DEF Irq1, Typed, Char
<1>3. /\ shift_held' \in BOOLEAN /\ caps_active' \in BOOLEAN
      /\ shiftKeys' \subseteq ShiftKey /\ halfUp' \in BOOLEAN /\ capsOn' \in BOOLEAN /\ obf' \in BOOLEAN
  BY <1>1, ConsumedTypes DEF Irq1, TypeOK, ShiftAfter, CapsAfter, modVars, keyVars
<1>4. raced' \subseteq {"ring", "modifier", "data"} /\ raced \subseteq raced'
  BY <1>1 DEF Irq1, TypeOK, Hit
<1>5. CountFits'
  BY <1>2 DEF BufferIInv, CountFits
<1>6. CASE obf /\ push
  <2>1. /\ kb_buf' = [kb_buf EXCEPT ![kb_head] = c] /\ kb_head' = Successor(kb_head)
        /\ kb_count' = kb_count + 1 /\ kb_tail' = kb_tail /\ fifo' = Append(fifo, c)
    BY <1>6 DEF Irq1
  <2>2. InRingOp => "ring" \in raced'
    BY <1>6 DEF Irq1, Hit
  <2>3. kb_count < BufferSize /\ kb_count' \in 0 .. BufferSize
    BY <1>1, <1>6, <2>1 DEF Full
  <2>4. TypeOK'
    <3>1. kb_head + 1 \in Int
      BY <1>1 DEF Index
    <3>2. kb_head' \in Index
      BY <2>1, <3>1, ModRange, BufferNotEmpty DEF Successor, Index
    <3>3. kb_buf' \in [Index -> Char] /\ fifo' \in Seq(Char)
      BY <1>1, <1>2, <2>1
    <3> QED
      BY <1>1, <1>2, <1>3, <1>4, <2>1, <2>3, <3>2, <3>3 DEF TypeOK
  <2>5. ASSUME "ring" \notin raced'
        PROVE  Contents' /\ CountAt' /\ HeadAt' /\ RegistersAt' /\ got'.char = got'.next
    <3>1. todo \in Resting /\ "ring" \notin raced
      BY <1>1, <1>4, <2>2, <2>5, InRing
    <3>2. todo' \notin Pushing /\ todo' \notin Taking /\ todo' = todo
      BY <1>2, <3>1, Apart
    <3>3. Contents /\ Len(fifo) = kb_count /\ kb_head = (kb_tail + Len(fifo)) % BufferSize
      BY <3>1, <3>2 DEF BufferIInv, RingAt, CountAt, HeadAt, Pushing, Taking
    <3>4. /\ Contents' /\ Len(fifo') = Len(fifo) + 1
          /\ Successor(kb_head) = (kb_tail + (Len(fifo) + 1)) % BufferSize
      BY <1>1, <1>2, <2>1, <2>3, <3>3, Stored
    <3>5. CountAt' /\ HeadAt'
      BY <2>1, <3>2, <3>3, <3>4 DEF CountAt, HeadAt, Pushing, Taking
    <3>6. RegistersAt'
      BY <3>2 DEF RegistersAt, Pushing, Taking
    <3> QED
      BY <1>2, <3>1, <3>4, <3>5, <3>6 DEF BufferIInv, RingAt
  <2> QED
    BY <1>1, <1>2, <1>5, <2>4, <2>5 DEF BufferIInv, RingAt
<1>7. CASE ~(obf /\ push)
  <2>1. UNCHANGED <<ringVars, fifo>>
    BY <1>7 DEF Irq1
  <2>2. TypeOK'
    BY <1>1, <1>2, <1>3, <1>4, <2>1 DEF TypeOK, ringVars
  <2>3. ASSUME "ring" \notin raced'
        PROVE  Contents' /\ CountAt' /\ HeadAt' /\ RegistersAt' /\ got'.char = got'.next
    <3>1. Contents /\ CountAt /\ HeadAt /\ RegistersAt /\ got.char = got.next
      BY <1>4, <2>3 DEF BufferIInv, RingAt
    <3> QED
      BY <1>2, <2>1, <3>1 DEF Contents, CountAt, HeadAt, RegistersAt, ringVars
  <2> QED
    BY <1>1, <1>2, <1>5, <2>2, <2>3 DEF BufferIInv, RingAt
<1> QED
  BY <1>6, <1>7

\* A byte arrives, or nothing happens.
LEMMA OtherBuffer ==
    BufferIInv /\ ((\E sc \in Scancode : Arrive(sc)) \/ UNCHANGED vars) => BufferIInv'
<1> SUFFICES ASSUME BufferIInv, (\E sc \in Scancode : Arrive(sc)) \/ UNCHANGED vars PROVE BufferIInv'
  OBVIOUS
<1>1. UNCHANGED <<ringVars, modVars, todo, r, fifo, keyVars, raced, got>>
  BY DEF Arrive, vars
<1>2. obf' \in BOOLEAN /\ obuf' \in Scancode /\ irq1' \in BOOLEAN /\ sent' \in 0 .. MaxBytes
  <2>1. ASSUME NEW sc \in Scancode, Arrive(sc)
        PROVE  obf' /\ obuf' \in Scancode /\ irq1' /\ sent' \in 0 .. MaxBytes
    BY <2>1, BytesBound DEF Arrive, BufferIInv, TypeOK
  <2>2. CASE UNCHANGED vars
    BY <2>2 DEF vars, portVars, BufferIInv, TypeOK
  <2>3. CASE \E sc \in Scancode : Arrive(sc)
    <3>1. PICK sc \in Scancode : Arrive(sc)
      BY <2>3
    <3>2. obf' = TRUE /\ irq1' = TRUE
      BY <3>1 DEF Arrive
    <3> QED
      BY <2>1, <3>1, <3>2
  <2> QED
    BY <2>2, <2>3
<1>3. TypeOK'
  BY <1>1, <1>2 DEF BufferIInv, TypeOK, ringVars, modVars, keyVars
<1>4. CountFits' /\ RingAt'
  BY <1>1 DEF BufferIInv, CountFits, RingAt, Contents, CountAt, HeadAt, RegistersAt, ringVars
<1> QED
  BY <1>1, <1>3, <1>4 DEF BufferIInv

\* keyboard_init leaves an empty ring.
LEMMA InitBuffer == Init => BufferIInv
<1> SUFFICES ASSUME Init PROVE BufferIInv
  OBVIOUS
<1>1. todo = Done /\ todo \in Resting /\ todo \in Places
  BY DEF Init, Done, Resting, Places
<1>2. TypeOK
  <2>1. obuf \in Scancode
    BY DEF Init, Scancode
  <2> QED
    BY <1>1, <2>1, PlacesAreOps, BufferNotEmpty, BytesBound
    DEF Init, TypeOK, Index, Char, Registers
<1>3. todo \notin Pushing /\ todo \notin Taking
  BY <1>1, Apart
<1>4. CountFits /\ RegistersAt
  BY <1>3 DEF CountFits, RegistersAt, Pushing, Taking
<1>5. Len(fifo) = 0 /\ kb_tail = 0 /\ kb_head = 0 /\ kb_count = 0
  BY DEF Init
<1>6. Contents /\ CountAt /\ HeadAt
  BY <1>3, <1>5, BufferNotEmpty, ModSmall DEF Contents, CountAt, HeadAt, Pushing, Taking
<1> QED
  BY <1>1, <1>2, <1>4, <1>6 DEF BufferIInv, RingAt, Init

\* Every step keeps the buffer sound.
LEMMA StepBuffer == BufferIInv /\ [Next]_vars => BufferIInv'
  BY CallBuffer, PollBuffer, LoadCountBuffer, LoadIndexBuffer, StoreCountBuffer, StoreCharBuffer,
     StoreHeadBuffer, LoadCharBuffer, StoreTailBuffer, IrqBuffer, OtherBuffer
  DEF Next, MainStep, PollStep

\* Wherever IRQ1 cuts into the loads and stores of the main thread, no index
\* leaves kb_buf and kb_count stays between 0 and KB_BUFFER_SIZE; and unless
\* it pushed a character inside a push or a getchar, the ring holds the
\* characters accepted and not returned, in order, and getchar returned the
\* oldest: for every buffer size and every number of bytes.
THEOREM BufferIsSound == Spec => []BufferInv
<1>1. BufferIInv => BufferInv
  <2> SUFFICES ASSUME BufferIInv, "ring" \notin raced, Idle
               PROVE  /\ kb_head = (kb_tail + kb_count) % BufferSize
                      /\ fifo = [k \in 1 .. kb_count |-> kb_buf[(kb_tail + k - 1) % BufferSize]]
    BY DEF BufferInv, FifoUnlessRaced, BufferIInv, RingAt
  <2>1. todo \notin Pushing /\ todo \notin Taking
    BY Apart DEF Idle, Done, Resting
  <2>2. Contents /\ Len(fifo) = kb_count /\ kb_head = (kb_tail + Len(fifo)) % BufferSize
    BY <2>1 DEF BufferIInv, RingAt, CountAt, HeadAt, Pushing, Taking
  <2>3. fifo \in Seq(Char)
    BY DEF BufferIInv, TypeOK
  <2>4. fifo = [k \in 1 .. Len(fifo) |-> fifo[k]]
    BY <2>3
  <2> QED
    BY <2>2, <2>4 DEF Contents
<1> QED
  BY InitBuffer, StepBuffer, <1>1, PTL DEF Spec

-----------------------------------------------------------------------------
\* FlagsAt, step by step.

RingStep == \/ LoadCount \/ LoadIndex \/ StoreCount \/ StoreChar \/ StoreHead
            \/ LoadChar \/ StoreTail

\* The places of a push inside keyboard_poll, and those of the other calls.
InPollPush == {K1, K2, K3, K4, K5}
OtherCalls == {S1, S2, S3, S4, S5, G1, G2, G3, G4, G5}

\* A step in the ring stays in its routine, or leaves it, and touches no flag.
LEMMA RingMoves ==
    ASSUME todo \in Places, RingStep
    PROVE  \/ todo \in InPollPush /\ todo' \in InPollPush \cup {P5}
           \/ todo \in OtherCalls /\ todo' \in OtherCalls \cup {Done}
<1>1. CASE LoadCount
  <2>1. CASE Exec("pushcount")
    <3>1. todo \in {K1, S1} /\ ~Exec("getcount")
      BY <2>1, Where DEF Exec
    <3>2. todo' = (IF Full(kb_count) THEN AfterPush ELSE Tail(todo))
      BY <1>1, <3>1 DEF LoadCount
    <3> QED
      BY <3>1, <3>2, Rests, SkippedPush DEF AfterPush, InPollPush, OtherCalls
  <2>2. CASE Exec("getcount")
    <3>1. todo = G1 /\ ~Exec("pushcount")
      BY <2>2, Where DEF Exec
    <3> QED
      BY <1>1, <3>1, Rests DEF LoadCount, OtherCalls, Done
  <2> QED
    BY <1>1, <2>1, <2>2 DEF LoadCount
<1>2. CASE LoadIndex
  <2>1. todo \in {K2, S2, G2} /\ todo' = Tail(todo)
    BY <1>2, Where DEF LoadIndex, Step
  <2> QED
    BY <2>1, Rests DEF InPollPush, OtherCalls
<1>3. CASE StoreCount
  <2>1. todo \in {K5, S3, G3} /\ todo' = Tail(todo)
    BY <1>3, Where DEF StoreCount, Step
  <2> QED
    BY <2>1, Rests DEF InPollPush, OtherCalls
<1>4. CASE StoreChar \/ StoreHead
  <2>1. todo \in {K3, S4, K4, S5} /\ todo' = Tail(todo)
    BY <1>4, Where DEF StoreChar, StoreHead, Step
  <2> QED
    BY <2>1, Rests DEF InPollPush, OtherCalls
<1>5. CASE LoadChar \/ StoreTail
  <2>1. todo \in {G4, G5} /\ todo' = Tail(todo)
    BY <1>5, Where DEF LoadChar, StoreTail, Step
  <2> QED
    BY <2>1, Rests DEF OtherCalls
<1> QED
  BY <1>1, <1>2, <1>3, <1>4, <1>5 DEF RingStep

\* Which places have a flag in a register, or a byte to read.
LEMMA HeldPlaces ==
    /\ InPollPush \cup {P5} \subseteq CapsHeld \cap ShiftHeld
    /\ (OtherCalls \cup {Done, P1, P2}) \cap (CapsHeld \cup ShiftHeld) = {}
    /\ (InPollPush \cup OtherCalls \cup {Done, P1, P5, M1, M2}) \cap {P2, P3, P4} = {}
    /\ P3 \in CapsHeld \ ShiftHeld /\ P4 \in CapsHeld \cap ShiftHeld
    /\ M1 \in CapsHeld \cap ShiftHeld /\ M2 \in ShiftHeld \ CapsHeld
<1>1. InPollPush \cup {P5} \subseteq CapsHeld \cap ShiftHeld
  BY DEF InPollPush, CapsHeld, ShiftHeld
<1>2. \A p \in OtherCalls \cup {Done, P1, P2} : p \notin CapsHeld
  BY Labels DEF OtherCalls, CapsHeld
<1>3. \A p \in OtherCalls \cup {Done, P1, P2} : p \notin ShiftHeld
  BY Labels DEF OtherCalls, ShiftHeld
<1>4. \A p \in InPollPush \cup OtherCalls \cup {Done, P1, P5, M1, M2} : p \notin {P2, P3, P4}
  BY Labels DEF InPollPush, OtherCalls
<1>5. P3 \in CapsHeld \ ShiftHeld /\ M2 \in ShiftHeld \ CapsHeld
  BY Labels DEF CapsHeld, ShiftHeld
<1>6. P4 \in CapsHeld \cap ShiftHeld /\ M1 \in CapsHeld \cap ShiftHeld
  BY DEF CapsHeld, ShiftHeld
<1> QED
  BY <1>1, <1>2, <1>3, <1>4, <1>5, <1>6

\* A step in the ring leaves every flag and its copy.
LEMMA RingFlags == KeyboardIInv /\ RingStep => FlagsAt'
<1> SUFFICES ASSUME KeyboardIInv, RingStep, raced' \subseteq {"ring"} PROVE ByteWaits' /\ CapsAt' /\ ShiftAt'
  BY DEF FlagsAt
<1>1. UNCHANGED <<modVars, portVars, keyVars, raced>>
  BY DEF RingStep, LoadCount, LoadIndex, StoreCount, StoreChar, StoreHead, LoadChar, StoreTail
<1>2. ByteWaits /\ CapsAt /\ ShiftAt
  BY <1>1 DEF KeyboardIInv, FlagsAt
<1>3. r \in Registers
  BY DEF KeyboardIInv, BufferIInv, TypeOK
<1>4. /\ r'.caps = r.caps /\ r'.capsSet = r.capsSet
      /\ r'.shift = r.shift /\ r'.shiftSet = r.shiftSet
  <2>1. \/ r' = r
        \/ \E x : r' = [r EXCEPT !.count = x] \/ r' = [r EXCEPT !.index = x] \/ r' = [r EXCEPT !.char = x]
    BY DEF RingStep, LoadCount, LoadIndex, StoreCount, StoreChar, StoreHead, LoadChar, StoreTail
  <2> QED
    BY <1>3, <2>1 DEF Registers
<1>5. /\ todo \in CapsHeld <=> todo' \in CapsHeld
      /\ todo \in ShiftHeld <=> todo' \in ShiftHeld
      /\ todo' \notin {P2, P3, P4}
  BY RingMoves, HeldPlaces DEF KeyboardIInv, BufferIInv
<1> QED
  BY <1>1, <1>2, <1>4, <1>5 DEF ByteWaits, CapsAt, ShiftAt, ShiftShown, modVars, keyVars

\* So does a call, the arrival of a byte, and a step that changes nothing.
LEMMA CallFlags ==
    KeyboardIInv /\ (MainCall \/ (\E sc \in Scancode : Arrive(sc)) \/ UNCHANGED vars) => FlagsAt'
<1> SUFFICES ASSUME KeyboardIInv, MainCall \/ (\E sc \in Scancode : Arrive(sc)) \/ UNCHANGED vars,
                    raced' \subseteq {"ring"}
             PROVE  ByteWaits' /\ CapsAt' /\ ShiftAt'
  BY DEF FlagsAt
<1>1. UNCHANGED <<modVars, keyVars, raced>>
  BY DEF MainCall, PollCall, GetcharCall, SerialCall, Arrive, vars
<1>2. ByteWaits /\ CapsAt /\ ShiftAt
  BY <1>1 DEF KeyboardIInv, FlagsAt
<1>3. CASE MainCall
  <2>1. todo = Done /\ todo' \in {P1, G1, S1}
    BY <1>3 DEF MainCall, PollCall, GetcharCall, SerialCall, Call, Idle, Done, P1, S1, G1
  <2>2. /\ todo \notin CapsHeld /\ todo \notin ShiftHeld
        /\ todo' \notin CapsHeld /\ todo' \notin ShiftHeld /\ todo' \notin {P2, P3, P4}
    BY <2>1, HeldPlaces DEF OtherCalls
  <2> QED
    BY <1>1, <1>2, <2>2 DEF ByteWaits, CapsAt, ShiftAt, ShiftShown, modVars, keyVars
<1>4. CASE (\E sc \in Scancode : Arrive(sc)) \/ UNCHANGED vars
  <2>1. todo' = todo /\ r' = r /\ (obf => obf')
    BY <1>4 DEF Arrive, vars, portVars
  <2> QED
    BY <1>1, <1>2, <2>1 DEF ByteWaits, CapsAt, ShiftAt, ShiftShown, modVars, keyVars
<1> QED
  BY <1>3, <1>4

\* keyboard_poll: the flags go to the registers, follow the bytes it reads
\* there, and come back.
LEMMA PollFlags == KeyboardIInv /\ PollStep => FlagsAt'
<1> SUFFICES ASSUME KeyboardIInv, PollStep, raced' \subseteq {"ring"} PROVE ByteWaits' /\ CapsAt' /\ ShiftAt'
  BY DEF FlagsAt
<1>1. raced' = raced
  BY DEF PollStep, ReadStatus, LoadModifiers, ReadData, StoreModifiers
<1>2. ByteWaits /\ CapsAt /\ ShiftAt
  BY <1>1 DEF KeyboardIInv, FlagsAt
<1>3. /\ TypeOK /\ todo \in Places /\ r \in Registers /\ obuf \in Scancode
      /\ caps_active \in BOOLEAN /\ shift_held \in BOOLEAN /\ capsOn \in BOOLEAN /\ halfUp \in BOOLEAN
  BY DEF KeyboardIInv, BufferIInv, TypeOK
<1>4. CASE ReadStatus
  <2>1. UNCHANGED <<modVars, portVars, keyVars, r>>
    BY <1>4 DEF ReadStatus
  <2>2. \/ todo = P1 /\ todo' = (IF obf THEN P2 ELSE Done)
        \/ todo = P5 /\ todo' = (IF obf THEN P4 ELSE M1)
    <3>1. todo \in {P1, P5}
      BY <1>3, <1>4, Where DEF ReadStatus
    <3>2. todo # P2 /\ todo # P3 /\ todo # P4 /\ todo # M1 /\ todo # M2
      BY <3>1, Labels
    <3> QED
      BY <1>3, <3>2, PollMoves
  <2>3. /\ todo \in CapsHeld <=> todo' \in CapsHeld
        /\ todo \in ShiftHeld <=> todo' \in ShiftHeld
    BY <2>2, HeldPlaces
  <2>4. todo' \in {P2, P3, P4} => obf
    BY <2>2, HeldPlaces
  <2> QED
    BY <1>2, <2>1, <2>3, <2>4 DEF ByteWaits, CapsAt, ShiftAt, ShiftShown, modVars, keyVars, portVars
<1>5. CASE LoadModifiers
  <2>1. UNCHANGED <<modVars, portVars, keyVars>>
    BY <1>5 DEF LoadModifiers
  <2>2. CASE Step("ldcaps")
    <3>1. ~Step("ldshift")
      BY <2>2 DEF Step, Exec
    <3>2. todo = P2 /\ todo' = P3 /\ r' = [r EXCEPT !.caps = caps_active, !.capsSet = FALSE]
      BY <1>3, <1>5, <2>2, <3>1, Where, Rests DEF LoadModifiers, Step
    <3>3. r'.caps = caps_active
      BY <1>3, <3>2 DEF Registers
    <3>4. /\ todo \in {P2, P3, P4} /\ todo \notin CapsHeld /\ todo \notin ShiftHeld
          /\ todo' \in CapsHeld /\ todo' \notin ShiftHeld
      BY <3>2, HeldPlaces
    <3> QED
      BY <1>2, <2>1, <3>3, <3>4 DEF ByteWaits, CapsAt, ShiftAt, ShiftShown, modVars, keyVars, portVars
  <2>3. CASE Step("ldshift")
    <3>1. ~Step("ldcaps")
      BY <2>3 DEF Step, Exec
    <3>2. todo = P3 /\ todo' = P4 /\ r' = [r EXCEPT !.shift = shift_held, !.shiftSet = FALSE]
      BY <1>3, <1>5, <2>3, <3>1, Where, Rests DEF LoadModifiers, Step
    <3>3. r'.shift = shift_held /\ r'.caps = r.caps /\ r'.capsSet = r.capsSet
      BY <1>3, <3>2 DEF Registers
    <3>4. /\ todo \in {P2, P3, P4} /\ todo \in CapsHeld /\ todo \notin ShiftHeld
          /\ todo' \in CapsHeld /\ todo' \in ShiftHeld
      BY <3>2, HeldPlaces
    <3> QED
      BY <1>2, <2>1, <3>3, <3>4 DEF ByteWaits, CapsAt, ShiftAt, ShiftShown, modVars, keyVars, portVars
  <2> QED
    BY <1>5, <2>2, <2>3 DEF LoadModifiers
<1>6. CASE ReadData
  <2>1. todo = P4 /\ todo' \in {K1, P5}
    <3>1. todo = P4
      BY <1>3, <1>6, Where DEF ReadData
    <3>2. todo # P1 /\ todo # P2 /\ todo # P3 /\ todo # P5 /\ todo # M1 /\ todo # M2
      BY <3>1, Labels
    <3> QED
      BY <1>3, <3>1, <3>2, PollMoves
  <2>2. /\ todo \in CapsHeld /\ todo \in ShiftHeld /\ todo' \in CapsHeld /\ todo' \in ShiftHeld
        /\ todo' \notin {P2, P3, P4} /\ todo \in {P2, P3, P4}
    BY <2>1, HeldPlaces DEF InPollPush
  <2>3. /\ obf
        /\ r.caps = capsOn /\ (r.capsSet \/ caps_active = capsOn)
        /\ r.shift = ShiftShown /\ (r.shiftSet \/ shift_held = ShiftShown)
    BY <1>2, <2>2 DEF ByteWaits, CapsAt, ShiftAt
  <2>4. /\ r'.caps = CapsAfter(obuf, r.caps) /\ r'.capsSet = (r.capsSet \/ obuf = "CAPSLOCK_PRESS")
        /\ r'.shift = ShiftAfter(obuf, r.shift)
        /\ r'.shiftSet = (r.shiftSet \/ obuf \in Pressing \cup Releasing)
    BY <1>3, <1>6 DEF ReadData, Registers
  <2>5. /\ ShiftShown' = ShiftAfter(obuf, ShiftShown)
        /\ capsOn' = (capsOn # (obuf = "CAPSLOCK_PRESS"))
        /\ UNCHANGED modVars
    BY <1>3, <1>6, <2>3, ConsumedShift DEF ReadData, Consumed
  <2>6. CapsAt'
    BY <1>3, <2>2, <2>3, <2>4, <2>5 DEF CapsAt, CapsAfter, modVars
  <2>7. ShiftAt'
    BY <1>3, <2>2, <2>3, <2>4, <2>5 DEF ShiftAt, ShiftAfter, modVars
  <2> QED
    BY <2>2, <2>6, <2>7 DEF ByteWaits
<1>7. CASE StoreModifiers
  <2>1. UNCHANGED <<portVars, keyVars, r>>
    BY <1>7 DEF StoreModifiers
  <2>2. CASE Step("stcaps")
    <3>1. ~Step("stshift")
      BY <2>2 DEF Step, Exec
    <3>2. todo = M1 /\ todo' = M2
      BY <1>3, <2>2, Where, Rests DEF Step
    <3>3. caps_active' = (IF r.capsSet THEN r.caps ELSE caps_active) /\ shift_held' = shift_held
      BY <1>7, <3>1 DEF StoreModifiers
    <3>4. /\ todo \in CapsHeld /\ todo \in ShiftHeld /\ todo' \notin CapsHeld /\ todo' \in ShiftHeld
          /\ todo' \notin {P2, P3, P4}
      BY <3>2, HeldPlaces
    <3> QED
      BY <1>2, <2>1, <3>3, <3>4 DEF ByteWaits, CapsAt, ShiftAt, ShiftShown, keyVars
  <2>3. CASE Step("stshift")
    <3>1. ~Step("stcaps")
      BY <2>3 DEF Step, Exec
    <3>2. todo = M2 /\ todo' = Done
      BY <1>3, <2>3, Where, Rests DEF Step
    <3>3. shift_held' = (IF r.shiftSet THEN r.shift ELSE shift_held) /\ caps_active' = caps_active
      BY <1>7, <3>1 DEF StoreModifiers
    <3>4. /\ todo \notin CapsHeld /\ todo \in ShiftHeld /\ todo' \notin CapsHeld /\ todo' \notin ShiftHeld
          /\ todo' \notin {P2, P3, P4}
      BY <3>2, HeldPlaces
    <3> QED
      BY <1>2, <2>1, <3>3, <3>4 DEF ByteWaits, CapsAt, ShiftAt, ShiftShown, keyVars
  <2> QED
    BY <1>7, <2>2, <2>3 DEF StoreModifiers
<1> QED
  BY <1>4, <1>5, <1>6, <1>7 DEF PollStep

\* The handler: unless it is recorded as a race it finds the flags in memory,
\* or changes none, and takes no byte from under keyboard_poll.
LEMMA IrqFlags == KeyboardIInv /\ Irq1 => FlagsAt'
<1> SUFFICES ASSUME KeyboardIInv, Irq1, raced' \subseteq {"ring"} PROVE ByteWaits' /\ CapsAt' /\ ShiftAt'
  BY DEF FlagsAt
<1>1. todo' = todo /\ r' = r /\ raced \subseteq raced'
  BY DEF Irq1
<1>2. ByteWaits /\ CapsAt /\ ShiftAt
  BY <1>1 DEF KeyboardIInv, FlagsAt
<1>3. /\ caps_active \in BOOLEAN /\ shift_held \in BOOLEAN /\ capsOn \in BOOLEAN /\ halfUp \in BOOLEAN
      /\ TypeOK /\ obuf \in Scancode /\ todo \in Places
  BY DEF KeyboardIInv, BufferIInv, TypeOK
<1>4. CASE ~obf
  <2>1. UNCHANGED <<modVars, keyVars, obf>>
    BY <1>4 DEF Irq1
  <2> QED
    BY <1>1, <1>2, <2>1 DEF ByteWaits, CapsAt, ShiftAt, ShiftShown, modVars, keyVars
<1>5. CASE obf
  <2>1. /\ shift_held' = ShiftAfter(obuf, shift_held) /\ caps_active' = CapsAfter(obuf, caps_active)
        /\ ShiftShown' = ShiftAfter(obuf, ShiftShown)
        /\ capsOn' = (capsOn # (obuf = "CAPSLOCK_PRESS"))
    BY <1>3, <1>5, ConsumedShift DEF Irq1, Consumed
  <2>2. ~BeforeData /\ (obuf \in Scancode \ {"KEY", "OTHER"} => ~InPoll)
    BY <1>5 DEF Irq1, Hit
  <2>3. todo \notin {P2, P3, P4}
    <3>1. todo \in {P2, P3, P4} => todo # Done /\ NextOp(todo) \in {"ldcaps", "ldshift", "data"}
      BY Labels
    <3> QED
      BY <2>2, <3>1 DEF BeforeData, Idle, Done, NextOp
  <2>4. CASE obuf \in {"KEY", "OTHER"}
    <3>1. shift_held' = shift_held /\ caps_active' = caps_active /\ ShiftShown' = ShiftShown /\ capsOn' = capsOn
      BY <1>3, <2>1, <2>4 DEF ShiftAfter, CapsAfter, Pressing, Releasing, PressOf, ReleaseOf, ShiftShown
    <3> QED
      BY <1>1, <1>2, <2>3, <3>1 DEF ByteWaits, CapsAt, ShiftAt
  <2>5. CASE obuf \notin {"KEY", "OTHER"}
    <3>1. ~InPoll
      BY <1>3, <2>2, <2>5
    <3>2. todo \in CapsHeld \cup ShiftHeld =>
              /\ todo # Done /\ NextOp(todo) \notin {"status0", "ldcaps"}
              /\ LastOp(todo) \in {"status", "stshift"}
      BY Labels, Ends DEF CapsHeld, ShiftHeld
    <3>3. todo \notin CapsHeld /\ todo \notin ShiftHeld
      BY <3>1, <3>2 DEF InPoll, Idle, Done, NextOp, LastOp
    <3>4. caps_active = capsOn /\ shift_held = ShiftShown
      BY <1>2, <3>3 DEF CapsAt, ShiftAt
    <3>5. caps_active' = capsOn' /\ shift_held' = ShiftShown'
      BY <1>3, <2>1, <3>4 DEF ShiftAfter, CapsAfter
    <3> QED
      BY <1>1, <2>3, <3>3, <3>5 DEF ByteWaits, CapsAt, ShiftAt
  <2> QED
    BY <2>4, <2>5
<1> QED
  BY <1>4, <1>5

\* Unless an IRQ1 has handled a modifier key while keyboard_poll had the flags
\* in registers, or any byte between its reads of status and data, whenever the
\* main thread is out of the driver caps_active is the state of caps lock and
\* shift_held is set exactly while a shift key is down, except after one of the
\* two has been released while the other was down: in particular when only the
\* ring was ever hit.
THEOREM FlagsFollowKeys == Spec => []ModifiersUnlessRaced
<1>1. Init => KeyboardIInv
  <2> SUFFICES ASSUME Init PROVE ByteWaits /\ CapsAt /\ ShiftAt
    BY InitBuffer DEF KeyboardIInv, FlagsAt
  <2>1. todo = Done
    BY DEF Init, Done
  <2> QED
    BY <2>1, HeldPlaces DEF Init, ByteWaits, CapsAt, ShiftAt, ShiftShown
<1>2. KeyboardIInv /\ [Next]_vars => KeyboardIInv'
  <2> SUFFICES ASSUME KeyboardIInv, [Next]_vars PROVE FlagsAt'
    BY StepBuffer DEF KeyboardIInv
  <2> QED
    BY CallFlags, PollFlags, RingFlags, IrqFlags DEF Next, MainStep, PollStep, RingStep
<1>3. KeyboardIInv => ModifiersUnlessRaced
  <2> SUFFICES ASSUME KeyboardIInv, Idle, raced \subseteq {"ring"}
               PROVE  shift_held = ShiftShown /\ caps_active = capsOn
    BY DEF ModifiersUnlessRaced, ShiftShown
  <2>1. todo \notin CapsHeld /\ todo \notin ShiftHeld
    BY HeldPlaces DEF Idle, Done
  <2> QED
    BY <2>1 DEF KeyboardIInv, FlagsAt, CapsAt, ShiftAt
<1> QED
  BY <1>1, <1>2, <1>3, PTL DEF Spec

-----------------------------------------------------------------------------
\* The tick counter.

ClockTypes == /\ irqs \in Nat /\ beats \in Nat
              /\ window \in Nat /\ lost \in Nat
              /\ pc \in {"idle", "loaded"}

\* What kernel_heartbeat holds between its load and its store is the count
\* without the interrupts since: it is what the store will put back.
LoadedIsOld ==
    pc = "loaded" => reg = (irqs + beats - lost - window) % TickMod

ClockInv == ClockTypes /\ LoadedIsOld /\ LostOnlyInHeartbeat

\* The boot state: nothing counted, nothing lost.
LEMMA InitClock == ClockInit => ClockInv
  BY ClockConstants, ModSmall
  DEF ClockInit, ClockInv, ClockTypes, LoadedIsOld, LostOnlyInHeartbeat

\* An interrupt, the task's load and its store each keep the invariant.
LEMMA StepClock == ClockInv /\ [ClockNext]_clockVars => ClockInv'
<1> SUFFICES ASSUME ClockInv, [ClockNext]_clockVars PROVE ClockInv'
  OBVIOUS
<1> USE ClockConstants
<1>0. /\ irqs + beats - lost \in Int
      /\ irqs + beats - lost - window \in Int
  BY DEF ClockInv, ClockTypes
<1>1. CASE Irq0
  <2>1. ClockTypes'
    BY <1>1 DEF Irq0, ClockInv, ClockTypes
  <2>2. LoadedIsOld'
    <3>1. pc = "loaded" => irqs' + beats' - lost' - window' = irqs + beats - lost - window
      BY <1>1 DEF Irq0, ClockInv, ClockTypes
    <3> QED
      BY <1>1, <3>1 DEF Irq0, ClockInv, LoadedIsOld
  <2>3. LostOnlyInHeartbeat'
    <3>1. irqs' + beats' - lost' = (irqs + beats - lost) + 1
      BY <1>1 DEF Irq0, ClockInv, ClockTypes
    <3>2. g_tick_count' = (((irqs + beats - lost) % TickMod) + 1) % TickMod
      BY <1>1 DEF Irq0, IrqCount, ClockInv, LostOnlyInHeartbeat
    <3> QED
      BY <1>0, <3>1, <3>2, ModSucc DEF LostOnlyInHeartbeat
  <2> QED
    BY <2>1, <2>2, <2>3 DEF ClockInv
<1>2. CASE HeartbeatLoad
  <2>1. ClockTypes' /\ LostOnlyInHeartbeat'
    BY <1>2 DEF HeartbeatLoad, ClockInv, ClockTypes, LostOnlyInHeartbeat
  <2>2. irqs' + beats' - lost' - window' = irqs + beats - lost
    BY <1>2 DEF HeartbeatLoad, ClockInv, ClockTypes
  <2>3. LoadedIsOld'
    BY <1>2, <2>2 DEF HeartbeatLoad, ClockInv, LoadedIsOld, LostOnlyInHeartbeat
  <2> QED
    BY <2>1, <2>3 DEF ClockInv
<1>3. CASE HeartbeatStore
  <2>1. ClockTypes' /\ LoadedIsOld'
    BY <1>3 DEF HeartbeatStore, ClockInv, ClockTypes, LoadedIsOld
  <2>2. irqs' + beats' - lost' = (irqs + beats - lost - window) + 1
    BY <1>3 DEF HeartbeatStore, ClockInv, ClockTypes
  <2>3. g_tick_count' = (((irqs + beats - lost - window) % TickMod) + 1) % TickMod
    BY <1>3 DEF HeartbeatStore, ClockInv, LoadedIsOld
  <2>4. LostOnlyInHeartbeat'
    BY <1>0, <2>2, <2>3, ModSucc DEF LostOnlyInHeartbeat
  <2> QED
    BY <2>1, <2>4 DEF ClockInv
<1>4. CASE UNCHANGED clockVars
  BY <1>4 DEF clockVars, ClockInv, ClockTypes, LoadedIsOld, LostOnlyInHeartbeat
<1> QED
  BY <1>1, <1>2, <1>3, <1>4 DEF ClockNext

\* The ticks g_tick_count misses are exactly the timer interrupts that hit
\* between kernel_heartbeat's load and its store, however wide the counter
\* and however often it wraps.
THEOREM ClockLossBounded == ClockSpec => []LostOnlyInHeartbeat
<1>1. ClockInv => LostOnlyInHeartbeat
  BY DEF ClockInv
<1> QED
  BY InitClock, StepClock, <1>1, PTL DEF ClockSpec

-----------------------------------------------------------------------------
\* The mirroring engine, its snapshots stamped with that counter.

Snaps    == MirrorSlots - FirstUser
Position == snap_slot - FirstUser

MirrorTypes == /\ MirrorTypeOK
               /\ taken \in Seq(Snapshot) /\ Len(taken) <= Snaps
               /\ synced \in [irqs : Nat, beats : Nat, lost : Nat]

\* Before kernel_main enters the running state nothing is captured and no
\* heartbeat is under way.
BootAt == g_kernel_state = "INIT" => pc = "idle" /\ sync_count = 0

\* The live snapshot carries its label from the first sync on: the sum of the
\* first one misses it, the sum of every later one has it.
LiveAt == /\ sync_count = 0 => ~snapshots[LiveSlot].valid
          /\ sync_count > 0 => snapshots[LiveSlot].label = "LIVE"
          /\ sync_count > 1 => snapshots[LiveSlot].checksum = Checksum(snapshots[LiveSlot])

SumsAt == \A s \in Slots \ {LiveSlot} :
              snapshots[s].valid => snapshots[s].checksum = Checksum(snapshots[s])

\* The user's slots as a ring: those before snap_slot hold the latest
\* captures, those from it on the older ones, once all have been used.
RingSlots ==
    /\ Len(taken) < Snaps => Len(taken) = Position
    /\ \A i \in 0 .. Snaps - 1 :
          /\ i < Position => snapshots[FirstUser + i] = taken[Len(taken) - Position + i + 1]
          /\ i >= Position =>
                IF Len(taken) = Snaps
                THEN snapshots[FirstUser + i] = taken[i - Position + 1]
                ELSE ~snapshots[FirstUser + i].valid
    /\ \A k \in 1 .. Len(taken) : taken[k].valid

\* The stamp of the live snapshot is the count at the last sync, and the
\* interrupts lost since then, or about to be, came since then.
StampAt ==
    /\ snapshots[LiveSlot].timestamp = (synced.irqs + synced.beats - synced.lost) % TickMod
    /\ synced.beats <= beats /\ synced.lost <= lost
    /\ (lost - synced.lost) + (IF pc = "loaded" THEN window ELSE 0) <= irqs - synced.irqs

MirrorIInv == /\ ClockInv /\ MirrorTypes /\ BootAt
              /\ LiveAt /\ SumsAt /\ RingSlots /\ StampAt

\* The number of user slots.
LEMMA UserSlotCount == Snaps \in Nat \ {0} /\ Cardinality(UserSlots) = Snaps
<1>1. Snaps \in Nat \ {0} /\ MirrorSlots - 1 \in Int /\ 2 \in Int
  BY MirrorConstants DEF Snaps, FirstUser
<1>2. Cardinality(2 .. MirrorSlots - 1) = IF 2 > MirrorSlots - 1 THEN 0 ELSE (MirrorSlots - 1) - 2 + 1
  BY <1>1, FS_Interval
<1> QED
  BY <1>1, <1>2, MirrorConstants DEF UserSlots, FirstUser, Snaps

\* What mirror_sync writes to the live slot.
LEMMA LiveShape ==
    ASSUME MirrorTypes
    PROVE  /\ Live \in Snapshot
           /\ Live.valid /\ Live.label = "LIVE" /\ Live.timestamp = g_tick_count
           /\ snapshots[LiveSlot].label = "LIVE" => Live.checksum = Checksum(Live)
<1> DEFINE old == snapshots[LiveSlot]
           s   == [old EXCEPT !.timestamp = g_tick_count, !.flags = FlagAll, !.event_pending = pending]
           sum == Checksum(s)
           new == [s EXCEPT !.checksum = sum, !.valid = TRUE, !.label = "LIVE"]
<1>1. old \in Snapshot /\ g_tick_count \in 0 .. TickMod - 1 /\ pending \in 0 .. QueueDepth
  BY MirrorConstants DEF MirrorTypes, MirrorTypeOK, Slots, LiveSlot
<1> HIDE DEF old
<1>2. /\ s \in Snapshot
      /\ s.label = old.label /\ s.timestamp = g_tick_count /\ s.flags = FlagAll
      /\ s.event_pending = pending
  BY <1>1 DEF Snapshot
<1>3. sum \in Word /\ sum = BitXor(BitXor(BitXor(LabelSum[old.label], g_tick_count), FlagAll), pending)
  <2>1. LabelSum[old.label] \in Word /\ g_tick_count \in Word /\ FlagAll \in Word /\ pending \in Word
    BY <1>1, ChecksumWidth, ClockConstants, MirrorConstants DEF Word, Snapshot
  <2> QED
    BY <1>2, <2>1, ChecksumWidth DEF Checksum
<1> HIDE DEF sum
<1>4. "LIVE" \in DOMAIN LabelSum
  BY LabelsOfTheCode
<1>5. /\ new \in Snapshot /\ new.valid /\ new.label = "LIVE"
      /\ new.timestamp = g_tick_count /\ new.flags = FlagAll /\ new.event_pending = pending
      /\ new.checksum = sum
  BY <1>2, <1>3, <1>4 DEF Snapshot
<1>6. Live = new
  BY DEF Live, old, sum
<1> HIDE DEF new
<1>7. old.label = "LIVE" => new.checksum = Checksum(new)
  BY <1>3, <1>5 DEF Checksum
<1> QED
  BY <1>5, <1>6, <1>7 DEF old

\* What mirror_capture writes to its slot.
LEMMA CopyShape ==
    ASSUME MirrorTypes, NEW label \in DOMAIN LabelSum
    PROVE  /\ Copy(label) \in Snapshot
           /\ Copy(label).valid /\ Copy(label).checksum = Checksum(Copy(label))
<1> DEFINE s   == [Live EXCEPT !.flags = FlagAll, !.label = label]
           sum == Checksum(s)
           new == [s EXCEPT !.checksum = sum, !.valid = TRUE]
<1>1. Live \in Snapshot
  BY LiveShape
<1>2. /\ s \in Snapshot /\ s.label = label /\ s.flags = FlagAll
      /\ s.timestamp = Live.timestamp /\ s.event_pending = Live.event_pending
  BY <1>1 DEF Snapshot
<1> HIDE DEF s
<1>3. sum \in Word
      /\ sum = BitXor(BitXor(BitXor(LabelSum[s.label], s.timestamp), s.flags), s.event_pending)
  <2>1. LabelSum[s.label] \in Word /\ s.timestamp \in Word /\ s.flags \in Word /\ s.event_pending \in Word
    BY <1>2, ChecksumWidth, ClockConstants, MirrorConstants DEF Word, Snapshot
  <2> QED
    BY <2>1, ChecksumWidth DEF Checksum
<1> HIDE DEF sum
<1>4. /\ new \in Snapshot /\ new.valid /\ new.checksum = sum
      /\ new.label = s.label /\ new.timestamp = s.timestamp /\ new.flags = s.flags
      /\ new.event_pending = s.event_pending
  BY <1>2, <1>3 DEF Snapshot
<1>5. Copy(label) = new
  BY DEF Copy, s, sum
<1> HIDE DEF new
<1> QED
  BY <1>3, <1>4, <1>5 DEF Checksum

\* The boot state.
LEMMA InitMirror == MirrorInit => MirrorIInv
<1> SUFFICES ASSUME MirrorInit PROVE MirrorIInv
  OBVIOUS
<1> USE ClockConstants, MirrorConstants DEF MirrorInit
<1>1. ClockInv
  BY InitClock
<1>2. Cleared \in Snapshot /\ ~Cleared.valid /\ Cleared.timestamp = 0
  <2>1. NoLabel \in DOMAIN LabelSum
    BY LabelsOfTheCode
  <2>2. 0 \in 0 .. TickMod - 1 /\ 0 \in 0 .. QueueDepth /\ 0 \in Word
    BY ChecksumWidth DEF Word
  <2> QED
    BY <2>1, <2>2 DEF Cleared, Snapshot
<1> HIDE DEF Cleared
<1>3. \A s \in Slots : snapshots[s] = Cleared
  BY DEF Slots
<1>4. MirrorTypes
  <2>1. snapshots \in [Slots -> Snapshot]
    BY <1>2
  <2>2. MirrorTypeOK
    BY <2>1 DEF MirrorTypeOK, ClockInit, FirstUser
  <2>3. taken \in Seq(Snapshot) /\ Len(taken) = 0
    BY EmptySeq
  <2> QED
    BY <2>2, <2>3, UserSlotCount DEF MirrorTypes
<1>5. BootAt
  BY DEF BootAt, ClockInit
<1>6. LiveSlot \in Slots
  BY DEF LiveSlot, Slots
<1>7. LiveAt /\ SumsAt
  BY <1>2, <1>3, <1>6 DEF LiveAt, SumsAt
<1>8. RingSlots
  <2>1. Position = 0 /\ Len(taken) = 0
    BY DEF Position, FirstUser
  <2>2. \A i \in 0 .. Snaps - 1 : FirstUser + i \in Slots
    BY DEF Snaps, FirstUser, Slots
  <2> QED
    BY <1>2, <1>3, <2>1, <2>2, UserSlotCount DEF RingSlots
<1>9. StampAt
  <2>1. 0 % TickMod = 0
    BY ModSmall
  <2> QED
    BY <1>2, <1>3, <1>6, <2>1 DEF StampAt, ClockInit
<1> QED
  BY <1>1, <1>4, <1>5, <1>7, <1>8, <1>9 DEF MirrorIInv

\* Steps that leave the engine alone: the clock's and the other tasks'.
LEMMA ClockMirror ==
    ASSUME MirrorIInv, [ClockNext]_clockVars, UNCHANGED <<mirrorVars, g_kernel_state>>,
           pending' \in 0 .. QueueDepth, g_kernel_state # "INIT" \/ pc' = pc
    PROVE  MirrorIInv'
<1> USE ClockConstants, MirrorConstants
<1>1. ClockInv'
  BY StepClock DEF MirrorIInv
<1>2. /\ g_kernel_state' = g_kernel_state /\ snapshots' = snapshots /\ sync_count' = sync_count
      /\ snap_slot' = snap_slot /\ taken' = taken /\ synced' = synced
  BY DEF mirrorVars
<1>3. g_tick_count' \in 0 .. TickMod - 1
  <2> DEFINE count == irqs' + beats' - lost'
  <2>1. count \in Int /\ TickMod \in Nat \ {0}
    BY <1>1 DEF ClockInv, ClockTypes
  <2>2. g_tick_count' = count % TickMod
    BY <1>1 DEF ClockInv, LostOnlyInHeartbeat
  <2> HIDE DEF count
  <2> QED
    BY <2>1, <2>2, ModRange
<1>4. MirrorTypes'
  BY <1>2, <1>3 DEF MirrorIInv, MirrorTypes, MirrorTypeOK
<1>5. BootAt' /\ LiveAt' /\ SumsAt' /\ RingSlots'
  <2>1. BootAt' /\ LiveAt' /\ SumsAt'
    BY <1>2 DEF MirrorIInv, BootAt, LiveAt, SumsAt, Checksum
  <2>2. RingSlots'
    BY <1>2 DEF MirrorIInv, RingSlots, Position
  <2> QED
    BY <2>1, <2>2
<1>6. StampAt'
  <2>1. /\ irqs \in Nat /\ beats \in Nat /\ window \in Nat /\ lost \in Nat
        /\ synced.irqs \in Nat /\ synced.beats \in Nat /\ synced.lost \in Nat
    BY DEF MirrorIInv, ClockInv, ClockTypes, MirrorTypes
  <2>2. CASE Irq0
    BY <1>2, <2>1, <2>2 DEF Irq0, MirrorIInv, StampAt
  <2>3. CASE HeartbeatLoad
    BY <1>2, <2>1, <2>3 DEF HeartbeatLoad, MirrorIInv, StampAt
  <2>4. CASE HeartbeatStore
    BY <1>2, <2>1, <2>4 DEF HeartbeatStore, MirrorIInv, StampAt
  <2>5. CASE UNCHANGED clockVars
    BY <1>2, <2>1, <2>5 DEF clockVars, MirrorIInv, StampAt
  <2> QED
    BY <2>2, <2>3, <2>4, <2>5 DEF ClockNext
<1> QED
  BY <1>1, <1>4, <1>5, <1>6 DEF MirrorIInv

\* What a call of mirror_sync does to the live slot and to the counters,
\* whatever else its caller writes.
LEMMA SyncMirror ==
    ASSUME MirrorIInv, Synced, pc = "idle", UNCHANGED clockVars, snapshots'[LiveSlot] = Live
    PROVE  /\ ClockInv' /\ LiveAt' /\ StampAt'
           /\ sync_count' \in 1 .. MaxSyncs /\ pending' \in 0 .. QueueDepth
           /\ synced' \in [irqs : Nat, beats : Nat, lost : Nat]
           /\ g_tick_count' \in 0 .. TickMod - 1
<1> USE ClockConstants, MirrorConstants
<1>1. ClockInv'
  BY StepClock DEF MirrorIInv
<1>2. MirrorTypes /\ sync_count \in 0 .. MaxSyncs /\ pending \in 0 .. QueueDepth
      /\ g_tick_count \in 0 .. TickMod - 1
  BY DEF MirrorIInv, MirrorTypes, MirrorTypeOK
<1>3. /\ irqs \in Nat /\ beats \in Nat /\ window \in Nat /\ lost \in Nat
      /\ irqs' = irqs /\ beats' = beats /\ lost' = lost /\ pc' = pc
      /\ g_tick_count' = g_tick_count
  BY DEF MirrorIInv, ClockInv, ClockTypes, clockVars
<1>4. sync_count' = sync_count + 1 /\ sync_count' \in 1 .. MaxSyncs
  BY <1>2 DEF Synced
<1>5. pending' \in 0 .. QueueDepth
  BY <1>2 DEF Synced, PendingAfter
<1>6. synced' = [irqs |-> irqs, beats |-> beats, lost |-> lost]
  BY DEF Synced
<1>7. LiveAt'
  <2>1. sync_count > 0 => snapshots[LiveSlot].label = "LIVE"
    BY DEF MirrorIInv, LiveAt
  <2>2. sync_count' > 1 => Live.checksum = Checksum(Live)
    BY <1>2, <1>4, <2>1, LiveShape
  <2> QED
    BY <1>2, <1>4, <2>2, LiveShape DEF LiveAt, Checksum
<1>8. StampAt'
  <2>1. g_tick_count = (irqs + beats - lost) % TickMod
    BY DEF MirrorIInv, ClockInv, LostOnlyInHeartbeat
  <2>2. synced'.irqs = irqs /\ synced'.beats = beats /\ synced'.lost = lost
    BY <1>6
  <2> QED
    BY <1>2, <1>3, <2>1, <2>2, LiveShape DEF StampAt
<1> QED
  BY <1>1, <1>2, <1>3, <1>4, <1>5, <1>6, <1>7, <1>8

\* The slots the menu captures into lie beside the live and the boot slot.
LEMMA SlotPlaces ==
    /\ LiveSlot \in Slots /\ BootSlot \in Slots /\ LiveSlot # BootSlot
    /\ \A i \in 0 .. Snaps - 1 : FirstUser + i \in Slots \ {LiveSlot, BootSlot}
    /\ \A u \in UserSlots : u \in Slots /\ u - FirstUser \in 0 .. Snaps - 1
  BY MirrorConstants DEF LiveSlot, BootSlot, FirstUser, Snaps, Slots, UserSlots

\* The slot of key '4' and the next one.
LEMMA NextSlot ==
    ASSUME MirrorTypes
    PROVE  /\ ThisSlot - FirstUser \in 0 .. Snaps - 1 /\ ThisSlot \in Slots
           /\ ThisSlot # LiveSlot /\ ThisSlot # BootSlot /\ ThisSlot < MirrorSlots
           /\ ThisSlot + 1 \in FirstUser .. MirrorSlots
           /\ ThisSlot - FirstUser = IF Position = Snaps THEN 0 ELSE Position
           /\ Position \in 0 .. Snaps
  BY MirrorConstants
  DEF MirrorTypes, MirrorTypeOK, ThisSlot, FirstUser, Snaps, Position, Slots, LiveSlot, BootSlot

LEMMA MenuRunMirror == MirrorIInv /\ MenuRun => MirrorIInv'
<1> SUFFICES ASSUME MirrorIInv, MenuRun PROVE MirrorIInv'
  OBVIOUS
<1> DEFINE boot == Copy("boot-snapshot")
<1>1. /\ MirrorTypes /\ snapshots \in [Slots -> Snapshot] /\ pc = "idle"
      /\ snap_slot \in FirstUser .. MirrorSlots
  BY DEF MirrorIInv, MirrorTypes, MirrorTypeOK, BootAt, MenuRun
<1>2. /\ Synced /\ snapshots' = [snapshots EXCEPT ![LiveSlot] = Live, ![BootSlot] = boot]
      /\ UNCHANGED clockVars /\ snap_slot' = snap_slot /\ taken' = taken
      /\ g_kernel_state' = "RUN"
  BY MirrorConstants DEF MenuRun, Capture, BootSlot
<1>3. boot \in Snapshot /\ boot.checksum = Checksum(boot) /\ Live \in Snapshot
  <2>1. "boot-snapshot" \in DOMAIN LabelSum
    BY LabelsOfTheCode
  <2> QED
    BY <1>1, <2>1, CopyShape, LiveShape
<1> HIDE DEF boot
<1>4. /\ snapshots' \in [Slots -> Snapshot] /\ snapshots'[LiveSlot] = Live
      /\ snapshots'[BootSlot] = boot
      /\ \A s \in Slots \ {LiveSlot, BootSlot} : snapshots'[s] = snapshots[s]
  BY <1>1, <1>2, <1>3, SlotPlaces
<1>5. /\ ClockInv' /\ LiveAt' /\ StampAt'
      /\ sync_count' \in 1 .. MaxSyncs /\ pending' \in 0 .. QueueDepth
      /\ synced' \in [irqs : Nat, beats : Nat, lost : Nat]
      /\ g_tick_count' \in 0 .. TickMod - 1
  BY <1>1, <1>2, <1>4, SyncMirror
<1>6. MirrorTypes'
  BY <1>1, <1>2, <1>4, <1>5, MirrorConstants DEF MirrorTypes, MirrorTypeOK
<1>7. SumsAt'
  <2> SUFFICES ASSUME NEW s \in Slots \ {LiveSlot}, snapshots'[s].valid
               PROVE  snapshots'[s].checksum = Checksum(snapshots'[s])
    BY DEF SumsAt, Checksum
  <2>1. CASE s = BootSlot
    BY <1>3, <1>4, <2>1
  <2>2. CASE s # BootSlot
    BY <1>4, <2>2 DEF MirrorIInv, SumsAt
  <2> QED
    BY <2>1, <2>2
<1>8. RingSlots'
  <2>1. \A i \in 0 .. Snaps - 1 : snapshots'[FirstUser + i] = snapshots[FirstUser + i]
    BY <1>4, SlotPlaces
  <2>2. Position' = Position /\ taken' = taken
    BY <1>2 DEF Position
  <2> QED
    BY <2>1, <2>2 DEF MirrorIInv, RingSlots
<1> QED
  BY <1>2, <1>5, <1>6, <1>7, <1>8 DEF MirrorIInv, BootAt

LEMMA SyncTaskMirror == MirrorIInv /\ MirrorSync => MirrorIInv'
<1> SUFFICES ASSUME MirrorIInv, MirrorSync PROVE MirrorIInv'
  OBVIOUS
<1>1. MirrorTypes /\ snapshots \in [Slots -> Snapshot] /\ Live \in Snapshot
  BY LiveShape DEF MirrorIInv, MirrorTypes, MirrorTypeOK
<1>2. /\ Synced /\ pc = "idle" /\ snapshots' = [snapshots EXCEPT ![LiveSlot] = Live]
      /\ UNCHANGED clockVars /\ snap_slot' = snap_slot /\ taken' = taken
      /\ g_kernel_state' = g_kernel_state /\ g_kernel_state = "RUN"
  BY DEF MirrorSync
<1>3. /\ snapshots' \in [Slots -> Snapshot] /\ snapshots'[LiveSlot] = Live
      /\ \A s \in Slots \ {LiveSlot} : snapshots'[s] = snapshots[s]
  BY <1>1, <1>2, SlotPlaces
<1>4. /\ ClockInv' /\ LiveAt' /\ StampAt'
      /\ sync_count' \in 1 .. MaxSyncs /\ pending' \in 0 .. QueueDepth
      /\ synced' \in [irqs : Nat, beats : Nat, lost : Nat]
      /\ g_tick_count' \in 0 .. TickMod - 1
  BY <1>2, <1>3, SyncMirror
<1>5. MirrorTypes'
  BY <1>1, <1>2, <1>3, <1>4, MirrorConstants DEF MirrorTypes, MirrorTypeOK
<1>6. SumsAt'
  BY <1>3 DEF MirrorIInv, SumsAt, Checksum
<1>7. RingSlots'
  <2>1. \A i \in 0 .. Snaps - 1 : snapshots'[FirstUser + i] = snapshots[FirstUser + i]
    BY <1>3, SlotPlaces
  <2>2. Position' = Position /\ taken' = taken
    BY <1>2 DEF Position
  <2> QED
    BY <2>1, <2>2 DEF MirrorIInv, RingSlots
<1> QED
  BY <1>2, <1>4, <1>5, <1>6, <1>7 DEF MirrorIInv, BootAt

\* The history of captures: the new one last, the oldest out when the slots
\* are all in use.
Kept(new) == IF Len(Append(taken, new)) > Snaps THEN Tail(Append(taken, new)) ELSE Append(taken, new)

LEMMA KeptIs ==
    ASSUME MirrorTypes, NEW new \in Snapshot
    PROVE  /\ Kept(new) \in Seq(Snapshot)
           /\ Len(taken) < Snaps =>
                /\ Len(Kept(new)) = Len(taken) + 1
                /\ \A k \in 1 .. Len(taken) : Kept(new)[k] = taken[k]
                /\ Kept(new)[Len(taken) + 1] = new
           /\ Len(taken) = Snaps =>
                /\ Len(Kept(new)) = Snaps
                /\ \A k \in 1 .. Snaps - 1 : Kept(new)[k] = taken[k + 1]
                /\ Kept(new)[Snaps] = new
<1> DEFINE all == Append(taken, new)
<1>1. /\ taken \in Seq(Snapshot) /\ Len(taken) \in Nat /\ Len(taken) <= Snaps
      /\ Snaps \in Nat \ {0}
  BY UserSlotCount DEF MirrorTypes
<1>2. /\ all \in Seq(Snapshot) /\ Len(all) = Len(taken) + 1
      /\ \A k \in 1 .. Len(taken) : all[k] = taken[k]
      /\ all[Len(taken) + 1] = new
  BY <1>1
<1> HIDE DEF all
<1>3. CASE Len(taken) < Snaps
  <2>1. Kept(new) = all
    BY <1>1, <1>2, <1>3 DEF Kept, all
  <2> QED
    BY <1>1, <1>2, <1>3, <2>1
<1>4. CASE Len(taken) = Snaps
  <2>1. Kept(new) = Tail(all)
    BY <1>1, <1>2, <1>4 DEF Kept, all
  <2>2. /\ Tail(all) \in Seq(Snapshot) /\ Len(Tail(all)) = Len(all) - 1
        /\ \A k \in 1 .. Len(all) - 1 : Tail(all)[k] = all[k + 1]
    BY <1>1, <1>2
  <2> QED
    BY <1>1, <1>2, <1>4, <2>1, <2>2
<1> QED
  BY <1>1, <1>3, <1>4

LEMMA Key4Mirror == MirrorIInv /\ Key4 => MirrorIInv'
<1> SUFFICES ASSUME MirrorIInv, Key4 PROVE MirrorIInv'
  OBVIOUS
<1> DEFINE new == Copy("user-snap")
           p   == ThisSlot - FirstUser
<1>1. /\ MirrorTypes /\ snapshots \in [Slots -> Snapshot] /\ pc = "idle"
      /\ taken \in Seq(Snapshot) /\ Len(taken) \in Nat /\ Len(taken) <= Snaps
      /\ g_kernel_state = "RUN"
  BY DEF MirrorIInv, MirrorTypes, MirrorTypeOK, Key4, MenuTakes
<1>2. /\ p \in 0 .. Snaps - 1 /\ ThisSlot \in Slots /\ ThisSlot = FirstUser + p
      /\ ThisSlot # LiveSlot /\ ThisSlot # BootSlot /\ ThisSlot < MirrorSlots
      /\ ThisSlot + 1 \in FirstUser .. MirrorSlots
      /\ p = IF Position = Snaps THEN 0 ELSE Position
      /\ Position \in 0 .. Snaps
  <2>1. ThisSlot \in Int /\ FirstUser \in Int
    BY <1>1, NextSlot, MirrorConstants DEF Slots, FirstUser
  <2>2. ThisSlot = FirstUser + p
    BY <2>1
  <2> QED
    BY <1>1, <2>2, NextSlot
<1>3. /\ Synced
      /\ snapshots' = [snapshots EXCEPT ![LiveSlot] = Live, ![ThisSlot] = new]
      /\ UNCHANGED clockVars /\ snap_slot' = ThisSlot + 1 /\ g_kernel_state' = "RUN"
  <2>1. ~(ThisSlot >= MirrorSlots)
    BY <1>2, MirrorConstants DEF Slots
  <2> QED
    BY <1>1, <2>1 DEF Key4, Capture
<1>4. taken' = Kept(new)
  BY UserSlotCount DEF Key4, Kept
<1>5. new \in Snapshot /\ new.valid /\ new.checksum = Checksum(new) /\ Live \in Snapshot
  <2>1. "user-snap" \in DOMAIN LabelSum
    BY LabelsOfTheCode
  <2> QED
    BY <1>1, <2>1, CopyShape, LiveShape
<1> HIDE DEF new, p
<1>6. /\ snapshots' \in [Slots -> Snapshot] /\ snapshots'[LiveSlot] = Live
      /\ snapshots'[ThisSlot] = new
      /\ \A s \in Slots \ {LiveSlot, ThisSlot} : snapshots'[s] = snapshots[s]
  BY <1>1, <1>2, <1>3, <1>5, SlotPlaces
<1>7. /\ ClockInv' /\ LiveAt' /\ StampAt'
      /\ sync_count' \in 1 .. MaxSyncs /\ pending' \in 0 .. QueueDepth
      /\ synced' \in [irqs : Nat, beats : Nat, lost : Nat]
      /\ g_tick_count' \in 0 .. TickMod - 1
  BY <1>1, <1>3, <1>6, SyncMirror
<1>8. /\ taken' \in Seq(Snapshot)
      /\ Len(taken) < Snaps =>
           /\ Len(taken') = Len(taken) + 1
           /\ \A k \in 1 .. Len(taken) : taken'[k] = taken[k]
           /\ taken'[Len(taken) + 1] = new
      /\ Len(taken) = Snaps =>
           /\ Len(taken') = Snaps
           /\ \A k \in 1 .. Snaps - 1 : taken'[k] = taken[k + 1]
           /\ taken'[Snaps] = new
  BY <1>1, <1>4, <1>5, KeptIs, Zenon
<1>9. MirrorTypes'
  <2>1. MirrorTypeOK'
    BY <1>2, <1>3, <1>6, <1>7, MirrorConstants DEF MirrorTypeOK
  <2>2. Len(taken') <= Snaps
    BY <1>1, <1>8, UserSlotCount
  <2> QED
    BY <1>7, <1>8, <2>1, <2>2 DEF MirrorTypes
<1>10. SumsAt'
  <2> SUFFICES ASSUME NEW s \in Slots \ {LiveSlot}, snapshots'[s].valid
               PROVE  snapshots'[s].checksum = Checksum(snapshots'[s])
    BY DEF SumsAt, Checksum
  <2>1. CASE s = ThisSlot
    BY <1>5, <1>6, <2>1
  <2>2. CASE s # ThisSlot
    BY <1>6, <2>2 DEF MirrorIInv, SumsAt
  <2> QED
    BY <2>1, <2>2
<1>11. RingSlots'
  <2> DEFINE n == Len(taken)
  <2>1. /\ n \in Nat /\ n <= Snaps /\ Snaps \in Nat \ {0}
        /\ n < Snaps => n = Position
        /\ \A k \in 1 .. n : taken[k].valid
    BY <1>1, UserSlotCount DEF MirrorIInv, RingSlots
  <2>2. \A i \in 0 .. Snaps - 1 :
           /\ i < Position => snapshots[FirstUser + i] = taken[n - Position + i + 1]
           /\ i >= Position /\ n = Snaps => snapshots[FirstUser + i] = taken[i - Position + 1]
           /\ i >= Position /\ n < Snaps => ~snapshots[FirstUser + i].valid
    BY <2>1 DEF MirrorIInv, RingSlots
  <2>3. \A i \in 0 .. Snaps - 1 :
           /\ i = p => snapshots'[FirstUser + i] = new
           /\ i # p => snapshots'[FirstUser + i] = snapshots[FirstUser + i]
    BY <1>2, <1>6, SlotPlaces DEF FirstUser
  <2>4. Position' = p + 1
    BY <1>2, <1>3, <1>9 DEF Position, FirstUser
  <2> HIDE DEF n
  <2>5. CASE n < Snaps
    <3>1. p = n /\ Position = n /\ Len(taken') = n + 1
      BY <1>2, <1>8, <2>1, <2>5 DEF n
    <3>2. \A k \in 1 .. n : taken'[k] = taken[k]
      BY <1>8, <2>5 DEF n
    <3>3. taken'[n + 1] = new
      BY <1>8, <2>5 DEF n
    <3>4. \A k \in 1 .. n + 1 : taken'[k].valid
      BY <1>5, <2>1, <3>2, <3>3
    <3>5. ASSUME NEW i \in 0 .. Snaps - 1
          PROVE  /\ i < n + 1 => snapshots'[FirstUser + i] = taken'[i + 1]
                 /\ i >= n + 1 => ~snapshots'[FirstUser + i].valid
      <4>1. CASE i < n
        <5>1. snapshots[FirstUser + i] = taken[i + 1]
          <6>1. n - Position + i + 1 = i + 1
            BY <2>1, <3>1
          <6> QED
            BY <2>2, <3>1, <4>1, <6>1
        <5>2. taken'[i + 1] = taken[i + 1]
          BY <2>1, <3>2, <4>1
        <5> QED
          BY <2>1, <2>3, <3>1, <4>1, <5>1, <5>2
      <4>2. CASE i = n
        BY <2>1, <2>3, <3>1, <3>3, <4>2
      <4>3. CASE i > n
        BY <2>1, <2>2, <2>3, <2>5, <3>1, <4>3
      <4> QED
        BY <2>1, <4>1, <4>2, <4>3
    <3>6. Len(taken') < Snaps => Len(taken') = Position'
      BY <2>1, <2>4, <3>1
    <3>7. \A i \in 0 .. Snaps - 1 :
             /\ i < Position' => snapshots'[FirstUser + i] = taken'[Len(taken') - Position' + i + 1]
             /\ i >= Position' =>
                  IF Len(taken') = Snaps
                  THEN snapshots'[FirstUser + i] = taken'[i - Position' + 1]
                  ELSE ~snapshots'[FirstUser + i].valid
      <4> TAKE i \in 0 .. Snaps - 1
      <4>1. Position' = n + 1 /\ Len(taken') - Position' + i + 1 = i + 1
        BY <2>1, <2>4, <3>1
      <4>2. i >= Position' => Len(taken') # Snaps
        BY <2>1, <2>4, <3>1
      <4> QED
        BY <2>1, <3>5, <4>1, <4>2
    <3>8. \A k \in 1 .. Len(taken') : taken'[k].valid
      BY <3>1, <3>4
    <3> QED
      BY <3>6, <3>7, <3>8 DEF RingSlots
  <2>6. CASE n = Snaps
    <3>1. Len(taken') = Snaps
      BY <1>8, <2>6 DEF n
    <3>2. \A k \in 1 .. Snaps - 1 : taken'[k] = taken[k + 1]
      BY <1>8, <2>6 DEF n
    <3>3. taken'[Snaps] = new
      BY <1>8, <2>6 DEF n
    <3>4. \A k \in 1 .. Snaps : taken'[k].valid
      <4> TAKE k \in 1 .. Snaps
      <4>1. CASE k = Snaps
        BY <1>5, <3>3, <4>1
      <4>2. CASE k # Snaps
        <5>1. k \in 1 .. Snaps - 1 /\ k + 1 \in 1 .. n
          BY <2>1, <2>6, <4>2
        <5> QED
          BY <2>1, <3>2, <5>1
      <4> QED
        BY <4>1, <4>2
    <3>5. ASSUME NEW i \in 0 .. Snaps - 1
          PROVE  /\ i < p + 1 => snapshots'[FirstUser + i] = taken'[Snaps - p + i]
                 /\ i >= p + 1 => snapshots'[FirstUser + i] = taken'[i - p]
      <4>1. CASE i = p
        <5>1. Snaps - p + i = Snaps
          BY <1>2, <2>1, <4>1
        <5> QED
          BY <1>2, <2>3, <3>3, <4>1, <5>1
      <4>2. CASE i < p
        <5>1. Position = p /\ n - Position + i + 1 = Snaps - p + i + 1
          BY <1>2, <2>1, <2>6, <4>2
        <5>2. Snaps - p + i \in 1 .. Snaps - 1
          BY <1>2, <2>1, <4>2
        <5>3. snapshots[FirstUser + i] = taken[Snaps - p + i + 1]
          BY <2>2, <4>2, <5>1
        <5> QED
          BY <1>2, <2>3, <3>2, <4>2, <5>2, <5>3
      <4>3. CASE i > p
        <5>1. i - p \in 1 .. Snaps - 1
          BY <1>2, <2>1, <4>3
        <5>2. snapshots[FirstUser + i] = taken[i - p + 1]
          <6>1. CASE Position = Snaps
            <7>1. n - Position + i + 1 = i - p + 1 /\ i < Position
              BY <1>2, <2>1, <2>6, <6>1
            <7> QED
              BY <2>2, <7>1
          <6>2. CASE Position # Snaps
            <7>1. Position = p /\ i >= Position
              BY <1>2, <4>3, <6>2
            <7> QED
              BY <2>2, <2>6, <7>1
          <6> QED
            BY <6>1, <6>2
        <5> QED
          BY <1>2, <2>3, <3>2, <4>3, <5>1, <5>2
      <4> QED
        BY <1>2, <4>1, <4>2, <4>3
    <3>6. \A i \in 0 .. Snaps - 1 :
             /\ i < Position' => snapshots'[FirstUser + i] = taken'[Len(taken') - Position' + i + 1]
             /\ i >= Position' => snapshots'[FirstUser + i] = taken'[i - Position' + 1]
      <4> TAKE i \in 0 .. Snaps - 1
      <4>1. Len(taken') - Position' + i + 1 = Snaps - p + i /\ i - Position' + 1 = i - p
        BY <1>2, <2>1, <2>4, <3>1
      <4> QED
        BY <2>4, <3>5, <4>1
    <3> QED
      BY <2>1, <3>1, <3>4, <3>6 DEF RingSlots
  <2> QED
    BY <2>1, <2>5, <2>6
<1> QED
  BY <1>3, <1>7, <1>9, <1>10, <1>11 DEF MirrorIInv, BootAt

\* Keys '[R]', '[K]' and '[Q]'.
LEMMA KeysMirror == MirrorIInv /\ (KeyR \/ KeyKQ) => MirrorIInv'
<1>1. ASSUME MirrorIInv, KeyR PROVE MirrorIInv'
  <2>1. /\ UNCHANGED clockVars /\ UNCHANGED <<mirrorVars, g_kernel_state>>
        /\ pending' \in 0 .. QueueDepth /\ pc' = pc
    BY <1>1, MirrorConstants
    DEF KeyR, clockVars, MirrorIInv, MirrorTypes, MirrorTypeOK, PendingAfter
  <2> QED
    BY <1>1, <2>1, ClockMirror
<1>2. ASSUME MirrorIInv, KeyKQ PROVE MirrorIInv'
  <2>1. /\ UNCHANGED clockVars /\ g_kernel_state' = "PANIC"
        /\ snapshots' = snapshots /\ sync_count' = sync_count /\ snap_slot' = snap_slot
        /\ taken' = taken /\ synced' = synced /\ pending' = pending
    BY <1>2 DEF KeyKQ, mirrorVars
  <2>2. ClockInv'
    BY <1>2, <2>1, StepClock DEF MirrorIInv
  <2>3. MirrorTypes'
    BY <1>2, <2>1 DEF MirrorIInv, MirrorTypes, MirrorTypeOK, clockVars
  <2>4. BootAt' /\ LiveAt' /\ SumsAt'
    BY <1>2, <2>1 DEF MirrorIInv, BootAt, LiveAt, SumsAt, Checksum
  <2>5. RingSlots'
    BY <1>2, <2>1 DEF MirrorIInv, RingSlots, Position
  <2>6. StampAt'
    BY <1>2, <2>1 DEF MirrorIInv, StampAt, clockVars
  <2> QED
    BY <2>2, <2>3, <2>4, <2>5, <2>6 DEF MirrorIInv
<1> QED
  BY <1>1, <1>2

LEMMA ClockStepMirror == MirrorIInv /\ Clock => MirrorIInv'
<1> SUFFICES ASSUME MirrorIInv, Clock PROVE MirrorIInv'
  OBVIOUS
<1>1. /\ ClockNext /\ UNCHANGED <<mirrorVars, g_kernel_state>>
      /\ pending' = pending /\ (g_kernel_state # "INIT" \/ pc' = pc)
  BY DEF Clock, ClockNext, Irq0
<1>2. pending' \in 0 .. QueueDepth
  BY <1>1 DEF MirrorIInv, MirrorTypes, MirrorTypeOK
<1> QED
  BY <1>1, <1>2, ClockMirror

LEMMA OtherStepMirror == MirrorIInv /\ (OtherTasks \/ UNCHANGED allVars) => MirrorIInv'
<1> SUFFICES ASSUME MirrorIInv, OtherTasks \/ UNCHANGED allVars PROVE MirrorIInv'
  OBVIOUS
<1>1. /\ UNCHANGED clockVars /\ UNCHANGED <<mirrorVars, g_kernel_state>> /\ pc' = pc
      /\ pending' \in 0 .. QueueDepth
  BY DEF OtherTasks, allVars, clockVars, MirrorIInv, MirrorTypes, MirrorTypeOK
<1> QED
  BY <1>1, ClockMirror

LEMMA StepMirror == MirrorIInv /\ [MirrorNext]_allVars => MirrorIInv'
  BY MenuRunMirror, SyncTaskMirror, Key4Mirror, KeysMirror, ClockStepMirror, OtherStepMirror
  DEF MirrorNext

\* The slots hold the latest captures, each once.
LEMMA RingHolds == MirrorIInv => SnapshotInv
<1> SUFFICES ASSUME MirrorIInv PROVE SnapshotInv
  OBVIOUS
<1>1. MirrorTypeOK /\ sync_count \in 0 .. MaxSyncs /\ taken \in Seq(Snapshot)
      /\ Len(taken) \in Nat /\ Len(taken) <= Snaps
  BY DEF MirrorIInv, MirrorTypes, MirrorTypeOK
<1>2. CapturesVerify
  <2> SUFFICES ASSUME NEW s \in Slots, snapshots[s].valid
               PROVE  Verify(s) \/ (s = LiveSlot /\ sync_count = 1)
    BY DEF CapturesVerify
  <2>0. LiveAt /\ SumsAt
    BY DEF MirrorIInv
  <2>1. CASE s = LiveSlot
    <3>1. sync_count \in Nat
      BY <1>1, MirrorConstants
    <3>2. CASE sync_count > 1
      BY <2>0, <2>1, <3>2, Zenon DEF LiveAt, Verify
    <3>3. CASE sync_count = 0
      BY <2>0, <2>1, <3>3, Zenon DEF LiveAt
    <3> QED
      BY <2>1, <3>1, <3>2, <3>3
  <2>2. CASE s # LiveSlot
    BY <2>0, <2>2, Zenon DEF SumsAt, Verify
  <2> QED
    BY <2>1, <2>2
<1>3. RecentCapturesKept
  <2> DEFINE n == Len(taken)
             held == {snapshots[s] : s \in {u \in UserSlots : snapshots[u].valid}}
             last == {taken[k] : k \in DOMAIN taken}
  <2>0. /\ n \in Nat /\ n <= Snaps /\ Snaps \in Nat \ {0} /\ Position \in 0 .. Snaps
        /\ n < Snaps => n = Position
        /\ \A k \in 1 .. n : taken[k].valid
        /\ DOMAIN taken = 1 .. n
    <3>1. Position \in 0 .. Snaps
      BY NextSlot DEF MirrorIInv
    <3>2. DOMAIN taken = 1 .. n /\ n \in Nat /\ n <= Snaps
      BY <1>1
    <3> QED
      BY <3>1, <3>2, UserSlotCount, Zenon DEF MirrorIInv, RingSlots
  <2>1. \A i \in 0 .. Snaps - 1 :
           /\ i < Position => snapshots[FirstUser + i] = taken[n - Position + i + 1]
           /\ i >= Position /\ n = Snaps => snapshots[FirstUser + i] = taken[i - Position + 1]
           /\ i >= Position /\ n < Snaps => ~snapshots[FirstUser + i].valid
    <3>1. RingSlots
      BY DEF MirrorIInv
    <3>2. n < Snaps => n # Snaps
      BY <2>0
    <3> QED
      BY <3>1, <3>2, Zenon DEF RingSlots
  <2> HIDE DEF n
  <2>2. held \subseteq last
    <3> SUFFICES ASSUME NEW u \in UserSlots, snapshots[u].valid
                 PROVE  \E k \in 1 .. n : snapshots[u] = taken[k]
      BY <2>0
    <3> DEFINE i == u - FirstUser
    <3>1. i \in 0 .. Snaps - 1 /\ FirstUser + i = u
      BY SlotPlaces, MirrorConstants DEF FirstUser, UserSlots
    <3> HIDE DEF i
    <3>2. CASE i < Position
      <4>1. n - Position + i + 1 \in 1 .. n
        BY <2>0, <3>1, <3>2
      <4>2. snapshots[u] = taken[n - Position + i + 1]
        BY <2>1, <3>1, <3>2
      <4> QED
        BY <4>1, <4>2
    <3>3. CASE i >= Position
      <4>1. n = Snaps
        BY <2>0, <2>1, <3>1, <3>3
      <4>2. i - Position + 1 \in 1 .. n
        BY <2>0, <3>1, <3>3, <4>1
      <4>3. snapshots[u] = taken[i - Position + 1]
        BY <2>1, <3>1, <3>3, <4>1
      <4> QED
        BY <4>2, <4>3
    <3> QED
      BY <2>0, <3>1, <3>2, <3>3
  <2>3. last \subseteq held
    <3> SUFFICES ASSUME NEW k \in 1 .. n
                 PROVE  \E i \in 0 .. Snaps - 1 : snapshots[FirstUser + i] = taken[k]
      <4>1. \A i \in 0 .. Snaps - 1 : FirstUser + i \in UserSlots
        BY MirrorConstants DEF FirstUser, Snaps, UserSlots
      <4> QED
        BY <2>0, <4>1
    <3> DEFINE i == k - 1 + Position - n
    <3>1. CASE i >= 0
      <4>1. i \in 0 .. Snaps - 1 /\ i < Position /\ n - Position + i + 1 = k
        BY <2>0, <3>1
      <4> QED
        BY <2>1, <4>1
    <3>2. CASE i < 0
      <4>1. n = Snaps /\ k - 1 + Position \in 0 .. Snaps - 1 /\ k - 1 + Position >= Position
            /\ (k - 1 + Position) - Position + 1 = k
        BY <2>0, <3>2
      <4> QED
        BY <2>1, <4>1
    <3> QED
      BY <2>0, <3>1, <3>2
  <2>4. held = last
    <3> HIDE DEF held, last
    <3> QED
      BY <2>2, <2>3
  <2> QED
    BY <2>4, Zenon DEF RecentCapturesKept
<1> QED
  BY <1>1, <1>2, <1>3 DEF SnapshotInv

\* The user's slots hold the latest captures, as many as there are slots, and
\* every captured snapshot verifies: for any number of slots and of captures,
\* and whatever operation sums the fields up.
THEOREM SnapshotsAreKept == MirrorSpec => []SnapshotInv
  BY InitMirror, StepMirror, RingHolds, PTL DEF MirrorSpec

\* '[R]' restores from the snapshot menu_run took: no key and no task writes
\* the boot slot afterwards.
THEOREM BootSlotIsKept == MirrorSpec => BootSnapshotKept
<1> DEFINE Keeps == g_kernel_state = "RUN" => snapshots'[BootSlot] = snapshots[BootSlot]
<1>1. ASSUME MirrorIInv, [MirrorNext]_allVars PROVE [Keeps]_allVars
  <2> SUFFICES ASSUME g_kernel_state = "RUN", MirrorNext
               PROVE  snapshots'[BootSlot] = snapshots[BootSlot]
    BY <1>1
  <2>1. MirrorTypes /\ snapshots \in [Slots -> Snapshot]
    BY <1>1 DEF MirrorIInv, MirrorTypes, MirrorTypeOK
  <2>2. CASE MirrorSync
    BY <2>1, <2>2, SlotPlaces DEF MirrorSync
  <2>3. CASE Key4
    <3>1. ThisSlot \in Slots /\ ThisSlot # BootSlot /\ ~(ThisSlot >= MirrorSlots)
      BY <2>1, NextSlot, MirrorConstants DEF Slots
    <3> QED
      BY <2>1, <2>3, <3>1, SlotPlaces DEF Key4, Capture
  <2>4. CASE MenuRun
    BY <2>4 DEF MenuRun
  <2>5. CASE KeyR \/ KeyKQ \/ Clock \/ OtherTasks
    BY <2>5 DEF KeyR, KeyKQ, Clock, OtherTasks, mirrorVars
  <2> QED
    BY <2>2, <2>3, <2>4, <2>5 DEF MirrorNext
<1> HIDE DEF Keeps
<1>2. MirrorSpec => [][Keeps]_allVars
  BY InitMirror, StepMirror, <1>1, PTL DEF MirrorSpec
<1> QED
  BY <1>2 DEF BootSnapshotKept, Keeps

\* The difference of two counts, taken in the counter's width.
LEMMA ModDifference ==
    ASSUME NEW d \in Nat \ {0}, NEW a \in Int, NEW b \in Int
    PROVE  ((a % d) - (b % d)) % d = (a - b) % d
<1> DEFINE q1 == a \div d
           r1 == a % d
           q2 == b \div d
           r2 == b % d
<1>1. q1 \in Int /\ r1 \in 0 .. d - 1 /\ a = d * q1 + r1
  BY DivMod, ModRange
<1>2. q2 \in Int /\ r2 \in 0 .. d - 1 /\ b = d * q2 + r2
  BY DivMod, ModRange
<1> HIDE DEF q1, r1, q2, r2
<1>3. CASE r1 >= r2
  <2>1. r1 - r2 \in 0 .. d - 1 /\ q1 - q2 \in Int /\ a - b = d * (q1 - q2) + (r1 - r2)
    BY <1>1, <1>2, <1>3
  <2>2. (d * (q1 - q2) + (r1 - r2)) % d = r1 - r2
    BY <2>1, ModUnique
  <2>3. (r1 - r2) % d = r1 - r2
    BY <2>1, ModSmall
  <2> QED
    BY <2>1, <2>2, <2>3 DEF r1, r2
<1>4. CASE r1 < r2
  <2>1. /\ d + r1 - r2 \in 0 .. d - 1 /\ q1 - q2 - 1 \in Int /\ -1 \in Int
        /\ a - b = d * (q1 - q2 - 1) + (d + r1 - r2)
        /\ r1 - r2 = d * (-1) + (d + r1 - r2)
    BY <1>1, <1>2, <1>4
  <2>2. (d * (q1 - q2 - 1) + (d + r1 - r2)) % d = d + r1 - r2
    BY <2>1, ModUnique
  <2>3. (d * (-1) + (d + r1 - r2)) % d = d + r1 - r2
    BY <2>1, ModUnique
  <2> QED
    BY <2>1, <2>2, <2>3 DEF r1, r2
<1> QED
  BY <1>1, <1>2, <1>3, <1>4

\* An age computed from a stamp in the counter's width is the time elapsed:
\* across the wrap, and although a heartbeat may put the counter back.
THEOREM AgesAreDurations == MirrorSpec => []AgeIsElapsed
<1>1. MirrorIInv => AgeIsElapsed
  <2> SUFFICES ASSUME MirrorIInv, pc = "idle",
                      (beats - synced.beats) + (irqs - synced.irqs) < TickMod
               PROVE  (g_tick_count - snapshots[LiveSlot].timestamp) % TickMod
                        \in beats - synced.beats .. (beats - synced.beats) + (irqs - synced.irqs)
    BY DEF AgeIsElapsed
  <2> DEFINE now  == irqs + beats - lost
             then == synced.irqs + synced.beats - synced.lost
             gone == now - then
  <2>1. /\ irqs \in Nat /\ beats \in Nat /\ lost \in Nat
        /\ synced.irqs \in Nat /\ synced.beats \in Nat /\ synced.lost \in Nat
        /\ synced.beats <= beats /\ synced.lost <= lost
        /\ lost - synced.lost <= irqs - synced.irqs
    BY DEF MirrorIInv, ClockInv, ClockTypes, MirrorTypes, StampAt
  <2>2. TickMod \in Nat \ {0} /\ now \in Int /\ then \in Int
    BY <2>1, ClockConstants
  <2>3. g_tick_count = now % TickMod /\ snapshots[LiveSlot].timestamp = then % TickMod
    BY DEF MirrorIInv, ClockInv, LostOnlyInHeartbeat, StampAt
  <2>4. gone \in beats - synced.beats .. (beats - synced.beats) + (irqs - synced.irqs)
        /\ gone \in 0 .. TickMod - 1
    BY <2>1, <2>2
  <2> HIDE DEF now, then
  <2>5. ((now % TickMod) - (then % TickMod)) % TickMod = gone % TickMod
    BY <2>2, ModDifference
  <2>6. gone % TickMod = gone
    BY <2>2, <2>4, ModSmall
  <2> QED
    BY <2>3, <2>4, <2>5, <2>6
<1> QED
  BY InitMirror, StepMirror, <1>1, PTL DEF MirrorSpec
=============================================================================
