------------------------------ MODULE Keyboard ------------------------------
(***************************************************************************)
(* kernel/keyboard.c and its callers: the PS/2 driver runs both as the     *)
(* IRQ1 handler and, with interrupts enabled, as a scheduler task          *)
(* (keyboard_poll); menu_tick takes characters out with keyboard_getchar   *)
(* and serial_poll puts characters in with keyboard_push.  Nothing masks   *)
(* IRQ1 around the shared variables.  They are not volatile, so which      *)
(* values a routine of the main thread holds in registers while it is      *)
(* interrupted is the compiler's choice; each list of operations below is  *)
(* the order of loads and stores of the repository's build (gcc, i386,     *)
(* -O2).  The handler itself runs with interrupts off: it is one step.     *)
(*                                                                         *)
(* Scancodes are abstracted to what keyboard_poll tells apart, characters  *)
(* to the table (plain or shifted) they are taken from.  There are two     *)
(* shift keys, and one flag for both: releasing either one clears it.      *)
(***************************************************************************)
EXTENDS Naturals, Sequences

CONSTANTS BufferSize,  \* KB_BUFFER_SIZE
          MaxBytes     \* bound: scancodes and serial characters that arrive

ASSUME BufferNotEmpty == BufferSize \in Nat \ {0}
ASSUME BytesBound == MaxBytes \in Nat

ShiftKey == {"LSHIFT", "RSHIFT"}
PressOf(key)   == IF key = "LSHIFT" THEN "LSHIFT_PRESS" ELSE "RSHIFT_PRESS"
ReleaseOf(key) == IF key = "LSHIFT" THEN "LSHIFT_RELEASE" ELSE "RSHIFT_RELEASE"
Pressing  == {PressOf(key) : key \in ShiftKey}
Releasing == {ReleaseOf(key) : key \in ShiftKey}

Scancode == Pressing \cup Releasing \cup {"CAPSLOCK_PRESS", "KEY", "OTHER"}
Char     == {"plain", "shifted"}
Index    == 0 .. BufferSize - 1

VARIABLES kb_buf, kb_head, kb_tail, kb_count, shift_held, caps_active,
          obf, obuf,  \* the controller's output buffer: full?, last byte
          irq1,       \* an IRQ1 is pending
          todo,       \* what the main thread has still to execute here
          r,          \* the registers of the main thread
          sent,       \* bytes that have arrived, at most MaxBytes
          fifo,       \* history: characters accepted and not yet returned
          shiftKeys,  \* history: shift keys down, from the bytes consumed
          halfUp,     \* history: the last shift byte released one key of two
          capsOn,     \* history: caps lock, from the bytes consumed
          raced,      \* history: where an IRQ1 has hit the main thread
          got         \* history: the last getchar's result and what was next

ringVars == <<kb_buf, kb_head, kb_tail, kb_count>>
modVars  == <<shift_held, caps_active>>
portVars == <<obf, obuf, irq1>>
keyVars  == <<shiftKeys, halfUp, capsOn>>
vars     == <<ringVars, modVars, portVars, todo, r, sent, fifo, keyVars, raced, got>>

Op == {"status0", "ldcaps", "ldshift", "data", "status", "stcaps", "stshift",
       "pushcount", "ldhead", "stchar", "sthead", "stcount_up",
       "getcount", "ldtail", "stcount_down", "ldchar", "sttail"}

Registers == [count : 0 .. BufferSize, index : Index, char : Char,
              caps : BOOLEAN, shift : BOOLEAN, capsSet : BOOLEAN, shiftSet : BOOLEAN]

\* keyboard_init(): nothing typed yet, the handler registered and IRQ1 on.
Init ==
    /\ kb_buf = [k \in Index |-> "plain"]
    /\ kb_head = 0 /\ kb_tail = 0 /\ kb_count = 0
    /\ shift_held = FALSE /\ caps_active = FALSE
    /\ obf = FALSE /\ obuf = "OTHER" /\ irq1 = FALSE
    /\ todo = <<>>
    /\ r = [count |-> 0, index |-> 0, char |-> "plain", caps |-> FALSE,
            shift |-> FALSE, capsSet |-> FALSE, shiftSet |-> FALSE]
    /\ sent = 0
    /\ fifo = <<>>
    /\ shiftKeys = {} /\ halfUp = FALSE /\ capsOn = FALSE
    /\ raced = {}
    /\ got = [char |-> "none", next |-> "none"]

Idle == todo = <<>>

-----------------------------------------------------------------------------
\* The keyboard controller: it presents a byte and raises IRQ1.
Arrive(sc) ==
    /\ ~obf
    /\ sent < MaxBytes
    /\ obf' = TRUE /\ obuf' = sc /\ irq1' = TRUE
    /\ sent' = sent + 1
    /\ UNCHANGED <<ringVars, modVars, todo, r, fifo, keyVars, raced, got>>

\* "Track modifier keys"
ShiftStuck(sc, s) == s \/ sc \in Pressing

ShiftAfter(sc, s) == (s /\ sc \notin Releasing) \/ sc \in Pressing

CapsAfter(sc, c) == IF sc = "CAPSLOCK_PRESS" THEN ~c ELSE c

\* History: what the bytes consumed say of the keys themselves.
KeysAfter(sc, keys) == {key \in ShiftKey : sc = PressOf(key) \/ (key \in keys /\ sc # ReleaseOf(key))}

Consumed(sc) ==
    /\ shiftKeys' = KeysAfter(sc, shiftKeys)
    /\ halfUp' = IF sc \in Pressing \cup Releasing
                 THEN sc \in Releasing /\ shiftKeys' # {}
                 ELSE halfUp
    /\ capsOn' = (capsOn # (sc = "CAPSLOCK_PRESS"))

Typed(s, c) == IF s # c THEN "shifted" ELSE "plain"

Full(count) == count >= BufferSize

Successor(k) == (k + 1) % BufferSize

\* The windows of the main thread that a handled byte falls into: a push
\* between its loads and its stores of the ring; a modifier key while the
\* flags are in registers; any byte between its reading the status and data.
InRingOp   == ~Idle /\ Head(todo) \in {"ldhead", "stchar", "sthead", "stcount_up",
                                       "ldtail", "stcount_down", "ldchar", "sttail"}
InPoll     == /\ ~Idle /\ Head(todo) \notin {"status0", "ldcaps"}
              /\ todo[Len(todo)] \in {"status", "stshift"}
BeforeData == ~Idle /\ Head(todo) \in {"ldcaps", "ldshift", "data"}

Hit(push, mods) == (IF push /\ InRingOp THEN {"ring"} ELSE {})
                       \cup (IF mods /\ InPoll THEN {"modifier"} ELSE {})
                       \cup (IF BeforeData THEN {"data"} ELSE {})

\* keyboard_poll() as the handler of IRQ1.  It finds the buffer empty when
\* the task has drained it first; a byte that comes while it runs is the
\* next interrupt's.
Irq1 ==
    /\ irq1
    /\ irq1' = FALSE
    /\ IF ~obf
       THEN UNCHANGED <<ringVars, modVars, obf, fifo, keyVars, raced>>
       ELSE LET c    == Typed(shift_held, caps_active)
                push == obuf = "KEY" /\ ~Full(kb_count)
            IN /\ obf' = FALSE
               /\ shift_held' = ShiftAfter(obuf, shift_held)
               /\ caps_active' = CapsAfter(obuf, caps_active)
               /\ IF push
                  THEN /\ kb_buf' = [kb_buf EXCEPT ![kb_head] = c]
                       /\ kb_head' = Successor(kb_head)
                       /\ kb_count' = kb_count + 1
                       /\ kb_tail' = kb_tail
                       /\ fifo' = Append(fifo, c)
                  ELSE UNCHANGED <<ringVars, fifo>>
               /\ Consumed(obuf)
               /\ raced' = raced \cup Hit(push, obuf \in Scancode \ {"KEY", "OTHER"})
    /\ UNCHANGED <<obuf, todo, r, sent, got>>

-----------------------------------------------------------------------------
\* The main thread.  Each call is a list of operations, one step each, and
\* IRQ1 may come before any of them.

PollOps    == <<"status0", "ldcaps", "ldshift", "data", "status">>
PollPush   == <<"pushcount", "ldhead", "stchar", "sthead", "stcount_up">>
SerialPush == <<"pushcount", "ldhead", "stcount_up", "stchar", "sthead">>
GetcharNoTail == <<"getcount", "ldtail", "stcount_down", "ldchar">>
GetcharOps == <<"getcount", "ldtail", "stcount_down", "ldchar", "sttail">>

Call(ops) == /\ Idle
             /\ todo' = ops

\* The scheduler task "keyboard_poll".
PollCall == /\ Call(PollOps)
            /\ UNCHANGED <<ringVars, modVars, portVars, r, sent, fifo, keyVars, raced, got>>

\* menu_tick() asks for the next character.
GetcharCall == /\ Call(GetcharOps)
               /\ UNCHANGED <<ringVars, modVars, portVars, r, sent, fifo, keyVars, raced, got>>

\* serial_poll() pushes one of the bytes it has read.
SerialCall == /\ Call(SerialPush)
              /\ sent < MaxBytes
              /\ sent' = sent + 1
              /\ r' = [r EXCEPT !.char = "plain"]
              /\ UNCHANGED <<ringVars, modVars, portVars, fifo, keyVars, raced, got>>

\* What getchar should return next.
NextChar == IF fifo = <<>> THEN "none" ELSE Head(fifo)

Exec(op) == ~Idle /\ Head(todo) = op

Step(op) == /\ Exec(op)
            /\ todo' = Tail(todo)

\* The rest of todo once the five operations of a push are skipped.
AfterPush == SubSeq(todo, 6, Len(todo))

\* The loop's condition, at the first and at the later iterations.
ReadStatus ==
    /\ \/ Exec("status0") /\ todo' = IF obf THEN Tail(todo) ELSE <<>>
       \/ Exec("status") /\ todo' = IF obf THEN <<"data", "status">>
                                            ELSE <<"stcaps", "stshift">>
    /\ UNCHANGED <<ringVars, modVars, portVars, r, sent, fifo, keyVars, raced, got>>

LoadModifiers ==
    /\ \/ Step("ldcaps") /\ r' = [r EXCEPT !.caps = caps_active, !.capsSet = FALSE]
       \/ Step("ldshift") /\ r' = [r EXCEPT !.shift = shift_held, !.shiftSet = FALSE]
    /\ UNCHANGED <<ringVars, modVars, portVars, sent, fifo, keyVars, raced, got>>

\* The data port gives the last byte again when the handler has taken it.
ReadData ==
    /\ Exec("data")
    /\ todo' = (IF obuf = "KEY" THEN PollPush ELSE <<>>) \o Tail(todo)
    /\ obf' = FALSE
    /\ r' = [r EXCEPT !.shift = ShiftAfter(obuf, @),
                      !.shiftSet = @ \/ obuf \in Pressing \cup Releasing,
                      !.caps = CapsAfter(obuf, @),
                      !.capsSet = @ \/ obuf = "CAPSLOCK_PRESS",
                      !.char = Typed(r.shift, r.caps)]
    /\ IF obf THEN Consumed(obuf) ELSE UNCHANGED keyVars
    /\ UNCHANGED <<ringVars, modVars, obuf, irq1, sent, fifo, raced, got>>

\* The flags go back to memory only when keyboard_poll returns.
StoreModifiers ==
    /\ \/ /\ Step("stcaps")
          /\ caps_active' = IF r.capsSet THEN r.caps ELSE caps_active
          /\ shift_held' = shift_held
       \/ /\ Step("stshift")
          /\ shift_held' = IF r.shiftSet THEN r.shift ELSE shift_held
          /\ caps_active' = caps_active
    /\ UNCHANGED <<ringVars, portVars, r, sent, fifo, keyVars, raced, got>>

LoadCount ==
    /\ \/ /\ Exec("pushcount")
          /\ todo' = IF Full(kb_count) THEN AfterPush ELSE Tail(todo)
          /\ got' = got
       \/ /\ Exec("getcount")
          /\ todo' = IF kb_count = 0 THEN <<>> ELSE Tail(todo)
          /\ got' = IF kb_count = 0 THEN [char |-> "none", next |-> NextChar] ELSE got
    /\ r' = [r EXCEPT !.count = kb_count]
    /\ UNCHANGED <<ringVars, modVars, portVars, sent, fifo, keyVars, raced>>

LoadIndex ==
    /\ \/ Step("ldhead") /\ r' = [r EXCEPT !.index = kb_head]
       \/ Step("ldtail") /\ r' = [r EXCEPT !.index = kb_tail]
    /\ UNCHANGED <<ringVars, modVars, portVars, sent, fifo, keyVars, raced, got>>

StoreCount ==
    /\ \/ Step("stcount_up") /\ kb_count' = r.count + 1
       \/ Step("stcount_down") /\ kb_count' = r.count - 1
    /\ UNCHANGED <<kb_buf, kb_head, kb_tail, modVars, portVars, r, sent, fifo, keyVars, raced, got>>

StoreChar ==
    /\ Step("stchar")
    /\ kb_buf' = [kb_buf EXCEPT ![r.index] = r.char]
    /\ fifo' = Append(fifo, r.char)
    /\ UNCHANGED <<kb_head, kb_tail, kb_count, modVars, portVars, r, sent, keyVars, raced, got>>

StoreHead ==
    /\ Step("sthead")
    /\ kb_head' = Successor(r.index)
    /\ UNCHANGED <<kb_buf, kb_tail, kb_count, modVars, portVars, r, sent, fifo, keyVars, raced, got>>

LoadChar ==
    /\ Step("ldchar")
    /\ r' = [r EXCEPT !.char = kb_buf[r.index]]
    /\ UNCHANGED <<ringVars, modVars, portVars, sent, fifo, keyVars, raced, got>>

\* keyboard_getchar returns.
StoreTail ==
    /\ Step("sttail")
    /\ kb_tail' = Successor(r.index)
    /\ got' = [char |-> r.char, next |-> NextChar]
    /\ fifo' = IF fifo = <<>> THEN fifo ELSE Tail(fifo)
    /\ UNCHANGED <<kb_buf, kb_head, kb_count, modVars, portVars, r, sent, keyVars, raced>>

MainCall == PollCall \/ GetcharCall \/ SerialCall

MainStep == \/ ReadStatus \/ LoadModifiers \/ ReadData \/ StoreModifiers
            \/ LoadCount \/ LoadIndex \/ StoreCount \/ StoreChar \/ StoreHead
            \/ LoadChar \/ StoreTail

Next == (\E sc \in Scancode : Arrive(sc)) \/ Irq1 \/ MainCall \/ MainStep

Spec == Init /\ [][Next]_vars

-----------------------------------------------------------------------------
\* Every variable in its range: wherever IRQ1 cuts into the loads and stores
\* of the main thread, no index leaves kb_buf and kb_count stays between 0
\* and KB_BUFFER_SIZE.
TypeOK ==
    /\ kb_buf \in [Index -> Char]
    /\ kb_head \in Index /\ kb_tail \in Index
    /\ kb_count \in 0 .. BufferSize
    /\ shift_held \in BOOLEAN /\ caps_active \in BOOLEAN
    /\ obf \in BOOLEAN /\ obuf \in Scancode /\ irq1 \in BOOLEAN
    /\ todo \in Seq(Op)
    /\ r \in Registers
    /\ sent \in 0 .. MaxBytes
    /\ fifo \in Seq(Char)
    /\ shiftKeys \subseteq ShiftKey /\ halfUp \in BOOLEAN /\ capsOn \in BOOLEAN
    /\ raced \subseteq {"ring", "modifier", "data"}
    /\ got \in [char : Char \cup {"none"}, next : Char \cup {"none"}]

\* Unless an IRQ1 has pushed a character between the loads and the stores of
\* a push or a getchar of the main thread, the ring holds exactly the
\* characters accepted and not yet returned, oldest first, and getchar has
\* returned the oldest one.  Nothing else breaks the buffer, whatever the
\* interleaving of the handler, the poll, the serial console and the menu.
FifoUnlessRaced ==
    "ring" \notin raced =>
        /\ got.char = got.next
        /\ Idle => /\ kb_head = (kb_tail + kb_count) % BufferSize
                   /\ fifo = [k \in 1 .. kb_count |-> kb_buf[(kb_tail + k - 1) % BufferSize]]

\* The buffer is sound in every state, in the two senses above.
BufferInv == TypeOK /\ FifoUnlessRaced

\* Unless an IRQ1 has handled a modifier key while keyboard_poll had the flags
\* in registers, or any byte between its reads of status and data: caps_active
\* is the state of caps lock, and shift_held is set exactly while a shift key
\* is down, but for a key that is still down when the other one has been
\* released and no shift key pressed since.  Both callers of keyboard_poll,
\* the handler and the task, keep the flags so.
ModifiersUnlessRaced ==
    (Idle /\ raced \subseteq {"ring"}) =>
        /\ shift_held = (shiftKeys # {} /\ ~halfUp)
        /\ caps_active = capsOn
=============================================================================
