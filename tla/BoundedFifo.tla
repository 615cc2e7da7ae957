---------------------------- MODULE BoundedFifo ----------------------------
(***************************************************************************)
(* What the kernel event bus promises its publishers: a first-in first-out *)
(* queue of at most Depth events.  A publication is appended, or refused   *)
(* with AURA_BUSY exactly when the queue is full, or refused with AURA_ERR *)
(* when its topic does not exist; the event being dispatched is the one    *)
(* that was at the head, and it does not change until the next one is      *)
(* taken.                                                                  *)
(***************************************************************************)
EXTENDS Naturals, Sequences

CONSTANTS Depth, Event, NoEvent

VARIABLES q,     \* the events accepted and not yet taken, oldest first
          cur,   \* the event being dispatched, the last one taken
          ret    \* what the last publication returned

vars == <<q, cur, ret>>

Init == /\ q = <<>>
        /\ cur = NoEvent
        /\ ret = "AURA_OK"

Accept(e) == /\ Len(q) < Depth
             /\ q' = Append(q, e)
             /\ ret' = "AURA_OK"
             /\ cur' = cur

Busy == /\ Len(q) = Depth
        /\ ret' = "AURA_BUSY"
        /\ UNCHANGED <<q, cur>>

Invalid == /\ ret' = "AURA_ERR"
           /\ UNCHANGED <<q, cur>>

Take == /\ q # <<>>
        /\ cur' = Head(q)
        /\ q' = Tail(q)
        /\ ret' = ret

Next == \/ \E e \in Event : Accept(e)
        \/ Busy
        \/ Invalid
        \/ Take

Spec == Init /\ [][Next]_vars
=============================================================================
