---------------------------- MODULE PacketQueue ----------------------------
(***************************************************************************)
(* What smart_home::RingBuffer promises: a bounded first-in first-out      *)
(* queue that is told what to do with an item that does not fit, and that  *)
(* keeps delivering what it holds after it was closed.                     *)
(***************************************************************************)
EXTENDS Naturals, Sequences

CONSTANTS
    Items,
    Capacity,
    DropOldest    \* the policy: drop the oldest item, or reject the newest

VARIABLES
    items,        \* what the queue holds, oldest first
    received,     \* what was delivered, in order
    dropped,      \* how many items were dropped
    closed

vars == <<items, received, dropped, closed>>

Init ==
    /\ items = <<>>
    /\ received = <<>>
    /\ dropped = 0
    /\ closed = FALSE

Put(x) ==
    /\ ~closed
    /\ Len(items) < Capacity
    /\ items' = Append(items, x)
    /\ UNCHANGED <<received, dropped, closed>>

Replace(x) ==
    /\ ~closed
    /\ DropOldest
    /\ Len(items) = Capacity
    /\ items' = Append(Tail(items), x)
    /\ dropped' = dropped + 1
    /\ UNCHANGED <<received, closed>>

Deliver ==
    /\ items # <<>>
    /\ received' = Append(received, Head(items))
    /\ items' = Tail(items)
    /\ UNCHANGED <<dropped, closed>>

Close ==
    /\ closed' = TRUE
    /\ UNCHANGED <<items, received, dropped>>

Next == (\E x \in Items : Put(x) \/ Replace(x)) \/ Deliver \/ Close

Spec == Init /\ [][Next]_vars
=============================================================================
