----------------------------- MODULE RingBuffer ----------------------------
(***************************************************************************)
(* smart_home::RingBuffer<T>: an array with one slot to spare, two         *)
(* indices, a mutex and a condition variable. A critical section is a      *)
(* step; a consumer in wait_pop sleeps, is notified, wakes for no reason   *)
(* or times out between two of them.                                       *)
(***************************************************************************)
EXTENDS Naturals, Sequences, FiniteSets

CONSTANTS
    Consumers,     \* threads that call pop() and wait_pop()
    Capacity,
    DropOldest,    \* RingOverflowPolicy::DropOldest or RejectNewest
    MaxItems,      \* bound: how many values are pushed; they are numbered
    Empty          \* what a slot holds before it is written

ASSUME CapacityIsPositive == Capacity \in Nat \ {0}
ASSUME Bounds == DropOldest \in BOOLEAN /\ MaxItems \in Nat
ASSUME EmptyIsNoItem == Empty \notin 1..MaxItems
ASSUME ConsumersAreFinite == IsFiniteSet(Consumers)

Items == 1..MaxItems
Slots == 0..Capacity

VARIABLES
    storage, head, tail, closed, dropped,
    pushed,        \* how many values were pushed
    received,      \* what consumers were given, in the order they were given it
    consumer       \* "out" of the buffer, "asleep" in wait_for or "notified"

vars == <<storage, head, tail, closed, dropped, pushed, received, consumer>>

IncrementBug(i) == i + 1                        \* no wrapping
Increment(i) == (i + 1) % (Capacity + 1)

Size == IF tail >= head THEN tail - head ELSE (Capacity + 1) - head + tail

Asleep == {c \in Consumers : consumer[c] = "asleep"}
Notified == {c \in Consumers : consumer[c] = "notified"}

Init ==
    /\ storage = [i \in Slots |-> Empty]
    /\ head = 0
    /\ tail = 0
    /\ closed = FALSE
    /\ dropped = 0
    /\ pushed = 0
    /\ received = <<>>
    /\ consumer = [c \in Consumers |-> "out"]

-----------------------------------------------------------------------------
(* push(). The value is written before tail moves past it.                 *)
FullBug == tail = head                          \* tail compared before it moves
Full == Increment(tail) = head

NotifyOneBug == consumer' = consumer            \* no notification
NotifyOne ==
    IF Asleep = {} THEN consumer' = consumer
    ELSE \E c \in Asleep : consumer' = [consumer EXCEPT ![c] = "notified"]

Store ==
    /\ storage' = [storage EXCEPT ![tail] = pushed + 1]
    /\ tail' = Increment(tail)
    /\ NotifyOne

Push ==
    /\ ~closed
    /\ ~Full
    /\ pushed < MaxItems
    /\ pushed' = pushed + 1
    /\ Store
    /\ UNCHANGED <<head, closed, dropped, received>>

PushDropsOldest ==
    /\ ~closed
    /\ Full
    /\ DropOldest
    /\ pushed < MaxItems
    /\ pushed' = pushed + 1
    /\ head' = Increment(head)
    /\ dropped' = dropped + 1
    /\ Store
    /\ UNCHANGED <<closed, received>>

(* A push that is refused, because the buffer is full or closed.           *)
PushRejected ==
    /\ closed \/ (Full /\ ~DropOldest)
    /\ pushed < MaxItems
    /\ pushed' = pushed + 1
    /\ UNCHANGED <<storage, head, tail, closed, dropped, received, consumer>>

(* The second half of pop() and wait_pop().                                *)
AdvancedBug(i) == (i + 1) % Capacity            \* the spare slot forgotten
Advanced(i) == Increment(i)

Taken(c) ==
    /\ head # tail
    /\ received' = Append(received, storage[head])
    /\ head' = Advanced(head)
    /\ consumer' = [consumer EXCEPT ![c] = "out"]
    /\ UNCHANGED <<storage, tail, closed, dropped, pushed>>

Leave(c) ==
    /\ consumer' = [consumer EXCEPT ![c] = "out"]
    /\ UNCHANGED <<storage, head, tail, closed, dropped, pushed, received>>

(* pop(), and wait_pop() when something is there. Both return false, and   *)
(* change nothing, when the buffer is empty and does not wait.             *)
Pop(c) ==
    /\ consumer[c] = "out"
    /\ Taken(c)

Ready == closed \/ head # tail

Sleep(c) ==
    /\ consumer[c] \in {"out", "notified"}
    /\ ~Ready
    /\ consumer' = [consumer EXCEPT ![c] = "asleep"]
    /\ UNCHANGED <<storage, head, tail, closed, dropped, pushed, received>>

(* wait_for evaluates the predicate when it was notified, for no reason    *)
(* and when the time is over.                                              *)
WakeTakes(c) ==
    /\ consumer[c] \in {"asleep", "notified"}
    /\ Taken(c)

WakeClosed(c) ==
    /\ consumer[c] \in {"asleep", "notified"}
    /\ closed
    /\ head = tail
    /\ Leave(c)

TimesOut(c) ==
    /\ consumer[c] \in {"asleep", "notified"}
    /\ ~Ready
    /\ Leave(c)

Close ==
    /\ closed' = TRUE
    /\ consumer' = [c \in Consumers |-> IF consumer[c] = "asleep" THEN "notified" ELSE consumer[c]]
    /\ UNCHANGED <<storage, head, tail, dropped, pushed, received>>

Next ==
    \/ Push \/ PushDropsOldest \/ PushRejected \/ Close
    \/ \E c \in Consumers : Pop(c) \/ Sleep(c) \/ WakeTakes(c) \/ WakeClosed(c) \/ TimesOut(c)

Spec == Init /\ [][Next]_vars

-----------------------------------------------------------------------------
TypeOK ==
    /\ storage \in [Slots -> Items \cup {Empty}]
    /\ head \in Slots /\ tail \in Slots
    /\ closed \in BOOLEAN
    /\ dropped \in 0..MaxItems /\ pushed \in 0..MaxItems
    /\ received \in Seq(Items)
    /\ consumer \in [Consumers -> {"out", "asleep", "notified"}]

(* The items from head to tail, across the end of the array.               *)
Contents == [i \in 1..Size |-> storage[(head + (i - 1)) % (Capacity + 1)]]

Queue == INSTANCE PacketQueue WITH items <- Contents

(* The indices, the spare slot and the two overflow policies amount to the *)
(* queue the callers rely on: nothing is lost, repeated or reordered but   *)
(* what is counted as dropped (media_stream.cpp:39, 49).                   *)
ImplementsQueue == Queue!Spec

(* Notifications are not lost: while a consumer sleeps, as many others     *)
(* have been notified as there are items, and none sleeps in a closed      *)
(* buffer, although a notified consumer may find its item gone.            *)
NobodyLeftAsleep ==
    Asleep # {} => ~closed /\ Cardinality(Notified) >= Size
=============================================================================
