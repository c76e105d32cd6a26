-------------------------- MODULE MediaPathProofs ---------------------------
(***************************************************************************)
(* The way of a packet from the camera to the picture, in two parts.       *)
(*                                                                         *)
(* RingBuffer implements PacketQueue, for every capacity, both policies    *)
(* and any number of consumers: the arithmetic of the indices.             *)
(*                                                                         *)
(* MediaLink recovers frames and whole packets, for every size of header,  *)
(* frame, packet and buffer and any number of requests: what is cut from   *)
(* the front of a stream of cells, what is added to its end, and what a    *)
(* place between them says of those around it.                             *)
(***************************************************************************)
EXTENDS RingBuffer, MediaLink, SequenceTheorems, FiniteSetTheorems, TLAPS

-----------------------------------------------------------------------------
(* THE RING BUFFER                                                         *)

(* The slot of the i-th item of a buffer whose head is h, and how many      *)
(* items lie between h and t.                                              *)
Slot(h, i) == (h + (i - 1)) % (Capacity + 1)
Between(h, t) == IF t >= h THEN t - h ELSE (Capacity + 1) - h + t

Storing ==
    /\ storage \in [Slots -> Items \cup {Empty}]
    /\ head \in Slots
    /\ tail \in Slots

-----------------------------------------------------------------------------
(* The remainder, where the indices need it.                               *)
LEMMA IncrementWraps ==
    ASSUME NEW i \in Slots
    PROVE  /\ Increment(i) = IF i = Capacity THEN 0 ELSE i + 1
           /\ Increment(i) \in Slots
<1>1. i \in 0..Capacity /\ Capacity > 0 /\ Capacity \in Nat
  BY CapacityIsPositive DEF Slots
<1>2. (i + 1) % (Capacity + 1) = IF i = Capacity THEN 0 ELSE i + 1
  BY <1>1, SMTT(30)
<1> QED  BY <1>1, <1>2 DEF Increment, Slots

LEMMA SlotFacts ==
    ASSUME NEW h \in Slots, NEW i \in 1..(Capacity + 1)
    PROVE  /\ Slot(h, i) = IF h + (i - 1) <= Capacity THEN h + (i - 1)
                           ELSE h + (i - 1) - (Capacity + 1)
           /\ Slot(h, i) \in Slots
<1>1. h \in 0..Capacity /\ Capacity > 0 /\ Capacity \in Nat
  BY CapacityIsPositive DEF Slots
<1>2. (h + (i - 1)) % (Capacity + 1) =
          IF h + (i - 1) <= Capacity THEN h + (i - 1)
          ELSE h + (i - 1) - (Capacity + 1)
  <2>1. PICK x \in Nat : x = h + (i - 1)
    BY <1>1
  <2>2. PICK n \in Nat \ {0} : n = Capacity + 1
    BY <1>1
  <2>3. x < n + n
    BY <1>1, <2>1, <2>2
  <2>4. x % n = IF x < n THEN x ELSE x - n
    BY <2>3, SMTT(30)
  <2> QED  BY <1>1, <2>1, <2>2, <2>4
<1> QED  BY <1>1, <1>2 DEF Slot, Slots

(* Between counts the steps from h to t, and t is the slot behind the last *)
(* item.                                                                   *)
LEMMA BetweenFacts ==
    ASSUME NEW h \in Slots, NEW t \in Slots
    PROVE  /\ Between(h, t) \in 0..Capacity
           /\ Between(h, t) = 0 <=> h = t
           /\ Between(h, t) = Capacity <=> Increment(t) = h
           /\ t = Slot(h, Between(h, t) + 1)
           /\ Increment(t) # h => Between(h, Increment(t)) = Between(h, t) + 1
           /\ h # t => Between(Increment(h), t) = Between(h, t) - 1
<1>1. /\ h \in 0..Capacity /\ t \in 0..Capacity /\ Capacity > 0 /\ Capacity \in Nat
      /\ Increment(t) = IF t = Capacity THEN 0 ELSE t + 1
      /\ Increment(h) = IF h = Capacity THEN 0 ELSE h + 1
  BY CapacityIsPositive, IncrementWraps DEF Slots
<1>2. Between(h, t) \in 0..Capacity
  BY <1>1 DEF Between
<1>3. t = Slot(h, Between(h, t) + 1)
  <2>1. Between(h, t) + 1 \in 1..(Capacity + 1)
    BY <1>1, <1>2
  <2>2. Slot(h, Between(h, t) + 1) =
            IF h + ((Between(h, t) + 1) - 1) <= Capacity THEN h + ((Between(h, t) + 1) - 1)
            ELSE h + ((Between(h, t) + 1) - 1) - (Capacity + 1)
    BY <2>1, SlotFacts
  <2> QED  BY <1>1, <2>2 DEF Between
<1>4. /\ Between(h, t) = 0 <=> h = t
      /\ Between(h, t) = Capacity <=> Increment(t) = h
  BY <1>1 DEF Between
<1>5. Increment(t) # h => Between(h, Increment(t)) = Between(h, t) + 1
  BY <1>1 DEF Between
<1>6. h # t => Between(Increment(h), t) = Between(h, t) - 1
  BY <1>1 DEF Between
<1> QED  BY <1>2, <1>3, <1>4, <1>5, <1>6

(* Different positions are different slots.                                *)
LEMMA SlotsDiffer ==
    ASSUME NEW h \in Slots,
           NEW i \in 1..(Capacity + 1), NEW j \in 1..(Capacity + 1), i # j
    PROVE  Slot(h, i) # Slot(h, j)
<1>1. h \in 0..Capacity /\ Capacity > 0 /\ Capacity \in Nat
  BY CapacityIsPositive DEF Slots
<1> QED  BY <1>1, SlotFacts

(* Counted from the next slot, every item is one position nearer.          *)
LEMMA SlotShifts ==
    ASSUME NEW h \in Slots, NEW i \in 1..Capacity
    PROVE  Slot(Increment(h), i) = Slot(h, i + 1)
<1>1. h \in 0..Capacity /\ Capacity > 0 /\ Capacity \in Nat
  BY CapacityIsPositive DEF Slots
<1>2. i \in 1..(Capacity + 1) /\ i + 1 \in 1..(Capacity + 1)
  BY <1>1
<1>3. /\ Increment(h) \in Slots
      /\ Increment(h) = IF h = Capacity THEN 0 ELSE h + 1
  BY IncrementWraps
<1>4. Slot(Increment(h), i) =
          IF Increment(h) + (i - 1) <= Capacity THEN Increment(h) + (i - 1)
          ELSE Increment(h) + (i - 1) - (Capacity + 1)
  BY <1>2, <1>3, SlotFacts
<1>5. Slot(h, i + 1) =
          IF h + ((i + 1) - 1) <= Capacity THEN h + ((i + 1) - 1)
          ELSE h + ((i + 1) - 1) - (Capacity + 1)
  BY <1>2, SlotFacts
<1> QED  BY <1>1, <1>3, <1>4, <1>5

LEMMA ContentsFacts ==
    ASSUME Storing
    PROVE  /\ Contents = [i \in 1..Size |-> storage[Slot(head, i)]]
           /\ Contents \in Seq(Items \cup {Empty})
           /\ Len(Contents) = Size
           /\ Size = Between(head, tail)
           /\ Size \in 0..Capacity
<1>1. Size = Between(head, tail) /\ Size \in 0..Capacity
  BY BetweenFacts DEF Storing, Size, Between
<1>2. Contents = [i \in 1..Size |-> storage[Slot(head, i)]]
  BY DEF Contents, Slot
<1>3. \A i \in 1..Size : storage[Slot(head, i)] \in Items \cup {Empty}
  BY <1>1, SlotFacts, CapacityIsPositive DEF Storing
<1> QED  BY <1>1, <1>2, <1>3

-----------------------------------------------------------------------------
(* Writing at tail appends, moving head forward removes the first item,    *)
(* and a full buffer does both at once.                                    *)
LEMMA StoreAppends ==
    ASSUME Storing, ~Full, NEW x \in Items,
           storage' = [storage EXCEPT ![tail] = x], tail' = Increment(tail), head' = head
    PROVE  Contents' = Append(Contents, x)
<1> DEFINE n == Size
<1>1. /\ Contents = [i \in 1..n |-> storage[Slot(head, i)]]
      /\ Contents \in Seq(Items \cup {Empty}) /\ Len(Contents) = n
      /\ n = Between(head, tail) /\ n \in 0..Capacity
  BY ContentsFacts
<1>2. /\ tail = Slot(head, n + 1) /\ n # Capacity
      /\ Between(head, Increment(tail)) = n + 1
  BY <1>1, BetweenFacts DEF Storing, Full
<1>3. n \in Nat /\ n < Capacity /\ Capacity \in Nat
  BY <1>1, <1>2, CapacityIsPositive
<1>4. Contents' = [i \in 1..(n + 1) |-> storage'[Slot(head, i)]]
  <2>1. Contents' = [i \in 1..Size' |-> storage'[Slot(head, i)]]
    BY DEF Contents, Slot
  <2>2. Size' = n + 1
    BY <1>2 DEF Size, Between
  <2> QED  BY <2>1, <2>2
<1>5. ASSUME NEW i \in 1..(n + 1)
      PROVE  storage'[Slot(head, i)] = IF i = n + 1 THEN x ELSE Contents[i]
  <2>1. i \in 1..(Capacity + 1) /\ n + 1 \in 1..(Capacity + 1)
    BY <1>3
  <2>2. Slot(head, i) \in Slots /\ (i # n + 1 => Slot(head, i) # tail)
    BY <1>2, <2>1, SlotFacts, SlotsDiffer DEF Storing
  <2>3. storage'[Slot(head, i)] = IF Slot(head, i) = tail THEN x ELSE storage[Slot(head, i)]
    BY <2>2 DEF Storing
  <2>4. i # n + 1 => i \in 1..n
    BY <1>3
  <2> QED  BY <1>1, <1>2, <2>2, <2>3, <2>4
<1> HIDE DEF n
<1>6. Append(Contents, x) = [i \in 1..(n + 1) |-> IF i = n + 1 THEN x ELSE Contents[i]]
  BY <1>1, <1>3
<1> QED  BY <1>4, <1>5, <1>6

LEMMA HeadTakes ==
    ASSUME Storing, head # tail,
           storage' = storage, tail' = tail, head' = Increment(head)
    PROVE  /\ Contents # <<>>
           /\ Head(Contents) = storage[head]
           /\ Contents' = Tail(Contents)
<1> DEFINE n == Size
<1>1. /\ Contents = [i \in 1..n |-> storage[Slot(head, i)]]
      /\ Contents \in Seq(Items \cup {Empty}) /\ Len(Contents) = n
      /\ n = Between(head, tail) /\ n \in 0..Capacity
  BY ContentsFacts
<1>2. n # 0 /\ Between(Increment(head), tail) = n - 1
  BY <1>1, BetweenFacts DEF Storing
<1>3. n \in Nat /\ n > 0 /\ n <= Capacity /\ Capacity \in Nat /\ Capacity > 0
  BY <1>1, <1>2, CapacityIsPositive
<1>4. Slot(head, 1) = head
  <2>1. 1 \in 1..(Capacity + 1) /\ head \in 0..Capacity
    BY <1>3 DEF Storing, Slots
  <2> QED  BY <1>3, <2>1, SlotFacts DEF Storing
<1>5. Contents' = [i \in 1..(n - 1) |-> storage[Slot(Increment(head), i)]]
  <2>1. Contents' = [i \in 1..Size' |-> storage[Slot(Increment(head), i)]]
    BY DEF Contents, Slot
  <2>2. Size' = n - 1
    BY <1>2 DEF Size, Between
  <2> QED  BY <2>1, <2>2
<1>6. ASSUME NEW i \in 1..(n - 1)
      PROVE  storage[Slot(Increment(head), i)] = Contents[i + 1]
  <2>1. i \in 1..Capacity /\ i + 1 \in 1..n
    BY <1>3
  <2> QED  BY <1>1, <2>1, SlotShifts DEF Storing
<1> HIDE DEF n
<1>7. Tail(Contents) = [i \in 1..(n - 1) |-> Contents[i + 1]] /\ Contents # <<>>
  BY <1>1, <1>3
<1>8. Head(Contents) = storage[head]
  BY <1>1, <1>3, <1>4, <1>7
<1> QED  BY <1>5, <1>6, <1>7, <1>8

LEMMA ReplaceShifts ==
    ASSUME Storing, Full, NEW x \in Items,
           storage' = [storage EXCEPT ![tail] = x],
           tail' = Increment(tail), head' = Increment(head)
    PROVE  /\ Len(Contents) = Capacity
           /\ Contents' = Append(Tail(Contents), x)
<1> DEFINE n == Capacity
<1>1. /\ Contents = [i \in 1..n |-> storage[Slot(head, i)]]
      /\ Contents \in Seq(Items \cup {Empty}) /\ Len(Contents) = n
      /\ tail = Slot(head, n + 1)
  <2>1. Between(head, tail) = n /\ tail = Slot(head, Between(head, tail) + 1)
    BY BetweenFacts DEF Storing, Full
  <2> QED  BY <2>1, ContentsFacts
<1>2. n \in Nat /\ n > 0
  BY CapacityIsPositive
<1>3. Contents' = [i \in 1..n |-> storage'[Slot(Increment(head), i)]]
  <2>1. Contents' = [i \in 1..Size' |-> storage'[Slot(Increment(head), i)]]
    BY DEF Contents, Slot
  <2>2. tail' = head /\ Increment(head) \in Slots
    BY IncrementWraps DEF Full, Storing
  <2>3. Between(Increment(head), head) = n
    BY <2>2, BetweenFacts DEF Storing
  <2>4. Size' = n
    BY <2>2, <2>3 DEF Size, Between
  <2> QED  BY <2>1, <2>4
<1>4. ASSUME NEW i \in 1..n
      PROVE  storage'[Slot(Increment(head), i)] = IF i = n THEN x ELSE Contents[i + 1]
  <2>1. i + 1 \in 1..(Capacity + 1) /\ n + 1 \in 1..(Capacity + 1) /\ (i # n => i + 1 # n + 1)
    BY <1>2
  <2>2. Slot(Increment(head), i) = Slot(head, i + 1)
    BY SlotShifts DEF Storing
  <2>3. Slot(head, i + 1) \in Slots /\ (i # n => Slot(head, i + 1) # tail)
    BY <1>1, <2>1, SlotFacts, SlotsDiffer DEF Storing
  <2>4. storage'[Slot(head, i + 1)] =
            IF Slot(head, i + 1) = tail THEN x ELSE storage[Slot(head, i + 1)]
    BY <2>3 DEF Storing
  <2>5. i # n => i + 1 \in 1..n
    BY <1>2
  <2> QED  BY <1>1, <2>2, <2>3, <2>4, <2>5
<1> HIDE DEF n
<1>5. /\ Append(Tail(Contents), x) \in Seq(Items \cup {Empty})
      /\ Len(Append(Tail(Contents), x)) = n
      /\ \A i \in 1..n : Append(Tail(Contents), x)[i] = IF i = n THEN x ELSE Contents[i + 1]
  <2>1. /\ Contents # <<>>
        /\ Tail(Contents) \in Seq(Items \cup {Empty}) /\ Len(Tail(Contents)) = n - 1
        /\ \A i \in 1..(n - 1) : Tail(Contents)[i] = Contents[i + 1]
    <3>1. Contents # <<>>
      BY <1>1, <1>2
    <3> QED  BY <1>1, <3>1, HeadTailProperties
  <2>2. /\ Append(Tail(Contents), x) \in Seq(Items \cup {Empty})
        /\ Len(Append(Tail(Contents), x)) = (n - 1) + 1
        /\ \A i \in 1..(n - 1) : Append(Tail(Contents), x)[i] = Tail(Contents)[i]
        /\ Append(Tail(Contents), x)[(n - 1) + 1] = x
    <3>1. x \in Items \cup {Empty}
      OBVIOUS
    <3> QED  BY <2>1, <3>1, AppendProperties
  <2>3. (n - 1) + 1 = n /\ \A i \in 1..n : i # n => i \in 1..(n - 1)
    BY <1>2
  <2> QED  BY <2>1, <2>2, <2>3
<1>6. /\ Contents' \in Seq(Items \cup {Empty}) /\ Len(Contents') = n
      /\ \A i \in 1..n : Contents'[i] = IF i = n THEN x ELSE Contents[i + 1]
  <2>1. \A i \in 1..n : i # n => i + 1 \in 1..n
    BY <1>2
  <2>2. \A i \in 1..n : storage'[Slot(Increment(head), i)] \in Items \cup {Empty}
    <3>1. \A i \in 1..n : Contents[i] \in Items \cup {Empty}
      BY <1>1, ElementOfSeq
    <3> QED  BY <1>4, <2>1, <3>1
  <2> QED  BY <1>2, <1>3, <1>4, <2>2
<1>7. Contents' = Append(Tail(Contents), x)
  BY <1>5, <1>6, SeqEqual
<1> QED  BY <1>1, <1>7 DEF n

-----------------------------------------------------------------------------
(* What is between head and tail has been written.                         *)
Inv ==
    /\ TypeOK
    /\ dropped <= pushed
    /\ Contents \in Seq(Items)

(* A step that takes the oldest item delivers the head of the queue.       *)
LEMMA TakenDelivers ==
    ASSUME Inv, NEW c \in Consumers, Taken(c)
    PROVE  /\ Contents # <<>>
           /\ received' = Append(received, Head(Contents))
           /\ Contents' = Tail(Contents)
           /\ head' \in Slots
<1>1. Storing /\ head' = Increment(head)
  BY DEF Inv, TypeOK, Storing, Taken, Advanced
<1> QED  BY <1>1, HeadTakes, IncrementWraps DEF Taken, Storing

LEMMA InvInit == Init => Inv
<1> SUFFICES ASSUME Init PROVE Inv
  OBVIOUS
<1>1. TypeOK
  <2>1. 0 \in Slots /\ 0 \in 0..MaxItems
    BY CapacityIsPositive, Bounds DEF Slots
  <2>2. received \in Seq(Items)
    BY EmptySeq DEF Init
  <2> QED  BY <2>1, <2>2 DEF Init, TypeOK
<1>2. Contents \in Seq(Items)
  <2>1. Size = 0
    BY DEF Init, Size
  <2>2. Contents \in Seq(Items \cup {Empty}) /\ Len(Contents) = 0
    BY <1>1, <2>1, ContentsFacts DEF TypeOK, Storing
  <2>3. Contents = <<>>
    BY <2>2, EmptySeq
  <2> QED  BY <2>3
<1> QED  BY <1>1, <1>2 DEF Inv, Init

LEMMA InvStep == Inv /\ [Next]_vars => Inv'
<1> SUFFICES ASSUME Inv, [Next]_vars PROVE Inv'
  OBVIOUS
<1> USE DEF Inv
<1>0. Storing /\ pushed + 1 \in Nat /\ MaxItems \in Nat
  BY Bounds DEF TypeOK, Storing
<1>1. ASSUME Push PROVE Inv'
  <2>1. pushed + 1 \in Items /\ pushed + 1 \in 0..MaxItems
    BY <1>0, <1>1 DEF Push, TypeOK, Items
  <2>2. Contents' = Append(Contents, pushed + 1)
    BY <1>0, <1>1, <2>1, StoreAppends DEF Push, Store
  <2>3. Contents' \in Seq(Items)
    BY <2>1, <2>2, AppendProperties
  <2>4. TypeOK'
    <3>1. consumer' \in [Consumers -> {"out", "asleep", "notified"}]
      BY <1>1 DEF Push, Store, NotifyOne, TypeOK, Asleep
    <3> QED  BY <1>1, <2>1, <3>1, IncrementWraps DEF Push, Store, TypeOK
  <2>5. (dropped <= pushed)'
    BY <1>0, <1>1 DEF Push, TypeOK
  <2> QED  BY <2>3, <2>4, <2>5
<1>2. ASSUME PushDropsOldest PROVE Inv'
  <2>1. pushed + 1 \in Items /\ pushed + 1 \in 0..MaxItems
    BY <1>0, <1>2 DEF PushDropsOldest, TypeOK, Items
  <2>2. /\ Len(Contents) = Capacity
        /\ Contents' = Append(Tail(Contents), pushed + 1)
    BY <1>0, <1>2, <2>1, ReplaceShifts DEF PushDropsOldest, Store
  <2>3. Contents' \in Seq(Items)
    <3>1. Contents # <<>>
      BY <2>2, CapacityIsPositive
    <3>2. Tail(Contents) \in Seq(Items)
      BY <3>1, HeadTailProperties
    <3> QED  BY <2>1, <2>2, <3>2, AppendProperties
  <2>4. TypeOK'
    <3>1. consumer' \in [Consumers -> {"out", "asleep", "notified"}]
      BY <1>2 DEF PushDropsOldest, Store, NotifyOne, TypeOK, Asleep
    <3>2. dropped' \in 0..MaxItems
      BY <1>0, <1>2 DEF PushDropsOldest, TypeOK
    <3> QED  BY <1>2, <2>1, <3>1, <3>2, IncrementWraps DEF PushDropsOldest, Store, TypeOK
  <2>5. (dropped <= pushed)'
    BY <1>0, <1>2 DEF PushDropsOldest, TypeOK
  <2> QED  BY <2>3, <2>4, <2>5
<1>3. ASSUME PushRejected PROVE Inv'
  <2>1. Contents' = Contents
    BY <1>3 DEF PushRejected, Contents, Size
  <2>2. pushed' \in 0..MaxItems /\ dropped' <= pushed'
    BY <1>0, <1>3 DEF PushRejected, TypeOK
  <2> QED  BY <1>3, <2>1, <2>2 DEF PushRejected, TypeOK
<1>4. ASSUME NEW c \in Consumers, Taken(c) PROVE Inv'
  <2>1. /\ Contents # <<>>
        /\ received' = Append(received, Head(Contents))
        /\ Contents' = Tail(Contents)
        /\ head' \in Slots
    BY <1>4, TakenDelivers
  <2>2. Head(Contents) \in Items /\ Contents' \in Seq(Items)
    BY <2>1, HeadTailProperties
  <2>3. received' \in Seq(Items)
    BY <2>1, <2>2, AppendProperties DEF TypeOK
  <2> QED  BY <1>4, <2>1, <2>2, <2>3 DEF Taken, TypeOK
<1>5. ASSUME NEW c \in Consumers, Leave(c) \/ Sleep(c) PROVE Inv'
  <2>1. Contents' = Contents
    BY <1>5 DEF Leave, Sleep, Contents, Size
  <2> QED  BY <1>5, <2>1 DEF Leave, Sleep, TypeOK
<1>6. ASSUME Close PROVE Inv'
  <2>1. Contents' = Contents
    BY <1>6 DEF Close, Contents, Size
  <2> QED  BY <1>6, <2>1 DEF Close, TypeOK
<1>7. ASSUME UNCHANGED vars PROVE Inv'
  <2>1. Contents' = Contents
    BY <1>7 DEF vars, Contents, Size
  <2> QED  BY <1>7, <2>1 DEF vars, TypeOK
<1> QED  BY <1>1, <1>2, <1>3, <1>4, <1>5, <1>6, <1>7
         DEF Next, Pop, WakeTakes, WakeClosed, TimesOut

LEMMA Invariance == Spec => []Inv
BY InvInit, InvStep, PTL DEF Spec

(* Indices stay inside the array, and only what was pushed is received.    *)
THEOREM TypeCorrect == Spec => []TypeOK
<1>1. Inv => TypeOK
  BY DEF Inv
<1> QED  BY <1>1, Invariance, PTL

(* The array with its two indices is the queue of PacketQueue: every       *)
(* critical section is a step of the queue or leaves it alone.             *)
THEOREM RingImplementsQueue == Spec => ImplementsQueue
<1>1. Init => Queue!Init
  <2> SUFFICES ASSUME Init PROVE Contents = <<>>
    BY DEF Init, Queue!Init
  <2>1. Storing /\ Size = 0
    BY InvInit DEF Inv, TypeOK, Storing, Init, Size
  <2> QED  BY <2>1, ContentsFacts, EmptySeq
<1>2. Inv /\ [Next]_vars => [Queue!Next]_(Queue!vars)
  <2> SUFFICES ASSUME Inv, [Next]_vars PROVE Queue!Next \/ UNCHANGED Queue!vars
    OBVIOUS
  <2>0. Storing /\ Len(Contents) = Size /\ Size \in 0..Capacity /\ Capacity \in Nat
    BY ContentsFacts, CapacityIsPositive DEF Inv, TypeOK, Storing
  <2>1. ASSUME Push PROVE Queue!Next
    <3>1. pushed + 1 \in Items
      BY <2>1, Bounds DEF Push, Inv, TypeOK, Items
    <3>2. Contents' = Append(Contents, pushed + 1)
      BY <2>0, <2>1, <3>1, StoreAppends DEF Push, Store
    <3>3. Len(Contents) < Capacity
      <4>1. Size # Capacity
        BY <2>0, <2>1, BetweenFacts DEF Push, Full, Storing, Size, Between
      <4> QED  BY <2>0, <4>1
    <3>4. Queue!Put(pushed + 1)
      BY <2>1, <3>2, <3>3 DEF Push, Queue!Put
    <3> QED  BY <3>1, <3>4 DEF Queue!Next
  <2>2. ASSUME PushDropsOldest PROVE Queue!Next
    <3>1. pushed + 1 \in Items
      BY <2>2, Bounds DEF PushDropsOldest, Inv, TypeOK, Items
    <3>2. /\ Len(Contents) = Capacity
          /\ Contents' = Append(Tail(Contents), pushed + 1)
      BY <2>0, <2>2, <3>1, ReplaceShifts DEF PushDropsOldest, Store
    <3>3. Queue!Replace(pushed + 1)
      BY <2>2, <3>2 DEF PushDropsOldest, Queue!Replace
    <3> QED  BY <3>1, <3>3 DEF Queue!Next
  <2>3. ASSUME NEW c \in Consumers, Taken(c) PROVE Queue!Next
    <3>1. Queue!Deliver
      BY <2>3, TakenDelivers DEF Taken, Queue!Deliver
    <3> QED  BY <3>1 DEF Queue!Next
  <2>4. ASSUME Close PROVE Queue!Next
    <3>1. Queue!Close
      BY <2>4 DEF Close, Queue!Close, Contents, Size
    <3> QED  BY <3>1 DEF Queue!Next
  <2>5. ASSUME \/ PushRejected
               \/ \E c \in Consumers : Leave(c) \/ Sleep(c)
               \/ UNCHANGED vars
        PROVE  UNCHANGED Queue!vars
    BY <2>5 DEF PushRejected, Leave, Sleep, vars, Queue!vars, Contents, Size
  <2> QED  BY <2>1, <2>2, <2>3, <2>4, <2>5
           DEF Next, Pop, WakeTakes, WakeClosed, TimesOut
<1>3. Spec => Queue!Spec
  BY <1>1, <1>2, Invariance, PTL DEF Spec, Queue!Spec
<1> QED  BY <1>3 DEF ImplementsQueue

-----------------------------------------------------------------------------
(* Notifying one sleeper raises the number of notified consumers by one.   *)
LEMMA NotifyOneCounts ==
    ASSUME TypeOK, NotifyOne, Asleep # {}
    PROVE  Cardinality(Notified') = Cardinality(Notified) + 1
<1>1. PICK c \in Asleep : consumer' = [consumer EXCEPT ![c] = "notified"]
  BY DEF NotifyOne
<1>2. Notified' = Notified \cup {c} /\ c \notin Notified
  BY <1>1 DEF Notified, Asleep, TypeOK
<1>3. IsFiniteSet(Notified)
  BY ConsumersAreFinite, FS_Subset DEF Notified
<1> QED  BY <1>2, <1>3, FS_AddElement

(* A consumer that leaves takes at most one notification with it.          *)
LEMMA LeavingCounts ==
    ASSUME TypeOK, NEW c \in Consumers, NEW s \in {"out", "asleep"},
           consumer' = [consumer EXCEPT ![c] = s]
    PROVE  /\ Cardinality(Notified') + 1 >= Cardinality(Notified)
           /\ Cardinality(Notified') \in Nat
           /\ s = "out" => Asleep' = Asleep \ {c}
<1>1. Notified' = Notified \ {c}
  BY DEF Notified, TypeOK
<1>2. IsFiniteSet(Notified)
  BY ConsumersAreFinite, FS_Subset DEF Notified
<1>3. /\ Cardinality(Notified) \in Nat /\ Cardinality(Notified') \in Nat
      /\ Cardinality(Notified') =
             IF c \in Notified THEN Cardinality(Notified) - 1 ELSE Cardinality(Notified)
  BY <1>1, <1>2, FS_RemoveElement, FS_CardinalityType
<1>4. s = "out" => Asleep' = Asleep \ {c}
  BY DEF Asleep, TypeOK
<1> QED  BY <1>3, <1>4

(* While a consumer sleeps, every item has a notified consumer of its own: *)
(* notify_one is enough, for any number of consumers.                      *)
THEOREM SleepersAreWoken == Spec => []NobodyLeftAsleep
<1>1. Init => NobodyLeftAsleep
  BY DEF Init, NobodyLeftAsleep, Asleep
<1>2. Inv /\ NobodyLeftAsleep /\ [Next]_vars => NobodyLeftAsleep'
  <2> SUFFICES ASSUME Inv, NobodyLeftAsleep, [Next]_vars, Asleep' # {}
               PROVE  ~closed' /\ Cardinality(Notified') >= Size'
    BY DEF NobodyLeftAsleep
  <2>0. /\ TypeOK /\ Storing /\ Size \in 0..Capacity /\ Size = Between(head, tail)
        /\ Capacity \in Nat /\ Capacity > 0
        /\ Cardinality(Notified) \in Nat
    <3>1. IsFiniteSet(Notified)
      BY ConsumersAreFinite, FS_Subset DEF Notified
    <3> QED  BY <3>1, FS_CardinalityType, ContentsFacts, CapacityIsPositive DEF Inv, TypeOK, Storing
  <2>1. ASSUME Push \/ PushDropsOldest
        PROVE  ~closed' /\ Cardinality(Notified') >= Size'
    <3>1. NotifyOne /\ ~closed /\ ~closed'
      BY <2>1 DEF Push, PushDropsOldest, Store
    <3>2. Asleep # {}
      BY <2>0, <3>1 DEF NotifyOne, Asleep, TypeOK
    <3>3. Cardinality(Notified') = Cardinality(Notified) + 1
      BY <2>0, <3>1, <3>2, NotifyOneCounts
    <3>4. Size' <= Size + 1 /\ Size' \in Nat
      <4>1. CASE Push
        <5>1. Between(head, Increment(tail)) = Between(head, tail) + 1
          BY <2>0, <4>1, BetweenFacts DEF Push, Full, Storing
        <5>2. Size' = Between(head, Increment(tail))
          BY <4>1 DEF Push, Store, Size, Between
        <5> QED  BY <2>0, <5>1, <5>2
      <4>2. CASE PushDropsOldest
        <5>1. Size = Capacity
          BY <2>0, <4>2, BetweenFacts DEF PushDropsOldest, Full, Storing
        <5>2. Size' = Between(Increment(head), Increment(tail))
          BY <4>2 DEF PushDropsOldest, Store, Size, Between
        <5>3. Size' \in 0..Capacity
          BY <2>0, <5>2, IncrementWraps, BetweenFacts DEF Storing
        <5> QED  BY <2>0, <5>1, <5>3
      <4> QED  BY <2>1, <4>1, <4>2
    <3> QED  BY <2>0, <3>1, <3>2, <3>3, <3>4 DEF NobodyLeftAsleep
  <2>2. ASSUME NEW c \in Consumers, Taken(c)
        PROVE  ~closed' /\ Cardinality(Notified') >= Size'
    <3>1. /\ Cardinality(Notified') + 1 >= Cardinality(Notified)
          /\ Cardinality(Notified') \in Nat /\ Asleep' = Asleep \ {c}
      BY <2>0, <2>2, LeavingCounts DEF Taken
    <3>2. Size' = Size - 1
      <4>1. Between(Increment(head), tail) = Between(head, tail) - 1
        BY <2>0, <2>2, BetweenFacts DEF Taken, Storing
      <4> QED  BY <2>0, <2>2, <4>1 DEF Taken, Advanced, Size, Between
    <3>3. ~closed /\ Cardinality(Notified) >= Size /\ ~closed'
      BY <2>2, <3>1 DEF NobodyLeftAsleep, Taken
    <3> QED  BY <2>0, <3>1, <3>2, <3>3
  <2>3. ASSUME NEW c \in Consumers, Sleep(c)
        PROVE  ~closed' /\ Cardinality(Notified') >= Size'
    <3>1. Cardinality(Notified') \in Nat
      BY <2>0, <2>3, LeavingCounts DEF Sleep
    <3>2. Size' = 0 /\ ~closed'
      BY <2>0, <2>3 DEF Sleep, Ready, Size, Storing, Slots
    <3> QED  BY <3>1, <3>2
  <2>4. ASSUME NEW c \in Consumers, Leave(c), head = tail
        PROVE  ~closed' /\ Cardinality(Notified') >= Size'
    <3>1. Cardinality(Notified') \in Nat /\ Asleep' = Asleep \ {c}
      BY <2>0, <2>4, LeavingCounts DEF Leave
    <3>2. Size' = 0 /\ closed' = closed
      BY <2>0, <2>4 DEF Leave, Size, Storing, Slots
    <3> QED  BY <3>1, <3>2 DEF NobodyLeftAsleep
  <2>5. ~Close
    <3> SUFFICES ASSUME Close PROVE FALSE
      OBVIOUS
    <3> QED  BY <2>0 DEF Close, Asleep, TypeOK
  <2>6. ASSUME PushRejected \/ UNCHANGED vars
        PROVE  ~closed' /\ Cardinality(Notified') >= Size'
    <3>1. consumer' = consumer /\ closed' = closed /\ head' = head /\ tail' = tail
      BY <2>6 DEF PushRejected, vars
    <3> QED  BY <3>1 DEF NobodyLeftAsleep, Asleep, Notified, Size
  <2> QED  BY <2>1, <2>2, <2>3, <2>4, <2>5, <2>6
           DEF Next, Pop, WakeTakes, WakeClosed, TimesOut, Ready
<1> QED  BY <1>1, <1>2, Invariance, PTL DEF Spec

-----------------------------------------------------------------------------
(* THE CONNECTION                                                          *)
(* What is under way: the frames of each direction, their cells and the     *)
(* calls that are queued to the decoder.                                    *)
Streams == Nat \ {0}
UpFrames == {GetStream, StopStream, TooLong}
DownFrames ==
    {Error} \cup {Metadata(s) : s \in Streams}
    \cup {Fragment(s, id, i) : s \in Nat, id \in Ids, i \in 0..(Fragments - 1)}
CellsIn(F) == [frame : F, at : Nat]
Flows(F) == [cells : Seq(CellsIn(F)), frames : Nat]

(* The first n fragments of a packet.                                       *)
Prefix(s, id, n) == [i \in 1..n |-> Fragment(s, id, i - 1)]

Calls ==
    {[call |-> "reset"]} \cup {[call |-> "configure", stream |-> s] : s \in Streams}
    \cup {[call |-> "decode", data |-> Prefix(s, id, Fragments)] : s \in Streams, id \in Ids}
    \cup {[call |-> "decode", data |-> data] : data \in {d \in Seq(DownFrames) : Late(d)}}

Assemblies == UNION {[I -> [next : Nat, data : Seq(DownFrames)]] : I \in SUBSET Ids}

Senders == [id : 0..Packets, index : 0..(Fragments - 1)]
SessionRecords == [entry : BOOLEAN, starting : Nat, senders : Seq(Senders)]

(* The stream announced last and what its sender sends next.                *)
Sessions == [stream : Nat, id : 0..Packets, index : 0..(Fragments - 1)]
Current ==
    LET n == Len(sessions.senders)
    IN  IF n = 0 THEN [stream |-> 0, id |-> 0, index |-> 0]
        ELSE [stream |-> n, id |-> sessions.senders[n].id, index |-> sessions.senders[n].index]

LinkTypeOK ==
    /\ up \in Flows(UpFrames)
    /\ down \in Flows(DownFrames)
    /\ buffer \in Seq(CellsIn(UpFrames)) /\ position \in 0..Len(buffer)
    /\ requests \in Seq(UpFrames)
    /\ sessions \in SessionRecords
    /\ receiveBuffer \in Seq(CellsIn(DownFrames))
    /\ assemblies \in Assemblies
    /\ events \in Seq(Calls)
    /\ codec \in Nat
    /\ asked \in [plays : 0..MaxPlays, stops : 0..MaxStops]

(* The packet that f continues: the last cells before position j that are   *)
(* not late hold the fragment before f, or there are none and an assembly   *)
(* waits for f, if any; or the assembly has a late fragment already.        *)
OnTime(f) == f.type = "StreamPacket" /\ f.stream # 0
IsPacket(c) == OnTime(c.frame)
NoPacket(cells, i, j) == \A k \in (i + 1)..(j - 1) : ~IsPacket(cells[k])

Fits(assembly, s, id, i) ==
    \/ Late(assembly.data)
    \/ s # 0 /\ assembly.next = i /\ assembly.data = Prefix(s, id, i)

Continues(cells, j, f, as) ==
    f.index > 0 =>
        /\ \A i \in 1..(j - 1) :
               IsPacket(cells[i]) /\ NoPacket(cells, i, j)
                   => cells[i].frame = Fragment(f.stream, f.id, f.index - 1)
        /\ NoPacket(cells, 0, j) /\ f.id \in DOMAIN as
               => Fits(as[f.id], f.stream, f.id, f.index)

Ordered(cells, as) ==
    \A j \in 1..Len(cells) :
        IsPacket(cells[j]) /\ cells[j].at = 1 => Continues(cells, j, cells[j].frame, as)

(* The stream whose metadata came last, before a cell and before a call:    *)
(* that of the nearest call, or cell, that has one, of the codec otherwise. *)
(* What is late says nothing of it.                                         *)
StreamOf(e) ==
    IF e.call = "configure" THEN e.stream
    ELSE IF e.call = "decode" /\ ~Late(e.data) THEN e.data[1].stream ELSE 0
Before(c, calls, i) == IF i = 0 THEN c ELSE StreamOf(calls[i])
NoCall(calls, i, j) == \A k \in (i + 1)..(j - 1) : StreamOf(calls[k]) = 0
NoStream(cells, i, j) == \A k \in (i + 1)..(j - 1) : cells[k].frame.stream = 0

CallsAnnounced(c, calls) ==
    \A j \in 1..Len(calls) : calls[j].call = "decode" /\ StreamOf(calls[j]) # 0 =>
        \A i \in 0..(j - 1) :
            Before(c, calls, i) # 0 /\ NoCall(calls, i, j)
                => Before(c, calls, i) = StreamOf(calls[j])

Announced(c, calls, cells, j, s) ==
    /\ \A i \in 1..(j - 1) :
           cells[i].frame.stream # 0 /\ NoStream(cells, i, j) => cells[i].frame.stream = s
    /\ NoStream(cells, 0, j) =>
           \A i \in 0..Len(calls) :
               Before(c, calls, i) # 0 /\ NoCall(calls, i, Len(calls) + 1)
                   => Before(c, calls, i) = s

CellsAnnounced(c, calls, cells) ==
    \A j \in 1..Len(cells) :
        IsPacket(cells[j]) => Announced(c, calls, cells, j, cells[j].frame.stream)

(* The invariant of what the client has still to read and what it has made  *)
(* of what it read, and of what the stream announced last sends next.       *)
NextOf(ses) == Fragment(ses.stream, ses.id, ses.index)

Sound(ses, c, cells, as, calls) ==
    /\ Ordered(cells, as)
    /\ CallsAnnounced(c, calls)
    /\ CellsAnnounced(c, calls, cells)
    /\ ses.index > 0 => ses.stream # 0 /\ Continues(cells, Len(cells) + 1, NextOf(ses), as)
    /\ ses.stream # 0 => Announced(c, calls, cells, Len(cells) + 1, ses.stream)

LinkInv ==
    /\ LinkTypeOK
    /\ FramesAreRecovered
    /\ Sound(Current, codec, receiveBuffer \o down.cells, assemblies, events)

-----------------------------------------------------------------------------
(* Induction over a set of numbers, and the loops it is for: what a pass    *)
(* computes from the pass before exists.                                    *)
LEMMA SetInduction ==
    ASSUME NEW S, 0 \in S, \A n \in Nat : n \in S => n + 1 \in S
    PROVE  Nat \subseteq S
<1>1. SUFFICES ASSUME Nat \ S # {} PROVE FALSE
  OBVIOUS
<1>2. PICK n \in Nat \ S : \A m \in Nat \ S : ~(<<m, n>> \in OpToRel(<, Nat))
  BY <1>1, NatLessThanWellFounded, WFMin
<1>3. \A m \in Nat \ S : ~(m < n)
  BY <1>2 DEF OpToRel
<1>4. n # 0 /\ n - 1 \in Nat \ S
  OBVIOUS
<1> QED  BY <1>3, <1>4

Iterates(f, G, a, n) == f = [i \in 0..n |-> IF i = 0 THEN a ELSE G[f[i - 1]]]

(* A loop of n passes: the function from pass to result exists.              *)
LEMMA Iteration ==
    ASSUME NEW D, NEW G \in [D -> D], NEW a \in D, NEW n \in Nat
    PROVE  \E f \in [0..n -> D] : Iterates(f, G, a, n)
<1> DEFINE P(f, m) == f = [i \in 0..m |-> IF i = 0 THEN a ELSE G[f[i - 1]]]
           S == {m \in Nat : \E f \in [0..m -> D] : P(f, m)}
<1>1. 0 \in S
  <2>1. [i \in 0..0 |-> a] \in [0..0 -> D] /\ P([i \in 0..0 |-> a], 0)
    OBVIOUS
  <2> QED  BY <2>1
<1>2. ASSUME NEW m \in Nat, m \in S PROVE m + 1 \in S
  <2>1. PICK f \in [0..m -> D] : P(f, m)
    BY <1>2
  <2> DEFINE g == [i \in 0..(m + 1) |-> IF i \in 0..m THEN f[i] ELSE G[f[m]]]
  <2>2. g \in [0..(m + 1) -> D]
    OBVIOUS
  <2>3. ASSUME NEW i \in 0..(m + 1)
        PROVE  g[i] = IF i = 0 THEN a ELSE G[g[i - 1]]
    <3>1. CASE i = 0
      BY <2>1, <3>1
    <3>2. CASE i \in 1..m
      <4>1. g[i] = f[i] /\ g[i - 1] = f[i - 1]
        BY <3>2
      <4>2. f[i] = G[f[i - 1]]
        BY <2>1, <3>2
      <4> QED  BY <3>2, <4>1, <4>2
    <3>3. CASE i = m + 1
      BY <3>3
    <3> QED  BY <3>1, <3>2, <3>3
  <2>4. P(g, m + 1)
    BY <2>2, <2>3
  <2>5. m + 1 \in Nat
    OBVIOUS
  <2> HIDE DEF P, g
  <2> QED  BY <2>2, <2>4, <2>5
<1> HIDE DEF S
<1>3. Nat \subseteq S
  BY <1>1, <1>2, SetInduction
<1> QED  BY <1>3 DEF S, Iterates

-----------------------------------------------------------------------------
(* Cells.                                                                   *)
Framed(cells) == IsFramed(cells) /\ (cells # <<>> => cells[1].at = 1)
Starts(cells) == {i \in 1..Len(cells) : cells[i].at = 1}
Lengths(F) == \A f \in F : f.length \in Nat

(* A frame has at least the cells of its header.                             *)
LEMMA SizeIsPositive ==
    ASSUME NEW F, Lengths(F), NEW f \in F
    PROVE  SizeOf(f) \in Nat \ {0}
BY Sizes DEF SizeOf, Lengths

(* What is behind the first n elements, and what is behind these.            *)
LEMMA UnreadFacts ==
    ASSUME NEW S, NEW s \in Seq(S), NEW n \in 0..Len(s)
    PROVE  /\ Unread(s, n) \in Seq(S)
           /\ Len(Unread(s, n)) = Len(s) - n
           /\ \A i \in 1..(Len(s) - n) : Unread(s, n)[i] = s[n + i]
<1>1. Len(s) \in Nat /\ \A i \in (n + 1)..Len(s) : s[i] \in S
  OBVIOUS
<1> QED  BY <1>1, SubSeqProperties DEF Unread

(* Taking off m elements and then n is taking off m + n.                     *)
LEMMA UnreadTwice ==
    ASSUME NEW S, NEW s \in Seq(S), NEW m \in 0..Len(s), NEW n \in 0..(Len(s) - m)
    PROVE  Unread(Unread(s, m), n) = Unread(s, m + n)
<1>1. /\ Unread(s, m) \in Seq(S) /\ Len(Unread(s, m)) = Len(s) - m
      /\ \A i \in 1..(Len(s) - m) : Unread(s, m)[i] = s[m + i]
  BY UnreadFacts
<1>2. /\ Unread(Unread(s, m), n) \in Seq(S)
      /\ Len(Unread(Unread(s, m), n)) = Len(s) - m - n
      /\ \A i \in 1..(Len(s) - m - n) : Unread(Unread(s, m), n)[i] = Unread(s, m)[n + i]
  BY <1>1, UnreadFacts
<1>3. Len(s) \in Nat /\ m + n \in 0..Len(s)
  OBVIOUS
<1>4. /\ Unread(s, m + n) \in Seq(S) /\ Len(Unread(s, m + n)) = Len(s) - (m + n)
      /\ \A i \in 1..(Len(s) - (m + n)) : Unread(s, m + n)[i] = s[m + n + i]
  BY <1>3, UnreadFacts
<1>5. \A i \in 1..(Len(s) - (m + n)) : Unread(Unread(s, m), n)[i] = Unread(s, m + n)[i]
  <2> SUFFICES ASSUME NEW i \in 1..(Len(s) - (m + n))
               PROVE  Unread(Unread(s, m), n)[i] = Unread(s, m + n)[i]
    OBVIOUS
  <2>1. i \in 1..(Len(s) - m - n) /\ n + i \in 1..(Len(s) - m)
    BY <1>3
  <2>2. Unread(Unread(s, m), n)[i] = s[m + (n + i)]
    BY <1>1, <1>2, <2>1
  <2>3. m + (n + i) = m + n + i
    BY <1>3
  <2> QED  BY <1>4, <2>2, <2>3
<1> QED  BY <1>2, <1>3, <1>4, <1>5, SeqEqual, SMTT(30)

(* Taking off the front leaves what is appended alone.                       *)
LEMMA UnreadConcat ==
    ASSUME NEW S, NEW s \in Seq(S), NEW t \in Seq(S), NEW n \in 0..Len(s)
    PROVE  Unread(s \o t, n) = Unread(s, n) \o t
<1>1. /\ Unread(s, n) \in Seq(S) /\ Len(Unread(s, n)) = Len(s) - n
      /\ \A i \in 1..(Len(s) - n) : Unread(s, n)[i] = s[n + i]
  BY UnreadFacts
<1>2. /\ s \o t \in Seq(S) /\ Len(s \o t) = Len(s) + Len(t)
      /\ Len(s) \in Nat /\ Len(t) \in Nat
  OBVIOUS
<1>3. /\ Unread(s \o t, n) \in Seq(S) /\ Len(Unread(s \o t, n)) = Len(s) + Len(t) - n
      /\ \A i \in 1..(Len(s) + Len(t) - n) : Unread(s \o t, n)[i] = (s \o t)[n + i]
  <2>1. n \in 0..Len(s \o t)
    BY <1>2
  <2>2. /\ Unread(s \o t, n) \in Seq(S) /\ Len(Unread(s \o t, n)) = Len(s \o t) - n
        /\ \A i \in 1..(Len(s \o t) - n) : Unread(s \o t, n)[i] = (s \o t)[n + i]
    BY <1>2, <2>1, UnreadFacts
  <2> QED  BY <1>2, <2>2
<1>4. /\ Unread(s, n) \o t \in Seq(S)
      /\ Len(Unread(s, n) \o t) = Len(s) + Len(t) - n
      /\ \A i \in 1..(Len(s) + Len(t) - n) :
             (Unread(s, n) \o t)[i] = IF i <= Len(s) - n THEN Unread(s, n)[i] ELSE t[i - (Len(s) - n)]
  <2> DEFINE u == Unread(s, n)
  <2>1. u \in Seq(S) /\ Len(u) = Len(s) - n /\ Len(u) + Len(t) = Len(s) + Len(t) - n
    BY <1>1, <1>2
  <2> HIDE DEF u
  <2>2. /\ u \o t \in Seq(S) /\ Len(u \o t) = Len(u) + Len(t)
        /\ \A i \in 1..(Len(u) + Len(t)) :
               (u \o t)[i] = IF i <= Len(u) THEN u[i] ELSE t[i - Len(u)]
    BY <2>1, ConcatProperties
  <2>3. /\ u \o t \in Seq(S) /\ Len(u \o t) = Len(s) + Len(t) - n
        /\ \A i \in 1..(Len(s) + Len(t) - n) :
               (u \o t)[i] = IF i <= Len(s) - n THEN u[i] ELSE t[i - (Len(s) - n)]
    BY <2>1, <2>2
  <2> QED  BY <2>3 DEF u
<1>5. \A i \in 1..(Len(s) + Len(t) - n) : Unread(s \o t, n)[i] = (Unread(s, n) \o t)[i]
  <2> SUFFICES ASSUME NEW i \in 1..(Len(s) + Len(t) - n)
               PROVE  Unread(s \o t, n)[i] = (Unread(s, n) \o t)[i]
    OBVIOUS
  <2>1. n + i \in 1..(Len(s) + Len(t))
    BY <1>2
  <2>2. (s \o t)[n + i] = IF n + i <= Len(s) THEN s[n + i] ELSE t[n + i - Len(s)]
    BY <2>1, ConcatProperties
  <2>3. i <= Len(s) - n => i \in 1..(Len(s) - n)
    BY <1>2
  <2>4. n + i <= Len(s) <=> i <= Len(s) - n
    BY <1>2
  <2>5. n + i - Len(s) = i - (Len(s) - n)
    BY <1>2
  <2> QED  BY <1>1, <1>3, <1>4, <2>2, <2>3, <2>4, <2>5
<1> QED  BY <1>3, <1>4, <1>5, SeqEqual

(* What TCP delivers and what it keeps is what was under way.               *)
LEMMA FlowSplits ==
    ASSUME NEW S, NEW flow, flow.cells \in Seq(S), NEW k \in 1..Len(flow.cells), NEW n
    PROVE  /\ Arriving(flow, k) \in Seq(S)
           /\ Delivered(flow, k, n).cells \in Seq(S)
           /\ Arriving(flow, k) \o Delivered(flow, k, n).cells = flow.cells
<1> DEFINE s == flow.cells
<1>1. s \in Seq(S) /\ Len(s) \in Nat /\ k \in 1..Len(s)
  OBVIOUS
<1> HIDE DEF s
<1>2. \A i \in 1..k : s[i] \in S
  BY <1>1
<1>3. SubSeq(s, 1, k) \in Seq(S)
  BY <1>1, <1>2, SubSeqProperties
<1>4. Unread(s, k) \in Seq(S)
  BY <1>1, UnreadFacts
<1>5. 1 \in 1..(Len(s) + 1) /\ k \in (1 - 1)..Len(s) /\ Len(s) \in k..Len(s)
  BY <1>1
<1>6. SubSeq(s, 1, k) \o SubSeq(s, k + 1, Len(s)) = SubSeq(s, 1, Len(s))
  BY <1>1, <1>5, ConcatAdjacentSubSeq
<1>7. SubSeq(s, 1, Len(s)) = s
  BY <1>1, SubSeqFull
<1>8. /\ Arriving(flow, k) = SubSeq(s, 1, k)
      /\ Delivered(flow, k, n).cells = Unread(s, k)
  BY DEF Arriving, Delivered, s
<1> QED  BY <1>3, <1>4, <1>6, <1>7, <1>8 DEF Unread, s

(* The cells of a frame, by their place.                                     *)
LEMMA CellsOfFacts ==
    ASSUME NEW F, Lengths(F), NEW f \in F
    PROVE  /\ CellsOf(f) \in Seq(CellsIn(F))
           /\ Len(CellsOf(f)) = SizeOf(f)
           /\ SizeOf(f) \in Nat \ {0}
           /\ \A i \in 1..SizeOf(f) : CellsOf(f)[i] = [frame |-> f, at |-> i]
<1>1. SizeOf(f) \in Nat \ {0}
  BY SizeIsPositive
<1>2. \A i \in 1..SizeOf(f) : [frame |-> f, at |-> i] \in CellsIn(F)
  BY <1>1 DEF CellsIn
<1> QED  BY <1>1, <1>2 DEF CellsOf
-----------------------------------------------------------------------------
(* The cells of the frame at the front follow each other, so what is cut    *)
(* off is that frame, and what follows it begins a frame again.             *)
LEMMA FrontRun ==
    ASSUME NEW F, Lengths(F), NEW cells \in Seq(CellsIn(F)), Framed(cells), cells # <<>>
    PROVE  /\ FrontFrame(cells) \in F
           /\ \A j \in 1..SizeOf(FrontFrame(cells)) :
                  j <= Len(cells) => cells[j] = [frame |-> FrontFrame(cells), at |-> j]
<1> DEFINE f == FrontFrame(cells)
           n == SizeOf(f)
           S == {m \in Nat : m + 1 <= n /\ m + 1 <= Len(cells)
                                 => cells[m + 1] = [frame |-> f, at |-> m + 1]}
<1>1. Len(cells) \in Nat \ {0} /\ cells[1] \in CellsIn(F) /\ cells[1].at = 1
  BY DEF Framed
<1>2. f \in F /\ cells[1] = [frame |-> f, at |-> 1]
  BY <1>1 DEF FrontFrame, CellsIn
<1>3. n \in Nat \ {0}
  BY <1>2, SizeIsPositive
<1>4. 0 \in S
  BY <1>2
<1>5. ASSUME NEW m \in Nat, m \in S PROVE m + 1 \in S
  <2> SUFFICES ASSUME m + 2 <= n, m + 2 <= Len(cells)
               PROVE  cells[m + 2] = [frame |-> f, at |-> m + 2]
    BY <1>1, <1>3
  <2>1. cells[m + 1] = [frame |-> f, at |-> m + 1]
    BY <1>1, <1>3, <1>5
  <2>2. m + 1 \in 1..Len(cells) /\ m + 1 # Len(cells) /\ m + 1 # n /\ m + 1 + 1 = m + 2
    BY <1>1, <1>3
  <2>3. cells[m + 1].frame = f /\ cells[m + 1].at = m + 1
    BY <2>1
  <2>4. cells[m + 1].at # SizeOf(cells[m + 1].frame)
    BY <2>2, <2>3
  <2>5. cells[m + 1 + 1] = [cells[m + 1] EXCEPT !.at = @ + 1]
    BY <2>2, <2>4 DEF Framed, IsFramed
  <2> HIDE DEF f, n
  <2> QED  BY <2>1, <2>2, <2>5
<1> HIDE DEF S
<1>6. Nat \subseteq S
  BY <1>4, <1>5, SetInduction
<1>7. ASSUME NEW j \in 1..n, j <= Len(cells) PROVE cells[j] = [frame |-> f, at |-> j]
  <2>1. j - 1 \in S /\ j - 1 + 1 = j
    BY <1>3, <1>6
  <2> QED  BY <1>3, <1>7, <2>1 DEF S
<1> QED  BY <1>2, <1>7

(* The first cells of frames can be counted.                                 *)
LEMMA StartsAreFinite ==
    ASSUME NEW F, NEW cells \in Seq(CellsIn(F))
    PROVE  IsFiniteSet(Starts(cells)) /\ Cardinality(Starts(cells)) \in Nat
<1>1. Len(cells) \in Nat /\ Starts(cells) \in SUBSET (1..Len(cells))
  BY DEF Starts
<1>2. IsFiniteSet(1..Len(cells))
  BY <1>1, FS_Interval
<1>3. IsFiniteSet(Starts(cells))
  BY <1>1, <1>2, FS_Subset
<1> QED  BY <1>3, FS_CardinalityType

(* Without the frame at the front there is one frame less, and all of the    *)
(* others are as they were.                                                  *)
LEMMA FrontIsCut ==
    ASSUME NEW F, Lengths(F), NEW cells \in Seq(CellsIn(F)), Framed(cells), cells # <<>>,
           SizeOf(FrontFrame(cells)) <= Len(cells)
    PROVE  LET rest == Unread(cells, SizeOf(FrontFrame(cells)))
           IN  /\ rest \in Seq(CellsIn(F)) /\ Framed(rest)
               /\ Len(rest) = Len(cells) - SizeOf(FrontFrame(cells))
               /\ Cardinality(Starts(cells)) = Cardinality(Starts(rest)) + 1
<1> DEFINE f == FrontFrame(cells)
           n == SizeOf(f)
           rest == Unread(cells, n)
<1>1. f \in F /\ \A j \in 1..n : j <= Len(cells) => cells[j] = [frame |-> f, at |-> j]
  BY FrontRun
<1>2. n \in Nat \ {0} /\ Len(cells) \in Nat /\ n <= Len(cells)
  BY <1>1, SizeIsPositive
<1>3. n \in 0..Len(cells)
  BY <1>2
<1>4. /\ rest \in Seq(CellsIn(F)) /\ Len(rest) = Len(cells) - n
      /\ \A i \in 1..(Len(cells) - n) : rest[i] = cells[n + i]
  BY <1>3, UnreadFacts
<1>5. \A j \in 1..n : cells[j] = [frame |-> f, at |-> j]
  BY <1>1, <1>2
<1>6. SizeOf(f) = n
  OBVIOUS
<1> HIDE DEF f, n, rest
<1>7. n < Len(cells) => cells[n + 1].at = 1
  <2>1. n \in 1..n /\ n \in 1..Len(cells)
    BY <1>2
  <2>2. cells[n] = [frame |-> f, at |-> n]
    BY <1>5, <2>1
  <2>3. cells[n].at = SizeOf(cells[n].frame)
    BY <1>6, <2>2
  <2> QED  BY <2>1, <2>3 DEF Framed, IsFramed
<1>8. IsFramed(rest)
  <2> SUFFICES ASSUME NEW i \in 1..Len(rest)
               PROVE  IF i = Len(rest) \/ rest[i].at = SizeOf(rest[i].frame)
                      THEN /\ rest[i].at = SizeOf(rest[i].frame)
                           /\ i < Len(rest) => rest[i + 1].at = 1
                      ELSE rest[i + 1] = [rest[i] EXCEPT !.at = @ + 1]
    BY DEF IsFramed
  <2>1. i \in 1..(Len(cells) - n) /\ n + i \in 1..Len(cells) /\ n + i + 1 = n + (i + 1)
    BY <1>2, <1>4
  <2>2. rest[i] = cells[n + i] /\ (i < Len(rest) => rest[i + 1] = cells[n + i + 1])
    BY <1>2, <1>4, <2>1, SMTT(30)
  <2>3. (n + i = Len(cells) <=> i = Len(rest)) /\ (n + i < Len(cells) <=> i < Len(rest))
    <3>1. Len(rest) = Len(cells) - n
      BY <1>4
    <3> QED  BY <1>2, <3>1
  <2>4. IF n + i = Len(cells) \/ cells[n + i].at = SizeOf(cells[n + i].frame)
        THEN /\ cells[n + i].at = SizeOf(cells[n + i].frame)
             /\ n + i < Len(cells) => cells[n + i + 1].at = 1
        ELSE cells[n + i + 1] = [cells[n + i] EXCEPT !.at = @ + 1]
    BY <2>1 DEF Framed, IsFramed
  <2>5. i # Len(rest) => i < Len(rest)
    <3>1. Len(rest) = Len(cells) - n
      BY <1>4
    <3> QED  BY <1>2, <2>1, <3>1
  <2> QED  BY <2>2, <2>3, <2>4, <2>5
<1>9. rest # <<>> => rest[1].at = 1
  <2> SUFFICES ASSUME rest # <<>> PROVE rest[1].at = 1
    OBVIOUS
  <2>1. Len(rest) > 0
    BY <1>4
  <2>2. 1 \in 1..(Len(cells) - n) /\ n < Len(cells)
    BY <1>2, <1>4, <2>1
  <2> QED  BY <1>4, <1>7, <2>2
<1>10. Cardinality(Starts(cells)) = Cardinality(Starts(rest)) + 1
  <2> DEFINE g == [i \in Starts(rest) |-> n + i]
             T == Starts(cells) \ {1}
  <2>1. 1 \in Starts(cells)
    <3>1. 1 \in 1..n /\ 1 \in 1..Len(cells)
      BY <1>2
    <3>2. cells[1] = [frame |-> f, at |-> 1]
      BY <1>5, <3>1
    <3> QED  BY <3>1, <3>2 DEF Starts
  <2>2. \A i \in Starts(rest) : n + i \in T
    <3> SUFFICES ASSUME NEW i \in Starts(rest) PROVE n + i \in T
      OBVIOUS
    <3>1. i \in 1..(Len(cells) - n) /\ rest[i].at = 1
      BY <1>4 DEF Starts
    <3>2. n + i \in 1..Len(cells) /\ n + i # 1
      BY <1>2, <3>1
    <3> QED  BY <1>4, <3>1, <3>2 DEF Starts
  <2>3. \A t \in T : \E i \in Starts(rest) : n + i = t
    <3> SUFFICES ASSUME NEW t \in T PROVE \E i \in Starts(rest) : n + i = t
      OBVIOUS
    <3>1. t \in 1..Len(cells) /\ t # 1 /\ cells[t].at = 1
      BY DEF Starts
    <3>2. t \notin 1..n
      <4>1. SUFFICES ASSUME t \in 1..n PROVE FALSE
        OBVIOUS
      <4>2. cells[t] = [frame |-> f, at |-> t]
        BY <1>5, <4>1
      <4> QED  BY <3>1, <4>2
    <3>3. t - n \in 1..(Len(cells) - n) /\ n + (t - n) = t
      BY <1>2, <3>1, <3>2
    <3>4. t - n \in Starts(rest)
      BY <1>4, <3>1, <3>3 DEF Starts
    <3> QED  BY <3>3, <3>4
  <2>4. Starts(rest) \subseteq Nat
    BY <1>2, <1>4 DEF Starts
  <2>5. g \in Bijection(Starts(rest), T)
    BY <1>2, <2>2, <2>3, <2>4 DEF Bijection, Injection, Surjection, IsInjective
  <2>6. ExistsBijection(Starts(rest), T)
    BY <2>5 DEF ExistsBijection
  <2>7. Cardinality(T) = Cardinality(Starts(rest))
    BY <1>4, <2>6, StartsAreFinite, FS_Bijection
  <2>8. IsFiniteSet(Starts(cells)) /\ Cardinality(Starts(cells)) \in Nat
    BY StartsAreFinite
  <2>9. Cardinality(T) = Cardinality(Starts(cells)) - 1
    BY <2>1, <2>8, FS_RemoveElement
  <2> QED  BY <2>7, <2>8, <2>9
<1> QED  BY <1>4, <1>8, <1>9, <1>10 DEF rest, n, f, Framed

(* What is sent is framed behind what is framed.                            *)
LEMMA FrameIsSent ==
    ASSUME NEW F, Lengths(F), NEW cells \in Seq(CellsIn(F)), Framed(cells), NEW f \in F
    PROVE  /\ cells \o CellsOf(f) \in Seq(CellsIn(F))
           /\ Framed(cells \o CellsOf(f))
           /\ Cardinality(Starts(cells \o CellsOf(f))) = Cardinality(Starts(cells)) + 1
<1> DEFINE l == Len(cells)
           n == SizeOf(f)
           all == cells \o CellsOf(f)
<1>1. /\ CellsOf(f) \in Seq(CellsIn(F)) /\ Len(CellsOf(f)) = n /\ n \in Nat \ {0}
      /\ \A i \in 1..n : CellsOf(f)[i] = [frame |-> f, at |-> i]
  BY CellsOfFacts
<1>2. l \in Nat
  OBVIOUS
<1>3. /\ all \in Seq(CellsIn(F)) /\ Len(all) = l + n
      /\ \A i \in 1..(l + n) : all[i] = IF i <= l THEN cells[i] ELSE CellsOf(f)[i - l]
  <2>1. /\ all \in Seq(CellsIn(F)) /\ Len(all) = l + Len(CellsOf(f))
        /\ \A i \in 1..(l + Len(CellsOf(f))) :
               all[i] = IF i <= l THEN cells[i] ELSE CellsOf(f)[i - l]
    BY <1>1, ConcatProperties
  <2> QED  BY <1>1, <2>1
<1> HIDE DEF all, n, l
<1>4. \A i \in 1..l : all[i] = cells[i]
  BY <1>1, <1>2, <1>3
<1>5. \A i \in 1..n : all[l + i] = [frame |-> f, at |-> i]
  <2> SUFFICES ASSUME NEW i \in 1..n PROVE all[l + i] = [frame |-> f, at |-> i]
    OBVIOUS
  <2> DEFINE j == l + i
  <2>2. j \in 1..(l + n) /\ ~(j <= l) /\ j - l = i /\ j = l + i
    BY <1>1, <1>2
  <2> HIDE DEF j
  <2>3. all[j] = CellsOf(f)[j - l]
    BY <1>3, <2>2
  <2> QED  BY <1>1, <2>2, <2>3
<1>6. IsFramed(all)
  <2> SUFFICES ASSUME NEW i \in 1..(l + n)
               PROVE  IF i = l + n \/ all[i].at = SizeOf(all[i].frame)
                      THEN /\ all[i].at = SizeOf(all[i].frame)
                           /\ i < l + n => all[i + 1].at = 1
                      ELSE all[i + 1] = [all[i] EXCEPT !.at = @ + 1]
    BY <1>3 DEF IsFramed
  <2>0. l = Len(cells)
    BY DEF l
  <2>1. CASE i < l
    <3>1. i \in 1..l /\ i + 1 \in 1..l /\ i # l /\ i # l + n /\ i < l + n
      BY <1>1, <1>2, <2>1
    <3>2. IF cells[i].at = SizeOf(cells[i].frame)
          THEN cells[i + 1].at = 1
          ELSE cells[i + 1] = [cells[i] EXCEPT !.at = @ + 1]
      BY <2>0, <2>1, <3>1 DEF Framed, IsFramed
    <3>3. all[i] = cells[i] /\ all[i + 1] = cells[i + 1]
      BY <1>4, <3>1
    <3> QED  BY <3>1, <3>2, <3>3
  <2>2. CASE i = l
    <3>1. i \in 1..l /\ 1 \in 1..n /\ i # l + n
      BY <1>1, <1>2, <2>2
    <3>2. cells[i].at = SizeOf(cells[i].frame)
      BY <2>0, <2>2, <3>1 DEF Framed, IsFramed
    <3>3. all[i] = cells[i] /\ all[i + 1] = [frame |-> f, at |-> 1]
      BY <1>4, <1>5, <2>2, <3>1
    <3> QED  BY <3>1, <3>2, <3>3
  <2>3. CASE i > l
    <3> DEFINE j == i - l
    <3>1. j \in 1..n /\ l + j = i /\ (i = l + n <=> j = n) /\ (i < l + n <=> j < n)
      BY <1>1, <1>2, <2>3
    <3>2. all[i] = [frame |-> f, at |-> j]
      BY <1>5, <3>1
    <3>3. j < n => /\ j + 1 \in 1..n /\ l + (j + 1) = i + 1
                   /\ all[i + 1] = [frame |-> f, at |-> j + 1]
      BY <1>1, <1>2, <1>5, <3>1
    <3> HIDE DEF j
    <3>4. SizeOf(all[i].frame) = n /\ all[i].at = j
      BY <3>2 DEF n
    <3>5. CASE j = n
      BY <3>1, <3>4, <3>5, <1>1, <1>2
    <3>6. CASE j # n
      <4>1. j < n
        BY <1>1, <3>1, <3>6
      <4>2. [all[i] EXCEPT !.at = @ + 1] = [frame |-> f, at |-> j + 1]
        BY <3>2
      <4> QED  BY <3>1, <3>3, <3>4, <3>6, <4>1, <4>2
    <3> QED  BY <3>5, <3>6
  <2> QED  BY <1>1, <1>2, <2>1, <2>2, <2>3
<1>7. all[1].at = 1
  <2>1. CASE cells = <<>>
    <3>1. l = 0 /\ 1 \in 1..n
      BY <1>1, <2>1 DEF l
    <3>2. all[l + 1] = [frame |-> f, at |-> 1] /\ l + 1 = 1
      BY <1>5, <3>1
    <3> QED  BY <3>2
  <2>2. CASE cells # <<>>
    <3>1. 1 \in 1..l
      BY <2>2 DEF l
    <3> QED  BY <1>4, <2>2, <3>1 DEF Framed
  <2> QED  BY <2>1, <2>2
<1>8. Starts(all) = Starts(cells) \cup {l + 1}
  <2>1. ASSUME NEW i \in 1..l PROVE i \in Starts(all) <=> i \in Starts(cells)
    <3>1. i \in 1..(l + n)
      BY <1>1, <1>2
    <3> QED  BY <1>3, <1>4, <3>1 DEF Starts, l
  <2>2. ASSUME NEW j \in 1..n PROVE l + j \in Starts(all) <=> j = 1
    <3>1. l + j \in 1..(l + n) /\ all[l + j].at = j
      BY <1>1, <1>2, <1>5, SMTT(30)
    <3> QED  BY <1>3, <3>1 DEF Starts
  <2>3. Starts(all) \subseteq 1..(l + n) /\ Starts(cells) \subseteq 1..l
    BY <1>3 DEF Starts, l
  <2>4. 1 \in 1..n
    BY <1>1
  <2>5. \A i \in 1..(l + n) : i \notin 1..l => i - l \in 1..n /\ l + (i - l) = i
    BY <1>1, <1>2
  <2>6. Starts(all) \subseteq Starts(cells) \cup {l + 1}
    <3> SUFFICES ASSUME NEW i \in Starts(all), i \notin Starts(cells) PROVE i = l + 1
      OBVIOUS
    <3>1. i \in 1..(l + n) /\ i \notin 1..l
      BY <2>1, <2>3
    <3>2. i - l \in 1..n /\ l + (i - l) = i
      BY <2>5, <3>1
    <3> QED  BY <2>2, <3>2
  <2>7. Starts(cells) \subseteq Starts(all)
    BY <2>1, <2>3
  <2> QED  BY <2>2, <2>4, <2>6, <2>7
<1>9. IsFiniteSet(Starts(cells)) /\ l + 1 \notin Starts(cells)
  BY <1>2, StartsAreFinite DEF Starts, l
<1>10. Cardinality(Starts(all)) = Cardinality(Starts(cells)) + 1
  BY <1>8, <1>9, FS_AddElement
<1> QED  BY <1>3, <1>6, <1>7, <1>10 DEF all, Framed
-----------------------------------------------------------------------------
(* The two loops. Up to the end of what is read, an invariant of a pass     *)
(* holds of the result.                                                     *)
LEMMA UpTo ==
    ASSUME NEW S, NEW n \in Nat, 0 \in S, \A i \in 0..(n - 1) : i \in S => i + 1 \in S
    PROVE  0..n \subseteq S
<1> DEFINE T == {i \in Nat : i <= n => i \in S}
<1>1. 0 \in T
  OBVIOUS
<1>2. ASSUME NEW i \in Nat, i \in T PROVE i + 1 \in T
  <2> SUFFICES ASSUME i + 1 <= n PROVE i + 1 \in S
    OBVIOUS
  <2>1. i \in 0..(n - 1) /\ i <= n
    OBVIOUS
  <2> QED  BY <1>2, <2>1
<1> HIDE DEF T
<1>3. Nat \subseteq T
  BY <1>1, <1>2, SetInduction
<1> QED  BY <1>3 DEF T

(* A complete frame is at the front of all that is to come.                 *)
LEMMA FrontOfAll ==
    ASSUME NEW F, Lengths(F), NEW rest \in Seq(CellsIn(F)), NEW more \in Seq(CellsIn(F)),
           HasHeader(rest)
    PROVE  /\ rest # <<>> /\ rest \o more # <<>> /\ rest \o more \in Seq(CellsIn(F))
           /\ FrontFrame(rest) \in F
           /\ FrontFrame(rest \o more) = FrontFrame(rest)
           /\ SizeOf(FrontFrame(rest)) \in Nat \ {0}
           /\ Complete(rest) =>
                  /\ SizeOf(FrontFrame(rest)) \in 0..Len(rest)
                  /\ SizeOf(FrontFrame(rest)) <= Len(rest \o more)
                  /\ Unread(rest \o more, SizeOf(FrontFrame(rest)))
                         = Unread(rest, SizeOf(FrontFrame(rest))) \o more
<1> DEFINE f == FrontFrame(rest)
<1>1. Len(rest) \in Nat \ {0} /\ Len(more) \in Nat
  BY Sizes DEF HasHeader
<1>2. /\ rest \o more \in Seq(CellsIn(F)) /\ Len(rest \o more) = Len(rest) + Len(more)
      /\ (rest \o more)[1] = rest[1]
  BY <1>1, ConcatProperties
<1>3. f \in F
  <2>1. rest[1] \in CellsIn(F)
    BY <1>1
  <2> QED  BY <2>1 DEF FrontFrame, CellsIn
<1>4. SizeOf(f) \in Nat \ {0}
  BY <1>3, SizeIsPositive
<1>5. FrontFrame(rest \o more) = f
  BY <1>2 DEF FrontFrame
<1>6. Complete(rest) => SizeOf(f) \in 0..Len(rest) /\ SizeOf(f) <= Len(rest \o more)
  <2> HIDE DEF f
  <2>1. Complete(rest) => Len(rest) >= SizeOf(f)
    BY DEF Complete, f
  <2> QED  BY <1>1, <1>2, <1>4, <2>1
<1>7. Complete(rest) => Unread(rest \o more, SizeOf(f)) = Unread(rest, SizeOf(f)) \o more
  BY <1>6, UnreadConcat
<1>8. rest # <<>> /\ rest \o more # <<>>
  BY <1>1, <1>2
<1> HIDE DEF f
<1> QED  BY <1>2, <1>3, <1>4, <1>5, <1>6, <1>7, <1>8 DEF f

(* What a pass of the server's loop keeps: how the frames are counted, and  *)
(* that the rest is the end of what was there.                              *)
Cuts(F) == [rest : Seq(CellsIn(F)), out : Seq(F), tooLong : BOOLEAN]
CutsOf(F, cells, more) ==
    {c \in Cuts(F) :
        /\ Len(c.rest) <= Len(cells)
        /\ c.rest = Unread(cells, Len(cells) - Len(c.rest))
        /\ Framed(c.rest \o more)
        /\ Cardinality(Starts(cells \o more)) = Cardinality(Starts(c.rest \o more)) + Len(c.out)}

(* One pass either changes nothing, or refuses a length, or takes one frame. *)
LEMMA CutOneKeeps ==
    ASSUME NEW F, Lengths(F), NEW cells \in Seq(CellsIn(F)), NEW more \in Seq(CellsIn(F)),
           NEW c \in CutsOf(F, cells, more)
    PROVE  /\ CutOne(c) \in CutsOf(F, cells, more)
           /\ c.tooLong => CutOne(c).tooLong
           /\ ~Complete(c.rest) => CutOne(c).rest = c.rest
           /\ Complete(c.rest) => CutOne(c).tooLong \/ Len(CutOne(c).rest) < Len(c.rest)
<1> DEFINE f == FrontFrame(c.rest)
           n == SizeOf(f)
<1>1. /\ c \in Cuts(F) /\ c.rest \in Seq(CellsIn(F)) /\ c.out \in Seq(F) /\ c.tooLong \in BOOLEAN
      /\ c = [rest |-> c.rest, out |-> c.out, tooLong |-> c.tooLong]
  BY DEF CutsOf, Cuts
<1>2. CASE ~HasHeader(c.rest) \/ (~(f.length > MaxLength) /\ ~Complete(c.rest))
  <2>1. CutOne(c) = c /\ ~Complete(c.rest)
    BY <1>2 DEF CutOne, Complete
  <2> QED  BY <2>1
<1>3. CASE HasHeader(c.rest) /\ f.length > MaxLength
  <2>1. CutOne(c) = [c EXCEPT !.tooLong = TRUE]
    BY <1>3 DEF CutOne
  <2>2. CutOne(c) = [rest |-> c.rest, out |-> c.out, tooLong |-> TRUE]
    BY <1>1, <2>1
  <2>3. CutOne(c) \in Cuts(F) /\ CutOne(c).rest = c.rest /\ CutOne(c).out = c.out /\ CutOne(c).tooLong
    BY <1>1, <2>2 DEF Cuts
  <2> QED  BY <2>3 DEF CutsOf
<1>4. CASE HasHeader(c.rest) /\ ~(f.length > MaxLength) /\ Complete(c.rest)
  <2> DEFINE rest == Unread(c.rest, n)
  <2>1. CutOne(c) = [c EXCEPT !.rest = rest, !.out = Append(@, f)]
    BY <1>4 DEF CutOne
  <2>2. CutOne(c) = [rest |-> rest, out |-> Append(c.out, f), tooLong |-> c.tooLong]
    BY <1>1, <2>1
  <2>3. /\ f \in F /\ n \in Nat \ {0} /\ n \in 0..Len(c.rest)
        /\ c.rest \o more # <<>> /\ c.rest \o more \in Seq(CellsIn(F))
        /\ FrontFrame(c.rest \o more) = f /\ n <= Len(c.rest \o more)
        /\ Unread(c.rest \o more, n) = rest \o more
    BY <1>1, <1>4, FrontOfAll
  <2>4. rest \in Seq(CellsIn(F)) /\ Len(rest) = Len(c.rest) - n
    BY <1>1, <2>3, UnreadFacts
  <2>5. /\ Framed(rest \o more)
        /\ Cardinality(Starts(c.rest \o more)) = Cardinality(Starts(rest \o more)) + 1
    <3>1. Framed(c.rest \o more)
      BY DEF CutsOf
    <3> QED  BY <2>3, <3>1, FrontIsCut
  <2>6. Append(c.out, f) \in Seq(F) /\ Len(Append(c.out, f)) = Len(c.out) + 1 /\ Len(c.out) \in Nat
    BY <1>1, <2>3
  <2>7. /\ Len(c.rest) <= Len(cells) /\ c.rest = Unread(cells, Len(cells) - Len(c.rest))
        /\ Cardinality(Starts(cells \o more)) = Cardinality(Starts(c.rest \o more)) + Len(c.out)
    BY DEF CutsOf
  <2> HIDE DEF f, n, rest
  <2>8. Len(cells) \in Nat /\ Len(c.rest) \in Nat
    BY <1>1
  <2>9. /\ Len(rest) <= Len(cells) /\ Len(rest) < Len(c.rest)
        /\ Len(cells) - Len(c.rest) \in 0..Len(cells)
        /\ n \in 0..(Len(cells) - (Len(cells) - Len(c.rest)))
        /\ Len(cells) - Len(c.rest) + n = Len(cells) - Len(rest)
    BY <2>3, <2>4, <2>7, <2>8
  <2>10. rest = Unread(cells, Len(cells) - Len(rest))
    <3>1. rest = Unread(Unread(cells, Len(cells) - Len(c.rest)), n)
      BY <2>7 DEF rest
    <3>2. Unread(Unread(cells, Len(cells) - Len(c.rest)), n)
              = Unread(cells, Len(cells) - Len(c.rest) + n)
      BY <2>9, UnreadTwice
    <3> QED  BY <2>9, <3>1, <3>2
  <2>11. rest \o more \in Seq(CellsIn(F))
    BY <2>4, ConcatProperties
  <2>12. Cardinality(Starts(rest \o more)) \in Nat
    BY <2>11, StartsAreFinite
  <2>13. Cardinality(Starts(cells \o more))
             = Cardinality(Starts(rest \o more)) + Len(Append(c.out, f))
    <3> DEFINE x == Cardinality(Starts(rest \o more))
               y == Cardinality(Starts(c.rest \o more))
               z == Cardinality(Starts(cells \o more))
               n1 == Len(Append(c.out, f))
               n0 == Len(c.out)
    <3>1. z = y + n0 /\ y = x + 1 /\ n1 = n0 + 1 /\ n0 \in Nat /\ x \in Nat
      BY <2>5, <2>6, <2>7, <2>12
    <3> HIDE DEF x, y, z, n0, n1
    <3>2. z = x + n1
      BY <3>1
    <3> QED  BY <3>2 DEF x, z, n1
  <2>14. /\ CutOne(c) \in Cuts(F) /\ CutOne(c).rest = rest /\ CutOne(c).out = Append(c.out, f)
         /\ CutOne(c).tooLong = c.tooLong
    BY <1>1, <2>2, <2>4, <2>6 DEF Cuts
  <2> QED  BY <1>4, <2>5, <2>9, <2>10, <2>13, <2>14 DEF CutsOf
<1> QED  BY <1>2, <1>3, <1>4

(* The loop ends with a length that is too long or without a complete frame. *)
LEMMA CutFacts ==
    ASSUME NEW F, Lengths(F), NEW cells \in Seq(CellsIn(F)), NEW more \in Seq(CellsIn(F)),
           Framed(cells \o more)
    PROVE  /\ Cut(cells) \in CutsOf(F, cells, more)
           /\ Cut(cells).tooLong \/ ~Complete(Cut(cells).rest)
<1> DEFINE D == CutsOf(F, cells, more)
           l == Len(cells)
           first == [rest |-> cells, out |-> <<>>, tooLong |-> FALSE]
           P(g) == g = [n \in 0..l |-> IF n = 0 THEN first ELSE CutOne(g[n - 1])]
           pass == CHOOSE g : P(g)
<1>1. l \in Nat
  OBVIOUS
<1>2. first \in D
  <2>1. first \in Cuts(F)
    BY DEF Cuts
  <2>2. Unread(cells, l - l) = cells
    <3>1. Unread(cells, 0) = SubSeq(cells, 1, Len(cells))
      BY DEF Unread
    <3>2. l - l = 0
      BY <1>1
    <3> QED  BY <3>1, <3>2, SubSeqFull
  <2>3. Cardinality(Starts(cells \o more)) \in Nat
    BY StartsAreFinite, ConcatProperties
  <2> QED  BY <1>1, <2>1, <2>2, <2>3 DEF CutsOf
<1>3. P(pass)
  <2> DEFINE G == [c \in D |-> CutOne(c)]
  <2>1. G \in [D -> D]
    BY CutOneKeeps
  <2> HIDE DEF D, first, l, G
  <2>2. PICK g \in [0..l -> D] : Iterates(g, G, first, l)
    BY <1>1, <1>2, <2>1, Iteration
  <2>3. ASSUME NEW i \in 0..l, i # 0 PROVE G[g[i - 1]] = CutOne(g[i - 1])
    <3>1. i - 1 \in 0..l
      BY <1>1, <2>3
    <3> QED  BY <2>2, <3>1 DEF G
  <2>4. P(g)
    BY <2>2, <2>3 DEF Iterates
  <2> QED  BY <2>4
<1>4. Cut(cells) = pass[l]
  BY DEF Cut
<1> HIDE DEF pass, first, D
<1>5. pass[0] = first /\ \A n \in 0..(l - 1) : pass[n + 1] = CutOne(pass[n])
  <2>1. pass[0] = first
    BY <1>1, <1>3
  <2>2. ASSUME NEW n \in 0..(l - 1) PROVE pass[n + 1] = CutOne(pass[n])
    <3>1. n + 1 \in 0..l /\ n + 1 # 0 /\ n + 1 - 1 = n
      BY <1>1
    <3> QED  BY <1>3, <3>1
  <2> QED  BY <2>1, <2>2
<1>6. \A n \in 0..l : pass[n] \in D
  <2> DEFINE S == {n \in 0..l : pass[n] \in D}
  <2>1. 0 \in S
    BY <1>1, <1>2, <1>5
  <2>2. ASSUME NEW n \in 0..(l - 1), n \in S PROVE n + 1 \in S
    BY <1>1, <1>5, <2>2, CutOneKeeps DEF D
  <2> HIDE DEF S
  <2>3. 0..l \subseteq S
    BY <1>1, <2>1, <2>2, UpTo
  <2> QED  BY <2>3 DEF S
<1>7. \A n \in 0..l : \/ Len(pass[n].rest) <= l - n
                      \/ pass[n].tooLong \/ ~Complete(pass[n].rest)
  <2> DEFINE Q(n) == \/ Len(pass[n].rest) <= l - n
                     \/ pass[n].tooLong \/ ~Complete(pass[n].rest)
             S == {n \in 0..l : Q(n)}
  <2>1. 0 \in S
    <3>1. pass[0].rest = cells
      BY <1>5 DEF first
    <3> QED  BY <1>1, <3>1
  <2>2. ASSUME NEW n \in 0..(l - 1), n \in S PROVE n + 1 \in S
    <3>1. pass[n] \in D /\ pass[n + 1] \in D /\ pass[n + 1] = CutOne(pass[n]) /\ n + 1 \in 0..l
      BY <1>1, <1>5, <1>6
    <3>2. Len(pass[n].rest) \in Nat /\ Len(pass[n + 1].rest) \in Nat
      <4>1. pass[n].rest \in Seq(CellsIn(F)) /\ pass[n + 1].rest \in Seq(CellsIn(F))
        BY <3>1 DEF D, CutsOf, Cuts
      <4> QED  BY <4>1
    <3>3. /\ pass[n].tooLong => pass[n + 1].tooLong
          /\ ~Complete(pass[n].rest) => pass[n + 1].rest = pass[n].rest
          /\ Complete(pass[n].rest) =>
                 pass[n + 1].tooLong \/ Len(pass[n + 1].rest) < Len(pass[n].rest)
      BY <3>1, CutOneKeeps DEF D
    <3>4. Q(n)
      BY <2>2
    <3>5. Q(n + 1)
      <4>1. CASE pass[n].tooLong \/ ~Complete(pass[n].rest)
        BY <3>3, <4>1
      <4>2. CASE ~pass[n].tooLong /\ Complete(pass[n].rest)
        <5>1. Len(pass[n].rest) <= l - n
          BY <3>4, <4>2
        <5>2. CASE pass[n + 1].tooLong
          BY <5>2
        <5>3. CASE Len(pass[n + 1].rest) < Len(pass[n].rest)
          <6>1. Len(pass[n + 1].rest) <= l - (n + 1)
            BY <1>1, <3>2, <5>1, <5>3, SMTT(30)
          <6> QED  BY <6>1
        <5> QED  BY <3>3, <4>2, <5>2, <5>3
      <4> QED  BY <4>1, <4>2
    <3> QED  BY <3>1, <3>5
  <2> HIDE DEF S, Q
  <2>3. 0..l \subseteq S
    BY <1>1, <2>1, <2>2, UpTo
  <2> QED  BY <2>3 DEF S, Q
<1>8. Cut(cells).tooLong \/ ~Complete(Cut(cells).rest)
  <2>1. l \in 0..l /\ l - l = 0
    BY <1>1
  <2>2. pass[l].rest \in Seq(CellsIn(F))
    BY <1>6, <2>1 DEF D, CutsOf, Cuts
  <2>3. Len(pass[l].rest) <= 0 => ~Complete(pass[l].rest)
    <3>1. Len(pass[l].rest) \in Nat
      BY <2>2
    <3> QED  BY <3>1, Sizes DEF Complete, HasHeader
  <2> QED  BY <1>4, <1>7, <2>1, <2>3
<1>9. Cut(cells) \in D
  BY <1>1, <1>4, <1>6
<1> QED  BY <1>8, <1>9 DEF D
-----------------------------------------------------------------------------
(* The frames of this connection.                                           *)
LEMMA FramesOfLink ==
    /\ Lengths(UpFrames) /\ Lengths(DownFrames)
    /\ \A f \in DownFrames : f.length <= MaxLength
    /\ \A f \in DownFrames :
           /\ f.stream \in Nat
           /\ f.type \in {"Error", "StreamMetadata", "StreamPacket"}
           /\ f.type = "Error" => f.stream = 0
           /\ f.type = "StreamMetadata" => f.stream \in Streams
           /\ f.type = "StreamPacket" =>
                  /\ f.id \in Ids /\ f.index \in 0..(Fragments - 1)
                  /\ f = Fragment(f.stream, f.id, f.index)
<1>1. MaxLength \in Nat \ {0}
  BY Sizes
<1>2. Lengths(UpFrames)
  BY <1>1 DEF UpFrames, Lengths, GetStream, StopStream, TooLong
<1>3. ASSUME NEW f \in DownFrames
      PROVE  /\ f.length \in Nat /\ f.length <= MaxLength
             /\ f.stream \in Nat
             /\ f.type \in {"Error", "StreamMetadata", "StreamPacket"}
             /\ f.type = "Error" => f.stream = 0
             /\ f.type = "StreamMetadata" => f.stream \in Streams
             /\ f.type = "StreamPacket" =>
                    /\ f.id \in Ids /\ f.index \in 0..(Fragments - 1)
                    /\ f = Fragment(f.stream, f.id, f.index)
  <2>1. CASE f = Error
    BY <1>1, <2>1 DEF Error
  <2>2. CASE \E s \in Streams : f = Metadata(s)
    BY <1>1, <2>2 DEF Metadata, Streams
  <2>3. CASE \E s \in Nat, id \in Ids, i \in 0..(Fragments - 1) : f = Fragment(s, id, i)
    BY <1>1, <2>3 DEF Fragment
  <2> QED  BY <2>1, <2>2, <2>3 DEF DownFrames
<1> QED  BY <1>2, <1>3 DEF Lengths

(* A fragment is known by its stream, its packet and its index.             *)
LEMMA FragmentsDiffer ==
    ASSUME NEW s, NEW id, NEW i, NEW s2, NEW id2, NEW i2,
           Fragment(s, id, i) = Fragment(s2, id2, i2)
    PROVE  s = s2 /\ id = id2 /\ i = i2
<1>1. /\ Fragment(s, id, i).stream = s /\ Fragment(s, id, i).id = id
      /\ Fragment(s, id, i).index = i
  BY DEF Fragment
<1>2. /\ Fragment(s2, id2, i2).stream = s2 /\ Fragment(s2, id2, i2).id = id2
      /\ Fragment(s2, id2, i2).index = i2
  BY DEF Fragment
<1> QED  BY <1>1, <1>2

(* The fragments of a packet, one by one.                                    *)
LEMMA PrefixGrows ==
    ASSUME NEW s \in Streams, NEW id \in Ids, NEW i \in 0..(Fragments - 1)
    PROVE  /\ Prefix(s, id, i) \in Seq(DownFrames)
           /\ Prefix(s, id, 0) = <<>>
           /\ Append(Prefix(s, id, i), Fragment(s, id, i)) = Prefix(s, id, i + 1)
           /\ Prefix(s, id, Fragments)[1].stream = s
           /\ ~Late(Prefix(s, id, Fragments))
<1>1. Fragments \in Nat \ {0}
  BY Sizes
<1>2. \A k \in 1..(i + 1) : Fragment(s, id, k - 1) \in DownFrames
  <2> SUFFICES ASSUME NEW k \in 1..(i + 1) PROVE Fragment(s, id, k - 1) \in DownFrames
    OBVIOUS
  <2>1. k - 1 \in 0..(Fragments - 1)
    BY <1>1
  <2> QED  BY <2>1 DEF DownFrames, Streams
<1>3. Prefix(s, id, i) \in Seq(DownFrames) /\ Len(Prefix(s, id, i)) = i
  BY <1>1, <1>2 DEF Prefix
<1>4. Prefix(s, id, i + 1) \in Seq(DownFrames) /\ Len(Prefix(s, id, i + 1)) = i + 1
  BY <1>1, <1>2 DEF Prefix
<1>5. Prefix(s, id, 0) = <<>>
  BY DEF Prefix
<1>6. Fragment(s, id, i) \in DownFrames
  BY <1>1, <1>2
<1>7. /\ Append(Prefix(s, id, i), Fragment(s, id, i)) \in Seq(DownFrames)
      /\ Len(Append(Prefix(s, id, i), Fragment(s, id, i))) = i + 1
      /\ \A k \in 1..i : Append(Prefix(s, id, i), Fragment(s, id, i))[k] = Prefix(s, id, i)[k]
      /\ Append(Prefix(s, id, i), Fragment(s, id, i))[i + 1] = Fragment(s, id, i)
  BY <1>3, <1>6, AppendProperties
<1>8. \A k \in 1..(i + 1) :
          Append(Prefix(s, id, i), Fragment(s, id, i))[k] = Prefix(s, id, i + 1)[k]
  <2> SUFFICES ASSUME NEW k \in 1..(i + 1)
               PROVE  Append(Prefix(s, id, i), Fragment(s, id, i))[k] = Prefix(s, id, i + 1)[k]
    OBVIOUS
  <2>1. Prefix(s, id, i + 1)[k] = Fragment(s, id, k - 1)
    BY DEF Prefix
  <2>2. CASE k \in 1..i
    BY <1>7, <2>1, <2>2 DEF Prefix
  <2>3. CASE k = i + 1
    <3>1. k - 1 = i
      BY <2>3
    <3> QED  BY <1>7, <2>1, <2>3, <3>1
  <2>4. k \in 1..i \/ k = i + 1
    BY <1>1
  <2> QED  BY <2>2, <2>3, <2>4
<1>9. Prefix(s, id, Fragments)[1].stream = s
  <2>1. 1 \in 1..Fragments
    BY <1>1
  <2> QED  BY <2>1 DEF Prefix, Fragment
<1>10. ~Late(Prefix(s, id, Fragments))
  <2>1. Len(Prefix(s, id, Fragments)) = Fragments
    BY <1>1 DEF Prefix
  <2>2. \A k \in 1..Fragments : Prefix(s, id, Fragments)[k].stream # 0
    BY DEF Prefix, Fragment, Streams
  <2> QED  BY <2>1, <2>2 DEF Late
<1> QED  BY <1>3, <1>4, <1>5, <1>7, <1>8, <1>9, <1>10, SeqEqual

(* A late fragment makes the data late, and they stay so.                    *)
LEMMA LateStays ==
    ASSUME NEW data \in Seq(DownFrames), NEW f \in DownFrames, Late(data) \/ f.stream = 0
    PROVE  Late(Append(data, f))
<1>1. /\ Len(data) \in Nat /\ Len(Append(data, f)) = Len(data) + 1
      /\ \A i \in 1..Len(data) : Append(data, f)[i] = data[i]
      /\ Append(data, f)[Len(data) + 1] = f
  BY AppendProperties
<1>2. CASE f.stream = 0
  <2>1. Len(data) + 1 \in 1..Len(Append(data, f))
    BY <1>1
  <2> QED  BY <1>1, <1>2, <2>1 DEF Late
<1>3. CASE Late(data)
  <2>1. PICK i \in 1..Len(data) : data[i].stream = 0
    BY <1>3 DEF Late
  <2>2. i \in 1..Len(Append(data, f)) /\ Append(data, f)[i].stream = 0
    BY <1>1, <2>1
  <2> QED  BY <2>2 DEF Late
<1> QED  BY <1>2, <1>3

(* What the calls are.                                                      *)
LEMMA CallsOfLink ==
    ASSUME NEW e \in Calls
    PROVE  /\ StreamOf(e) \in Nat
           /\ e.call \in {"reset", "configure", "decode"}
           /\ e.call = "reset" => StreamOf(e) = 0
           /\ e.call = "configure" => StreamOf(e) = e.stream /\ e.stream \in Streams
           /\ e.call = "decode" =>
                  \/ Late(e.data) /\ StreamOf(e) = 0
                  \/ /\ ~Late(e.data) /\ StreamOf(e) = e.data[1].stream /\ StreamOf(e) # 0
                     /\ \E s \in Streams, id \in Ids : e.data = Prefix(s, id, Fragments)
<1>1. Fragments \in Nat \ {0}
  BY Sizes
<1>2. CASE e = [call |-> "reset"]
  BY <1>2 DEF StreamOf
<1>3. CASE \E s \in Streams : e = [call |-> "configure", stream |-> s]
  BY <1>3 DEF StreamOf, Streams
<1>4. CASE \E s \in Streams, id \in Ids : e = [call |-> "decode", data |-> Prefix(s, id, Fragments)]
  <2>1. PICK s \in Streams, id \in Ids : e = [call |-> "decode", data |-> Prefix(s, id, Fragments)]
    BY <1>4
  <2>2. 0 \in 0..(Fragments - 1)
    BY <1>1
  <2>3. Prefix(s, id, Fragments)[1].stream = s /\ ~Late(Prefix(s, id, Fragments))
    BY <2>2, PrefixGrows
  <2>4. e.call = "decode" /\ e.data = Prefix(s, id, Fragments)
    BY <2>1
  <2>5. StreamOf(e) = s /\ s # 0 /\ s \in Nat
    BY <2>3, <2>4 DEF StreamOf, Streams
  <2> QED  BY <2>3, <2>4, <2>5
<1>5. CASE \E data \in Seq(DownFrames) : Late(data) /\ e = [call |-> "decode", data |-> data]
  <2>1. e.call = "decode" /\ Late(e.data)
    BY <1>5
  <2> QED  BY <2>1 DEF StreamOf
<1> QED  BY <1>2, <1>3, <1>4, <1>5 DEF Calls
-----------------------------------------------------------------------------
(* One fragment. If an assembly waits for it, it has all of the packet that *)
(* came before.                                                             *)
Receivers ==
    [rest : Seq(CellsIn(DownFrames)), read : Nat, assemblies : Assemblies, events : Seq(Calls)]

(* An assembly is a function from ids to a number and the data so far.       *)
LEMMA AssembliesAre ==
    /\ \A held \in Assemblies :
           /\ DOMAIN held \subseteq Ids
           /\ held = [id \in DOMAIN held |-> held[id]]
           /\ \A id \in DOMAIN held : held[id] \in [next : Nat, data : Seq(DownFrames)]
    /\ \A I \in SUBSET Ids : \A held \in [I -> [next : Nat, data : Seq(DownFrames)]] :
           held \in Assemblies
BY DEF Assemblies

(* consumeFragment() of a fragment that is late or fits its assembly, if     *)
(* there is one: the next is expected, the assembly is dropped, or the       *)
(* packet, whole or with a late fragment, is given to the decoder.           *)
Consumed(r, d, s, id, i) ==
    /\ d.rest = r.rest /\ d.read = r.read
    /\ d = [rest |-> d.rest, read |-> d.read,
            assemblies |-> d.assemblies, events |-> d.events]
    /\ d.assemblies \in Assemblies
    /\ \A x \in DOMAIN d.assemblies : x # id =>
           x \in DOMAIN r.assemblies /\ d.assemblies[x] = r.assemblies[x]
    /\ id \in DOMAIN d.assemblies => Fits(d.assemblies[id], s, id, i + 1)
    /\ \/ d.events = r.events
       \/ \E data \in Seq(DownFrames) :
              /\ Late(data) \/ (s # 0 /\ data = Prefix(s, id, Fragments))
              /\ d.events = Append(r.events, [call |-> "decode", data |-> data])

LEMMA FragmentConsumed ==
    ASSUME NEW r \in Receivers, NEW s \in Nat, NEW id \in Ids, NEW i \in 0..(Fragments - 1),
           s # 0 /\ i > 0 /\ id \in DOMAIN r.assemblies => Fits(r.assemblies[id], s, id, i)
    PROVE  Consumed(r, ConsumeFragment(r, Fragment(s, id, i)), s, id, i)
<1> DEFINE f == Fragment(s, id, i)
           d == ConsumeFragment(r, f)
           A == [next : Nat, data : Seq(DownFrames)]
           held == Begun(r.assemblies, f)
           data == Append(held[id].data, f)
<1>1. /\ r.assemblies \in Assemblies
      /\ r = [rest |-> r.rest, read |-> r.read, assemblies |-> r.assemblies, events |-> r.events]
  BY DEF Receivers
<1>2. /\ f.id = id /\ f.index = i /\ f.stream = s /\ f \in DownFrames /\ i \in Nat
      /\ i + 1 \in Nat /\ Fragments \in Nat /\ (i + 1 < Fragments \/ i + 1 = Fragments)
  <2>1. f \in DownFrames
    BY DEF DownFrames
  <2>2. f.id = id /\ f.index = i /\ f.stream = s
    BY DEF Fragment
  <2>3. /\ i \in Nat /\ i + 1 \in Nat /\ Fragments \in Nat
        /\ i + 1 < Fragments \/ i + 1 = Fragments
    BY Sizes
  <2> QED  BY <2>1, <2>2, <2>3
<1>3. s # 0 => /\ Prefix(s, id, i) \in Seq(DownFrames) /\ Prefix(s, id, 0) = <<>>
               /\ Append(Prefix(s, id, i), f) = Prefix(s, id, i + 1)
  BY PrefixGrows DEF Streams
<1> HIDE DEF f, A
<1>4. /\ DOMAIN held \subseteq Ids /\ \A x \in DOMAIN held : held[x] \in A
      /\ held = [x \in DOMAIN held |-> held[x]]
      /\ s # 0 /\ id \in DOMAIN held => Fits(held[id], s, id, i)
      /\ \A x \in DOMAIN held : x # id =>
             x \in DOMAIN r.assemblies /\ held[x] = r.assemblies[x]
  <2>1. /\ DOMAIN r.assemblies \subseteq Ids /\ \A x \in DOMAIN r.assemblies : r.assemblies[x] \in A
        /\ r.assemblies = [x \in DOMAIN r.assemblies |-> r.assemblies[x]]
    BY <1>1, AssembliesAre DEF A
  <2>2. CASE i = 0
    <3> DEFINE I == DOMAIN r.assemblies \cup {id}
               new == [next |-> 0, data |-> <<>>]
    <3>1. held = [x \in I |-> IF x = id THEN new ELSE r.assemblies[x]]
      BY <1>2, <2>2 DEF Begun
    <3>2. new \in A /\ (s # 0 => Fits(new, s, id, i))
      BY <1>3, <2>2 DEF A, Fits
    <3> HIDE DEF new, held
    <3>3. \A x \in I : held[x] = IF x = id THEN new ELSE r.assemblies[x]
      BY <3>1
    <3>4. DOMAIN held = I /\ I \subseteq Ids
      BY <2>1, <3>1
    <3>5. s # 0 /\ id \in DOMAIN held => Fits(held[id], s, id, i)
      BY <3>2, <3>3, <3>4
    <3> QED  BY <2>1, <3>1, <3>2, <3>3, <3>4, <3>5
  <2>3. CASE i > 0
    <3>1. held = r.assemblies
      BY <1>2, <2>3 DEF Begun
    <3> QED  BY <2>1, <2>3, <3>1
  <2> QED  BY <1>2, <2>2, <2>3
<1> HIDE DEF held
<1>5. id \in DOMAIN held =>
          /\ data \in Seq(DownFrames)
          /\ Late(data) \/ (s # 0 /\ data = Prefix(s, id, i + 1))
  <2> SUFFICES ASSUME id \in DOMAIN held
               PROVE  /\ data \in Seq(DownFrames)
                      /\ Late(data) \/ (s # 0 /\ data = Prefix(s, id, i + 1))
    OBVIOUS
  <2>1. held[id].data \in Seq(DownFrames)
    BY <1>4 DEF A
  <2>2. data \in Seq(DownFrames)
    BY <1>2, <2>1, AppendProperties
  <2>3. CASE s = 0 \/ Late(held[id].data)
    BY <1>2, <2>1, <2>2, <2>3, LateStays
  <2>4. CASE s # 0 /\ ~Late(held[id].data)
    <3>1. held[id].data = Prefix(s, id, i)
      BY <1>4, <2>4 DEF Fits
    <3> QED  BY <1>3, <2>2, <2>4, <3>1
  <2> QED  BY <2>3, <2>4
<1> DEFINE less == Without(held, id)
<1>6. /\ less \in Assemblies /\ DOMAIN less = DOMAIN held \ {id}
      /\ \A x \in DOMAIN less : x \in DOMAIN r.assemblies /\ less[x] = r.assemblies[x]
  <2>1. less = [x \in DOMAIN held \ {id} |-> held[x]]
    BY DEF Without
  <2>2. DOMAIN held \ {id} \in SUBSET Ids /\ less \in [DOMAIN held \ {id} -> A]
    BY <1>4, <2>1
  <2>3. DOMAIN less = DOMAIN held \ {id} /\ \A x \in DOMAIN less : less[x] = held[x]
    BY <2>1
  <2> HIDE DEF less
  <2> QED  BY <1>4, <2>2, <2>3, AssembliesAre DEF A
<1>7. CASE id \notin DOMAIN held
  <2>1. d = r
    BY <1>2, <1>7 DEF ConsumeFragment, held
  <2>2. i > 0 => held = r.assemblies
    BY <1>2 DEF Begun, held
  <2>3. i = 0 => id \in DOMAIN held
    BY <1>2 DEF Begun, held
  <2>4. id \notin DOMAIN r.assemblies
    <3>1. i > 0
      BY <1>2, <1>7, <2>3
    <3>2. held = r.assemblies
      BY <2>2, <3>1
    <3> QED  BY <1>7, <3>2
  <2> HIDE DEF d
  <2>5. /\ d.rest = r.rest /\ d.read = r.read /\ d.assemblies = r.assemblies
        /\ d.events = r.events
        /\ d = [rest |-> d.rest, read |-> d.read,
                assemblies |-> d.assemblies, events |-> d.events]
    BY <1>1, <2>1
  <2> QED  BY <1>1, <2>4, <2>5 DEF d, f, Consumed
<1>8. CASE id \in DOMAIN held /\ held[id].next # i
  <2>1. d = [r EXCEPT !.assemblies = less]
    BY <1>2, <1>8 DEF ConsumeFragment, held
  <2> HIDE DEF less, d
  <2>2. d = [rest |-> r.rest, read |-> r.read, assemblies |-> less, events |-> r.events]
    BY <1>1, <2>1
  <2>3. /\ d.rest = r.rest /\ d.read = r.read /\ d.assemblies = less /\ d.events = r.events
        /\ d = [rest |-> d.rest, read |-> d.read,
                assemblies |-> d.assemblies, events |-> d.events]
    BY <2>2
  <2> QED  BY <1>6, <2>3 DEF d, f, Consumed
<1>9. CASE id \in DOMAIN held /\ held[id].next = i /\ i + 1 = Fragments
  <2>1. d = [r EXCEPT !.assemblies = less,
                      !.events = Append(@, [call |-> "decode", data |-> data])]
    BY <1>2, <1>9 DEF ConsumeFragment, held
  <2>2. d = [rest |-> r.rest, read |-> r.read, assemblies |-> less,
             events |-> Append(r.events, [call |-> "decode", data |-> data])]
    BY <1>1, <2>1
  <2>3. data \in Seq(DownFrames) /\ (Late(data) \/ (s # 0 /\ data = Prefix(s, id, Fragments)))
    BY <1>5, <1>9
  <2> HIDE DEF less, data, d
  <2>4. /\ d.rest = r.rest /\ d.read = r.read /\ d.assemblies = less
        /\ d.events = Append(r.events, [call |-> "decode", data |-> data])
        /\ d = [rest |-> d.rest, read |-> d.read,
                assemblies |-> d.assemblies, events |-> d.events]
    BY <2>2
  <2> QED  BY <1>6, <2>3, <2>4 DEF d, f, Consumed
<1>10. CASE id \in DOMAIN held /\ held[id].next = i /\ i + 1 # Fragments
  <2> DEFINE new == [next |-> i + 1, data |-> data]
             more == [held EXCEPT ![id] = new]
  <2>1. d = [r EXCEPT !.assemblies = more]
    BY <1>2, <1>10 DEF ConsumeFragment, held
  <2>2. Fits(new, s, id, i + 1) /\ new \in A
    BY <1>2, <1>5, <1>10 DEF Fits, A
  <2> HIDE DEF new
  <2>3. more \in [DOMAIN held -> A] /\ more[id] = new
        /\ \A x \in DOMAIN held : x # id => more[x] = held[x]
    BY <1>4, <1>10, <2>2
  <2>4. more \in Assemblies /\ DOMAIN more = DOMAIN held
    BY <1>4, <2>3, AssembliesAre DEF A
  <2> HIDE DEF more, d
  <2>5. d = [rest |-> r.rest, read |-> r.read, assemblies |-> more, events |-> r.events]
    BY <1>1, <2>1
  <2>6. /\ d.rest = r.rest /\ d.read = r.read /\ d.assemblies = more /\ d.events = r.events
        /\ d = [rest |-> d.rest, read |-> d.read,
                assemblies |-> d.assemblies, events |-> d.events]
    BY <2>5
  <2>7. \A x \in DOMAIN more : x # id => x \in DOMAIN r.assemblies /\ more[x] = r.assemblies[x]
    BY <1>4, <2>3, <2>4
  <2>8. Fits(more[id], s, id, i + 1)
    BY <2>2, <2>3
  <2> QED  BY <2>4, <2>6, <2>7, <2>8 DEF d, f, Consumed
<1> QED  BY <1>7, <1>8, <1>9, <1>10
-----------------------------------------------------------------------------
(* The frame at the front is cut off: what is said of a later position of   *)
(* all that is to come holds of the rest.                                   *)
IsFront(all, f, n, rest) ==
    /\ all \in Seq(CellsIn(DownFrames)) /\ rest \in Seq(CellsIn(DownFrames))
    /\ f \in DownFrames
    /\ n \in Nat \ {0} /\ n <= Len(all) /\ Len(rest) = Len(all) - n
    /\ \A i \in 1..n : all[i].frame = f
    /\ \A i \in 1..Len(rest) : rest[i] = all[n + i]

(* Nothing in between in the rest is nothing in between in all of it.        *)
LEMMA CutSkips ==
    ASSUME NEW all, NEW f, NEW n, NEW rest, IsFront(all, f, n, rest),
           NEW j \in 1..(Len(rest) + 1), NEW i \in 0..(j - 1)
    PROVE  /\ n \in 1..((n + j) - 1) /\ n + j \in 1..(Len(all) + 1)
           /\ n + i \in 0..((n + j) - 1) /\ (i > 0 => rest[i] = all[n + i])
           /\ NoPacket(rest, i, j) => NoPacket(all, n + i, n + j)
           /\ NoPacket(rest, 0, j) /\ ~OnTime(f) => NoPacket(all, 0, n + j)
           /\ NoStream(rest, i, j) => NoStream(all, n + i, n + j)
           /\ NoStream(rest, 0, j) /\ f.stream = 0 => NoStream(all, 0, n + j)
<1>1. /\ n \in Nat \ {0} /\ Len(rest) \in Nat /\ Len(all) \in Nat /\ Len(rest) = Len(all) - n
      /\ n <= Len(all)
      /\ \A k \in 1..n : all[k].frame = f
      /\ \A k \in 1..Len(rest) : rest[k] = all[n + k]
  BY DEF IsFront
<1>2. /\ n \in 1..((n + j) - 1) /\ n + j \in 1..(Len(all) + 1)
      /\ n + i \in 0..((n + j) - 1) /\ (i > 0 => rest[i] = all[n + i])
  BY <1>1
<1>3. ASSUME NEW k \in 1..((n + j) - 1)
      PROVE  \/ k \in 1..n /\ all[k].frame = f
             \/ /\ k - n \in 1..(j - 1) /\ all[k] = rest[k - n]
                /\ k \in (n + i + 1)..((n + j) - 1) => k - n \in (i + 1)..(j - 1)
  <2>1. CASE k <= n
    BY <1>1, <2>1
  <2>2. CASE k > n
    <3>1. k - n \in 1..(j - 1) /\ k - n \in 1..Len(rest) /\ n + (k - n) = k
      BY <1>1, <2>2, SMTT(30)
    <3>2. all[k] = rest[k - n]
      BY <1>1, <3>1
    <3> QED  BY <1>1, <3>1, <3>2, SMTT(30)
  <2> QED  BY <1>1, <2>1, <2>2
<1>4. ASSUME NEW k \in (n + i + 1)..((n + j) - 1)
      PROVE  k - n \in (i + 1)..(j - 1) /\ all[k] = rest[k - n]
  <2>1. i \in Nat /\ j \in Nat /\ k \in Nat /\ n + i + 1 <= k /\ k <= (n + j) - 1
    BY <1>1
  <2>2. k \in 1..((n + j) - 1) /\ k \notin 1..n
    BY <1>1, <2>1
  <2> QED  BY <1>3, <2>2
<1>5. NoPacket(rest, i, j) => NoPacket(all, n + i, n + j)
  <2> SUFFICES ASSUME NoPacket(rest, i, j), NEW k \in (n + i + 1)..((n + j) - 1)
               PROVE  ~IsPacket(all[k])
    BY DEF NoPacket
  <2>1. \A m \in (i + 1)..(j - 1) : ~IsPacket(rest[m])
    BY DEF NoPacket
  <2> QED  BY <1>4, <2>1
<1>6. NoStream(rest, i, j) => NoStream(all, n + i, n + j)
  <2> SUFFICES ASSUME NoStream(rest, i, j), NEW k \in (n + i + 1)..((n + j) - 1)
               PROVE  all[k].frame.stream = 0
    BY DEF NoStream
  <2>1. \A m \in (i + 1)..(j - 1) : rest[m].frame.stream = 0
    BY DEF NoStream
  <2> QED  BY <1>4, <2>1
<1>7. 0 + 1 = 1 /\ (0 + 1)..((n + j) - 1) = 1..((n + j) - 1) /\ (0 + 1)..(j - 1) = 1..(j - 1)
  OBVIOUS
<1>8. ASSUME NoPacket(rest, 0, j), ~OnTime(f) PROVE NoPacket(all, 0, n + j)
  <2>1. \A m \in 1..(j - 1) : ~IsPacket(rest[m])
    BY <1>7, <1>8 DEF NoPacket
  <2>2. ASSUME NEW k \in 1..((n + j) - 1) PROVE ~IsPacket(all[k])
    <3>1. all[k].frame = f \/ (k - n \in 1..(j - 1) /\ all[k] = rest[k - n])
      BY <1>3
    <3> QED  BY <1>8, <2>1, <3>1 DEF IsPacket
  <2> QED  BY <1>7, <2>2 DEF NoPacket
<1>9. ASSUME NoStream(rest, 0, j), f.stream = 0 PROVE NoStream(all, 0, n + j)
  <2>1. \A m \in 1..(j - 1) : rest[m].frame.stream = 0
    BY <1>7, <1>9 DEF NoStream
  <2>2. ASSUME NEW k \in 1..((n + j) - 1) PROVE all[k].frame.stream = 0
    BY <1>3, <1>9, <2>1
  <2> QED  BY <1>7, <2>2 DEF NoStream
<1> QED  BY <1>2, <1>5, <1>6, <1>8, <1>9

(* A fragment further behind continues what it continued: what came before   *)
(* it is still to come, or has just gone into the assembly.                  *)
LEMMA CutContinues ==
    ASSUME NEW all, NEW f, NEW n, NEW rest, IsFront(all, f, n, rest),
           NEW j \in 1..(Len(rest) + 1), NEW g, NEW held, NEW held2,
           Continues(all, n + j, g, held),
           ~OnTime(f) => \A x \in DOMAIN held2 :
               \/ Late(held2[x].data)
               \/ x \in DOMAIN held /\ held2[x] = held[x],
           f = Fragment(g.stream, g.id, g.index - 1) /\ OnTime(f) /\ g.id \in DOMAIN held2 =>
               Fits(held2[g.id], g.stream, g.id, g.index)
    PROVE  Continues(rest, j, g, held2)
<1>1. g.index > 0 =>
          /\ \A i \in 1..((n + j) - 1) :
                 IsPacket(all[i]) /\ NoPacket(all, i, n + j)
                     => all[i].frame = Fragment(g.stream, g.id, g.index - 1)
          /\ NoPacket(all, 0, n + j) /\ g.id \in DOMAIN held
                 => Fits(held[g.id], g.stream, g.id, g.index)
  BY DEF Continues
<1>2. ASSUME g.index > 0, NEW i \in 1..(j - 1), IsPacket(rest[i]), NoPacket(rest, i, j)
      PROVE  rest[i].frame = Fragment(g.stream, g.id, g.index - 1)
  <2>1. i \in 0..(j - 1) /\ i > 0
    OBVIOUS
  <2>2. /\ n + i \in 0..((n + j) - 1) /\ rest[i] = all[n + i] /\ NoPacket(all, n + i, n + j)
    BY <1>2, <2>1, CutSkips, SMTT(30)
  <2>3. n + i \in 1..((n + j) - 1)
    BY <2>1, <2>2 DEF IsFront
  <2> QED  BY <1>1, <1>2, <2>2, <2>3
<1>3. ASSUME g.index > 0, NoPacket(rest, 0, j), g.id \in DOMAIN held2
      PROVE  Fits(held2[g.id], g.stream, g.id, g.index)
  <2>1. 0 \in 0..(j - 1)
    OBVIOUS
  <2>2. /\ n \in 1..((n + j) - 1) /\ NoPacket(all, n + 0, n + j)
        /\ ~OnTime(f) => NoPacket(all, 0, n + j)
    BY <1>3, <2>1, CutSkips
  <2>3. n \in Nat \ {0} /\ all[n].frame = f
    BY DEF IsFront
  <2>4. n + 0 = n
    BY <2>3
  <2>5. CASE OnTime(f)
    <3>1. IsPacket(all[n])
      BY <2>3, <2>5 DEF IsPacket
    <3>2. f = Fragment(g.stream, g.id, g.index - 1)
      BY <1>1, <1>3, <2>2, <2>3, <2>4, <3>1
    <3> QED  BY <1>3, <2>5, <3>2
  <2>6. CASE ~OnTime(f)
    <3>1. g.id \in DOMAIN held => Fits(held[g.id], g.stream, g.id, g.index)
      BY <1>1, <1>3, <2>2, <2>6
    <3>2. Late(held2[g.id].data) \/ (g.id \in DOMAIN held /\ held2[g.id] = held[g.id])
      BY <1>3, <2>6
    <3>3. CASE Late(held2[g.id].data)
      BY <3>3 DEF Fits
    <3>4. CASE g.id \in DOMAIN held /\ held2[g.id] = held[g.id]
      BY <3>1, <3>4
    <3> QED  BY <3>2, <3>3, <3>4
  <2> QED  BY <2>5, <2>6
<1> QED  BY <1>2, <1>3 DEF Continues

(* A stream is announced as before: by a cell that is still to come, or by   *)
(* the call that dispatch() has queued.                                      *)
LEMMA CutAnnounced ==
    ASSUME NEW all, NEW f, NEW n, NEW rest, IsFront(all, f, n, rest),
           NEW j \in 1..(Len(rest) + 1), NEW s, NEW c,
           NEW calls \in Seq(Calls), NEW later \in Seq(Calls),
           Announced(c, calls, all, n + j, s),
           \/ /\ later = calls \/ \E e \in Calls : later = Append(calls, e) /\ StreamOf(e) = 0
              /\ f.stream # 0 => Announced(c, calls, all, 1, f.stream)
           \/ f.stream # 0 /\ \E e \in Calls : later = Append(calls, e) /\ StreamOf(e) = f.stream
    PROVE  Announced(c, later, rest, j, s)
<1>1. /\ \A i \in 1..((n + j) - 1) :
             all[i].frame.stream # 0 /\ NoStream(all, i, n + j) => all[i].frame.stream = s
      /\ NoStream(all, 0, n + j) =>
             \A i \in 0..Len(calls) :
                 Before(c, calls, i) # 0 /\ NoCall(calls, i, Len(calls) + 1)
                     => Before(c, calls, i) = s
  BY DEF Announced
<1>2. ASSUME NEW i \in 1..(j - 1), rest[i].frame.stream # 0, NoStream(rest, i, j)
      PROVE  rest[i].frame.stream = s
  <2>1. i \in 0..(j - 1) /\ i > 0
    OBVIOUS
  <2>2. /\ n + i \in 0..((n + j) - 1) /\ rest[i] = all[n + i] /\ NoStream(all, n + i, n + j)
    BY <1>2, <2>1, CutSkips, SMTT(30)
  <2>3. n + i \in 1..((n + j) - 1)
    BY <2>1, <2>2, SMTT(30) DEF IsFront
  <2> QED  BY <1>1, <1>2, <2>2, <2>3
<1>3. ASSUME NoStream(rest, 0, j), NEW i \in 0..Len(later),
             Before(c, later, i) # 0, NoCall(later, i, Len(later) + 1)
      PROVE  Before(c, later, i) = s
  <2>1. 0 \in 0..(j - 1)
    OBVIOUS
  <2>2. /\ n \in 1..((n + j) - 1) /\ NoStream(all, n + 0, n + j)
        /\ f.stream = 0 => NoStream(all, 0, n + j)
    BY <1>3, <2>1, CutSkips
  <2>3. n \in Nat \ {0} /\ all[n].frame = f
    BY DEF IsFront
  <2>4. f.stream # 0 => f.stream = s
    <3>1. n + 0 = n
      BY <2>3
    <3> QED  BY <1>1, <2>2, <2>3, <3>1
  <2>5. ASSUME i \in 0..Len(calls), Before(c, calls, i) = Before(c, later, i),
               NoCall(calls, i, Len(calls) + 1),
               f.stream # 0 => Announced(c, calls, all, 1, f.stream)
        PROVE  Before(c, later, i) = s
    <3>1. CASE f.stream = 0
      BY <1>1, <1>3, <2>2, <2>5, <3>1
    <3>2. CASE f.stream # 0
      <4>1. NoStream(all, 0, 1)
        BY DEF NoStream
      <4>2. Before(c, calls, i) = f.stream
        BY <1>3, <2>5, <3>2, <4>1 DEF Announced
      <4> QED  BY <2>4, <2>5, <3>2, <4>2
    <3> QED  BY <3>1, <3>2
  <2>6. CASE /\ later = calls \/ \E e \in Calls : later = Append(calls, e) /\ StreamOf(e) = 0
             /\ f.stream # 0 => Announced(c, calls, all, 1, f.stream)
    <3>1. CASE later = calls
      BY <1>3, <2>5, <2>6, <3>1
    <3>2. ASSUME NEW e \in Calls, later = Append(calls, e), StreamOf(e) = 0
          PROVE  Before(c, later, i) = s
      <4>1. /\ Len(later) = Len(calls) + 1 /\ later[Len(calls) + 1] = e /\ Len(calls) \in Nat
            /\ \A k \in 1..Len(calls) : later[k] = calls[k]
        BY <3>2, AppendProperties
      <4>2. i # Len(calls) + 1
        BY <1>3, <3>2, <4>1 DEF Before
      <4>3. i \in 0..Len(calls)
        BY <4>1, <4>2
      <4>4. Before(c, calls, i) = Before(c, later, i)
        <5>1. i # 0 => i \in 1..Len(calls)
          BY <4>1, <4>3
        <5> QED  BY <4>1, <5>1 DEF Before
      <4>5. \A k \in (i + 1)..((Len(calls) + 1) - 1) :
                k \in (i + 1)..((Len(later) + 1) - 1) /\ k \in 1..Len(calls)
        BY <4>1, <4>3
      <4>6. NoCall(calls, i, Len(calls) + 1)
        BY <1>3, <4>1, <4>5 DEF NoCall
      <4> QED  BY <2>5, <2>6, <4>3, <4>4, <4>6
    <3> QED  BY <2>6, <3>1, <3>2
  <2>7. CASE f.stream # 0 /\ \E e \in Calls : later = Append(calls, e) /\ StreamOf(e) = f.stream
    <3>1. PICK e \in Calls : later = Append(calls, e) /\ StreamOf(e) = f.stream
      BY <2>7
    <3>2. Len(later) = Len(calls) + 1 /\ later[Len(calls) + 1] = e /\ Len(calls) \in Nat
      BY <3>1
    <3>3. CASE i = Len(later)
      <4>1. Before(c, later, i) = f.stream
        BY <3>1, <3>2, <3>3 DEF Before
      <4> QED  BY <2>4, <2>7, <4>1
    <3>4. CASE i < Len(later)
      <4>1. Len(later) \in (i + 1)..(Len(later) + 1 - 1)
        BY <3>2, <3>4
      <4>2. StreamOf(later[Len(later)]) = 0
        BY <1>3, <4>1 DEF NoCall
      <4> QED  BY <2>7, <3>1, <3>2, <4>2
    <3> QED  BY <3>2, <3>3, <3>4
  <2> QED  BY <2>6, <2>7
<1> QED  BY <1>2, <1>3 DEF Announced

(* A call to the decoder is queued.                                         *)
LEMMA CallQueued ==
    ASSUME NEW c, NEW calls \in Seq(Calls), NEW e \in Calls, CallsAnnounced(c, calls),
           e.call = "decode" /\ StreamOf(e) # 0 =>
               \A i \in 0..Len(calls) :
                   Before(c, calls, i) # 0 /\ NoCall(calls, i, Len(calls) + 1)
                       => Before(c, calls, i) = StreamOf(e)
    PROVE  CallsAnnounced(c, Append(calls, e))
<1> DEFINE l == Len(calls)
           later == Append(calls, e)
<1>1. /\ l \in Nat /\ later \in Seq(Calls) /\ Len(later) = l + 1 /\ later[l + 1] = e
      /\ \A i \in 1..l : later[i] = calls[i]
  BY AppendProperties
<1> HIDE DEF later
<1>2. ASSUME NEW j \in 1..(l + 1), NEW i \in 0..(j - 1)
      PROVE  /\ Before(c, later, i) = Before(c, calls, i)
             /\ NoCall(later, i, j) => NoCall(calls, i, j)
  <2>1. i \in 0..l
    BY <1>1
  <2>2. \A k \in (i + 1)..(j - 1) : k \in 1..l
    BY <1>1
  <2>3. Before(c, later, i) = Before(c, calls, i)
    <3>1. i # 0 => later[i] = calls[i]
      BY <1>1, <2>1
    <3> QED  BY <3>1 DEF Before
  <2>4. NoCall(later, i, j) => NoCall(calls, i, j)
    BY <1>1, <2>2 DEF NoCall
  <2> QED  BY <2>3, <2>4
<1>3. ASSUME NEW j \in 1..Len(later), later[j].call = "decode", StreamOf(later[j]) # 0,
             NEW i \in 0..(j - 1),
             Before(c, later, i) # 0, NoCall(later, i, j)
      PROVE  Before(c, later, i) = StreamOf(later[j])
  <2>1. j \in 1..(l + 1)
    BY <1>1
  <2>2. Before(c, later, i) = Before(c, calls, i) /\ NoCall(calls, i, j)
    BY <1>2, <1>3, <2>1
  <2>3. CASE j \in 1..l
    <3>1. later[j] = calls[j]
      BY <1>1, <2>3
    <3> QED  BY <1>3, <2>2, <2>3, <3>1 DEF CallsAnnounced
  <2>4. CASE j = l + 1
    <3>1. i \in 0..l /\ later[j] = e
      BY <1>1, <2>4
    <3> QED  BY <1>3, <2>2, <2>4, <3>1
  <2> QED  BY <1>1, <2>1, <2>3, <2>4
<1>4. CallsAnnounced(c, later)
  BY <1>3 DEF CallsAnnounced
<1> QED  BY <1>4 DEF later
-----------------------------------------------------------------------------
(* dispatch() of the frame at the front.                                    *)
Becomes(r, d, f, all, c) ==
    /\ d.rest = r.rest /\ d.read = r.read
    /\ d = [rest |-> d.rest, read |-> d.read,
            assemblies |-> d.assemblies, events |-> d.events]
    /\ d.assemblies \in Assemblies /\ d.events \in Seq(Calls)
    /\ ~OnTime(f) => \A x \in DOMAIN d.assemblies :
           \/ Late(d.assemblies[x].data)
           \/ x \in DOMAIN r.assemblies /\ d.assemblies[x] = r.assemblies[x]
    /\ \A g : /\ g.index \in Nat /\ g.index < Fragments /\ OnTime(f)
              /\ f = Fragment(g.stream, g.id, g.index - 1)
              /\ g.id \in DOMAIN d.assemblies
           => Fits(d.assemblies[g.id], g.stream, g.id, g.index)
    /\ \/ /\ \/ d.events = r.events
             \/ \E e \in Calls : d.events = Append(r.events, e) /\ StreamOf(e) = 0
          /\ f.stream # 0 => Announced(c, r.events, all, 1, f.stream)
       \/ f.stream # 0
          /\ \E e \in Calls : d.events = Append(r.events, e) /\ StreamOf(e) = f.stream
    /\ CallsAnnounced(c, d.events)

(* All that dispatch() does with the frame at the front.                     *)
LEMMA Dispatched ==
    ASSUME NEW r \in Receivers, NEW c, NEW all, NEW f, NEW n, NEW rest,
           IsFront(all, f, n, rest), all[1].at = 1,
           Ordered(all, r.assemblies), CallsAnnounced(c, r.events),
           CellsAnnounced(c, r.events, all)
    PROVE  Becomes(r, Dispatch(r, f), f, all, c)
<1> DEFINE d == Dispatch(r, f)
           held == r.assemblies
           calls == r.events
<1>1. /\ held \in Assemblies /\ calls \in Seq(Calls)
      /\ r = [rest |-> r.rest, read |-> r.read, assemblies |-> r.assemblies, events |-> r.events]
  BY DEF Receivers
<1>2. 1 \in 1..Len(all) /\ all[1].frame = f /\ f \in DownFrames
  BY DEF IsFront
<1>3. /\ f.type \in {"Error", "StreamMetadata", "StreamPacket"}
      /\ f.type = "Error" => f.stream = 0
      /\ f.type = "StreamMetadata" => f.stream \in Streams
      /\ f.type = "StreamPacket" =>
             /\ f.stream \in Nat /\ f.id \in Ids /\ f.index \in 0..(Fragments - 1)
             /\ f = Fragment(f.stream, f.id, f.index)
  BY <1>2, FramesOfLink
<1>4. OnTime(f) => f.type = "StreamPacket"
  BY DEF OnTime
<1>5. ~(0 \in Streams)
  BY DEF Streams
<1>6. CASE f.type = "Error"
  <2>1. d = r
    BY <1>6 DEF Dispatch
  <2>2. f.stream = 0 /\ f.type # "StreamPacket"
    BY <1>3, <1>6
  <2>3. /\ d.rest = r.rest /\ d.read = r.read /\ d.assemblies = held /\ d.events = calls
        /\ d = [rest |-> d.rest, read |-> d.read,
                assemblies |-> d.assemblies, events |-> d.events]
    BY <1>1, <2>1
  <2> HIDE DEF d
  <2> QED  BY <1>1, <1>4, <2>2, <2>3 DEF d, Becomes
<1>7. CASE f.type = "StreamMetadata"
  <2> DEFINE e == [call |-> "configure", stream |-> f.stream]
  <2>1. d = [r EXCEPT !.events = Append(@, e)]
    BY <1>7 DEF Dispatch
  <2>2. d = [rest |-> r.rest, read |-> r.read, assemblies |-> held, events |-> Append(calls, e)]
    BY <1>1, <2>1
  <2>3. f.stream # 0 /\ f.type # "StreamPacket"
    BY <1>3, <1>5, <1>7
  <2>4. e \in Calls /\ StreamOf(e) = f.stream /\ e.call # "decode"
    BY <1>3, <1>7 DEF Calls, StreamOf
  <2> HIDE DEF e, d
  <2>5. /\ d.rest = r.rest /\ d.read = r.read /\ d.assemblies = held
        /\ d.events = Append(calls, e)
        /\ d = [rest |-> d.rest, read |-> d.read,
                assemblies |-> d.assemblies, events |-> d.events]
    BY <2>2
  <2>6. Append(calls, e) \in Seq(Calls)
    BY <1>1, <2>4
  <2>7. CallsAnnounced(c, Append(calls, e))
    BY <1>1, <2>4, CallQueued
  <2> QED  BY <1>1, <1>4, <2>3, <2>4, <2>5, <2>6, <2>7 DEF d, Becomes
<1>8. CASE f.type = "StreamPacket"
  <2> DEFINE s == f.stream
             id == f.id
             i == f.index
  <2>1. /\ s \in Nat /\ id \in Ids /\ i \in 0..(Fragments - 1) /\ f = Fragment(s, id, i)
        /\ f.stream = s
    BY <1>3, <1>8
  <2>2. OnTime(f) <=> s # 0
    BY <1>8 DEF OnTime
  <2>3. s # 0 => IsPacket(all[1])
    BY <1>2, <2>2 DEF IsPacket
  <2>4. s # 0 /\ i > 0 /\ id \in DOMAIN held => Fits(held[id], s, id, i)
    <3>1. s # 0 => Continues(all, 1, f, held)
      BY <1>2, <2>3 DEF Ordered
    <3>2. NoPacket(all, 0, 1)
      BY DEF NoPacket
    <3> QED  BY <3>1, <3>2 DEF Continues
  <2>5. s # 0 => Announced(c, calls, all, 1, s)
    BY <1>2, <2>3 DEF CellsAnnounced
  <2>6. d = ConsumeFragment(r, f)
    BY <1>8 DEF Dispatch
  <2> HIDE DEF s, id, i, d
  <2>7. /\ d.rest = r.rest /\ d.read = r.read
        /\ d = [rest |-> d.rest, read |-> d.read,
                assemblies |-> d.assemblies, events |-> d.events]
        /\ d.assemblies \in Assemblies
        /\ \A x \in DOMAIN d.assemblies : x # id =>
               x \in DOMAIN held /\ d.assemblies[x] = held[x]
        /\ id \in DOMAIN d.assemblies => Fits(d.assemblies[id], s, id, i + 1)
        /\ \/ d.events = calls
           \/ \E data \in Seq(DownFrames) :
                  /\ Late(data) \/ (s # 0 /\ data = Prefix(s, id, Fragments))
                  /\ d.events = Append(calls, [call |-> "decode", data |-> data])
    <3>1. Consumed(r, ConsumeFragment(r, Fragment(s, id, i)), s, id, i)
      BY <2>1, <2>4, FragmentConsumed
    <3>2. Consumed(r, d, s, id, i)
      BY <2>1, <2>6, <3>1
    <3> QED  BY <3>2 DEF Consumed
  <2>8. ASSUME NEW g, g.index \in Nat, g.index < Fragments,
               f = Fragment(g.stream, g.id, g.index - 1), g.id \in DOMAIN d.assemblies
        PROVE  Fits(d.assemblies[g.id], g.stream, g.id, g.index)
    <3>1. s = g.stream /\ id = g.id /\ i = g.index - 1
      <4>1. Fragment(s, id, i) = Fragment(g.stream, g.id, g.index - 1)
        BY <2>1, <2>8
      <4> QED  BY <4>1, FragmentsDiffer
    <3>2. i + 1 = g.index
      BY <2>8, <3>1
    <3> QED  BY <2>7, <2>8, <3>1, <3>2
  <2>9. ASSUME ~OnTime(f), NEW x \in DOMAIN d.assemblies
        PROVE  Late(d.assemblies[x].data) \/ (x \in DOMAIN held /\ d.assemblies[x] = held[x])
    BY <2>2, <2>7, <2>9 DEF Fits
  <2>10. ASSUME d.events = calls
         PROVE  Becomes(r, d, f, all, c)
    BY <1>1, <2>1, <2>5, <2>7, <2>8, <2>9, <2>10 DEF d, Becomes
  <2>11. ASSUME NEW data \in Seq(DownFrames), Late(data),
                d.events = Append(calls, [call |-> "decode", data |-> data])
         PROVE  Becomes(r, d, f, all, c)
    <3> DEFINE e == [call |-> "decode", data |-> data]
    <3>1. e \in Calls /\ StreamOf(e) = 0
      BY <2>11 DEF Calls, StreamOf
    <3> HIDE DEF e
    <3>2. d.events = Append(calls, e) /\ d.events \in Seq(Calls)
      BY <1>1, <2>11, <3>1 DEF e
    <3>3. CallsAnnounced(c, d.events)
      BY <1>1, <3>1, <3>2, CallQueued
    <3> QED  BY <2>1, <2>5, <2>7, <2>8, <2>9, <3>1, <3>2, <3>3 DEF d, Becomes
  <2>12. ASSUME s # 0, d.events = Append(calls, [call |-> "decode", data |-> Prefix(s, id, Fragments)])
         PROVE  Becomes(r, d, f, all, c)
    <3> DEFINE e == [call |-> "decode", data |-> Prefix(s, id, Fragments)]
    <3>1. e \in Calls /\ StreamOf(e) = s
      <4>1. s \in Streams
        BY <2>1, <2>12 DEF Streams
      <4>2. Prefix(s, id, Fragments)[1].stream = s /\ ~Late(Prefix(s, id, Fragments))
        BY <2>1, <4>1, PrefixGrows
      <4> QED  BY <2>1, <4>1, <4>2 DEF Calls, StreamOf
    <3> HIDE DEF e
    <3>2. d.events = Append(calls, e) /\ d.events \in Seq(Calls)
      BY <1>1, <2>12, <3>1 DEF e
    <3>3. NoStream(all, 0, 1)
      BY DEF NoStream
    <3>4. \A k \in 0..Len(calls) :
              Before(c, calls, k) # 0 /\ NoCall(calls, k, Len(calls) + 1)
                  => Before(c, calls, k) = StreamOf(e)
      BY <2>5, <2>12, <3>1, <3>3 DEF Announced
    <3>5. CallsAnnounced(c, d.events)
      BY <1>1, <3>1, <3>2, <3>4, CallQueued
    <3> QED  BY <2>1, <2>7, <2>8, <2>9, <2>12, <3>1, <3>2, <3>5 DEF d, Becomes
  <2>13. Becomes(r, d, f, all, c)
    <3>1. CASE d.events # calls
      <4>1. PICK data \in Seq(DownFrames) :
                /\ Late(data) \/ (s # 0 /\ data = Prefix(s, id, Fragments))
                /\ d.events = Append(calls, [call |-> "decode", data |-> data])
        BY <2>7, <3>1
      <4>2. CASE Late(data)
        BY <2>11, <4>1, <4>2
      <4>3. CASE s # 0 /\ data = Prefix(s, id, Fragments)
        BY <2>12, <4>1, <4>3
      <4> QED  BY <4>1, <4>2, <4>3
    <3> QED  BY <2>10, <3>1
  <2> QED  BY <2>13 DEF d
<1> QED  BY <1>3, <1>6, <1>7, <1>8

(* The invariant of what the client has still to read, after one frame.      *)
LEMMA DispatchIsSound ==
    ASSUME NEW r \in Receivers, NEW ses \in Sessions, NEW c, NEW all, NEW f, NEW n, NEW rest,
           IsFront(all, f, n, rest), all[1].at = 1,
           Sound(ses, c, all, r.assemblies, r.events)
    PROVE  Sound(ses, c, rest, Dispatch(r, f).assemblies, Dispatch(r, f).events)
<1> DEFINE d == Dispatch(r, f)
           held == r.assemblies
           calls == r.events
           later == d.events
<1>1. /\ Ordered(all, held) /\ CallsAnnounced(c, calls) /\ CellsAnnounced(c, calls, all)
      /\ ses.index > 0 => ses.stream # 0 /\ Continues(all, Len(all) + 1, NextOf(ses), held)
      /\ ses.stream # 0 => Announced(c, calls, all, Len(all) + 1, ses.stream)
  BY DEF Sound
<1>2. calls \in Seq(Calls)
  BY DEF Receivers
<1>3. /\ later \in Seq(Calls)
      /\ ~OnTime(f) => \A x \in DOMAIN d.assemblies :
             \/ Late(d.assemblies[x].data)
             \/ x \in DOMAIN held /\ d.assemblies[x] = held[x]
      /\ \A g : /\ g.index \in Nat /\ g.index < Fragments /\ OnTime(f)
                /\ f = Fragment(g.stream, g.id, g.index - 1)
                /\ g.id \in DOMAIN d.assemblies
            => Fits(d.assemblies[g.id], g.stream, g.id, g.index)
      /\ \/ /\ later = calls \/ \E e \in Calls : later = Append(calls, e) /\ StreamOf(e) = 0
            /\ f.stream # 0 => Announced(c, calls, all, 1, f.stream)
         \/ f.stream # 0
            /\ \E e \in Calls : later = Append(calls, e) /\ StreamOf(e) = f.stream
      /\ CallsAnnounced(c, later)
  <2>1. Becomes(r, d, f, all, c)
    BY <1>1, Dispatched
  <2> HIDE DEF d
  <2> QED  BY <2>1 DEF Becomes
<1> HIDE DEF d, held, calls, later
<1>4. /\ n \in Nat \ {0} /\ Len(rest) \in Nat /\ Len(all) \in Nat /\ Len(rest) = Len(all) - n
      /\ rest \in Seq(CellsIn(DownFrames))
      /\ \A i \in 1..Len(rest) : rest[i] = all[n + i]
  BY DEF IsFront
<1>5. ASSUME NEW j \in 1..(Len(rest) + 1), NEW g, g.index \in Nat, g.index < Fragments,
             Continues(all, n + j, g, held)
      PROVE  Continues(rest, j, g, d.assemblies)
  BY <1>3, <1>5, CutContinues
<1>6. ASSUME NEW j \in 1..(Len(rest) + 1), NEW s, Announced(c, calls, all, n + j, s)
      PROVE  Announced(c, later, rest, j, s)
  BY <1>2, <1>3, <1>6, CutAnnounced
<1>7. ASSUME NEW j \in 1..Len(rest)
      PROVE  /\ j \in 1..(Len(rest) + 1) /\ n + j \in 1..Len(all) /\ rest[j] = all[n + j]
             /\ rest[j].frame \in DownFrames
  <2>1. rest[j] \in CellsIn(DownFrames)
    BY <1>4
  <2>2. rest[j].frame \in DownFrames
    BY <2>1 DEF CellsIn
  <2>3. j \in 1..(Len(rest) + 1) /\ n + j \in 1..Len(all) /\ rest[j] = all[n + j]
    BY <1>4
  <2> QED  BY <2>2, <2>3
<1>8. Ordered(rest, d.assemblies)
  <2> SUFFICES ASSUME NEW j \in 1..Len(rest), IsPacket(rest[j]), rest[j].at = 1
               PROVE  Continues(rest, j, rest[j].frame, d.assemblies)
    BY DEF Ordered
  <2>1. Continues(all, n + j, rest[j].frame, held)
    BY <1>1, <1>7 DEF Ordered
  <2>2. rest[j].frame.index \in 0..(Fragments - 1)
    <3>1. rest[j].frame \in DownFrames /\ rest[j].frame.type = "StreamPacket"
      BY <1>7 DEF IsPacket, OnTime
    <3> QED  BY <3>1, FramesOfLink
  <2>3. rest[j].frame.index \in Nat /\ rest[j].frame.index < Fragments
    BY <2>2, Sizes
  <2> QED  BY <1>5, <1>7, <2>1, <2>3
<1>9. CellsAnnounced(c, later, rest)
  <2> SUFFICES ASSUME NEW j \in 1..Len(rest), IsPacket(rest[j])
               PROVE  Announced(c, later, rest, j, rest[j].frame.stream)
    BY DEF CellsAnnounced
  <2>1. Announced(c, calls, all, n + j, rest[j].frame.stream)
    BY <1>1, <1>7 DEF CellsAnnounced
  <2> QED  BY <1>6, <1>7, <2>1
<1>10. Len(rest) + 1 \in 1..(Len(rest) + 1) /\ n + (Len(rest) + 1) = Len(all) + 1
  BY <1>4
<1>11. ses.index > 0 => ses.stream # 0 /\ Continues(rest, Len(rest) + 1, NextOf(ses), d.assemblies)
  <2>1. NextOf(ses).index = ses.index
    BY DEF NextOf, Fragment
  <2>2. ses.index \in Nat /\ ses.index < Fragments
    BY Sizes DEF Sessions
  <2> QED  BY <1>1, <1>5, <1>10, <2>1, <2>2
<1>12. ses.stream # 0 => Announced(c, later, rest, Len(rest) + 1, ses.stream)
  BY <1>1, <1>6, <1>10
<1>13. Sound(ses, c, rest, d.assemblies, later)
  BY <1>3, <1>8, <1>9, <1>11, <1>12 DEF Sound
<1> QED  BY <1>13 DEF d, later

(* What a pass of the client's loop keeps, and what the loop ends with.     *)
ReadsOf(ses, c, cells, more) ==
    {r \in Receivers :
        /\ Len(r.rest) <= Len(cells)
        /\ Framed(r.rest \o more)
        /\ Cardinality(Starts(cells \o more)) = Cardinality(Starts(r.rest \o more)) + r.read
        /\ Sound(ses, c, r.rest \o more, r.assemblies, r.events)}

(* One pass changes nothing or takes and dispatches one frame; no frame of   *)
(* this server is too long for the client.                                   *)
LEMMA ReadOneKeeps ==
    ASSUME NEW ses \in Sessions, NEW c,
           NEW cells \in Seq(CellsIn(DownFrames)), NEW more \in Seq(CellsIn(DownFrames)),
           NEW r \in ReadsOf(ses, c, cells, more)
    PROVE  /\ ReadOne(r) \in ReadsOf(ses, c, cells, more)
           /\ ~Complete(r.rest) => ReadOne(r).rest = r.rest
           /\ Complete(r.rest) => Len(ReadOne(r).rest) < Len(r.rest)
<1> DEFINE f == FrontFrame(r.rest)
           n == SizeOf(f)
           d == Dispatch(r, f)
           all == r.rest \o more
           rest == Unread(r.rest, n)
           next == ReadOne(r)
<1>1. /\ r \in Receivers /\ r.rest \in Seq(CellsIn(DownFrames)) /\ r.read \in Nat
      /\ r = [rest |-> r.rest, read |-> r.read, assemblies |-> r.assemblies, events |-> r.events]
      /\ Len(r.rest) <= Len(cells)
      /\ Framed(all)
      /\ Cardinality(Starts(cells \o more)) = Cardinality(Starts(all)) + r.read
      /\ Sound(ses, c, all, r.assemblies, r.events)
  BY DEF ReadsOf, Receivers
<1>2. Lengths(DownFrames)
  BY FramesOfLink
<1>3. CASE ~Complete(r.rest)
  <2>1. HasHeader(r.rest) => ~(f.length > MaxLength)
    <3>1. HasHeader(r.rest) => f \in DownFrames
      BY <1>1, <1>2, FrontOfAll
    <3>2. \A g \in DownFrames : g.length <= MaxLength /\ g.length \in Nat
      BY FramesOfLink DEF Lengths
    <3>3. MaxLength \in Nat
      BY Sizes
    <3> HIDE DEF f
    <3> QED  BY <3>1, <3>2, <3>3
  <2>2. next = r
    BY <1>3, <2>1 DEF ReadOne
  <2> QED  BY <1>3, <2>2
<1>4. CASE Complete(r.rest)
  <2>1. HasHeader(r.rest)
    BY <1>4 DEF Complete
  <2>2. /\ f \in DownFrames /\ n \in Nat \ {0} /\ n \in 0..Len(r.rest)
        /\ all # <<>> /\ all \in Seq(CellsIn(DownFrames)) /\ FrontFrame(all) = f
        /\ n <= Len(all) /\ Unread(all, n) = rest \o more
    BY <1>1, <1>2, <1>4, <2>1, FrontOfAll
  <2>3. ~(f.length > MaxLength)
    <3>1. f.length <= MaxLength /\ f.length \in Nat /\ MaxLength \in Nat
      BY <2>2, Sizes, FramesOfLink DEF Lengths
    <3> QED  BY <3>1
  <2>4. next = [d EXCEPT !.rest = Unread(@, n), !.read = @ + 1]
    BY <1>4, <2>1, <2>3 DEF ReadOne
  <2>5. rest \in Seq(CellsIn(DownFrames)) /\ Len(rest) = Len(r.rest) - n
    BY <1>1, <2>2, UnreadFacts
  <2>6. /\ Framed(rest \o more)
        /\ Cardinality(Starts(all)) = Cardinality(Starts(rest \o more)) + 1
        /\ rest \o more \in Seq(CellsIn(DownFrames))
        /\ Len(rest \o more) = Len(all) - n
    <3> HIDE DEF all, f, rest
    <3> QED  BY <1>1, <1>2, <2>2, FrontIsCut
  <2>7. IsFront(all, f, n, rest \o more) /\ all[1].at = 1
    <3> DEFINE left == rest \o more
    <3>1. \A j \in 1..n : j <= Len(all) => all[j] = [frame |-> f, at |-> j]
      <4> HIDE DEF all, f
      <4> QED  BY <1>1, <1>2, <2>2, FrontRun
    <3>2. left = Unread(all, n) /\ left \in Seq(CellsIn(DownFrames)) /\ Len(left) = Len(all) - n
      BY <2>2, <2>6
    <3> HIDE DEF all, f, rest, n, left
    <3>3. n \in 0..Len(all) /\ Len(all) \in Nat
      BY <2>2
    <3>4. \A i \in 1..(Len(all) - n) : Unread(all, n)[i] = all[n + i]
      BY <2>2, <3>3, UnreadFacts
    <3>5. \A i \in 1..Len(left) : left[i] = all[n + i]
      BY <3>2, <3>4
    <3>6. ASSUME NEW j \in 1..n PROVE all[j].frame = f /\ all[j].at = j
      <4>1. j <= Len(all)
        BY <2>2, <3>3
      <4>2. all[j] = [frame |-> f, at |-> j]
        BY <3>1, <4>1
      <4> QED  BY <4>2
    <3>7. 1 \in 1..n
      BY <2>2
    <3>8. IsFront(all, f, n, left)
      BY <2>2, <3>2, <3>5, <3>6 DEF IsFront
    <3> QED  BY <3>6, <3>7, <3>8 DEF left
  <2> HIDE DEF f, n, rest, all, d, next
  <2>8. Becomes(r, d, f, all, c) /\ Sound(ses, c, rest \o more, d.assemblies, d.events)
    <3>1. Becomes(r, d, f, all, c)
      BY <1>1, <2>7, Dispatched DEF Sound, d
    <3> QED  BY <1>1, <2>7, <3>1, DispatchIsSound DEF d
  <2>9. /\ d.rest = r.rest /\ d.read = r.read
        /\ d = [rest |-> d.rest, read |-> d.read,
                assemblies |-> d.assemblies, events |-> d.events]
        /\ d.assemblies \in Assemblies /\ d.events \in Seq(Calls)
    BY <2>8 DEF Becomes
  <2>10. next = [rest |-> rest, read |-> r.read + 1,
                 assemblies |-> d.assemblies, events |-> d.events]
    BY <2>4, <2>9 DEF rest
  <2>11. /\ next.rest = rest /\ next.read = r.read + 1
         /\ next.assemblies = d.assemblies /\ next.events = d.events
    BY <2>10
  <2>12. next \in Receivers
    BY <1>1, <2>5, <2>9, <2>10 DEF Receivers
  <2>13. Len(rest) < Len(r.rest) /\ Len(rest) <= Len(cells)
    BY <1>1, <2>2, <2>5
  <2>14. Cardinality(Starts(cells \o more)) = Cardinality(Starts(rest \o more)) + (r.read + 1)
    <3>1. Cardinality(Starts(rest \o more)) \in Nat
      BY <2>6, StartsAreFinite
    <3> DEFINE x == Cardinality(Starts(rest \o more))
               y == Cardinality(Starts(all))
               z == Cardinality(Starts(cells \o more))
    <3>2. z = y + r.read /\ y = x + 1 /\ x \in Nat /\ r.read \in Nat
      BY <1>1, <2>6, <3>1
    <3> HIDE DEF x, y, z
    <3>3. z = x + (r.read + 1)
      BY <3>2, SMTT(30)
    <3> QED  BY <3>3 DEF x, z
  <2>15. next \in ReadsOf(ses, c, cells, more)
    BY <2>6, <2>8, <2>11, <2>12, <2>13, <2>14 DEF ReadsOf
  <2> QED  BY <1>4, <2>11, <2>13, <2>15 DEF next
<1> QED  BY <1>3, <1>4

(* The client's loop ends without a complete frame, and keeps the invariant. *)
LEMMA ReadFacts ==
    ASSUME NEW ses \in Sessions, NEW c,
           NEW cells \in Seq(CellsIn(DownFrames)), NEW more \in Seq(CellsIn(DownFrames)),
           assemblies \in Assemblies, events \in Seq(Calls),
           Framed(cells \o more), Sound(ses, c, cells \o more, assemblies, events)
    PROVE  Read(cells) \in ReadsOf(ses, c, cells, more) /\ ~Complete(Read(cells).rest)
<1> DEFINE D == ReadsOf(ses, c, cells, more)
           l == Len(cells)
           first == [rest |-> cells, read |-> 0, assemblies |-> assemblies, events |-> events]
           P(g) == g = [n \in 0..l |-> IF n = 0 THEN first ELSE ReadOne(g[n - 1])]
           pass == CHOOSE g : P(g)
<1>1. l \in Nat
  OBVIOUS
<1>2. first \in D
  <2>1. first \in Receivers
    BY DEF Receivers
  <2>2. Cardinality(Starts(cells \o more)) \in Nat
    BY StartsAreFinite, ConcatProperties
  <2> QED  BY <1>1, <2>1, <2>2 DEF ReadsOf
<1>3. P(pass)
  <2> DEFINE G == [r \in D |-> ReadOne(r)]
  <2>1. G \in [D -> D]
    BY ReadOneKeeps
  <2> HIDE DEF D, first, l, G
  <2>2. PICK g \in [0..l -> D] : Iterates(g, G, first, l)
    BY <1>1, <1>2, <2>1, Iteration
  <2>3. ASSUME NEW i \in 0..l, i # 0 PROVE G[g[i - 1]] = ReadOne(g[i - 1])
    <3>1. i - 1 \in 0..l
      BY <1>1, <2>3
    <3> QED  BY <2>2, <3>1 DEF G
  <2>4. P(g)
    BY <2>2, <2>3 DEF Iterates
  <2> QED  BY <2>4
<1>4. Read(cells) = pass[l]
  BY DEF Read
<1> HIDE DEF pass, first, D
<1>5. pass[0] = first /\ \A n \in 0..(l - 1) : pass[n + 1] = ReadOne(pass[n])
  <2>1. pass[0] = first
    BY <1>1, <1>3
  <2>2. ASSUME NEW n \in 0..(l - 1) PROVE pass[n + 1] = ReadOne(pass[n])
    <3>1. n + 1 \in 0..l /\ n + 1 # 0 /\ n + 1 - 1 = n
      BY <1>1
    <3> QED  BY <1>3, <3>1
  <2> QED  BY <2>1, <2>2
<1>6. \A n \in 0..l : pass[n] \in D
  <2> DEFINE S == {n \in 0..l : pass[n] \in D}
  <2>1. 0 \in S
    BY <1>1, <1>2, <1>5
  <2>2. ASSUME NEW n \in 0..(l - 1), n \in S PROVE n + 1 \in S
    BY <1>1, <1>5, <2>2, ReadOneKeeps DEF D
  <2> HIDE DEF S
  <2>3. 0..l \subseteq S
    BY <1>1, <2>1, <2>2, UpTo
  <2> QED  BY <2>3 DEF S
<1>7. \A n \in 0..l : Len(pass[n].rest) <= l - n \/ ~Complete(pass[n].rest)
  <2> DEFINE Q(n) == Len(pass[n].rest) <= l - n \/ ~Complete(pass[n].rest)
             S == {n \in 0..l : Q(n)}
  <2>1. 0 \in S
    <3>1. pass[0].rest = cells
      BY <1>5 DEF first
    <3> QED  BY <1>1, <3>1
  <2>2. ASSUME NEW n \in 0..(l - 1), n \in S PROVE n + 1 \in S
    <3>1. pass[n] \in D /\ pass[n + 1] \in D /\ pass[n + 1] = ReadOne(pass[n]) /\ n + 1 \in 0..l
      BY <1>1, <1>5, <1>6
    <3>2. Len(pass[n].rest) \in Nat /\ Len(pass[n + 1].rest) \in Nat
      <4>1. pass[n].rest \in Seq(CellsIn(DownFrames)) /\ pass[n + 1].rest \in Seq(CellsIn(DownFrames))
        BY <3>1 DEF D, ReadsOf, Receivers
      <4> QED  BY <4>1
    <3>3. /\ ~Complete(pass[n].rest) => pass[n + 1].rest = pass[n].rest
          /\ Complete(pass[n].rest) => Len(pass[n + 1].rest) < Len(pass[n].rest)
      BY <3>1, ReadOneKeeps DEF D
    <3>4. Q(n)
      BY <2>2
    <3>5. Q(n + 1)
      <4>1. CASE ~Complete(pass[n].rest)
        BY <3>3, <4>1
      <4>2. CASE Complete(pass[n].rest)
        <5>1. Len(pass[n].rest) <= l - n /\ Len(pass[n + 1].rest) < Len(pass[n].rest)
          BY <3>3, <3>4, <4>2
        <5>2. Len(pass[n + 1].rest) <= l - (n + 1)
          BY <1>1, <3>2, <5>1, SMTT(30)
        <5> QED  BY <5>2
      <4> QED  BY <4>1, <4>2
    <3> QED  BY <3>1, <3>5
  <2> HIDE DEF S, Q
  <2>3. 0..l \subseteq S
    BY <1>1, <2>1, <2>2, UpTo
  <2> QED  BY <2>3 DEF S, Q
<1>8. ~Complete(Read(cells).rest)
  <2>1. l \in 0..l /\ l - l = 0
    BY <1>1
  <2>2. pass[l].rest \in Seq(CellsIn(DownFrames))
    BY <1>6, <2>1 DEF D, ReadsOf, Receivers
  <2>3. Len(pass[l].rest) <= 0 => ~Complete(pass[l].rest)
    <3>1. Len(pass[l].rest) \in Nat
      BY <2>2
    <3> QED  BY <3>1, Sizes DEF Complete, HasHeader
  <2> QED  BY <1>4, <1>7, <2>1, <2>3
<1>9. Read(cells) \in D
  BY <1>1, <1>4, <1>6
<1> QED  BY <1>8, <1>9 DEF D
-----------------------------------------------------------------------------
(* A frame is sent after all that is to come.                               *)
IsSent(C, f, l, n, all) ==
    /\ C \in Seq(CellsIn(DownFrames)) /\ all \in Seq(CellsIn(DownFrames))
    /\ f \in DownFrames
    /\ l = Len(C) /\ l \in Nat /\ n \in Nat \ {0} /\ Len(all) = l + n
    /\ \A i \in 1..l : all[i] = C[i]
    /\ \A i \in (l + 1)..(l + n) : all[i].frame = f /\ all[i].at = i - l

(* What the server sends comes behind all that is to come.                   *)
LEMMA SentCells ==
    ASSUME NEW C \in Seq(CellsIn(DownFrames)), NEW f \in DownFrames
    PROVE  IsSent(C, f, Len(C), SizeOf(f), C \o CellsOf(f))
<1> DEFINE l == Len(C)
           n == SizeOf(f)
           all == C \o CellsOf(f)
           s == CellsOf(f)
<1>1. /\ s \in Seq(CellsIn(DownFrames)) /\ Len(s) = n /\ n \in Nat \ {0}
      /\ \A i \in 1..n : s[i] = [frame |-> f, at |-> i]
  BY FramesOfLink, CellsOfFacts
<1>2. l \in Nat
  OBVIOUS
<1> HIDE DEF n, s
<1>3. /\ C \o s \in Seq(CellsIn(DownFrames)) /\ Len(C \o s) = l + n
      /\ \A i \in 1..(l + n) : (C \o s)[i] = IF i <= l THEN C[i] ELSE s[i - l]
  <2>1. /\ C \o s \in Seq(CellsIn(DownFrames)) /\ Len(C \o s) = Len(C) + Len(s)
        /\ \A i \in 1..(Len(C) + Len(s)) :
               (C \o s)[i] = IF i <= Len(C) THEN C[i] ELSE s[i - Len(C)]
    BY <1>1, ConcatProperties
  <2> QED  BY <1>1, <2>1
<1> HIDE DEF all
<1>4. /\ all \in Seq(CellsIn(DownFrames)) /\ Len(all) = l + n
      /\ \A i \in 1..(l + n) : all[i] = IF i <= l THEN C[i] ELSE s[i - l]
  BY <1>3 DEF all, s
<1> HIDE DEF l
<1>5. \A i \in 1..l : all[i] = C[i]
  BY <1>1, <1>2, <1>4
<1>6. ASSUME NEW i \in (l + 1)..(l + n) PROVE all[i].frame = f /\ all[i].at = i - l
  <2>1. i \in 1..(l + n) /\ ~(i <= l) /\ i - l \in 1..n
    BY <1>1, <1>2
  <2>2. all[i] = s[i - l]
    BY <1>4, <2>1
  <2>3. all[i] = [frame |-> f, at |-> i - l]
    BY <1>1, <2>1, <2>2
  <2> QED  BY <2>3
<1>7. IsSent(C, f, l, n, all)
  BY <1>1, <1>2, <1>4, <1>5, <1>6 DEF IsSent, l
<1> QED  BY <1>7 DEF l, n, all, s

(* What is said of a position in what was there before stays true.          *)
LEMMA SentKeeps ==
    ASSUME NEW C, NEW f, NEW l, NEW n, NEW all, IsSent(C, f, l, n, all),
           NEW j \in 1..(l + 1), NEW held, NEW c, NEW calls
    PROVE  /\ \A g : Continues(C, j, g, held) => Continues(all, j, g, held)
           /\ \A s : Announced(c, calls, C, j, s) => Announced(c, calls, all, j, s)
<1>1. l \in Nat /\ \A i \in 1..l : all[i] = C[i]
  BY DEF IsSent
<1>2. ASSUME NEW i \in 0..(j - 1)
      PROVE  /\ NoPacket(all, i, j) => NoPacket(C, i, j)
             /\ NoStream(all, i, j) => NoStream(C, i, j)
  <2>1. \A k \in (i + 1)..(j - 1) : k \in 1..l
    BY <1>1
  <2> QED  BY <1>1, <2>1 DEF NoPacket, NoStream
<1>3. \A i \in 1..(j - 1) : i \in 0..(j - 1) /\ i \in 1..l
  BY <1>1
<1>4. 0 \in 0..(j - 1)
  OBVIOUS
<1>5. ASSUME NEW g, Continues(C, j, g, held) PROVE Continues(all, j, g, held)
  BY <1>1, <1>2, <1>3, <1>4, <1>5 DEF Continues
<1>6. ASSUME NEW s, Announced(c, calls, C, j, s) PROVE Announced(c, calls, all, j, s)
  BY <1>1, <1>2, <1>3, <1>4, <1>6 DEF Announced
<1> QED  BY <1>5, <1>6

(* What is said of the end of what was there holds within and after a frame *)
(* that does not contradict it.                                             *)
LEMMA SentExtends ==
    ASSUME NEW C, NEW f, NEW l, NEW n, NEW all, IsSent(C, f, l, n, all),
           NEW j \in (l + 1)..(l + n + 1), NEW held, NEW c, NEW calls
    PROVE  /\ \A g : Continues(C, l + 1, g, held) /\ ~OnTime(f)
                         => Continues(all, j, g, held)
           /\ \A s : Announced(c, calls, C, l + 1, s) /\ f.stream \in {0, s}
                         => Announced(c, calls, all, j, s)
<1>1. /\ l \in Nat /\ n \in Nat \ {0} /\ (\A i \in 1..l : all[i] = C[i])
      /\ \A i \in (l + 1)..(l + n) : all[i].frame = f
  BY DEF IsSent
<1>2. ASSUME NEW i \in 0..l
      PROVE  /\ NoPacket(all, i, j) => NoPacket(C, i, l + 1)
             /\ NoStream(all, i, j) => NoStream(C, i, l + 1)
  <2>1. \A k \in (i + 1)..((l + 1) - 1) : k \in 1..l /\ k \in (i + 1)..(j - 1)
    BY <1>1
  <2> QED  BY <1>1, <2>1 DEF NoPacket, NoStream
<1>3. ASSUME NEW i \in 1..(j - 1)
      PROVE  \/ i \in 0..l /\ i \in 1..((l + 1) - 1) /\ all[i] = C[i]
             \/ all[i].frame = f
  <2>1. i \in 1..l \/ i \in (l + 1)..(l + n)
    BY <1>1
  <2>2. i \in 1..l => i \in 0..l /\ i \in 1..((l + 1) - 1)
    BY <1>1
  <2> QED  BY <1>1, <2>1, <2>2
<1>4. 0 \in 0..l
  BY <1>1
<1>5. ASSUME NEW g, Continues(C, l + 1, g, held), ~OnTime(f)
      PROVE  Continues(all, j, g, held)
  <2>1. ASSUME g.index > 0, NEW i \in 1..(j - 1), IsPacket(all[i]), NoPacket(all, i, j)
        PROVE  all[i].frame = Fragment(g.stream, g.id, g.index - 1)
    <3>1. i \in 0..l /\ i \in 1..((l + 1) - 1) /\ all[i] = C[i]
      BY <1>3, <1>5, <2>1 DEF IsPacket
    <3>2. NoPacket(C, i, l + 1)
      BY <1>2, <2>1, <3>1
    <3>3. C[i].frame = Fragment(g.stream, g.id, g.index - 1)
      BY <1>5, <2>1, <3>1, <3>2 DEF Continues
    <3> QED  BY <3>1, <3>3
  <2>2. ASSUME g.index > 0, NoPacket(all, 0, j), g.id \in DOMAIN held
        PROVE  Fits(held[g.id], g.stream, g.id, g.index)
    BY <1>2, <1>4, <1>5, <2>2 DEF Continues
  <2> QED  BY <2>1, <2>2 DEF Continues
<1>6. ASSUME NEW s, Announced(c, calls, C, l + 1, s), f.stream \in {0, s}
      PROVE  Announced(c, calls, all, j, s)
  <2>1. ASSUME NEW i \in 1..(j - 1), all[i].frame.stream # 0, NoStream(all, i, j)
        PROVE  all[i].frame.stream = s
    <3>1. CASE all[i].frame = f
      BY <1>6, <2>1, <3>1
    <3>2. CASE i \in 0..l /\ i \in 1..((l + 1) - 1) /\ all[i] = C[i]
      <4>1. NoStream(C, i, l + 1)
        BY <1>2, <2>1, <3>2
      <4> QED  BY <1>6, <2>1, <3>2, <4>1 DEF Announced
    <3> QED  BY <1>3, <3>1, <3>2
  <2>2. ASSUME NoStream(all, 0, j)
        PROVE  \A i \in 0..Len(calls) :
                   Before(c, calls, i) # 0 /\ NoCall(calls, i, Len(calls) + 1)
                       => Before(c, calls, i) = s
    <3>1. NoStream(C, 0, l + 1)
      BY <1>2, <1>4, <2>2
    <3> QED  BY <1>6, <3>1 DEF Announced
  <2> QED  BY <2>1, <2>2 DEF Announced
<1> QED  BY <1>5, <1>6

(* After a frame, what comes next may be the fragment after it, and is of   *)
(* the stream of it.                                                        *)
LEMMA SentIsLast ==
    ASSUME NEW C, NEW f, NEW l, NEW n, NEW all, IsSent(C, f, l, n, all),
           NEW held, NEW c, NEW calls
    PROVE  /\ \A g : OnTime(f) /\ f = Fragment(g.stream, g.id, g.index - 1)
                         => Continues(all, Len(all) + 1, g, held)
           /\ f.stream # 0 => Announced(c, calls, all, Len(all) + 1, f.stream)
<1> DEFINE j == Len(all) + 1
<1>1. /\ l \in Nat /\ n \in Nat \ {0} /\ Len(all) = l + n
      /\ \A i \in (l + 1)..(l + n) : all[i].frame = f
  BY DEF IsSent
<1>2. l + 1 \in (l + 1)..(l + n) /\ j = l + n + 1 /\ j \in Nat
  BY <1>1
<1> HIDE DEF j
<1>3. all[l + 1].frame = f
  BY <1>1, <1>2
<1>4. ASSUME NEW i \in 0..(j - 1)
      PROVE  all[i].frame = f \/ l + 1 \in (i + 1)..(j - 1)
  BY <1>1, <1>2
<1>5. 0 \in 0..(j - 1) /\ l + 1 \in (0 + 1)..(j - 1) /\ \A i \in 1..(j - 1) : i \in 0..(j - 1)
  BY <1>1, <1>2
<1>6. ASSUME NEW g, OnTime(f), f = Fragment(g.stream, g.id, g.index - 1)
      PROVE  Continues(all, j, g, held)
  <2>1. IsPacket(all[l + 1])
    BY <1>3, <1>6 DEF IsPacket
  <2>2. ~NoPacket(all, 0, j)
    BY <1>5, <2>1 DEF NoPacket
  <2>3. ASSUME NEW i \in 1..(j - 1), NoPacket(all, i, j) PROVE all[i].frame = f
    BY <1>4, <1>5, <2>1, <2>3 DEF NoPacket
  <2> QED  BY <1>6, <2>2, <2>3 DEF Continues
<1>7. ASSUME f.stream # 0 PROVE Announced(c, calls, all, j, f.stream)
  <2>1. ~NoStream(all, 0, j)
    BY <1>3, <1>5, <1>7 DEF NoStream
  <2>2. ASSUME NEW i \in 1..(j - 1), NoStream(all, i, j) PROVE all[i].frame = f
    BY <1>3, <1>4, <1>5, <1>7, <2>2 DEF NoStream
  <2> QED  BY <2>1, <2>2 DEF Announced
<1> QED  BY <1>6, <1>7 DEF j

(* If a fragment continues the one before and its stream was announced, all  *)
(* of the fragments do.                                                      *)
LEMMA SentIsOrdered ==
    ASSUME NEW C, NEW f, NEW l, NEW n, NEW all, IsSent(C, f, l, n, all),
           NEW held, NEW c, NEW calls,
           Ordered(C, held), CellsAnnounced(c, calls, C),
           OnTime(f) =>
               Continues(C, l + 1, f, held) /\ Announced(c, calls, C, l + 1, f.stream)
    PROVE  Ordered(all, held) /\ CellsAnnounced(c, calls, all)
<1>1. /\ l \in Nat /\ n \in Nat \ {0} /\ l = Len(C) /\ Len(all) = l + n
      /\ \A i \in 1..l : all[i] = C[i]
      /\ \A i \in (l + 1)..(l + n) : all[i].frame = f /\ all[i].at = i - l
  BY DEF IsSent
<1>2. ASSUME NEW j \in 1..Len(all)
      PROVE  \/ j \in 1..l /\ j \in 1..Len(C) /\ j \in 1..(l + 1) /\ all[j] = C[j]
             \/ /\ j \in (l + 1)..(l + n) /\ j \in (l + 1)..(l + n + 1)
                /\ all[j].frame = f /\ all[j].at = j - l
  <2>1. j \in 1..l \/ j \in (l + 1)..(l + n)
    BY <1>1
  <2>2. /\ j \in 1..l => j \in 1..Len(C) /\ j \in 1..(l + 1)
        /\ j \in (l + 1)..(l + n) => j \in (l + 1)..(l + n + 1)
    BY <1>1
  <2> QED  BY <1>1, <2>1, <2>2
<1>3. ASSUME NEW j \in 1..Len(all), IsPacket(all[j]), all[j].at = 1
      PROVE  Continues(all, j, all[j].frame, held)
  <2>1. CASE j \in 1..l /\ j \in 1..Len(C) /\ j \in 1..(l + 1) /\ all[j] = C[j]
    <3>1. Continues(C, j, C[j].frame, held)
      BY <1>3, <2>1 DEF Ordered
    <3> QED  BY <2>1, <3>1, SentKeeps
  <2>2. CASE j \in (l + 1)..(l + n) /\ all[j].frame = f /\ all[j].at = j - l
    <3>1. j = l + 1 /\ OnTime(f)
      BY <1>1, <1>3, <2>2 DEF IsPacket
    <3>2. l + 1 \in 1..(l + 1)
      BY <1>1
    <3>3. Continues(all, l + 1, f, held)
      BY <3>1, <3>2, SentKeeps
    <3> QED  BY <2>2, <3>1, <3>3
  <2> QED  BY <1>2, <2>1, <2>2
<1>4. ASSUME NEW j \in 1..Len(all), IsPacket(all[j])
      PROVE  Announced(c, calls, all, j, all[j].frame.stream)
  <2>1. CASE j \in 1..l /\ j \in 1..Len(C) /\ j \in 1..(l + 1) /\ all[j] = C[j]
    <3>1. Announced(c, calls, C, j, C[j].frame.stream)
      BY <1>4, <2>1 DEF CellsAnnounced
    <3> QED  BY <2>1, <3>1, SentKeeps
  <2>2. CASE j \in (l + 1)..(l + n + 1) /\ all[j].frame = f
    <3>1. OnTime(f)
      BY <1>4, <2>2 DEF IsPacket
    <3>2. Announced(c, calls, C, l + 1, f.stream) /\ f.stream \in {0, f.stream}
      BY <3>1
    <3>3. Announced(c, calls, all, j, f.stream)
      BY <2>2, <3>2, SentExtends
    <3> QED  BY <2>2, <3>3
  <2> QED  BY <1>2, <2>1, <2>2
<1> QED  BY <1>3, <1>4 DEF Ordered, CellsAnnounced

(* What the server sends: an error or a late fragment, the metadata of a    *)
(* stream, the next fragment of the stream announced last.                  *)
LEMMA OthersAreSound ==
    ASSUME NEW ses, NEW c, NEW C \in Seq(CellsIn(DownFrames)), NEW held, NEW calls,
           Sound(ses, c, C, held, calls), NEW f \in DownFrames, f.stream = 0
    PROVE  Sound(ses, c, C \o CellsOf(f), held, calls)
<1> DEFINE l == Len(C)
           n == SizeOf(f)
           all == C \o CellsOf(f)
<1>1. ~OnTime(f)
  BY DEF OnTime
<1>2. IsSent(C, f, l, n, all)
  BY <1>1, SentCells
<1> HIDE DEF n, all
<1>3. l \in Nat /\ n \in Nat /\ Len(all) = l + n /\ n # 0
  BY <1>2 DEF IsSent
<1>4. Len(all) + 1 \in (l + 1)..(l + n + 1)
  BY <1>3
<1>5. Ordered(all, held) /\ CellsAnnounced(c, calls, all)
  BY <1>1, <1>2, SentIsOrdered DEF Sound
<1>6. ses.index > 0 => ses.stream # 0 /\ Continues(all, Len(all) + 1, NextOf(ses), held)
  BY <1>1, <1>2, <1>4, SentExtends DEF Sound
<1>7. ses.stream # 0 => Announced(c, calls, all, Len(all) + 1, ses.stream)
  BY <1>1, <1>2, <1>4, SentExtends DEF Sound
<1>8. Sound(ses, c, all, held, calls)
  BY <1>5, <1>6, <1>7 DEF Sound
<1> QED  BY <1>8 DEF all

(* The metadata announces the stream whose sender goes on.                   *)
LEMMA MetadataIsSound ==
    ASSUME NEW ses, NEW c, NEW C \in Seq(CellsIn(DownFrames)), NEW held, NEW calls,
           Sound(ses, c, C, held, calls), NEW m \in Streams
    PROVE  Sound([stream |-> m, id |-> 0, index |-> 0], c, C \o CellsOf(Metadata(m)), held, calls)
<1> DEFINE f == Metadata(m)
           all == C \o CellsOf(f)
           next == [stream |-> m, id |-> 0, index |-> 0]
<1>1. f \in DownFrames /\ ~OnTime(f) /\ f.stream = m /\ m # 0
  BY DEF DownFrames, Metadata, Streams, OnTime
<1>2. IsSent(C, f, Len(C), SizeOf(f), all)
  BY <1>1, SentCells
<1>3. next.stream = m /\ ~(next.index > 0)
  OBVIOUS
<1> HIDE DEF f, all, next
<1>4. Ordered(all, held) /\ CellsAnnounced(c, calls, all)
  BY <1>1, <1>2, SentIsOrdered DEF Sound
<1>5. Announced(c, calls, all, Len(all) + 1, m)
  BY <1>1, <1>2, SentIsLast
<1>6. Sound(next, c, all, held, calls)
  BY <1>3, <1>4, <1>5 DEF Sound
<1> QED  BY <1>6 DEF f, all, next

(* The next fragment is of the packet in hand, or the first of a new one.    *)
LEMMA FragmentIsSound ==
    ASSUME NEW ses \in Sessions, NEW c, NEW C \in Seq(CellsIn(DownFrames)), NEW held, NEW calls,
           Sound(ses, c, C, held, calls), ses.stream # 0,
           NEW id \in Ids, ses.index > 0 => id = ses.id,
           NEW next \in Sessions, next.stream = ses.stream, next.id = id,
           next.index \in {0, ses.index + 1}
    PROVE  Sound(next, c, C \o CellsOf(Fragment(ses.stream, id, ses.index)), held, calls)
<1> DEFINE f == Fragment(ses.stream, id, ses.index)
           all == C \o CellsOf(f)
<1>1. ses.stream \in Nat /\ ses.index \in 0..(Fragments - 1) /\ ses.index \in Nat
  BY Sizes DEF Sessions
<1>2. /\ f \in DownFrames /\ OnTime(f) /\ f.stream = ses.stream
      /\ f.index = ses.index
  BY <1>1 DEF DownFrames, Fragment, OnTime
<1>3. IsSent(C, f, Len(C), SizeOf(f), all)
  BY <1>2, SentCells
<1>4. Continues(C, Len(C) + 1, f, held)
  <2>1. CASE ses.index > 0
    <3>1. f = NextOf(ses)
      BY <2>1 DEF NextOf
    <3> QED  BY <2>1, <3>1 DEF Sound
  <2>2. CASE ~(ses.index > 0)
    BY <1>2, <2>2 DEF Continues
  <2> QED  BY <2>1, <2>2
<1>5. Announced(c, calls, C, Len(C) + 1, f.stream)
  BY <1>2 DEF Sound
<1>6. NextOf(next).stream = ses.stream /\ NextOf(next).id = id /\ NextOf(next).index = next.index
  BY DEF NextOf, Fragment
<1>7. next.index > 0 => f = Fragment(NextOf(next).stream, NextOf(next).id, NextOf(next).index - 1)
  <2>1. next.index > 0 => next.index - 1 = ses.index
    BY <1>1
  <2> QED  BY <1>6, <2>1
<1> HIDE DEF f, all
<1>8. Ordered(all, held) /\ CellsAnnounced(c, calls, all)
  BY <1>3, <1>4, <1>5, SentIsOrdered DEF Sound
<1>9. Announced(c, calls, all, Len(all) + 1, next.stream)
  BY <1>2, <1>3, SentIsLast
<1>10. next.index > 0 => Continues(all, Len(all) + 1, NextOf(next), held)
  BY <1>2, <1>3, <1>7, SentIsLast
<1>11. Sound(next, c, all, held, calls)
  BY <1>8, <1>9, <1>10 DEF Sound
<1> QED  BY <1>11 DEF f, all
-----------------------------------------------------------------------------
(* The decoder's thread takes a call: its codec is from now on for none or  *)
(* for the stream of the call.                                              *)
LEMMA HandledIsSound ==
    ASSUME NEW ses, NEW c, NEW C, NEW held, NEW calls \in Seq(Calls), calls # <<>>,
           Sound(ses, c, C, held, calls), NEW c2,
           c2 \in {0, StreamOf(Head(calls))} \/ (c2 = c /\ StreamOf(Head(calls)) = 0)
    PROVE  Sound(ses, c2, C, held, Tail(calls))
<1> DEFINE later == Tail(calls)
           l == Len(later)
           m(i) == IF i = 0 /\ StreamOf(Head(calls)) = 0 THEN 0 ELSE i + 1
<1>1. /\ Len(calls) = l + 1 /\ l \in Nat /\ Head(calls) = calls[1]
      /\ \A i \in 1..l : later[i] = calls[i + 1]
  BY HeadTailProperties
<1> HIDE DEF later, l
<1>2. ASSUME NEW i \in 0..l, Before(c2, later, i) # 0
      PROVE  Before(c, calls, m(i)) = Before(c2, later, i)
  <2>1. i + 1 # 0
    OBVIOUS
  <2>2. CASE i = 0
    <3>1. c2 # 0
      BY <1>2, <2>2 DEF Before
    <3>2. CASE StreamOf(Head(calls)) = 0
      BY <2>2, <3>1, <3>2 DEF Before
    <3>3. CASE StreamOf(Head(calls)) # 0
      BY <1>1, <2>2, <3>1, <3>3 DEF Before
    <3> QED  BY <3>2, <3>3
  <2>3. CASE i # 0
    <3>1. later[i] = calls[i + 1]
      BY <1>1, <2>3
    <3> QED  BY <2>1, <2>3, <3>1 DEF Before
  <2> QED  BY <2>2, <2>3
<1>3. ASSUME NEW j \in 1..(l + 1), NEW i \in 0..(j - 1), NoCall(later, i, j)
      PROVE  m(i) \in 0..j /\ NoCall(calls, m(i), j + 1)
  <2>1. m(i) \in 0..j
    OBVIOUS
  <2>2. ASSUME NEW k \in (m(i) + 1)..((j + 1) - 1) PROVE StreamOf(calls[k]) = 0
    <3>1. CASE k = 1
      <4>1. m(i) = 0
        BY <3>1
      <4>2. StreamOf(Head(calls)) = 0
        BY <4>1
      <4> QED  BY <1>1, <3>1, <4>2
    <3>2. CASE k # 1
      <4>1. k - 1 \in (i + 1)..(j - 1) /\ k - 1 \in 1..l /\ (k - 1) + 1 = k
        BY <1>1, <3>2
      <4>2. later[k - 1] = calls[(k - 1) + 1]
        BY <1>1, <4>1
      <4> QED  BY <1>3, <4>1, <4>2 DEF NoCall
    <3> QED  BY <3>1, <3>2
  <2> HIDE DEF m
  <2> QED  BY <2>1, <2>2 DEF NoCall
<1> HIDE DEF m
<1>4. CallsAnnounced(c2, later)
  <2> SUFFICES ASSUME NEW j \in 1..l, later[j].call = "decode",
                      StreamOf(later[j]) # 0, NEW i \in 0..(j - 1),
                      Before(c2, later, i) # 0, NoCall(later, i, j)
               PROVE  Before(c2, later, i) = StreamOf(later[j])
    BY DEF CallsAnnounced, l
  <2>1. /\ j + 1 \in 1..Len(calls) /\ i \in 0..l /\ (j + 1) - 1 = j
        /\ j \in 1..(l + 1) /\ later[j] = calls[j + 1]
    BY <1>1
  <2>2. m(i) \in 0..j /\ NoCall(calls, m(i), j + 1)
    BY <1>3, <2>1
  <2>3. Before(c, calls, m(i)) = Before(c2, later, i)
    BY <1>2, <2>1
  <2>4. CallsAnnounced(c, calls)
    BY DEF Sound
  <2> QED  BY <2>1, <2>2, <2>3, <2>4 DEF CallsAnnounced
<1>5. ASSUME NEW j, NEW s, Announced(c, calls, C, j, s) PROVE Announced(c2, later, C, j, s)
  <2>1. ASSUME NoStream(C, 0, j), NEW i \in 0..l,
               Before(c2, later, i) # 0, NoCall(later, i, l + 1)
        PROVE  Before(c2, later, i) = s
    <3>1. /\ 0..(l + 1) = 0..Len(calls) /\ l + 1 \in 1..(l + 1) /\ i \in 0..((l + 1) - 1)
          /\ (l + 1) + 1 = Len(calls) + 1
      BY <1>1
    <3>2. m(i) \in 0..(l + 1) /\ NoCall(calls, m(i), Len(calls) + 1)
      BY <1>3, <2>1, <3>1
    <3>3. Before(c, calls, m(i)) = Before(c2, later, i)
      BY <1>2, <2>1
    <3> QED  BY <1>5, <2>1, <3>1, <3>2, <3>3 DEF Announced
  <2> QED  BY <1>5, <2>1 DEF Announced, l
<1>6. CellsAnnounced(c2, later, C)
  BY <1>5 DEF Sound, CellsAnnounced
<1> QED  BY <1>4, <1>5, <1>6 DEF Sound, later

(* stopLive() drops the assemblies and queues a reset.                      *)
LEMMA ResetIsSound ==
    ASSUME NEW ses, NEW c, NEW C, NEW held, NEW calls \in Seq(Calls),
           Sound(ses, c, C, held, calls), NEW none, DOMAIN none = {}
    PROVE  Sound(ses, c, C, none, Append(calls, [call |-> "reset"]))
<1> DEFINE e == [call |-> "reset"]
           l == Len(calls)
           later == Append(calls, e)
<1>1. e \in Calls /\ StreamOf(e) = 0 /\ e.call # "decode"
  BY DEF Calls, StreamOf
<1> HIDE DEF e
<1>2. /\ l \in Nat /\ Len(later) = l + 1 /\ later[l + 1] = e
      /\ \A i \in 1..l : later[i] = calls[i]
  BY <1>1, AppendProperties
<1>3. CallsAnnounced(c, later)
  <2>1. CallsAnnounced(c, calls)
    BY DEF Sound
  <2> QED  BY <1>1, <2>1, CallQueued
<1> HIDE DEF later, l
<1>4. ASSUME NEW i \in 0..Len(later), Before(c, later, i) # 0, NoCall(later, i, Len(later) + 1)
      PROVE  i \in 0..l /\ Before(c, calls, i) = Before(c, later, i) /\ NoCall(calls, i, l + 1)
  <2>1. i # l + 1
    BY <1>1, <1>2, <1>4 DEF Before
  <2>2. i \in 0..l
    BY <1>2, <2>1
  <2>3. Before(c, calls, i) = Before(c, later, i)
    <3>1. i # 0 => i \in 1..l
      BY <1>2, <2>2
    <3> QED  BY <1>2, <3>1 DEF Before
  <2>4. \A k \in (i + 1)..((l + 1) - 1) : k \in (i + 1)..((Len(later) + 1) - 1) /\ k \in 1..l
    BY <1>2, <2>2
  <2>5. NoCall(calls, i, l + 1)
    BY <1>2, <1>4, <2>4 DEF NoCall
  <2> QED  BY <2>2, <2>3, <2>5
<1>5. ASSUME NEW j, NEW s, Announced(c, calls, C, j, s) PROVE Announced(c, later, C, j, s)
  BY <1>4, <1>5 DEF Announced, l
<1>6. ASSUME NEW j, NEW g, Continues(C, j, g, held) PROVE Continues(C, j, g, none)
  BY <1>6 DEF Continues
<1>7. Ordered(C, none)
  BY <1>6 DEF Sound, Ordered
<1>8. CellsAnnounced(c, later, C)
  BY <1>5 DEF Sound, CellsAnnounced
<1> QED  BY <1>3, <1>5, <1>6, <1>7, <1>8 DEF Sound, later, e
-----------------------------------------------------------------------------
(* What the invariant of the flows needs.                                   *)
LEMMA SentHolds ==
    ASSUME NEW F, Lengths(F), NEW rest \in Seq(CellsIn(F)), NEW flow \in Flows(F), NEW f \in F
    PROVE  /\ Sent(flow, f) \in Flows(F)
           /\ rest \o Sent(flow, f).cells = (rest \o flow.cells) \o CellsOf(f)
           /\ Holds(rest, flow) => Holds(rest, Sent(flow, f))
<1> DEFINE cells == rest \o flow.cells
           next == Sent(flow, f)
<1>1. flow.cells \in Seq(CellsIn(F)) /\ flow.frames \in Nat /\ CellsOf(f) \in Seq(CellsIn(F))
  BY CellsOfFacts DEF Flows
<1>2. next.cells = flow.cells \o CellsOf(f) /\ next.frames = flow.frames + 1
  BY DEF Sent
<1>3. flow.cells \o CellsOf(f) \in Seq(CellsIn(F)) /\ cells \in Seq(CellsIn(F))
  BY <1>1, ConcatProperties
<1>4. next \in Flows(F)
  <2>1. flow.frames + 1 \in Nat
    BY <1>1
  <2> QED  BY <1>3, <2>1 DEF Sent, Flows
<1>5. rest \o next.cells = cells \o CellsOf(f)
  <2>1. rest \o (flow.cells \o CellsOf(f)) = (rest \o flow.cells) \o CellsOf(f)
    <3>1. \A x, y, z \in Seq(CellsIn(F)) : x \o (y \o z) = (x \o y) \o z
      BY ConcatAssociative, SMTT(30)
    <3> QED  BY <1>1, <3>1
  <2> QED  BY <1>2, <2>1
<1> HIDE DEF cells, next
<1>6. ASSUME Framed(cells), Cardinality(Starts(cells)) = flow.frames
      PROVE  /\ Framed(cells \o CellsOf(f))
             /\ Cardinality(Starts(cells \o CellsOf(f))) = flow.frames + 1
  BY <1>3, <1>6, FrameIsSent
<1>7. Holds(rest, flow) => Holds(rest, next)
  BY <1>2, <1>5, <1>6 DEF Holds, Framed, Starts, cells
<1> QED  BY <1>4, <1>5, <1>7 DEF next, cells

(* Compacting the buffer leaves what is not decoded as it is.                *)
LEMMA CompactedKeeps ==
    ASSUME NEW S, NEW cells \in Seq(S), NEW from \in 0..Len(cells)
    PROVE  LET kept == Compacted(cells, from)
           IN  /\ kept.cells \in Seq(S) /\ kept.from \in 0..Len(kept.cells)
               /\ Unread(kept.cells, kept.from) = Unread(cells, from)
<1> DEFINE kept == Compacted(cells, from)
           left == Unread(cells, from)
<1>1. left \in Seq(S) /\ Len(left) = Len(cells) - from /\ Len(cells) \in Nat
  BY UnreadFacts
<1>2. CASE from = Len(cells)
  <2>1. kept.cells = <<>> /\ kept.from = 0
    BY <1>2 DEF Compacted
  <2>2. Len(left) = 0
    BY <1>1, <1>2
  <2>3. left = <<>>
    BY <1>1, <2>2, EmptySeq
  <2>4. Unread(left, 0) = left
    <3>1. Unread(left, 0) = SubSeq(left, 1, Len(left))
      BY DEF Unread
    <3> QED  BY <1>1, <3>1, SubSeqFull
  <2> HIDE DEF kept
  <2> QED  BY <2>1, <2>3, <2>4 DEF kept
<1>3. CASE from # Len(cells) /\ from > 0 /\ (from >= CompactAt \/ from * 2 >= Len(cells))
  <2>1. kept.cells = left /\ kept.from = 0
    BY <1>3 DEF Compacted
  <2>2. Unread(left, 0) = Unread(cells, from + 0)
    <3>1. 0 \in 0..(Len(cells) - from)
      BY <1>1
    <3> QED  BY <3>1, UnreadTwice
  <2>3. from + 0 = from /\ 0 \in 0..Len(left)
    BY <1>1
  <2> HIDE DEF kept
  <2> QED  BY <1>1, <2>1, <2>2, <2>3 DEF kept
<1>4. CASE from # Len(cells) /\ ~(from > 0 /\ (from >= CompactAt \/ from * 2 >= Len(cells)))
  <2>1. kept.cells = cells /\ kept.from = from
    BY <1>4 DEF Compacted
  <2> HIDE DEF kept
  <2> QED  BY <2>1 DEF kept
<1> QED  BY <1>2, <1>3, <1>4

(* The index of the next fragment, 0 after the last.                         *)
LEMMA NextIndex ==
    ASSUME NEW i \in 0..(Fragments - 1)
    PROVE  (i + 1) % Fragments \in 0..(Fragments - 1) /\ (i + 1) % Fragments \in {0, i + 1}
<1> DEFINE m == Fragments
<1>1. m \in Nat \ {0}
  BY Sizes
<1> HIDE DEF m
<1>2. i \in Nat /\ i < m
  BY <1>1 DEF m
<1>3. CASE i + 1 < m
  <2>1. (i + 1) % m = i + 1
    BY <1>1, <1>2, <1>3, SMTT(30)
  <2> QED  BY <1>1, <1>2, <1>3, <2>1 DEF m
<1>4. CASE i + 1 = m
  <2>1. m % m = 0
    BY <1>1, SMTT(30)
  <2>2. 0 \in 0..(m - 1)
    BY <1>1
  <2> QED  BY <1>4, <2>1, <2>2 DEF m
<1> QED  BY <1>1, <1>2, <1>3, <1>4
-----------------------------------------------------------------------------
(* The stream announced last, if any, is as its sender is.                   *)
LEMMA CurrentIs == sessions \in SessionRecords => Current \in Sessions
<1> SUFFICES ASSUME sessions \in SessionRecords PROVE Current \in Sessions
  OBVIOUS
<1> DEFINE n == Len(sessions.senders)
<1>1. sessions.senders \in Seq(Senders) /\ n \in Nat
  BY DEF SessionRecords
<1>2. CASE n = 0
  <2>1. 0 \in 0..Packets /\ 0 \in 0..(Fragments - 1)
    BY Sizes
  <2> QED  BY <1>2, <2>1 DEF Current, Sessions
<1>3. CASE n # 0
  <2>1. sessions.senders[n] \in Senders
    BY <1>1, <1>3
  <2> QED  BY <1>1, <1>3, <2>1 DEF Current, Sessions, Senders
<1> QED  BY <1>2, <1>3

(* The invariant, action by action.                                         *)
LEMMA InitHolds == LinkInit => LinkInv
<1> SUFFICES ASSUME LinkInit PROVE LinkInv
  OBVIOUS
<1>1. LinkTypeOK
  <2>1. up \in Flows(UpFrames) /\ down \in Flows(DownFrames)
    BY DEF LinkInit, Flows
  <2>2. sessions \in SessionRecords
    BY DEF LinkInit, SessionRecords
  <2>3. assemblies \in Assemblies
    <3>1. assemblies \in [{} -> [next : Nat, data : Seq(DownFrames)]] /\ {} \in SUBSET Ids
      BY DEF LinkInit
    <3> QED  BY <3>1 DEF Assemblies
  <2>4. /\ buffer \in Seq(CellsIn(UpFrames)) /\ position \in 0..Len(buffer)
        /\ requests \in Seq(UpFrames) /\ receiveBuffer \in Seq(CellsIn(DownFrames))
        /\ events \in Seq(Calls)
    BY DEF LinkInit
  <2>5. /\ codec \in Nat
        /\ asked \in [plays : 0..MaxPlays, stops : 0..MaxStops]
    BY RequestLimits DEF LinkInit
  <2> QED  BY <2>1, <2>2, <2>3, <2>4, <2>5 DEF LinkTypeOK, SessionRecords
<1>2. ASSUME NEW F, NEW flow, flow.cells = <<>>, flow.frames = 0 PROVE Holds(<<>>, flow)
  <2>1. <<>> \o flow.cells = <<>>
    BY <1>2, ConcatProperties
  <2>2. {i \in 1..Len(<<>>) : <<>>[i].at = 1} = {}
    OBVIOUS
  <2>3. Cardinality({}) = 0
    BY FS_EmptySet
  <2>4. ~Complete(<<>>)
    BY Sizes DEF Complete, HasHeader
  <2> QED  BY <1>2, <2>1, <2>2, <2>3, <2>4 DEF Holds, IsFramed
<1>3. FramesAreRecovered
  <2>1. Unread(buffer, position) = <<>>
    <3>1. buffer = <<>> /\ position = 0
      BY DEF LinkInit
    <3>2. SubSeq(<<>>, 1, Len(<<>>)) = <<>>
      BY SubSeqFull
    <3> QED  BY <3>1, <3>2 DEF Unread
  <2>2. /\ up.cells = <<>> /\ up.frames = 0 /\ down.cells = <<>> /\ down.frames = 0
        /\ receiveBuffer = <<>>
    BY DEF LinkInit
  <2> QED  BY <1>2, <2>1, <2>2 DEF FramesAreRecovered
<1>4. Sound(Current, codec, receiveBuffer \o down.cells, assemblies, events)
  <2>1. /\ receiveBuffer \o down.cells = <<>> /\ events = <<>> /\ Current.stream = 0
        /\ Current.index = 0
    BY DEF LinkInit, Current
  <2>2. Ordered(<<>>, assemblies) /\ CellsAnnounced(codec, <<>>, <<>>)
    BY DEF Ordered, CellsAnnounced
  <2>3. CallsAnnounced(codec, <<>>)
    BY DEF CallsAnnounced
  <2> QED  BY <2>1, <2>2, <2>3 DEF Sound
<1> QED  BY <1>1, <1>3, <1>4 DEF LinkInv

(* What FramesAreRecovered says of one direction, in the terms of the        *)
(* lemmas.                                                                   *)
LEMMA HoldsIs ==
    ASSUME NEW rest, NEW flow
    PROVE  Holds(rest, flow) <=>
               /\ Framed(rest \o flow.cells)
               /\ Cardinality(Starts(rest \o flow.cells)) = flow.frames
               /\ ~Complete(rest)
BY DEF Holds, Framed, Starts

(* connection_ready(): append() and its loop, compaction, a refused length.  *)
LEMMA ServerReadsHolds ==
    ASSUME LinkInv, NEW k \in 1..Len(up.cells), ServerReads(k)
    PROVE  LinkInv'
<1> DEFINE cells == buffer \o Arriving(up, k)
           unread == Unread(cells, position)
           cut == Cut(unread)
           from == Len(cells) - Len(cut.rest)
           kept == Compacted(cells, from)
           more == Unread(up.cells, k)
           F == UpFrames
           S == CellsIn(F)
<1>1. /\ open
      /\ up' = Delivered(up, k, Len(cut.out))
      /\ IF cut.tooLong
         THEN /\ buffer' = <<>> /\ position' = 0
              /\ open' = FALSE /\ sessions' = [sessions EXCEPT !.entry = FALSE]
              /\ requests' = requests
         ELSE /\ buffer' = kept.cells /\ position' = kept.from
              /\ requests' = requests \o cut.out
              /\ open' = open /\ sessions' = sessions
      /\ down' = down /\ receiveBuffer' = receiveBuffer /\ assemblies' = assemblies
      /\ events' = events /\ codec' = codec /\ asked' = asked
  BY DEF ServerReads, client, decoder
<1>2. LinkTypeOK /\ FramesAreRecovered
      /\ Sound(Current, codec, receiveBuffer \o down.cells, assemblies, events)
  BY DEF LinkInv
<1>3. /\ up.cells \in Seq(S) /\ up.frames \in Nat /\ buffer \in Seq(S)
      /\ position \in 0..Len(buffer) /\ requests \in Seq(F)
  BY <1>2 DEF LinkTypeOK, Flows
<1>4. Lengths(F)
  BY FramesOfLink
<1>5. /\ Arriving(up, k) \in Seq(S) /\ more \in Seq(S) /\ Arriving(up, k) \o more = up.cells
  BY <1>3, FlowSplits DEF Delivered
<1>6. /\ up'.cells = more /\ up'.frames = up.frames - Len(cut.out)
      /\ up' = [cells |-> up'.cells, frames |-> up'.frames]
  BY <1>1 DEF Delivered
<1> HIDE DEF more, F, S
<1>7. /\ cells \in Seq(S) /\ unread = Unread(buffer, position) \o Arriving(up, k)
      /\ Unread(buffer, position) \in Seq(S)
      /\ unread \in Seq(S) /\ position \in 0..Len(cells) /\ Len(unread) = Len(cells) - position
  <2>1. cells \in Seq(S) /\ Len(cells) = Len(buffer) + Len(Arriving(up, k))
    BY <1>3, <1>5, ConcatProperties
  <2>2. position \in 0..Len(cells)
    BY <1>3, <1>5, <2>1
  <2>3. unread \in Seq(S) /\ Len(unread) = Len(cells) - position
    BY <2>1, <2>2, UnreadFacts
  <2>4. unread = Unread(buffer, position) \o Arriving(up, k)
    BY <1>3, <1>5, UnreadConcat
  <2>5. Unread(buffer, position) \in Seq(S)
    BY <1>3, UnreadFacts
  <2> QED  BY <2>1, <2>2, <2>3, <2>4, <2>5
<1> HIDE DEF cells, unread, cut
<1>8. unread \o more = Unread(buffer, position) \o up.cells
  <2>1. \A x, y, z \in Seq(S) : (x \o y) \o z = x \o (y \o z)
    BY ConcatAssociative
  <2>2. (Unread(buffer, position) \o Arriving(up, k)) \o more
            = Unread(buffer, position) \o (Arriving(up, k) \o more)
    <3> DEFINE x == Unread(buffer, position)
               y == Arriving(up, k)
    <3>1. x \in Seq(S) /\ y \in Seq(S) /\ more \in Seq(S)
      BY <1>5, <1>7
    <3> HIDE DEF x, y
    <3>2. (x \o y) \o more = x \o (y \o more)
      BY <2>1, <3>1
    <3> QED  BY <3>2 DEF x, y
  <2> QED  BY <1>5, <1>7, <2>2
<1>9. Framed(unread \o more) /\ Cardinality(Starts(unread \o more)) = up.frames
  BY <1>1, <1>2, <1>8, HoldsIs DEF FramesAreRecovered
<1>10. /\ cut.rest \in Seq(S) /\ cut.out \in Seq(F)
       /\ Len(cut.rest) <= Len(unread) /\ cut.rest = Unread(unread, Len(unread) - Len(cut.rest))
       /\ Framed(cut.rest \o more)
       /\ up.frames = Cardinality(Starts(cut.rest \o more)) + Len(cut.out)
       /\ cut.tooLong \/ ~Complete(cut.rest)
  <2>1. cut \in CutsOf(F, unread, more) /\ (cut.tooLong \/ ~Complete(cut.rest))
    BY <1>4, <1>5, <1>7, <1>9, CutFacts DEF S, cut
  <2> QED  BY <1>9, <2>1 DEF CutsOf, Cuts, S
<1>11. Cardinality(Starts(cut.rest \o more)) \in Nat
  <2>1. cut.rest \o more \in Seq(CellsIn(F))
    BY <1>5, <1>10, ConcatProperties DEF S
  <2> QED  BY <2>1, StartsAreFinite
<1>12. up'.frames = Cardinality(Starts(cut.rest \o more)) /\ up' \in Flows(F)
  <2> DEFINE x == Cardinality(Starts(cut.rest \o more))
             l == Len(cut.out)
  <2>1. l \in Nat /\ x \in Nat /\ up.frames = x + l /\ up'.frames = up.frames - l
    BY <1>6, <1>10, <1>11
  <2> HIDE DEF x, l
  <2>2. up'.frames = x /\ up'.frames \in Nat
    BY <2>1
  <2> QED  BY <1>5, <1>6, <2>2 DEF Flows, S, x
<1>13. /\ kept.cells \in Seq(S) /\ kept.from \in 0..Len(kept.cells)
       /\ Unread(kept.cells, kept.from) = cut.rest
  <2> DEFINE m == Len(unread) - Len(cut.rest)
  <2>1. /\ Len(cells) \in Nat /\ Len(unread) \in Nat /\ Len(cut.rest) \in Nat
        /\ position \in Nat /\ Len(unread) = Len(cells) - position
        /\ Len(cut.rest) <= Len(unread)
    BY <1>7, <1>10
  <2>2. /\ m \in 0..(Len(cells) - position) /\ position + m = from /\ from \in 0..Len(cells)
    BY <2>1
  <2>3. Unread(cells, from) = cut.rest
    <3>1. cut.rest = Unread(Unread(cells, position), m)
      BY <1>10 DEF unread
    <3>2. Unread(Unread(cells, position), m) = Unread(cells, position + m)
      <4>1. cells \in Seq(S) /\ position \in 0..Len(cells) /\ m \in 0..(Len(cells) - position)
        BY <1>7, <2>2
      <4> HIDE DEF m
      <4> QED  BY <4>1, UnreadTwice
    <3> QED  BY <2>2, <3>1, <3>2
  <2> HIDE DEF from
  <2> QED  BY <1>7, <2>2, <2>3, CompactedKeeps
<1> HIDE DEF kept
<1>14. LinkTypeOK'
  <2>1. [sessions EXCEPT !.entry = FALSE]
            \in SessionRecords
    BY <1>2 DEF LinkTypeOK, SessionRecords
  <2>2. /\ buffer' \in Seq(S) /\ position' \in 0..Len(buffer') /\ requests' \in Seq(F)
        /\ sessions' \in SessionRecords
    <3>1. CASE cut.tooLong
      <4>1. sessions' \in SessionRecords
        BY <1>1, <2>1, <3>1
      <4>2. buffer' = <<>> /\ position' = 0 /\ requests' = requests
        BY <1>1, <3>1
      <4> QED  BY <1>3, <4>1, <4>2
    <3>2. CASE ~cut.tooLong
      <4>1. sessions' \in SessionRecords
        BY <1>1, <1>2, <3>2 DEF LinkTypeOK
      <4>2. requests \o cut.out \in Seq(F)
        BY <1>3, <1>10, ConcatProperties
      <4> QED  BY <1>1, <1>13, <3>2, <4>1, <4>2
    <3> QED  BY <3>1, <3>2
  <2> QED  BY <1>1, <1>2, <1>12, <2>2 DEF LinkTypeOK, S, F
<1>15. FramesAreRecovered'
  <2>1. Holds(receiveBuffer', down')
    BY <1>1, <1>2 DEF FramesAreRecovered
  <2>2. ASSUME open' PROVE Holds(Unread(buffer', position'), up')
    <3>1. ~cut.tooLong /\ Unread(buffer', position') = cut.rest
      BY <1>1, <1>13, <2>2
    <3>2. /\ Framed(cut.rest \o up'.cells)
          /\ Cardinality(Starts(cut.rest \o up'.cells)) = up'.frames
          /\ ~Complete(cut.rest)
      BY <1>6, <1>10, <1>12, <3>1
    <3> QED  BY <3>1, <3>2, HoldsIs
  <2> QED  BY <2>1, <2>2 DEF FramesAreRecovered
<1>16. Sound(Current', codec', receiveBuffer' \o down'.cells, assemblies', events')
  <2>1. sessions'.senders = sessions.senders
    BY <1>1, <1>2 DEF LinkTypeOK, SessionRecords
  <2>2. Current' = Current
    BY <2>1 DEF Current
  <2> QED  BY <1>1, <1>2, <2>2
<1> QED  BY <1>14, <1>15, <1>16 DEF LinkInv

(* readAvailable() and everything it dispatches.                             *)
LEMMA ClientReadsHolds ==
    ASSUME LinkInv, NEW k \in 1..Len(down.cells), ClientReads(k)
    PROVE  LinkInv'
<1> DEFINE cells == receiveBuffer \o Arriving(down, k)
           done == Read(cells)
           more == Unread(down.cells, k)
           S == CellsIn(DownFrames)
<1>1. /\ down' = Delivered(down, k, done.read)
      /\ receiveBuffer' = done.rest /\ assemblies' = done.assemblies /\ events' = done.events
      /\ up' = up /\ buffer' = buffer /\ position' = position /\ requests' = requests
      /\ sessions' = sessions /\ codec' = codec /\ open' = open /\ asked' = asked
      /\ Current' = Current
  BY DEF ClientReads, server, Current
<1>2. LinkTypeOK /\ FramesAreRecovered
      /\ Sound(Current, codec, receiveBuffer \o down.cells, assemblies, events)
  BY DEF LinkInv
<1>3. /\ down.cells \in Seq(S) /\ down.frames \in Nat /\ receiveBuffer \in Seq(S)
      /\ assemblies \in Assemblies /\ events \in Seq(Calls) /\ Current \in Sessions
  BY <1>2, CurrentIs DEF LinkTypeOK, Flows
<1>4. /\ Arriving(down, k) \in Seq(S) /\ more \in Seq(S)
      /\ Arriving(down, k) \o more = down.cells
  BY <1>3, FlowSplits DEF Delivered
<1>5. /\ down'.cells = more /\ down'.frames = down.frames - done.read
      /\ down' = [cells |-> down'.cells, frames |-> down'.frames]
  BY <1>1 DEF Delivered
<1> HIDE DEF more, S
<1>6. cells \in Seq(S)
  BY <1>3, <1>4, ConcatProperties
<1>7. cells \o more = receiveBuffer \o down.cells
  <2>1. \A x, y, z \in Seq(S) : (x \o y) \o z = x \o (y \o z)
    BY ConcatAssociative
  <2>2. cells \o more = receiveBuffer \o (Arriving(down, k) \o more)
    BY <1>3, <1>4, <2>1
  <2> QED  BY <1>4, <2>2
<1> HIDE DEF cells
<1>8. Framed(cells \o more) /\ Cardinality(Starts(cells \o more)) = down.frames
  BY <1>2, <1>7, HoldsIs DEF FramesAreRecovered
<1>9. done \in ReadsOf(Current, codec, cells, more) /\ ~Complete(done.rest)
  BY <1>2, <1>3, <1>4, <1>6, <1>7, <1>8, ReadFacts DEF S
<1> HIDE DEF done
<1>10. /\ done.rest \in Seq(S) /\ done.read \in Nat
       /\ done.assemblies \in Assemblies /\ done.events \in Seq(Calls)
       /\ Framed(done.rest \o more)
       /\ down.frames = Cardinality(Starts(done.rest \o more)) + done.read
       /\ Sound(Current, codec, done.rest \o more, done.assemblies, done.events)
  BY <1>8, <1>9 DEF ReadsOf, Receivers, S
<1>11. down'.frames = Cardinality(Starts(done.rest \o more)) /\ down' \in Flows(DownFrames)
  <2>1. done.rest \o more \in Seq(CellsIn(DownFrames))
    BY <1>4, <1>10, ConcatProperties DEF S
  <2>2. Cardinality(Starts(done.rest \o more)) \in Nat
    BY <2>1, StartsAreFinite
  <2> DEFINE x == Cardinality(Starts(done.rest \o more))
  <2>3. x \in Nat /\ done.read \in Nat /\ down.frames = x + done.read
        /\ down'.frames = down.frames - done.read
    BY <1>5, <1>10, <2>2
  <2> HIDE DEF x
  <2>4. down'.frames = x /\ down'.frames \in Nat
    BY <2>3
  <2> QED  BY <1>4, <1>5, <2>4 DEF Flows, S, x
<1>12. LinkTypeOK'
  BY <1>1, <1>2, <1>10, <1>11 DEF LinkTypeOK, S
<1>13. FramesAreRecovered'
  <2>1. open' => Holds(Unread(buffer', position'), up')
    BY <1>1, <1>2 DEF FramesAreRecovered
  <2>2. Holds(receiveBuffer', down')
    <3>1. /\ Framed(receiveBuffer' \o down'.cells)
          /\ Cardinality(Starts(receiveBuffer' \o down'.cells)) = down'.frames
          /\ ~Complete(receiveBuffer')
      BY <1>1, <1>5, <1>9, <1>10, <1>11
    <3> QED  BY <3>1, HoldsIs
  <2> QED  BY <2>1, <2>2 DEF FramesAreRecovered
<1>14. Sound(Current', codec', receiveBuffer' \o down'.cells, assemblies', events')
  BY <1>1, <1>5, <1>10
<1> QED  BY <1>12, <1>13, <1>14 DEF LinkInv

(* The server sends a frame, of another stream or the same.                  *)
LEMMA ServerSendsHolds ==
    ASSUME LinkInv, NEW f \in DownFrames, Replies(f),
           sessions' \in SessionRecords, requests' \in Seq(UpFrames),
           Sound(Current', codec, (receiveBuffer \o down.cells) \o CellsOf(f), assemblies, events),
           UNCHANGED <<up, buffer, position, client, decoder, open, asked>>
    PROVE  LinkInv'
<1>1. /\ down' = Sent(down, f)
      /\ up' = up /\ buffer' = buffer /\ position' = position
      /\ receiveBuffer' = receiveBuffer /\ assemblies' = assemblies /\ events' = events
      /\ codec' = codec /\ open' = open /\ asked' = asked
  BY DEF Replies, client, decoder
<1>2. LinkTypeOK /\ FramesAreRecovered
  BY DEF LinkInv
<1>3. receiveBuffer \in Seq(CellsIn(DownFrames)) /\ down \in Flows(DownFrames)
  BY <1>2 DEF LinkTypeOK
<1>4. /\ Sent(down, f) \in Flows(DownFrames)
      /\ receiveBuffer \o Sent(down, f).cells = (receiveBuffer \o down.cells) \o CellsOf(f)
      /\ Holds(receiveBuffer, down) => Holds(receiveBuffer, Sent(down, f))
  BY <1>3, FramesOfLink, SentHolds
<1>5. LinkTypeOK'
  BY <1>1, <1>2, <1>4 DEF LinkTypeOK
<1>6. FramesAreRecovered'
  BY <1>1, <1>2, <1>4 DEF FramesAreRecovered
<1>7. Sound(Current', codec', receiveBuffer' \o down'.cells, assemblies', events')
  BY <1>1, <1>4
<1> QED  BY <1>5, <1>6, <1>7 DEF LinkInv

(* The server takes a request or removes an entry and sends nothing.        *)
LEMMA ServerIsSilentHolds ==
    ASSUME LinkInv, requests' \in Seq(UpFrames),
           sessions' \in SessionRecords, sessions'.senders = sessions.senders,
           UNCHANGED <<up, down, buffer, position, client, decoder, open, asked>>
    PROVE  LinkInv'
<1>1. /\ up' = up /\ down' = down /\ buffer' = buffer /\ position' = position
      /\ receiveBuffer' = receiveBuffer /\ assemblies' = assemblies /\ events' = events
      /\ codec' = codec /\ open' = open /\ asked' = asked
  BY DEF client, decoder
<1>2. /\ LinkTypeOK /\ FramesAreRecovered
      /\ Sound(Current, codec, receiveBuffer \o down.cells, assemblies, events)
  BY DEF LinkInv
<1>3. LinkTypeOK'
  BY <1>1, <1>2 DEF LinkTypeOK
<1>4. FramesAreRecovered'
  BY <1>1, <1>2 DEF FramesAreRecovered
<1>5. Current' = Current
  BY DEF Current
<1>6. Sound(Current', codec', receiveBuffer' \o down'.cells, assemblies', events')
  BY <1>1, <1>2, <1>5
<1> QED  BY <1>3, <1>4, <1>6 DEF LinkInv

(* A sender sends its next fragment: late, or of the stream announced last.  *)
LEMMA SendFragmentHolds ==
    ASSUME LinkInv, NEW n \in 1..Len(sessions.senders), SendFragment(n)
    PROVE  LinkInv'
<1> DEFINE C == receiveBuffer \o down.cells
           sender == sessions.senders[n]
           i == sender.index
           last == Len(sessions.senders)
           stream == IF n = last THEN n ELSE 0
<1>1. /\ LinkTypeOK /\ Sound(Current, codec, C, assemblies, events)
      /\ Current \in Sessions /\ requests \in Seq(UpFrames)
  BY CurrentIs DEF LinkInv, LinkTypeOK
<1>2. C \in Seq(CellsIn(DownFrames))
  <2>1. receiveBuffer \in Seq(CellsIn(DownFrames)) /\ down.cells \in Seq(CellsIn(DownFrames))
    BY <1>1 DEF LinkTypeOK, Flows
  <2> QED  BY <2>1, ConcatProperties
<1>3. /\ sessions \in SessionRecords /\ sessions.senders \in Seq(Senders)
      /\ n \in 1..last /\ last \in Nat /\ stream \in Nat
      /\ sender \in Senders /\ i \in 0..(Fragments - 1) /\ sender.id \in 0..Packets
  <2>1. sessions \in SessionRecords
    BY <1>1 DEF LinkTypeOK
  <2>2. sessions.senders \in Seq(Senders)
    BY <2>1 DEF SessionRecords
  <2>3. sender \in Senders /\ last \in Nat
    BY <2>2
  <2> QED  BY <2>1, <2>2, <2>3 DEF Senders
<1>4. PICK id \in Ids :
         /\ IF i = 0 THEN id > sender.id ELSE id = sender.id
         /\ Replies(Fragment(stream, id, i))
         /\ sessions' = [sessions EXCEPT !.senders[n] =
                             [id |-> id, index |-> (i + 1) % Fragments]]
  BY DEF SendFragment
<1>5. /\ requests' = requests
      /\ UNCHANGED <<up, buffer, position, client, decoder, open, asked>>
  BY DEF SendFragment
<1> DEFINE f == Fragment(stream, id, i)
           new == [id |-> id, index |-> (i + 1) % Fragments]
<1>6. (i + 1) % Fragments \in 0..(Fragments - 1) /\ (i + 1) % Fragments \in {0, i + 1}
  BY <1>3, NextIndex
<1>7. f \in DownFrames /\ f.stream = stream
  BY <1>3 DEF DownFrames, Fragment
<1>8. new \in Senders /\ new.id = id /\ new.index \in {0, i + 1}
  <2>1. id \in 0..Packets
    BY Sizes DEF Ids
  <2> QED  BY <1>6, <2>1 DEF Senders
<1> HIDE DEF f, new, C
<1>9. /\ sessions' \in SessionRecords /\ Len(sessions'.senders) = last
      /\ sessions'.senders[last] = IF n = last THEN new ELSE sessions.senders[last]
  <2> DEFINE senders == [sessions.senders EXCEPT ![n] = new]
  <2>1. /\ senders \in Seq(Senders) /\ Len(senders) = last
        /\ senders[last] = IF n = last THEN new ELSE sessions.senders[last]
    BY <1>3, <1>8
  <2>2. sessions' = [sessions EXCEPT !.senders = senders]
    BY <1>3, <1>4 DEF new, SessionRecords
  <2> HIDE DEF senders
  <2>3. sessions' \in SessionRecords /\ sessions'.senders = senders
    BY <1>3, <2>1, <2>2 DEF SessionRecords
  <2> QED  BY <2>1, <2>3
<1>10. Sound(Current', codec, C \o CellsOf(f), assemblies, events)
  <2>1. CASE n = last
    <3>1. Current.stream = n /\ Current.id = sender.id /\ Current.index = i /\ n # 0
      BY <1>3, <2>1 DEF Current
    <3>2. Current'.stream = n /\ Current'.id = id /\ Current'.index = new.index
      BY <1>3, <1>8, <1>9, <2>1 DEF Current
    <3>3. Current' \in Sessions
      <4>1. Current' = [stream |-> n, id |-> new.id, index |-> new.index]
        BY <1>3, <1>9, <2>1 DEF Current
      <4> QED  BY <1>3, <1>8, <4>1 DEF Sessions, Senders
    <3>4. Current.index > 0 => id = Current.id
      BY <1>3, <1>4, <3>1
    <3>5. f = Fragment(Current.stream, id, Current.index)
      BY <2>1, <3>1 DEF f
    <3>6. Current'.index \in {0, Current.index + 1}
      BY <1>8, <3>1, <3>2
    <3> QED  BY <1>1, <1>2, <3>1, <3>2, <3>3, <3>4, <3>5, <3>6, FragmentIsSound
  <2>2. CASE n # last
    <3>1. f.stream = 0
      BY <1>7, <2>2
    <3>2. Current' = Current
      BY <1>9, <2>2 DEF Current
    <3> QED  BY <1>1, <1>2, <1>7, <3>1, <3>2, OthersAreSound
  <2> QED  BY <2>1, <2>2
<1> QED  BY <1>1, <1>4, <1>5, <1>7, <1>9, <1>10, ServerSendsHolds DEF C, f

(* The server reads, executes a request or sends a fragment.                 *)
LEMMA ServerStepHolds ==
    ASSUME LinkInv, ServerStep
    PROVE  LinkInv'
<1> DEFINE C == receiveBuffer \o down.cells
<1>1. LinkTypeOK /\ FramesAreRecovered /\ Sound(Current, codec, C, assemblies, events)
  BY DEF LinkInv
<1>2. /\ sessions \in SessionRecords /\ requests \in Seq(UpFrames)
      /\ C \in Seq(CellsIn(DownFrames))
  <2>1. receiveBuffer \in Seq(CellsIn(DownFrames)) /\ down.cells \in Seq(CellsIn(DownFrames))
    BY <1>1 DEF LinkTypeOK, Flows
  <2> QED  BY <1>1, <2>1, ConcatProperties DEF LinkTypeOK
<1> HIDE DEF C
<1>3. ASSUME NEW i \in 1..Len(requests), NEW type, Executes(i, type)
      PROVE  requests' \in Seq(UpFrames)
  <2>1. requests' = SubSeq(requests, 1, i - 1) \o Unread(requests, i)
    BY <1>3 DEF Executes
  <2>2. Unread(requests, i) \in Seq(UpFrames)
    BY <1>2, UnreadFacts
  <2>3. SubSeq(requests, 1, i - 1) \in Seq(UpFrames)
    BY <1>2, <1>3, SubSeqProperties
  <2> QED  BY <2>1, <2>2, <2>3, ConcatProperties
<1>4. CASE \E k \in 1..Len(up.cells) : ServerReads(k)
  BY <1>4, ServerReadsHolds
<1>5. ASSUME NEW i \in 1..Len(requests), StartStream(i)
      PROVE  LinkInv'
  <2>1. /\ Executes(i, "GetStream")
        /\ sessions' = [sessions EXCEPT !.entry = TRUE, !.starting = @ + 1]
        /\ UNCHANGED <<up, down, buffer, position, client, decoder, open, asked>>
    BY <1>5 DEF StartStream
  <2>2. requests' \in Seq(UpFrames)
    BY <1>3, <2>1
  <2>3. sessions' \in SessionRecords /\ sessions'.senders = sessions.senders
    <3>1. sessions.entry \in BOOLEAN /\ sessions.starting \in Nat /\ sessions.senders \in Seq(Senders)
      BY <1>2 DEF SessionRecords
    <3>2. sessions.starting + 1 \in Nat
      BY <2>1, <3>1
    <3> DEFINE m == sessions.starting + 1
    <3>3. sessions' = [sessions EXCEPT !.entry = TRUE, !.starting = m]
      BY <2>1
    <3> HIDE DEF m
    <3> QED  BY <1>2, <3>1, <3>2, <3>3 DEF SessionRecords, m
  <2> QED  BY <2>1, <2>2, <2>3, ServerIsSilentHolds
<1>6. ASSUME NEW i \in 1..Len(requests), StartRefused(i)
      PROVE  LinkInv'
  <2>1. /\ Executes(i, "GetStream") /\ Replies(Error) /\ sessions' = sessions
        /\ UNCHANGED <<up, buffer, position, client, decoder, open, asked>>
    BY <1>6 DEF StartRefused
  <2>2. requests' \in Seq(UpFrames) /\ Error \in DownFrames /\ Error.stream = 0
    BY <1>3, <2>1 DEF DownFrames, Error
  <2>3. Current' = Current
    BY <2>1 DEF Current
  <2>4. Sound(Current', codec, C \o CellsOf(Error), assemblies, events)
    BY <1>1, <1>2, <2>2, <2>3, OthersAreSound
  <2> QED  BY <1>2, <2>1, <2>2, <2>4, ServerSendsHolds DEF C
<1>7. ASSUME NEW i \in 1..Len(requests), StopStreamOf(i)
      PROVE  LinkInv'
  <2>1. /\ Executes(i, "StopStream") /\ sessions' = [sessions EXCEPT !.entry = FALSE]
        /\ UNCHANGED <<up, down, buffer, position, client, decoder, open, asked>>
    BY <1>7 DEF StopStreamOf
  <2>2. requests' \in Seq(UpFrames)
    BY <1>3, <2>1
  <2>3. sessions' \in SessionRecords /\ sessions'.senders = sessions.senders
    BY <1>2, <2>1 DEF SessionRecords
  <2> QED  BY <2>1, <2>2, <2>3, ServerIsSilentHolds
<1>8. CASE SendMetadata
  <2> DEFINE m == Len(sessions.senders) + 1
             senders == Append(sessions.senders, NewSender)
  <2>1. /\ Replies(Metadata(m)) /\ requests' = requests /\ sessions.starting > 0
        /\ sessions' = [sessions EXCEPT !.starting = @ - 1, !.senders = senders]
        /\ UNCHANGED <<up, buffer, position, client, decoder, open, asked>>
    BY <1>2, <1>8 DEF SendMetadata, SessionRecords
  <2>2. NewSender \in Senders /\ NewSender.id = 0 /\ NewSender.index = 0
    BY Sizes DEF NewSender, Senders
  <2>3. sessions.senders \in Seq(Senders) /\ sessions.starting \in Nat
    BY <1>2 DEF SessionRecords
  <2>4. /\ senders \in Seq(Senders) /\ Len(senders) = m /\ senders[m] = NewSender
        /\ m \in Nat \ {0}
    BY <2>2, <2>3, AppendProperties
  <2> HIDE DEF m, senders
  <2>5. sessions' \in SessionRecords /\ sessions'.senders = senders
    <3>1. sessions.starting - 1 \in Nat
      BY <2>1, <2>3
    <3> QED  BY <1>2, <2>1, <2>4, <3>1 DEF SessionRecords
  <2>6. Current' = [stream |-> m, id |-> 0, index |-> 0]
    BY <2>2, <2>4, <2>5 DEF Current
  <2>7. Metadata(m) \in DownFrames /\ m \in Streams
    BY <2>4 DEF DownFrames, Streams
  <2>8. Sound(Current', codec, C \o CellsOf(Metadata(m)), assemblies, events)
    BY <1>1, <1>2, <2>6, <2>7, MetadataIsSound
  <2> QED  BY <1>2, <2>1, <2>5, <2>7, <2>8, ServerSendsHolds DEF C
<1>9. CASE StartFails
  <2>1. /\ Replies(Error) /\ requests' = requests /\ sessions.starting > 0
        /\ sessions' = [sessions EXCEPT !.starting = @ - 1, !.entry = FALSE]
        /\ UNCHANGED <<up, buffer, position, client, decoder, open, asked>>
    BY <1>9 DEF StartFails
  <2>2. Error \in DownFrames /\ Error.stream = 0
    BY DEF DownFrames, Error
  <2>3. sessions' \in SessionRecords /\ sessions'.senders = sessions.senders
    <3>1. sessions.entry \in BOOLEAN /\ sessions.starting \in Nat /\ sessions.senders \in Seq(Senders)
      BY <1>2 DEF SessionRecords
    <3>2. sessions.starting - 1 \in Nat
      BY <2>1, <3>1
    <3> DEFINE m == sessions.starting - 1
    <3>3. sessions' = [sessions EXCEPT !.entry = FALSE, !.starting = m]
      BY <2>1
    <3> HIDE DEF m
    <3> QED  BY <1>2, <3>1, <3>2, <3>3 DEF SessionRecords, m
  <2>4. Current' = Current
    BY <2>3 DEF Current
  <2>5. Sound(Current', codec, C \o CellsOf(Error), assemblies, events)
    BY <1>1, <1>2, <2>2, <2>4, OthersAreSound
  <2> QED  BY <1>2, <2>1, <2>2, <2>3, <2>5, ServerSendsHolds DEF C
<1>10. CASE \E n \in 1..Len(sessions.senders) : SendFragment(n)
  BY <1>10, SendFragmentHolds
<1> QED  BY <1>4, <1>5, <1>6, <1>7, <1>8, <1>9, <1>10 DEF ServerStep

(* A request is sent: the frames under way to the server grow by one.       *)
LEMMA RequestIsSent ==
    ASSUME LinkTypeOK, FramesAreRecovered, open, NEW f \in UpFrames
    PROVE  Sent(up, f) \in Flows(UpFrames) /\ Holds(Unread(buffer, position), Sent(up, f))
<1>1. /\ Unread(buffer, position) \in Seq(CellsIn(UpFrames)) /\ up \in Flows(UpFrames)
      /\ Holds(Unread(buffer, position), up)
  BY UnreadFacts DEF LinkTypeOK, FramesAreRecovered
<1> QED  BY <1>1, FramesOfLink, SentHolds

(* The client reads or makes a request.                                      *)
LEMMA ClientStepHolds ==
    ASSUME LinkInv, ClientStep
    PROVE  LinkInv'
<1> DEFINE C == receiveBuffer \o down.cells
<1>1. LinkTypeOK /\ FramesAreRecovered /\ Sound(Current, codec, C, assemblies, events)
  BY DEF LinkInv
<1>2. /\ asked.plays \in 0..MaxPlays /\ asked.stops \in 0..MaxStops
      /\ asked = [plays |-> asked.plays, stops |-> asked.stops]
      /\ MaxPlays \in Nat /\ MaxStops \in Nat
      /\ events \in Seq(Calls)
  BY <1>1, RequestLimits DEF LinkTypeOK
<1>3. ASSUME NEW f \in UpFrames, open, up' = Sent(up, f),
             asked' \in [plays : 0..MaxPlays, stops : 0..MaxStops],
             assemblies' \in Assemblies, events' \in Seq(Calls),
             Sound(Current, codec, C, assemblies', events'),
             UNCHANGED <<down, server, receiveBuffer, codec, open>>
      PROVE  LinkInv'
  <2>1. /\ down' = down /\ buffer' = buffer /\ position' = position /\ requests' = requests
        /\ sessions' = sessions /\ receiveBuffer' = receiveBuffer /\ codec' = codec /\ open' = open
        /\ Current' = Current
    BY <1>3 DEF server, Current
  <2>2. Sent(up, f) \in Flows(UpFrames) /\ Holds(Unread(buffer, position), Sent(up, f))
    BY <1>1, <1>3, RequestIsSent
  <2>3. LinkTypeOK'
    BY <1>1, <1>3, <2>1, <2>2 DEF LinkTypeOK
  <2>4. FramesAreRecovered'
    BY <1>1, <1>3, <2>1, <2>2 DEF FramesAreRecovered
  <2>5. Sound(Current', codec', receiveBuffer' \o down'.cells, assemblies', events')
    BY <1>3, <2>1
  <2> QED  BY <2>3, <2>4, <2>5 DEF LinkInv
<1> HIDE DEF C
<1>4. CASE \E k \in 1..Len(down.cells) : ClientReads(k)
  BY <1>4, ClientReadsHolds
<1>5. ASSUME NEW f \in UpFrames, open, asked.plays < MaxPlays, up' = Sent(up, f),
             asked' = [asked EXCEPT !.plays = @ + 1],
             UNCHANGED <<down, server, client, decoder, open>>
      PROVE  LinkInv'
  <2>1. assemblies' = assemblies /\ events' = events
        /\ UNCHANGED <<down, server, receiveBuffer, codec, open>>
    BY <1>5 DEF client, decoder
  <2>2. asked.plays + 1 \in 0..MaxPlays
    BY <1>2, <1>5
  <2>3. asked' = [plays |-> asked.plays + 1, stops |-> asked.stops]
    BY <1>2, <1>5
  <2>4. asked' \in [plays : 0..MaxPlays, stops : 0..MaxStops]
    BY <1>2, <2>2, <2>3
  <2>5. assemblies' \in Assemblies /\ events' \in Seq(Calls)
    BY <1>1, <2>1 DEF LinkTypeOK
  <2> QED  BY <1>1, <1>3, <1>5, <2>1, <2>4, <2>5
<1>6. CASE StopLive
  <2>1. /\ open /\ asked.stops < MaxStops /\ up' = Sent(up, StopStream)
        /\ asked' = [asked EXCEPT !.stops = @ + 1]
        /\ assemblies' = [id \in {} |-> 0]
        /\ events' = Append(events, [call |-> "reset"])
        /\ UNCHANGED <<down, server, receiveBuffer, codec, open>>
    BY <1>6 DEF StopLive
  <2>2. asked' = [plays |-> asked.plays, stops |-> asked.stops + 1]
    BY <1>2, <2>1
  <2>3. asked' \in [plays : 0..MaxPlays, stops : 0..MaxStops]
    <3>1. asked.stops + 1 \in 0..MaxStops
      BY <1>2, <2>1
    <3> QED  BY <1>2, <2>2, <3>1
  <2>4. DOMAIN assemblies' = {} /\ assemblies' \in Assemblies
    <3>1. assemblies' \in [{} -> [next : Nat, data : Seq(DownFrames)]] /\ {} \in SUBSET Ids
      BY <2>1
    <3> QED  BY <2>1, <3>1 DEF Assemblies
  <2>5. events' \in Seq(Calls)
    <3>1. [call |-> "reset"] \in Calls
      BY DEF Calls
    <3> QED  BY <1>2, <2>1, <3>1
  <2>6. Sound(Current, codec, C, assemblies', events')
    BY <1>1, <1>2, <2>1, <2>4, ResetIsSound
  <2>7. StopStream \in UpFrames
    BY DEF UpFrames
  <2> QED  BY <1>3, <2>1, <2>3, <2>4, <2>5, <2>6, <2>7
<1>7. CASE PlayLive
  <2>1. GetStream \in UpFrames
    BY DEF UpFrames
  <2> QED  BY <1>5, <1>7, <2>1 DEF PlayLive
<1>8. CASE SendTooLong
  <2>1. TooLong \in UpFrames
    BY DEF UpFrames
  <2> QED  BY <1>5, <1>8, <2>1 DEF SendTooLong
<1> QED  BY <1>4, <1>6, <1>7, <1>8 DEF ClientStep

(* The decoder's thread takes a call. A packet is decoded with what the      *)
(* codec was before, which CallsAnnounced says is right or nothing.          *)
LEMMA DecoderStepHolds ==
    ASSUME LinkInv, DecoderStep
    PROVE  LinkInv'
<1> DEFINE C == receiveBuffer \o down.cells
<1>1. LinkTypeOK /\ FramesAreRecovered /\ Sound(Current, codec, C, assemblies, events)
  BY DEF LinkInv
<1>2. events \in Seq(Calls) /\ codec \in Nat
  BY <1>1 DEF LinkTypeOK
<1>3. /\ events # <<>> /\ events' = Tail(events)
      /\ up' = up /\ down' = down /\ buffer' = buffer /\ position' = position
      /\ requests' = requests /\ sessions' = sessions /\ receiveBuffer' = receiveBuffer
      /\ assemblies' = assemblies /\ open' = open /\ asked' = asked /\ Current' = Current
  BY DEF DecoderStep, Configure, Decode, Reset, Called, Handled, server, client, Current
<1>4. Head(events) \in Calls /\ events' \in Seq(Calls) /\ Head(events) = events[1]
      /\ 1 \in 1..Len(events)
  BY <1>2, <1>3, HeadTailProperties
<1>5. \/ codec' \in {0, StreamOf(Head(events))}
      \/ codec' = codec /\ StreamOf(Head(events)) = 0
  <2>1. CASE Configure
    <3>1. Head(events).call = "configure" /\ codec' \in {Head(events).stream, 0}
      BY <2>1 DEF Configure, Called
    <3> QED  BY <3>1 DEF StreamOf
  <2>2. CASE Decode
    <3>1. Head(events).call = "decode" /\ codec' = codec
      BY <2>2 DEF Decode, Called
    <3>2. CallsAnnounced(codec, events)
      BY <1>1 DEF Sound
    <3>3. Before(codec, events, 0) = codec /\ NoCall(events, 0, 1) /\ 0 \in 0..(1 - 1)
      BY DEF Before, NoCall
    <3>4. codec # 0 /\ StreamOf(events[1]) # 0 => codec = StreamOf(events[1])
      BY <1>4, <3>1, <3>2, <3>3 DEF CallsAnnounced
    <3> QED  BY <1>4, <3>1, <3>4
  <2>3. CASE Reset
    BY <2>3 DEF Reset
  <2> QED  BY <2>1, <2>2, <2>3 DEF DecoderStep
<1>6. codec' \in Nat
  BY <1>2, <1>4, <1>5, CallsOfLink
<1> HIDE DEF C
<1>7. LinkTypeOK'
  BY <1>1, <1>3, <1>4, <1>6 DEF LinkTypeOK
<1>8. FramesAreRecovered'
  BY <1>1, <1>3 DEF FramesAreRecovered
<1>9. Sound(Current, codec', C, assemblies, Tail(events))
  BY <1>1, <1>2, <1>3, <1>5, HandledIsSound
<1>10. Sound(Current', codec', receiveBuffer' \o down'.cells, assemblies', events')
  BY <1>3, <1>9 DEF C
<1> QED  BY <1>7, <1>8, <1>10 DEF LinkInv

(* Nothing changes.                                                          *)
LEMMA StutterHolds ==
    ASSUME LinkInv, UNCHANGED linkVars
    PROVE  LinkInv'
<1>1. /\ up' = up /\ down' = down /\ buffer' = buffer /\ position' = position
      /\ requests' = requests /\ sessions' = sessions /\ receiveBuffer' = receiveBuffer
      /\ assemblies' = assemblies /\ events' = events /\ codec' = codec /\ open' = open
      /\ asked' = asked /\ Current' = Current
  BY DEF linkVars, Current
<1> QED  BY <1>1 DEF LinkInv, LinkTypeOK, FramesAreRecovered

(* LinkInv is inductive.                                                     *)
LEMMA LinkInvariance == LinkSpec => []LinkInv
<1>1. LinkInv /\ [LinkNext]_linkVars => LinkInv'
  <2> SUFFICES ASSUME LinkInv, [LinkNext]_linkVars PROVE LinkInv'
    OBVIOUS
  <2> QED  BY ServerStepHolds, ClientStepHolds, DecoderStepHolds, StutterHolds DEF LinkNext
<1> QED  BY <1>1, InitHolds, PTL DEF LinkSpec

(* However TCP cuts the two streams of bytes and however the server's buffer *)
(* is compacted, TlvStreamDecoder and readAvailable() cut out exactly the    *)
(* frames that were sent: what is not decoded is whole frames and none of it *)
(* is complete.                                                              *)
THEOREM FramesRecovered == LinkSpec => []FramesAreRecovered
<1>1. LinkInv => FramesAreRecovered
  BY DEF LinkInv
<1> QED  BY <1>1, LinkInvariance, PTL

(* Every packet that is given to VideoDecoder has all the fragments of one   *)
(* packet of one stream, in order, and is decoded with the metadata of that  *)
(* stream or not at all, although ids are used again, streams are stopped    *)
(* amid a packet, assemblies are dropped by stopLive() and workers overlap:   *)
(* unless a late fragment is a part of it, one that its sender sent after    *)
(* the metadata of a later stream. A late fragment that comes in between     *)
(* spoils no packet that it is not a part of.                                *)
THEOREM PacketsWhole == LinkSpec => []PacketsAreWhole
<1>1. LinkInv => PacketsAreWhole
  <2> SUFFICES ASSUME LinkInv PROVE PacketsAreWhole
    OBVIOUS
  <2>1. events \in Seq(Calls) /\ CallsAnnounced(codec, events)
    BY DEF LinkInv, LinkTypeOK, Sound
  <2>2. ASSUME NEW i \in 1..Len(events), events[i].call = "decode", ~Late(events[i].data)
        PROVE  Whole(events[i].data)
    <3>1. events[i] \in Calls
      BY <2>1
    <3>2. PICK s \in Streams, id \in Ids : events[i].data = Prefix(s, id, Fragments)
      BY <2>2, <3>1, CallsOfLink
    <3>3. events[i].data[1].stream = s
      <4>1. 0 \in 0..(Fragments - 1)
        BY Sizes
      <4> QED  BY <3>2, <4>1, PrefixGrows
    <3> QED  BY <3>2, <3>3 DEF Whole, Prefix
  <2>3. ASSUME Called("decode"), ~Late(Head(events).data)
        PROVE  codec \in {0, Head(events).data[1].stream}
    <3>1. /\ events # <<>> /\ Head(events) = events[1] /\ events[1].call = "decode"
          /\ 1 \in 1..Len(events) /\ events[1] \in Calls
      BY <2>1, <2>3, HeadTailProperties DEF Called
    <3>2. Before(codec, events, 0) = codec /\ NoCall(events, 0, 1) /\ 0 \in 0..(1 - 1)
      BY DEF Before, NoCall
    <3>3. StreamOf(events[1]) = events[1].data[1].stream /\ StreamOf(events[1]) # 0
      BY <2>3, <3>1, CallsOfLink
    <3>4. codec # 0 => codec = StreamOf(events[1])
      BY <2>1, <3>1, <3>2, <3>3 DEF CallsAnnounced
    <3> QED  BY <3>1, <3>3, <3>4
  <2> QED  BY <2>2, <2>3 DEF PacketsAreWhole
<1> QED  BY <1>1, LinkInvariance, PTL
=============================================================================
