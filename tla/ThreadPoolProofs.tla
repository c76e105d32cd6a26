------------------------- MODULE ThreadPoolProofs --------------------------
(***************************************************************************)
(* Proofs about ThreadPool, for any number of workers, posters and tasks   *)
(* and any queue limit.  The inductive invariant is TypeOK, the shape of   *)
(* each phase of the pool (PhaseInv), the place of each task (EachTaskOnce)*)
(* and the counting argument of NoLostWakeup.                              *)
(***************************************************************************)
EXTENDS ThreadPool, FiniteSetTheorems, SequenceTheorems, TLAPS

(* What the flags, the owner's position and the workers' positions say     *)
(* about one another.                                                      *)
PhaseInv ==
    /\ stopping <=> opc # "idle"
    /\ stopping => running
    /\ \A w \in Workers : wpc[w] = "none" <=> ~running
    /\ ~running => tasks = << >>
    /\ \A w \in Workers : wpc[w] \in {"exited", "joined"} => stopping /\ tasks = << >>
    /\ \A w \in Workers : opc = "join" => wpc[w] # "waiting"

-----------------------------------------------------------------------------
(* The contents of the queue after Append and Tail.                        *)
Elements(s) == {s[i] : i \in DOMAIN s}

LEMMA AppendElements ==
    ASSUME NEW S, NEW s \in Seq(S), NEW e \in S
    PROVE  /\ Append(s, e) \in Seq(S)
           /\ Len(Append(s, e)) = Len(s) + 1
           /\ Elements(Append(s, e)) = Elements(s) \cup {e}
           /\ (\A i, j \in DOMAIN s : s[i] = s[j] => i = j) /\ e \notin Elements(s)
              => \A i, j \in DOMAIN Append(s, e) :
                    Append(s, e)[i] = Append(s, e)[j] => i = j
<1> DEFINE a == Append(s, e)
<1>1. /\ a \in Seq(S) /\ Len(a) = Len(s) + 1
      /\ \A i \in 1 .. Len(s) : a[i] = s[i]
      /\ a[Len(s) + 1] = e
      /\ DOMAIN s = 1 .. Len(s) /\ DOMAIN a = 1 .. (Len(s) + 1) /\ Len(s) \in Nat
  OBVIOUS
<1>2. Elements(a) = Elements(s) \cup {e}
  <2>1. Elements(a) \subseteq Elements(s) \cup {e}
    BY <1>1 DEF Elements
  <2>2. Elements(s) \subseteq Elements(a)
    BY <1>1 DEF Elements
  <2>3. e \in Elements(a)
    BY <1>1 DEF Elements
  <2> QED  BY <2>1, <2>2, <2>3
<1>3. ASSUME \A i, j \in DOMAIN s : s[i] = s[j] => i = j, e \notin Elements(s),
             NEW i \in DOMAIN a, NEW j \in DOMAIN a, a[i] = a[j]
      PROVE  i = j
  BY <1>1, <1>3 DEF Elements
<1> QED  BY <1>1, <1>2, <1>3

LEMMA TailElements ==
    ASSUME NEW S, NEW s \in Seq(S), s # << >>,
           \A i, j \in DOMAIN s : s[i] = s[j] => i = j
    PROVE  /\ Tail(s) \in Seq(S)
           /\ Head(s) \in S
           /\ Len(Tail(s)) = Len(s) - 1
           /\ Elements(s) = Elements(Tail(s)) \cup {Head(s)}
           /\ Head(s) \notin Elements(Tail(s))
           /\ \A i, j \in DOMAIN Tail(s) : Tail(s)[i] = Tail(s)[j] => i = j
<1> DEFINE t == Tail(s)
<1>1. /\ t \in Seq(S) /\ Head(s) \in S /\ Head(s) = s[1]
      /\ Len(s) \in Nat \ {0} /\ Len(t) = Len(s) - 1
      /\ \A i \in 1 .. Len(t) : t[i] = s[i + 1]
      /\ DOMAIN s = 1 .. Len(s) /\ DOMAIN t = 1 .. (Len(s) - 1)
  BY HeadTailProperties, EmptySeq, LenProperties
<1>2. Elements(t) \subseteq Elements(s)
  BY <1>1 DEF Elements
<1>3. Elements(s) \subseteq Elements(t) \cup {Head(s)}
  <2> SUFFICES ASSUME NEW i \in 1 .. Len(s), i # 1
               PROVE  s[i] \in Elements(t)
    BY <1>1 DEF Elements
  <2>1. i - 1 \in 1 .. Len(t) /\ t[i - 1] = s[i]
    BY <1>1
  <2> QED  BY <2>1, <1>1 DEF Elements
<1>4. Head(s) \in Elements(s)
  BY <1>1 DEF Elements
<1>5. Head(s) \notin Elements(t)
  BY <1>1 DEF Elements
<1>6. \A i, j \in DOMAIN t : t[i] = t[j] => i = j
  BY <1>1
<1> QED  BY <1>1, <1>2, <1>3, <1>4, <1>5, <1>6

-----------------------------------------------------------------------------
(* Type correctness: the queue holds tasks, every thread is at a point of  *)
(* its function, whatever the order in which they run.                     *)
THEOREM TypeCorrect == SafeSpec => []TypeOK
<1>1. Init => TypeOK
  BY EmptySeq DEF Init, TypeOK, WorkerStates
<1>2. TypeOK /\ [Next]_vars => TypeOK'
  <2> SUFFICES ASSUME TypeOK, [Next]_vars PROVE TypeOK'
    OBVIOUS
  <2> USE DEF TypeOK, WorkerStates
  <2>1. CASE Start  BY <2>1 DEF Start
  <2>2. CASE StopMark  BY <2>2 DEF StopMark
  <2>3. CASE StopNotifyAll  BY <2>3 DEF StopNotifyAll
  <2>4. CASE StopFinish  BY <2>4 DEF StopFinish
  <2>5. ASSUME NEW w \in Workers, StopJoin(w) PROVE TypeOK'
    BY <2>5 DEF StopJoin
  <2>6. ASSUME NEW p \in Posters, PostNotify(p) PROVE TypeOK'
    BY <2>6 DEF PostNotify, At
  <2>7. ASSUME NEW p \in Posters, NEW t \in Tasks, PostAccept(p, t) PROVE TypeOK'
    BY <2>7, AppendProperties DEF PostAccept, HasRoom
  <2>8. ASSUME NEW w \in Workers, WorkerTake(w) PROVE TypeOK'
    BY <2>8, HeadTailProperties DEF WorkerTake, Front, Popped
  <2>9. ASSUME NEW w \in Workers, WorkerWait(w) PROVE TypeOK'
    BY <2>9 DEF WorkerWait
  <2>10. ASSUME NEW w \in Workers, WorkerExit(w) PROVE TypeOK'
    BY <2>10 DEF WorkerExit, MayExit
  <2>11. ASSUME NEW w \in Workers, WorkerFinish(w) PROVE TypeOK'
    BY <2>11 DEF WorkerFinish
  <2>12. ASSUME NEW w \in Workers, WorkerSpuriousWake(w) PROVE TypeOK'
    BY <2>12 DEF WorkerSpuriousWake
  <2>13. CASE UNCHANGED vars  BY <2>13 DEF vars
  <2> QED
    BY <2>1, <2>2, <2>3, <2>4, <2>5, <2>6, <2>7, <2>8, <2>9, <2>10, <2>11, <2>12, <2>13
    DEF Next, OwnerStep, WorkerStep
<1> QED  BY <1>1, <1>2, PTL DEF SafeSpec

-----------------------------------------------------------------------------
(* The flags and the positions of the threads agree in every reachable     *)
(* state: this is what makes stop() safe.                                  *)
LEMMA PhaseStep ==
    ASSUME TypeOK, PhaseInv, [Next]_vars
    PROVE  PhaseInv'
<1> USE DEF TypeOK, WorkerStates, PhaseInv
<1>1. CASE Start  BY <1>1 DEF Start
<1>2. CASE StopMark  BY <1>2 DEF StopMark
<1>3. CASE StopNotifyAll  BY <1>3 DEF StopNotifyAll
<1>4. CASE StopFinish
  <2>1. tasks = << >>
    BY <1>4, PoolSizes DEF StopFinish, At
  <2> QED  BY <1>4, <2>1 DEF StopFinish
<1>5. ASSUME NEW w \in Workers, StopJoin(w) PROVE PhaseInv'
  BY <1>5 DEF StopJoin
<1>6. ASSUME NEW p \in Posters, PostNotify(p) PROVE PhaseInv'
  BY <1>6 DEF PostNotify, At
<1>7. ASSUME NEW p \in Posters, NEW t \in Tasks, PostAccept(p, t) PROVE PhaseInv'
  BY <1>7 DEF PostAccept, HasRoom
<1>8. ASSUME NEW w \in Workers, WorkerTake(w) PROVE PhaseInv'
  BY <1>8 DEF WorkerTake, Front, Popped
<1>9. ASSUME NEW w \in Workers, WorkerWait(w) PROVE PhaseInv'
  BY <1>9 DEF WorkerWait
<1>10. ASSUME NEW w \in Workers, WorkerExit(w) PROVE PhaseInv'
  BY <1>10 DEF WorkerExit, MayExit
<1>11. ASSUME NEW w \in Workers, WorkerFinish(w) PROVE PhaseInv'
  BY <1>11 DEF WorkerFinish
<1>12. ASSUME NEW w \in Workers, WorkerSpuriousWake(w) PROVE PhaseInv'
  BY <1>12 DEF WorkerSpuriousWake
<1>13. CASE UNCHANGED vars  BY <1>13 DEF vars
<1> QED
  BY <1>1, <1>2, <1>3, <1>4, <1>5, <1>6, <1>7, <1>8, <1>9, <1>10, <1>11, <1>12, <1>13
  DEF Next, OwnerStep, WorkerStep

LEMMA PhaseCorrect == SafeSpec => [](TypeOK /\ PhaseInv)
<1>1. Init => PhaseInv
  BY DEF Init, PhaseInv
<1>2. TypeOK /\ PhaseInv /\ [Next]_vars => PhaseInv'
  BY PhaseStep
<1> QED  BY <1>1, <1>2, TypeCorrect, PTL DEF SafeSpec

-----------------------------------------------------------------------------
(* What each action does to the three places a task can be in. The actions *)
(* that are not listed move no task.                                       *)
LEMMA ActiveUnmoved ==
    ASSUME TypeOK, UNCHANGED current,
           \A w \in Workers : wpc'[w] = "running" <=> wpc[w] = "running"
    PROVE  Active' = Active /\ At("running")' = At("running")
BY DEF Active, At

LEMMA EachTaskOnceStep ==
    ASSUME TypeOK, PhaseInv, EachTaskOnce, [Next]_vars
    PROVE  EachTaskOnce'
<1>1. ASSUME UNCHANGED <<tasks, current, accepted, completed>>,
             \A w \in Workers : wpc'[w] = "running" <=> wpc[w] = "running"
      PROVE  EachTaskOnce'
  BY <1>1, ActiveUnmoved DEF EachTaskOnce, Queued
<1>2. CASE Start
  BY <1>1, <1>2 DEF Start, TypeOK, PhaseInv
<1>3. CASE StopMark  BY <1>1, <1>3 DEF StopMark
<1>4. CASE StopNotifyAll  BY <1>1, <1>4 DEF StopNotifyAll, TypeOK
<1>5. CASE StopFinish
  BY <1>1, <1>5 DEF StopFinish, At, TypeOK
<1>6. ASSUME NEW w \in Workers, StopJoin(w) PROVE EachTaskOnce'
  BY <1>1, <1>6 DEF StopJoin, TypeOK
<1>7. ASSUME NEW p \in Posters, PostNotify(p) PROVE EachTaskOnce'
  BY <1>1, <1>7 DEF PostNotify, At, TypeOK
<1>8. ASSUME NEW p \in Posters, NEW t \in Tasks, PostAccept(p, t) PROVE EachTaskOnce'
  <2>1. Active' = Active /\ At("running")' = At("running")
    BY <1>8, ActiveUnmoved DEF PostAccept, HasRoom
  <2>2. t \notin Queued /\ t \notin Active /\ t \notin completed
    BY <1>8 DEF PostAccept, HasRoom, EachTaskOnce
  <2>3. /\ Queued' = Queued \cup {t}
        /\ \A i, j \in DOMAIN tasks' : tasks'[i] = tasks'[j] => i = j
    BY <1>8, <2>2, AppendElements DEF PostAccept, HasRoom, Queued, Elements, EachTaskOnce, TypeOK
  <2> QED  BY <1>8, <2>1, <2>2, <2>3 DEF PostAccept, HasRoom, EachTaskOnce
<1>9. ASSUME NEW w \in Workers, WorkerTake(w) PROVE EachTaskOnce'
  <2> DEFINE h == Head(tasks)
  <2>1. /\ Queued = Queued' \cup {h}
        /\ h \notin Queued'
        /\ h \in Tasks
        /\ \A i, j \in DOMAIN tasks' : tasks'[i] = tasks'[j] => i = j
    <3>1. /\ tasks \in Seq(Tasks) /\ tasks # << >> /\ tasks' = Tail(tasks)
          /\ \A i, j \in DOMAIN tasks : tasks[i] = tasks[j] => i = j
      BY <1>9 DEF WorkerTake, Front, Popped, EachTaskOnce, TypeOK
    <3>2. Queued = Elements(tasks) /\ Queued' = Elements(Tail(tasks))
      BY <3>1 DEF Queued, Elements
    <3>3. /\ Head(tasks) \in Tasks
          /\ Elements(tasks) = Elements(Tail(tasks)) \cup {Head(tasks)}
          /\ Head(tasks) \notin Elements(Tail(tasks))
          /\ \A i, j \in DOMAIN Tail(tasks) : Tail(tasks)[i] = Tail(tasks)[j] => i = j
      BY <3>1, TailElements
    <3> QED  BY <3>1, <3>2, <3>3
  <2>2. At("running")' = At("running") \cup {w} /\ w \notin At("running")
    BY <1>9 DEF WorkerTake, Front, Popped, At, TypeOK, WorkerStates
  <2>3. current'[w] = h /\ \A v \in Workers \ {w} : current'[v] = current[v]
    BY <1>9 DEF WorkerTake, Front, Popped, TypeOK
  <2>4. Active' = Active \cup {h}
    BY <2>2, <2>3 DEF Active, At
  <2>5. h \notin Active /\ h \notin completed
    BY <2>1 DEF EachTaskOnce
  <2>6. \A u, v \in At("running")' : current'[u] = current'[v] => u = v
    BY <2>2, <2>3, <2>5 DEF EachTaskOnce, Active, At
  <2> QED  BY <1>9, <2>1, <2>4, <2>5, <2>6 DEF WorkerTake, Front, Popped, EachTaskOnce
<1>10. ASSUME NEW w \in Workers, WorkerWait(w) PROVE EachTaskOnce'
  BY <1>1, <1>10 DEF WorkerWait, TypeOK
<1>11. ASSUME NEW w \in Workers, WorkerExit(w) PROVE EachTaskOnce'
  BY <1>1, <1>11 DEF WorkerExit, MayExit, TypeOK
<1>12. ASSUME NEW w \in Workers, WorkerFinish(w) PROVE EachTaskOnce'
  <2>1. At("running")' = At("running") \ {w} /\ w \in At("running")
    BY <1>12 DEF WorkerFinish, At, TypeOK, WorkerStates
  <2>2. \A v \in Workers \ {w} : current'[v] = current[v]
    BY <1>12 DEF WorkerFinish, TypeOK
  <2>3. Active' = Active \ {current[w]}
    BY <2>1, <2>2 DEF Active, EachTaskOnce, At
  <2>4. current[w] \in Active
    BY <2>1 DEF Active
  <2>5. Queued' = Queued /\ UNCHANGED tasks
    BY <1>12 DEF WorkerFinish, Queued
  <2>6. \A u, v \in At("running")' : current'[u] = current'[v] => u = v
    BY <2>1, <2>2 DEF EachTaskOnce, At
  <2> QED  BY <1>12, <2>3, <2>4, <2>5, <2>6 DEF WorkerFinish, EachTaskOnce
<1>13. ASSUME NEW w \in Workers, WorkerSpuriousWake(w) PROVE EachTaskOnce'
  BY <1>1, <1>13 DEF WorkerSpuriousWake, TypeOK
<1>14. CASE UNCHANGED vars  BY <1>1, <1>14 DEF vars
<1> QED
  BY <1>2, <1>3, <1>4, <1>5, <1>6, <1>7, <1>8, <1>9, <1>10, <1>11, <1>12, <1>13, <1>14
  DEF Next, OwnerStep, WorkerStep

(* Every accepted task is queued once, run by one worker or completed, for *)
(* any number of workers, posters and tasks.                               *)
THEOREM TasksRunOnce == SafeSpec => []EachTaskOnce
<1>1. Init => EachTaskOnce
  BY DEF Init, EachTaskOnce, Queued, Active, At
<1>2. TypeOK /\ PhaseInv /\ EachTaskOnce /\ [Next]_vars => EachTaskOnce'
  BY EachTaskOnceStep
<1> QED  BY <1>1, <1>2, PhaseCorrect, PTL DEF SafeSpec

(* stop() drains: a pool that does not run has executed every task it ever *)
(* accepted and has no thread left.                                        *)
THEOREM StopDrains == SafeSpec => []StoppedIsDrained
<1>1. TypeOK /\ PhaseInv /\ EachTaskOnce => StoppedIsDrained
  <2> SUFFICES ASSUME TypeOK, PhaseInv, EachTaskOnce, ~running
               PROVE  completed = accepted /\ At("none") = Workers
    BY DEF StoppedIsDrained
  <2>1. At("none") = Workers
    BY DEF At, PhaseInv
  <2>2. Queued = {} /\ Active = {}
    BY DEF Queued, Active, At, PhaseInv
  <2> QED  BY <2>1, <2>2 DEF EachTaskOnce
<1> QED  BY <1>1, PhaseCorrect, TasksRunOnce, PTL

(* While stop() joins, no worker is asleep.                                *)
THEOREM NoSleeperInStop == SafeSpec => []NobodySleepsThroughStop
<1>1. PhaseInv => NobodySleepsThroughStop
  BY DEF PhaseInv, NobodySleepsThroughStop, At
<1> QED  BY <1>1, PhaseCorrect, PTL

-----------------------------------------------------------------------------
(* The counting argument: each action that adds a queued task adds a       *)
(* notification, and each that takes a worker off its way to the predicate *)
(* takes a task or finds the queue empty.                                  *)
LEMMA Finite ==
    /\ \A s : IsFiniteSet(At(s)) /\ Cardinality(At(s)) \in Nat
    /\ IsFiniteSet(Notifiers) /\ Cardinality(Notifiers) \in Nat
BY PoolSizes, Callers, FS_Subset, FS_CardinalityType DEF At, Notifiers

LEMMA WakeupStep ==
    ASSUME TypeOK, NoLostWakeup, [Next]_vars
    PROVE  NoLostWakeup'
<1> DEFINE acquire == Cardinality(At("acquire"))
           notify  == Cardinality(Notifiers)
<1>1. ASSUME tasks' = tasks, Notifiers' = Notifiers, At("acquire")' = At("acquire"),
             At("waiting")' = At("waiting")
      PROVE  NoLostWakeup'
  BY <1>1 DEF NoLostWakeup
<1>2. ASSUME At("waiting")' = {}  PROVE NoLostWakeup'
  BY <1>2 DEF NoLostWakeup
<1>3. ASSUME tasks' = << >>, wpc' \in [Workers -> WorkerStates] PROVE NoLostWakeup'
  <2>1. /\ IsFiniteSet(At("acquire")') /\ Cardinality(At("acquire")') \in Nat
        /\ IsFiniteSet(Notifiers') /\ Cardinality(Notifiers') \in Nat
    <3>1. At("acquire")' \subseteq Workers /\ Notifiers' \subseteq Posters
      BY DEF At, Notifiers
    <3> QED  BY <3>1, PoolSizes, Callers, FS_Subset, FS_CardinalityType
  <2>2. Len(tasks') = 0
    BY <1>3
  <2> QED  BY <2>1, <2>2 DEF NoLostWakeup
<1>4. ASSUME NEW w \in Workers, wpc[w] # "acquire", tasks' = tasks, Notifiers' = Notifiers,
             wpc' = [wpc EXCEPT ![w] = "acquire"]
      PROVE  NoLostWakeup'
  <2>1. At("acquire")' = At("acquire") \cup {w} /\ w \notin At("acquire")
    BY <1>4 DEF At, TypeOK, WorkerStates
  <2>2. At("waiting")' \subseteq At("waiting")
    BY <1>4 DEF At, TypeOK, WorkerStates
  <2>3. Cardinality(At("acquire")') = acquire + 1
    BY <2>1, Finite, FS_AddElement
  <2>4. Len(tasks) \in Nat
    BY LenProperties DEF TypeOK
  <2> QED  BY <1>4, <2>2, <2>3, <2>4, Finite DEF NoLostWakeup
<1>5. CASE Start
  BY <1>2, <1>5 DEF Start, At
<1>6. CASE StopMark
  BY <1>1, <1>6 DEF StopMark, At, Notifiers
<1>7. CASE StopNotifyAll
  BY <1>2, <1>7 DEF StopNotifyAll, At, TypeOK, WorkerStates
<1>8. CASE StopFinish
  BY <1>2, <1>8 DEF StopFinish, At
<1>9. ASSUME NEW w \in Workers, StopJoin(w) PROVE NoLostWakeup'
  BY <1>1, <1>9 DEF StopJoin, At, Notifiers, TypeOK, WorkerStates
<1>10. ASSUME NEW p \in Posters, PostNotify(p) PROVE NoLostWakeup'
  <2>1. CASE At("waiting") = {} /\ wpc' = wpc
    BY <1>2, <2>1 DEF At
  <2>2. ASSUME NEW w \in At("waiting"), wpc' = [wpc EXCEPT ![w] = "acquire"]
        PROVE  NoLostWakeup'
    <3>1. /\ At("acquire")' = At("acquire") \cup {w} /\ w \notin At("acquire")
          /\ At("waiting") # {}
      BY <2>2 DEF At, TypeOK, WorkerStates
    <3>2. Notifiers' = Notifiers \ {p} /\ p \in Notifiers
      BY <1>10 DEF PostNotify, Notifiers, TypeOK
    <3>3. Cardinality(At("acquire")') = acquire + 1
      BY <3>1, Finite, FS_AddElement
    <3>4. Cardinality(Notifiers') = notify - 1
      BY <3>2, Finite, FS_RemoveElement
    <3>5. tasks' = tasks /\ Len(tasks) \in Nat
      BY <1>10, LenProperties DEF PostNotify, TypeOK
    <3> QED  BY <3>1, <3>3, <3>4, <3>5, Finite DEF NoLostWakeup
  <2> QED  BY <1>10, <2>1, <2>2 DEF PostNotify
<1>11. ASSUME NEW p \in Posters, NEW t \in Tasks, PostAccept(p, t) PROVE NoLostWakeup'
  <2>1. At("acquire")' = At("acquire") /\ At("waiting")' = At("waiting")
    BY <1>11 DEF PostAccept, HasRoom, At
  <2>2. Notifiers' = Notifiers \cup {p} /\ p \notin Notifiers
    BY <1>11 DEF PostAccept, HasRoom, Notifiers, TypeOK
  <2>3. Cardinality(Notifiers') = notify + 1
    BY <2>2, Finite, FS_AddElement
  <2>4. Len(tasks') = Len(tasks) + 1 /\ Len(tasks) \in Nat
    BY <1>11, AppendProperties, LenProperties DEF PostAccept, HasRoom, TypeOK
  <2> QED  BY <2>1, <2>3, <2>4, Finite DEF NoLostWakeup
<1>12. ASSUME NEW w \in Workers, WorkerTake(w) PROVE NoLostWakeup'
  <2>1. /\ At("acquire")' = At("acquire") \ {w} /\ w \in At("acquire")
        /\ At("waiting")' = At("waiting")
    BY <1>12 DEF WorkerTake, Front, Popped, At, TypeOK, WorkerStates
  <2>2. Cardinality(At("acquire")') = acquire - 1
    BY <2>1, Finite, FS_RemoveElement
  <2>3. Notifiers' = Notifiers
    BY <1>12 DEF WorkerTake, Front, Popped, Notifiers
  <2>4. Len(tasks') = Len(tasks) - 1 /\ Len(tasks) \in Nat
    BY <1>12, HeadTailProperties, LenProperties DEF WorkerTake, Front, Popped, TypeOK
  <2> QED  BY <2>1, <2>2, <2>3, <2>4, Finite DEF NoLostWakeup
<1>13. ASSUME NEW w \in Workers, WorkerWait(w) PROVE NoLostWakeup'
  BY <1>3, <1>13 DEF WorkerWait, TypeOK, WorkerStates
<1>14. ASSUME NEW w \in Workers, WorkerExit(w) PROVE NoLostWakeup'
  BY <1>3, <1>14 DEF WorkerExit, MayExit, TypeOK, WorkerStates
<1>15. ASSUME NEW w \in Workers, WorkerFinish(w) PROVE NoLostWakeup'
  BY <1>4, <1>15 DEF WorkerFinish, Notifiers
<1>16. ASSUME NEW w \in Workers, WorkerSpuriousWake(w) PROVE NoLostWakeup'
  BY <1>4, <1>16 DEF WorkerSpuriousWake, Notifiers
<1>17. CASE UNCHANGED vars
  BY <1>1, <1>17 DEF vars, At, Notifiers
<1> QED
  BY <1>5, <1>6, <1>7, <1>8, <1>9, <1>10, <1>11, <1>12, <1>13, <1>14, <1>15, <1>16, <1>17
  DEF Next, OwnerStep, WorkerStep

(* post() may notify after it has unlocked: whatever the order, no queued  *)
(* task is left with sleeping workers and no notification to come.         *)
THEOREM WakeupsAreNotLost == SafeSpec => []NoLostWakeup
<1>1. Init => NoLostWakeup
  BY DEF Init, NoLostWakeup, At
<1>2. TypeOK /\ NoLostWakeup /\ [Next]_vars => NoLostWakeup'
  BY WakeupStep
<1> QED  BY <1>1, <1>2, TypeCorrect, PTL DEF SafeSpec

-----------------------------------------------------------------------------
(* A worker that is not in task() leaves a slot of the service free.       *)
LEMMA FreeSlot ==
    ASSUME TypeOK, NEW w \in Workers, wpc[w] # "running"
    PROVE  Cardinality(Active) < Cardinality(Workers)
<1> DEFINE f == [v \in At("running") |-> current[v]]
<1>1. f \in Surjection(At("running"), Active)
  BY DEF Surjection, Active
<1>2. IsFiniteSet(Active) /\ Cardinality(Active) <= Cardinality(At("running"))
  BY <1>1, Finite, FS_Surjection
<1>3. At("running") \subseteq Workers \ {w}
  BY DEF At
<1>4. IsFiniteSet(Workers \ {w}) /\ Cardinality(Workers \ {w}) = Cardinality(Workers) - 1
  BY PoolSizes, FS_RemoveElement
<1>5. Cardinality(At("running")) <= Cardinality(Workers) - 1
  BY <1>3, <1>4, FS_Subset
<1>6. /\ Cardinality(Active) \in Nat /\ Cardinality(Workers) \in Nat
      /\ Cardinality(At("running")) \in Nat
  BY <1>2, Finite, PoolSizes, FS_CardinalityType
<1> QED  BY <1>2, <1>5, <1>6

LEMMA ServiceStep ==
    ASSUME TypeOK, PhaseInv, EachTaskOnce, [Next]_vars
    PROVE  [Service!Next]_(Service!vars)
<1> USE DEF Service!Next, Service!vars
<1>1. ASSUME UNCHANGED <<tasks, running, stopping, current, completed>>,
             \A w \in Workers : wpc'[w] = "running" <=> wpc[w] = "running"
      PROVE  UNCHANGED Service!vars
  BY <1>1, ActiveUnmoved
<1>2. CASE Start
  <2>1. Active' = Active
    BY <1>2, ActiveUnmoved DEF Start, TypeOK, PhaseInv
  <2> QED  BY <1>2, <2>1 DEF Start, Service!Open
<1>3. CASE StopMark
  <2>1. ~stopping
    BY <1>3 DEF StopMark, PhaseInv
  <2>2. Active' = Active
    BY <1>3, ActiveUnmoved DEF StopMark
  <2> QED  BY <1>3, <2>1, <2>2 DEF StopMark, Service!Drain
<1>4. CASE StopNotifyAll  BY <1>1, <1>4 DEF StopNotifyAll, TypeOK
<1>5. CASE StopFinish
  <2>1. running /\ stopping /\ tasks = << >>
    BY <1>5, PoolSizes DEF StopFinish, At, PhaseInv
  <2>2. Active = {} /\ Active' = {}
    BY <1>5 DEF StopFinish, Active, At
  <2> QED  BY <1>5, <2>1, <2>2 DEF StopFinish, Service!Close
<1>6. ASSUME NEW w \in Workers, StopJoin(w) PROVE UNCHANGED Service!vars
  BY <1>1, <1>6 DEF StopJoin, TypeOK
<1>7. ASSUME NEW p \in Posters, PostNotify(p) PROVE UNCHANGED Service!vars
  BY <1>1, <1>7 DEF PostNotify, At, TypeOK
<1>8. ASSUME NEW p \in Posters, NEW t \in Tasks, PostAccept(p, t)
      PROVE  Service!Accept(t)
  <2>1. Active' = Active
    BY <1>8, ActiveUnmoved DEF PostAccept, HasRoom
  <2>2. t \notin Service!InLine \cup Active \cup completed
    BY <1>8 DEF PostAccept, HasRoom, EachTaskOnce, Queued, Service!InLine
  <2> QED  BY <1>8, <2>1, <2>2 DEF PostAccept, HasRoom, Service!Accept
<1>9. ASSUME NEW w \in Workers, WorkerTake(w) PROVE Service!Begin
  <2>1. running
    BY <1>9 DEF WorkerTake, Front, Popped, PhaseInv
  <2>2. Cardinality(Active) < Cardinality(Workers)
    BY <1>9, FreeSlot DEF WorkerTake, Front, Popped
  <2>3. At("running")' = At("running") \cup {w} /\ w \notin At("running")
    BY <1>9 DEF WorkerTake, Front, Popped, At, TypeOK, WorkerStates
  <2>4. current'[w] = Head(tasks) /\ \A v \in Workers \ {w} : current'[v] = current[v]
    BY <1>9 DEF WorkerTake, Front, Popped, TypeOK
  <2>5. Active' = Active \cup {Head(tasks)}
    BY <2>3, <2>4 DEF Active, At
  <2>6. Service!Cardinality(Active) = Cardinality(Active)
    BY Zenon DEF Service!Cardinality, Cardinality, Service!IsFiniteSet, IsFiniteSet
  <2> QED  BY <1>9, <2>1, <2>2, <2>5, <2>6 DEF WorkerTake, Front, Popped, Service!Begin
<1>10. ASSUME NEW w \in Workers, WorkerWait(w) PROVE UNCHANGED Service!vars
  BY <1>1, <1>10 DEF WorkerWait, TypeOK
<1>11. ASSUME NEW w \in Workers, WorkerExit(w) PROVE UNCHANGED Service!vars
  BY <1>1, <1>11 DEF WorkerExit, MayExit, TypeOK
<1>12. ASSUME NEW w \in Workers, WorkerFinish(w)
       PROVE  Service!Finish(current[w]) /\ current[w] \in Tasks
  <2>1. At("running")' = At("running") \ {w} /\ w \in At("running")
    BY <1>12 DEF WorkerFinish, At, TypeOK, WorkerStates
  <2>2. \A v \in Workers \ {w} : current'[v] = current[v]
    BY <1>12 DEF WorkerFinish, TypeOK
  <2>3. Active' = Active \ {current[w]} /\ current[w] \in Active
    BY <2>1, <2>2 DEF Active, EachTaskOnce, At
  <2> QED  BY <1>12, <2>3 DEF WorkerFinish, Service!Finish, TypeOK
<1>13. ASSUME NEW w \in Workers, WorkerSpuriousWake(w) PROVE UNCHANGED Service!vars
  BY <1>1, <1>13 DEF WorkerSpuriousWake, TypeOK
<1>14. CASE UNCHANGED vars  BY <1>1, <1>14 DEF vars
<1> QED
  BY <1>2, <1>3, <1>4, <1>5, <1>6, <1>7, <1>8, <1>9, <1>10, <1>11, <1>12, <1>13, <1>14
  DEF Next, OwnerStep, WorkerStep

(* The pool implements the bounded first-in first-out service: its steps   *)
(* are steps of the service or invisible to it.                            *)
THEOREM PoolImplementsService == SafeSpec => Service!SafeSpec
<1>1. Init => Service!Init
  BY DEF Init, Service!Init, Active, At
<1>2. TypeOK /\ PhaseInv /\ EachTaskOnce /\ [Next]_vars => [Service!Next]_(Service!vars)
  BY ServiceStep
<1> QED
  BY <1>1, <1>2, PhaseCorrect, TasksRunOnce, PTL DEF SafeSpec, Service!SafeSpec
=============================================================================
