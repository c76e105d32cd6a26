---------------------------- MODULE ThreadPool -----------------------------
(***************************************************************************)
(* smart_home::ThreadPool: worker threads, one mutex, one condition        *)
(* variable and a bounded queue.  Every critical section of mutex_ is one  *)
(* atomic action; what runs outside the mutex (notify_one, notify_all,     *)
(* join, the task itself) is an action of its own, so every order in which *)
(* posters, workers and the owner can interleave is explored.              *)
(*                                                                         *)
(* The owner is the one thread that calls start() and stop(): the reactor  *)
(* for the TCP server, the HTTP server object for HLS.                     *)
(***************************************************************************)
EXTENDS Naturals, Sequences, FiniteSets

CONSTANTS
    Workers,    \* thread handles; worker_count_ of them
    Posters,    \* threads that call post()
    Tasks,      \* closures; each is handed to post() until it is accepted
    MaxTasks,   \* maximum_tasks_
    NoTask      \* the empty std::function

(* The constructor throws std::invalid_argument otherwise. *)
ASSUME PoolSizes ==
    /\ IsFiniteSet(Workers) /\ Workers # {}
    /\ MaxTasks \in Nat \ {0}
ASSUME Callers == IsFiniteSet(Posters)
ASSUME TaskIsCallable == NoTask \notin Tasks

VARIABLES
    tasks,      \* tasks_
    running,    \* running_
    stopping,   \* stopping_
    wpc,        \* where each worker thread is in worker_loop()
    current,    \* the local variable task of each worker
    ppc,        \* where each poster is in post()
    opc,        \* where the owner is in stop()
    accepted,   \* history: tasks for which post() returned or will return true
    completed   \* history: tasks whose call has ended, normally or by throwing

vars == <<tasks, running, stopping, wpc, current, ppc, opc, accepted, completed>>

(* Worker states: not started; about to lock and test the predicate; in    *)
(* the wait set of task_available_; in task(); returned; returned and      *)
(* joined by stop().                                                       *)
WorkerStates == {"none", "acquire", "waiting", "running", "exited", "joined"}

Queued == {tasks[i] : i \in DOMAIN tasks}
At(s) == {w \in Workers : wpc[w] = s}
Active == {current[w] : w \in At("running")}
Notifiers == {p \in Posters : ppc[p] = "notify"}

Init ==
    /\ tasks = << >>
    /\ running = FALSE
    /\ stopping = FALSE
    /\ wpc = [w \in Workers |-> "none"]
    /\ current = [w \in Workers |-> NoTask]
    /\ ppc = [p \in Posters |-> "idle"]
    /\ opc = "idle"
    /\ accepted = {}
    /\ completed = {}

-----------------------------------------------------------------------------
(* The tests and queue operations made under mutex_. A definition that     *)
(* ends in Bug is a plausible mistake the code does not make; each run     *)
(* replaces the definition after it, to see the named property fail.       *)
HasRoomBug == Len(tasks) <= MaxTasks            \* > instead of >=
HasRoom == Len(tasks) < MaxTasks

FrontBug == NoTask                              \* pop() without front()
Front == Head(tasks)

PoppedBug == tasks                              \* front() without pop()
Popped == Tail(tasks)

MayExitBug == stopping                          \* return without draining
MayExit == stopping /\ tasks = << >>

-----------------------------------------------------------------------------
(* start(): a second start() of a running pool returns at once.            *)
Start ==
    /\ opc = "idle"
    /\ ~running
    /\ stopping' = FALSE
    /\ running' = TRUE
    /\ wpc' = [w \in Workers |-> "acquire"]
    /\ UNCHANGED <<tasks, current, ppc, opc, accepted, completed>>

(* post() notifies only when the queue was empty.                          *)
PostAcceptBug(p, t) ==
    /\ ppc[p] = "idle"
    /\ t \notin accepted
    /\ running /\ ~stopping
    /\ HasRoom
    /\ tasks' = Append(tasks, t)
    /\ accepted' = accepted \cup {t}
    /\ ppc' = [ppc EXCEPT ![p] = IF tasks = << >> THEN "notify" ELSE "idle"]
    /\ UNCHANGED <<running, stopping, wpc, current, opc, completed>>

(* post(): the locked part; a rejected call changes nothing.               *)
PostAccept(p, t) ==
    /\ ppc[p] = "idle"
    /\ t \notin accepted
    /\ running /\ ~stopping
    /\ HasRoom
    /\ tasks' = Append(tasks, t)
    /\ accepted' = accepted \cup {t}
    /\ ppc' = [ppc EXCEPT ![p] = "notify"]
    /\ UNCHANGED <<running, stopping, wpc, current, opc, completed>>

(* post(): notify_one() after the unlock wakes one waiter, if there is one.*)
PostNotify(p) ==
    /\ ppc[p] = "notify"
    /\ ppc' = [ppc EXCEPT ![p] = "idle"]
    /\ \/ \E w \in At("waiting") : wpc' = [wpc EXCEPT ![w] = "acquire"]
       \/ At("waiting") = {} /\ wpc' = wpc
    /\ UNCHANGED <<tasks, running, stopping, current, opc, accepted, completed>>

-----------------------------------------------------------------------------
(* stop(): a stop() of a pool that does not run returns at once.           *)
StopMark ==
    /\ opc = "idle"
    /\ running
    /\ stopping' = TRUE
    /\ opc' = "notify_all"
    /\ UNCHANGED <<tasks, running, wpc, current, ppc, accepted, completed>>

(* stop() wakes a single worker.                                           *)
StopNotifyAllBug ==
    /\ opc = "notify_all"
    /\ opc' = "join"
    /\ \/ \E w \in At("waiting") : wpc' = [wpc EXCEPT ![w] = "acquire"]
       \/ At("waiting") = {} /\ wpc' = wpc
    /\ UNCHANGED <<tasks, running, stopping, current, ppc, accepted, completed>>

StopNotifyAll ==
    /\ opc = "notify_all"
    /\ opc' = "join"
    /\ wpc' = [w \in Workers |-> IF wpc[w] = "waiting" THEN "acquire" ELSE wpc[w]]
    /\ UNCHANGED <<tasks, running, stopping, current, ppc, accepted, completed>>

(* join() of one worker returns when its thread has returned. The loop     *)
(* joins in vector order; the order cannot be seen from outside.           *)
StopJoin(w) ==
    /\ opc = "join"
    /\ wpc[w] = "exited"
    /\ wpc' = [wpc EXCEPT ![w] = "joined"]
    /\ UNCHANGED <<tasks, running, stopping, current, ppc, opc, accepted, completed>>

StopFinish ==
    /\ opc = "join"
    /\ At("joined") = Workers
    /\ opc' = "idle"
    /\ running' = FALSE
    /\ stopping' = FALSE
    /\ wpc' = [w \in Workers |-> "none"]
    /\ UNCHANGED <<tasks, current, ppc, accepted, completed>>

-----------------------------------------------------------------------------
(* worker_loop(): one locked evaluation of the wait predicate, with its    *)
(* three outcomes.                                                         *)
WorkerTake(w) ==
    /\ wpc[w] = "acquire"
    /\ tasks # << >>
    /\ current' = [current EXCEPT ![w] = Front]
    /\ tasks' = Popped
    /\ wpc' = [wpc EXCEPT ![w] = "running"]
    /\ UNCHANGED <<running, stopping, ppc, opc, accepted, completed>>

WorkerWait(w) ==
    /\ wpc[w] = "acquire"
    /\ tasks = << >>
    /\ ~stopping
    /\ wpc' = [wpc EXCEPT ![w] = "waiting"]
    /\ UNCHANGED <<tasks, running, stopping, current, ppc, opc, accepted, completed>>

WorkerExit(w) ==
    /\ wpc[w] = "acquire"
    /\ MayExit
    /\ wpc' = [wpc EXCEPT ![w] = "exited"]
    /\ UNCHANGED <<tasks, running, stopping, current, ppc, opc, accepted, completed>>

(* A condition variable may wake without a notification.                   *)
WorkerSpuriousWake(w) ==
    /\ wpc[w] = "waiting"
    /\ wpc' = [wpc EXCEPT ![w] = "acquire"]
    /\ UNCHANGED <<tasks, running, stopping, current, ppc, opc, accepted, completed>>

(* An exception ends the worker's loop.                                    *)
WorkerFinishBug(w) ==
    /\ wpc[w] = "running"
    /\ completed' = completed \cup {current[w]}
    /\ current' = [current EXCEPT ![w] = NoTask]
    /\ wpc' = [wpc EXCEPT ![w] = "exited"]
    /\ UNCHANGED <<tasks, running, stopping, ppc, opc, accepted>>

(* task() returns or throws: both handlers log and the loop goes on.       *)
WorkerFinish(w) ==
    /\ wpc[w] = "running"
    /\ completed' = completed \cup {current[w]}
    /\ current' = [current EXCEPT ![w] = NoTask]
    /\ wpc' = [wpc EXCEPT ![w] = "acquire"]
    /\ UNCHANGED <<tasks, running, stopping, ppc, opc, accepted>>

-----------------------------------------------------------------------------
OwnerStep == StopNotifyAll \/ StopFinish \/ \E w \in Workers : StopJoin(w)

WorkerStep(w) ==
    WorkerTake(w) \/ WorkerWait(w) \/ WorkerExit(w) \/ WorkerFinish(w)

Next ==
    \/ Start \/ StopMark \/ OwnerStep
    \/ \E p \in Posters : PostNotify(p) \/ \E t \in Tasks : PostAccept(p, t)
    \/ \E w \in Workers : WorkerStep(w) \/ WorkerSpuriousWake(w)

SafeSpec == Init /\ [][Next]_vars

(* The scheduler runs every thread that can go on, and tasks terminate.    *)
(* Nobody is obliged to call start, post or stop, and no worker may count  *)
(* on a spurious wake-up.                                                  *)
Fairness ==
    /\ WF_vars(OwnerStep)
    /\ \A p \in Posters : WF_vars(PostNotify(p))
    /\ \A w \in Workers : WF_vars(WorkerStep(w))

Spec == SafeSpec /\ Fairness

-----------------------------------------------------------------------------
TypeOK ==
    /\ tasks \in Seq(Tasks)
    /\ running \in BOOLEAN
    /\ stopping \in BOOLEAN
    /\ wpc \in [Workers -> WorkerStates]
    /\ current \in [Workers -> Tasks \cup {NoTask}]
    /\ \A w \in Workers : wpc[w] = "running" => current[w] \in Tasks
    /\ ppc \in [Posters -> {"idle", "notify"}]
    /\ opc \in {"idle", "notify_all", "join"}
    /\ accepted \subseteq Tasks
    /\ completed \subseteq Tasks

(* A task that post() accepted is in exactly one place: once in the queue, *)
(* in the hands of exactly one worker, or completed. None is lost between  *)
(* front() and pop(), duplicated, or run again (worker_loop, post).        *)
EachTaskOnce ==
    /\ accepted = Queued \cup Active \cup completed
    /\ Queued \cap Active = {}
    /\ Queued \cap completed = {}
    /\ Active \cap completed = {}
    /\ \A i, j \in DOMAIN tasks : tasks[i] = tasks[j] => i = j
    /\ \A v, w \in At("running") : current[v] = current[w] => v = w

(* No lost wake-up: while a worker sleeps, each queued task has a worker   *)
(* on its way to the predicate or a notify_one() still to come, although   *)
(* post() notifies after it has released the mutex (thread_pool.cpp:45).   *)
NoLostWakeup ==
    At("waiting") # {} =>
        Len(tasks) <= Cardinality(At("acquire")) + Cardinality(Notifiers)

(* stop() drains the queue and joins: when the pool no longer runs, every  *)
(* accepted task has been executed to its end and no worker thread is      *)
(* left (thread_pool_tests.cpp:20-21).                                     *)
StoppedIsDrained ==
    ~running => completed = accepted /\ At("none") = Workers

(* While stop() waits in join(), no worker sleeps on the condition         *)
(* variable, where nobody would ever wake it.                              *)
NobodySleepsThroughStop ==
    opc = "join" => At("waiting") = {}

(* The pool implements the bounded first-in first-out service.             *)
Service == INSTANCE TaskService WITH
    Capacity <- MaxTasks,
    Slots    <- Cardinality(Workers),
    phase    <- IF ~running THEN "closed" ELSE IF stopping THEN "draining" ELSE "open",
    line     <- tasks,
    active   <- Active,
    done     <- completed

ImplementsService == Service!Spec

(* stop() returns once it is called.                                       *)
StopReturns == stopping ~> ~running
=============================================================================
