---------------------------- MODULE TaskService ----------------------------
(***************************************************************************)
(* What smart_home::ThreadPool promises to the code that posts to it, with *)
(* no threads, locks or condition variables: a service that is open,       *)
(* draining or closed, a bounded line of accepted tasks served in order,   *)
(* and a limit on how many tasks run at once.  ThreadPool implements it.   *)
(***************************************************************************)
EXTENDS Naturals, Sequences, FiniteSets

CONSTANTS
    Tasks,      \* the closures a caller may hand to post()
    Capacity,   \* maximum_tasks_
    Slots       \* worker_count_

VARIABLES
    phase,      \* "closed", "open" or "draining"
    line,       \* accepted tasks nobody has begun, oldest first
    active,     \* tasks being executed
    done        \* tasks whose execution has ended

vars == <<phase, line, active, done>>

InLine == {line[i] : i \in DOMAIN line}

Init ==
    /\ phase = "closed"
    /\ line = << >>
    /\ active = {}
    /\ done = {}

Open ==
    /\ phase = "closed"
    /\ phase' = "open"
    /\ UNCHANGED <<line, active, done>>

Accept(t) ==
    /\ phase = "open"
    /\ Len(line) < Capacity
    /\ t \notin InLine \cup active \cup done
    /\ line' = Append(line, t)
    /\ UNCHANGED <<phase, active, done>>

Begin ==
    /\ phase # "closed"
    /\ line # << >>
    /\ Cardinality(active) < Slots
    /\ line' = Tail(line)
    /\ active' = active \cup {Head(line)}
    /\ UNCHANGED <<phase, done>>

Finish(t) ==
    /\ t \in active
    /\ active' = active \ {t}
    /\ done' = done \cup {t}
    /\ UNCHANGED <<phase, line>>

Drain ==
    /\ phase = "open"
    /\ phase' = "draining"
    /\ UNCHANGED <<line, active, done>>

Close ==
    /\ phase = "draining"
    /\ line = << >>
    /\ active = {}
    /\ phase' = "closed"
    /\ UNCHANGED <<line, active, done>>

Next ==
    \/ Open \/ Begin \/ Drain \/ Close
    \/ \E t \in Tasks : Accept(t) \/ Finish(t)

SafeSpec == Init /\ [][Next]_vars

(* A free slot is given to the oldest task, a running task ends and a      *)
(* drained service closes: none of them waits for ever.                    *)
Spec ==
    /\ SafeSpec
    /\ WF_vars(Begin)
    /\ WF_vars(Close)
    /\ \A t \in Tasks : WF_vars(Finish(t))
=============================================================================
