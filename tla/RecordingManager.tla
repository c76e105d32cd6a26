------------------------- MODULE RecordingManager --------------------------
(***************************************************************************)
(* smart_home::RecordingManager with the control of SegmentRecorder::run   *)
(* and the stop flag of FfmpegMediaSource: the table of recording jobs,    *)
(* the thread of each job, and the worker threads of the TCP server that   *)
(* execute StartRecording and StopRecording requests.  Each atomic store,  *)
(* each critical section and each blocking call is a step of its own.      *)
(*                                                                         *)
(* Packets carry no data here: a packet opens a segment, extends it or     *)
(* rotates it.  URLs, error texts and the retry delay are left out.        *)
(***************************************************************************)
EXTENDS Naturals, FiniteSets

CONSTANTS
    Keys,       \* (camera, channel) pairs
    Jobs,       \* Job objects; as many exist at once as this set has
    Callers,    \* threads that execute start() and stop()
    NoJob       \* the null shared_ptr

ASSUME NullJob == NoJob \notin Jobs

VARIABLES
    jobs,       \* jobs_
    job,        \* the fields of each Job, its recorder and its source
    pc,         \* where the thread of each Job is
    call,       \* where each caller is, and the jobs its frame refers to
    closing     \* the destructor has begun

vars == <<jobs, job, pc, call, closing>>

NoWriter == [open |-> FALSE, first |-> FALSE, discontinuity |-> FALSE]

(* A Job as its constructor leaves it. handle is the std::thread member:   *)
(* "empty" until start() assigns the thread to it.                         *)
NewJob == [stopping |-> FALSE, recStopping |-> FALSE, srcStopping |-> FALSE,
           reconnecting |-> FALSE, nextDiscontinuity |-> FALSE,
           writer |-> NoWriter, handle |-> "empty"]

(* What the frame of a caller holds: the job it works on, the jobs it has  *)
(* yet to tell to stop and the jobs it has yet to join.                    *)
Frame(at, cur, toFlag, toJoin) ==
    [at |-> at, cur |-> cur, toFlag |-> toFlag, toJoin |-> toJoin]
Idle == Frame("idle", NoJob, {}, {})

ThreadPoints == {"none", "check", "reset", "open", "opening", "read", "reading",
                 "finish", "ended", "done"}

(* A segment file is being written: the first of a run or a later one,     *)
(* with or without a discontinuity mark.                                   *)
Writers == [open : BOOLEAN, first : BOOLEAN, discontinuity : BOOLEAN]

Registered(j) == \E k \in Keys : jobs[k] = j
Held(j) == \E c \in Callers : j = call[c].cur \/ j \in call[c].toFlag \cup call[c].toJoin
Alive(j) == pc[j] \notin {"none", "done"}

(* shared_ptr count: the table, the frames of callers and the closure of   *)
(* the job's own thread.                                                   *)
Referenced(j) == Registered(j) \/ Held(j) \/ Alive(j)

(* ~Job destroys its std::thread; a joinable one calls std::terminate.     *)
Terminated == \E j \in Jobs : job[j].handle = "joinable" /\ ~Referenced(j)

Init ==
    /\ jobs = [k \in Keys |-> NoJob]
    /\ job = [j \in Jobs |-> NewJob]
    /\ pc = [j \in Jobs |-> "none"]
    /\ call = [c \in Callers |-> Idle]
    /\ closing = FALSE

-----------------------------------------------------------------------------
(* start(): the table is tested and updated under mutex_. A duplicate, an  *)
(* empty URL and a factory that throws return false and change nothing.    *)
FreeKeyBug(k) == TRUE                           \* the duplicate test dropped
FreeKey(k) == jobs[k] = NoJob

StartInsert(c, k, j) ==
    /\ call[c] = Idle
    /\ ~closing
    /\ FreeKey(k)
    /\ ~Referenced(j)
    /\ jobs' = [jobs EXCEPT ![k] = j]
    /\ job' = [job EXCEPT ![j] = NewJob]
    /\ pc' = [pc EXCEPT ![j] = "none"]
    /\ call' = [call EXCEPT ![c] = Frame("spawn", j, {}, {})]
    /\ UNCHANGED closing

(* start(), after mutex_ is released: the thread is created ...            *)
StartSpawn(c) ==
    /\ call[c].at = "spawn"
    /\ pc' = [pc EXCEPT ![call[c].cur] = "check"]
    /\ call' = [call EXCEPT ![c] = Frame("assign", call[c].cur, {}, {})]
    /\ UNCHANGED <<jobs, job, closing>>

(* ... or std::system_error leaves start() and the job stays in the table, *)
StartSpawnFails(c) ==
    /\ call[c].at = "spawn"
    /\ call' = [call EXCEPT ![c] = Idle]
    /\ UNCHANGED <<jobs, job, pc, closing>>

(* ... and then assigned to job->worker, which nothing protects.           *)
Assigned(r) == [r EXCEPT !.handle = "joinable"]

StartAssign(c) ==
    /\ call[c].at = "assign"
    /\ job' = [job EXCEPT ![call[c].cur] = Assigned(@)]
    /\ call' = [call EXCEPT ![c] = Idle]
    /\ UNCHANGED <<jobs, pc, closing>>

-----------------------------------------------------------------------------
(* stop(): find and erase under mutex_. An unknown key returns false.      *)
FoundBug(k) == TRUE                             \* the end() test dropped
Found(k) == jobs[k] # NoJob

StopErase(c, k) ==
    /\ call[c] = Idle
    /\ ~closing
    /\ Found(k)
    /\ jobs' = [jobs EXCEPT ![k] = NoJob]
    /\ call' = [call EXCEPT ![c] = Frame("flag", NoJob, {jobs[k]}, {jobs[k]})]
    /\ UNCHANGED <<job, pc, closing>>

(* stop_all(), from the destructor, when no request is being executed.     *)
StopAll(c) ==
    LET all == {jobs[k] : k \in Keys} \ {NoJob}
    IN  /\ ~closing
        /\ \A d \in Callers : call[d] = Idle
        /\ closing' = TRUE
        /\ jobs' = [k \in Keys |-> NoJob]
        /\ call' = IF all = {} THEN call
                   ELSE [call EXCEPT ![c] = Frame("flag", NoJob, all, all)]
        /\ UNCHANGED <<job, pc>>

(* job->stopping = true, which stop_all() does job by job.                 *)
FlaggedBug(r) == r                              \* only the recorder is told
Flagged(r) == [r EXCEPT !.stopping = TRUE]

StopFlag(c, j) ==
    /\ call[c].at = "flag"
    /\ j \in call[c].toFlag
    /\ job' = [job EXCEPT ![j] = Flagged(@)]
    /\ call' = [call EXCEPT ![c] = Frame("recorder", j, call[c].toFlag, call[c].toJoin)]
    /\ UNCHANGED <<jobs, pc, closing>>

(* SegmentRecorder::request_stop(): its own flag, then the source's.       *)
RecorderTold(r) == [r EXCEPT !.recStopping = TRUE]
SourceTold(r) == [r EXCEPT !.srcStopping = TRUE]

StopRecorder(c) ==
    /\ call[c].at = "recorder"
    /\ job' = [job EXCEPT ![call[c].cur] = RecorderTold(@)]
    /\ call' = [call EXCEPT ![c] =
                    Frame("source", call[c].cur, call[c].toFlag, call[c].toJoin)]
    /\ UNCHANGED <<jobs, pc, closing>>

StopSource(c) ==
    LET left == call[c].toFlag \ {call[c].cur}
    IN  /\ call[c].at = "source"
        /\ job' = [job EXCEPT ![call[c].cur] = SourceTold(@)]
        /\ call' = [call EXCEPT ![c] = Frame(IF left = {} THEN "join" ELSE "flag",
                                             NoJob, left, call[c].toJoin)]
        /\ UNCHANGED <<jobs, pc, closing>>

(* if (worker.joinable()) worker.join(): a handle that is still empty is   *)
(* passed over. The call returns after the last one.                       *)
MayPassBug(j) == TRUE                           \* join() forgotten
MayPass(j) == job[j].handle = "joinable" => pc[j] = "done"

JoinedBug(r) == r                               \* the thread is awaited, not joined
Joined(r) == [r EXCEPT !.handle = IF @ = "joinable" THEN "joined" ELSE @]

StopJoin(c, j) ==
    LET left == call[c].toJoin \ {j}
    IN  /\ call[c].at = "join"
        /\ j \in call[c].toJoin
        /\ MayPass(j)
        /\ job' = [job EXCEPT ![j] = Joined(@)]
        /\ call' = [call EXCEPT ![c] = IF left = {} THEN Idle
                                         ELSE Frame("join", NoJob, {}, left)]
        /\ UNCHANGED <<jobs, pc, closing>>

-----------------------------------------------------------------------------
(* The thread of a job. while (!job->stopping), and the end of the lambda. *)
Check(j) ==
    /\ pc[j] = "check"
    /\ pc' = [pc EXCEPT ![j] = IF job[j].stopping THEN "done" ELSE "reset"]
    /\ UNCHANGED <<jobs, job, call, closing>>

(* mark_discontinuity() when reconnecting, then run() clears stopping_.    *)
PreparedBug(r) == [r EXCEPT !.recStopping = FALSE]      \* mark forgotten
Prepared(r) ==
    [r EXCEPT !.nextDiscontinuity = @ \/ r.reconnecting, !.recStopping = FALSE]

RunReset(j) ==
    /\ pc[j] = "reset"
    /\ pc' = [pc EXCEPT ![j] = "open"]
    /\ job' = [job EXCEPT ![j] = Prepared(@)]
    /\ UNCHANGED <<jobs, call, closing>>

(* FfmpegMediaSource::open() clears the interrupt flag, then connects.     *)
SourceCleared(r) == [r EXCEPT !.srcStopping = FALSE]

SourceReset(j) ==
    /\ pc[j] = "open"
    /\ pc' = [pc EXCEPT ![j] = "opening"]
    /\ job' = [job EXCEPT ![j] = SourceCleared(@)]
    /\ UNCHANGED <<jobs, call, closing>>

SourceOpened(j) ==
    /\ pc[j] = "opening"
    /\ pc' = [pc EXCEPT ![j] = "read"]
    /\ UNCHANGED <<jobs, job, call, closing>>

(* The packet loop tests stopping_ before each read.                       *)
ReadNext(j) ==
    /\ pc[j] = "read"
    /\ pc' = [pc EXCEPT ![j] = IF job[j].recStopping THEN "finish" ELSE "reading"]
    /\ UNCHANGED <<jobs, job, call, closing>>

(* A packet opens the first segment of the run, which takes the pending    *)
(* mark, extends the current one or, at a key frame, starts the next.      *)
Rotated(r) ==
    [r EXCEPT !.writer = [open |-> TRUE, first |-> FALSE, discontinuity |-> FALSE]]

FirstSegment(r) ==
    [r EXCEPT !.writer = [open |-> TRUE, first |-> TRUE, discontinuity |-> r.nextDiscontinuity],
              !.nextDiscontinuity = FALSE]

ReadPacket(j) ==
    /\ pc[j] = "reading"
    /\ pc' = [pc EXCEPT ![j] = "read"]
    /\ job' = [job EXCEPT ![j] = IF @.writer.open THEN @ ELSE FirstSegment(@)]
    /\ UNCHANGED <<jobs, call, closing>>

ReadKeyFrame(j) ==
    /\ pc[j] = "reading"
    /\ job[j].writer.open
    /\ pc' = [pc EXCEPT ![j] = "read"]
    /\ job' = [job EXCEPT ![j] = Rotated(@)]
    /\ UNCHANGED <<jobs, call, closing>>

(* read() returns false: end of file, or interrupted by the stop flag.     *)
ReadEnd(j) ==
    /\ pc[j] = "reading"
    /\ pc' = [pc EXCEPT ![j] = "finish"]
    /\ UNCHANGED <<jobs, job, call, closing>>

(* finish_segment() and source_->close().                                  *)
Closed(r) == [r EXCEPT !.writer = NoWriter]

RunFinish(j) ==
    /\ pc[j] = "finish"
    /\ pc' = [pc EXCEPT ![j] = "ended"]
    /\ job' = [job EXCEPT ![j] = Closed(@)]
    /\ UNCHANGED <<jobs, call, closing>>

(* An exception out of open(), read(), the writer or the index: the writer *)
(* is dropped.                                                             *)
RunThrows(j) ==
    /\ pc[j] \in {"opening", "reading", "finish"}
    /\ pc' = [pc EXCEPT ![j] = "ended"]
    /\ job' = [job EXCEPT ![j] = Closed(@)]
    /\ UNCHANGED <<jobs, call, closing>>

(* A writer that fails to open has already taken the mark.                 *)
MarkLost(r) == [Closed(r) EXCEPT !.nextDiscontinuity = FALSE]

WriterThrows(j) ==
    /\ pc[j] = "reading"
    /\ ~job[j].writer.open
    /\ pc' = [pc EXCEPT ![j] = "ended"]
    /\ job' = [job EXCEPT ![j] = MarkLost(@)]
    /\ UNCHANGED <<jobs, call, closing>>

(* The error text is set; then the thread leaves, or waits and goes round. *)
GivesUpBug(j) == TRUE                           \* no reconnection
GivesUp(j) == job[j].stopping

RunLeave(j) ==
    /\ pc[j] = "ended"
    /\ GivesUp(j)
    /\ pc' = [pc EXCEPT ![j] = "done"]
    /\ UNCHANGED <<jobs, job, call, closing>>

Reconnecting(r) == [r EXCEPT !.reconnecting = TRUE]

RunAgain(j) ==
    /\ pc[j] = "ended"
    /\ ~GivesUp(j)
    /\ pc' = [pc EXCEPT ![j] = "check"]
    /\ job' = [job EXCEPT ![j] = Reconnecting(@)]
    /\ UNCHANGED <<jobs, call, closing>>

-----------------------------------------------------------------------------
ThreadStep(j) ==
    \/ Check(j) \/ RunReset(j) \/ SourceReset(j) \/ SourceOpened(j)
    \/ ReadNext(j) \/ ReadPacket(j) \/ ReadKeyFrame(j) \/ ReadEnd(j)
    \/ RunFinish(j) \/ RunThrows(j) \/ WriterThrows(j) \/ RunLeave(j) \/ RunAgain(j)

CallerStep(c) ==
    \/ StartSpawn(c) \/ StartSpawnFails(c) \/ StartAssign(c)
    \/ StopRecorder(c) \/ StopSource(c)
    \/ \E j \in Jobs : StopFlag(c, j) \/ StopJoin(c, j)

Request(c) ==
    \/ \E k \in Keys : StopErase(c, k) \/ \E j \in Jobs : StartInsert(c, k, j)
    \/ StopAll(c)

Next ==
    /\ ~Terminated
    /\ \/ \E c \in Callers : Request(c) \/ CallerStep(c)
       \/ \E j \in Jobs : ThreadStep(j)

SafeSpec == Init /\ [][Next]_vars

(* Threads are scheduled, and libavformat polls the interrupt callback: a  *)
(* read whose flag stays set ends, though packets may come before.         *)
ReadInterrupted(j) == job[j].srcStopping /\ ReadEnd(j)

Fairness ==
    /\ \A c \in Callers : WF_vars(CallerStep(c) /\ ~Terminated)
    /\ \A j \in Jobs : WF_vars(ThreadStep(j) /\ ~Terminated) /\ SF_vars(ReadInterrupted(j))

Spec == SafeSpec /\ Fairness

-----------------------------------------------------------------------------
JobType ==
    [stopping : BOOLEAN, recStopping : BOOLEAN, srcStopping : BOOLEAN,
     reconnecting : BOOLEAN, nextDiscontinuity : BOOLEAN, writer : Writers,
     handle : {"empty", "joinable", "joined"}]

FrameType ==
    [at : {"idle", "spawn", "assign", "flag", "recorder", "source", "join"},
     cur : Jobs \cup {NoJob}, toFlag : SUBSET Jobs, toJoin : SUBSET Jobs]

TypeOK ==
    /\ jobs \in [Keys -> Jobs \cup {NoJob}]
    /\ job \in [Jobs -> JobType]
    /\ pc \in [Jobs -> ThreadPoints]
    /\ call \in [Callers -> FrameType]
    /\ \A c \in Callers :
          call[c].at \in {"spawn", "assign", "recorder", "source"} => call[c].cur \in Jobs
    /\ closing \in BOOLEAN

(* A recording thread that no table entry leads to has been told to stop   *)
(* or is about to be: no camera is recorded for ever with no request that  *)
(* can end it (start and stop of recording_manager.cpp race freely).       *)
BeingStopped(j) == job[j].stopping \/ \E c \in Callers : j \in call[c].toFlag

NoOrphan == \A j \in Jobs : Alive(j) /\ ~Registered(j) => BeingStopped(j)

(* A registered recording never gives up: streams that end or fail are     *)
(* reconnected, whatever throws, until stop() takes the job out of the     *)
(* table. In particular status() never says "finished" (README.md:28).     *)
NeverGivesUp == \A k \in Keys : jobs[k] # NoJob => pc[jobs[k]] # "done"

(* The first segment after a reconnect carries the discontinuity mark, and *)
(* no other segment does (docs/ARCHITECTURE.md:15, README.md:28).          *)
DiscontinuityMarked ==
    \A j \in Jobs : job[j].writer.open =>
        (job[j].writer.discontinuity <=> job[j].reconnecting /\ job[j].writer.first)

(* When stop() leaves a job behind, the thread of that job has ended: its  *)
(* last segment is closed and nothing writes any more                      *)
(* (recording_manager_tests.cpp:62-70). Refuted when start() and stop() of *)
(* a channel overlap.                                                      *)
Left(c, j) == j \in call[c].toJoin /\ j \notin call'[c].toJoin

StopWaitsForThread ==
    [][\A c \in Callers, j \in Jobs : Left(c, j) => ~Alive(j)']_vars

(* The overlap is the only way: stop() leaves a thread running only while  *)
(* the start() that has created it is about to assign it to the Job.       *)
Assigning(c, j) == call[c].at = "assign" /\ call[c].cur = j

StopWaitsOutsideStart ==
    [][\A c \in Callers, j \in Jobs :
          Left(c, j) => ~Alive(j)' \/ \E d \in Callers : Assigning(d, j)]_vars

(* A thread object that can be joined, without a table entry or a stop()   *)
(* that will join it, ends the process when its Job is destroyed. However  *)
(* calls overlap, only a start() that assigns it after a stop() has taken  *)
(* the job away and passed it leaves one behind.                           *)
Unjoined(j) ==
    /\ job[j].handle = "joinable" /\ ~Registered(j)
    /\ \A c \in Callers : j \notin call[c].toJoin

HandlesAreJoined ==
    [][\A j \in Jobs : Unjoined(j)' =>
          Unjoined(j) \/ \E c \in Callers : Assigning(c, j) /\ ~Registered(j)]_vars

(* stop() returns once it is called, unless run() and open() clear the     *)
(* flags of a job after it has set them: then it may wait for a camera     *)
(* that never stops sending.                                               *)
Overridden(j) ==
    Alive(j) /\ job[j].stopping /\ ~job[j].recStopping /\ ~job[j].srcStopping

StopReturnsUnlessOverridden ==
    \A c \in Callers : call[c].at = "flag" ~>
        \/ call[c].at = "idle" \/ Terminated
        \/ call[c].at = "join" /\ \E j \in call[c].toJoin : Overridden(j)

(* The same without the exception.                                         *)
StopReturns == \A c \in Callers : call[c].at = "flag" ~> call[c].at = "idle" \/ Terminated

(* A stream that ended is opened again unless the job is being stopped.    *)
Reconnects ==
    \A j \in Jobs : pc[j] = "ended" ~> pc[j] = "opening" \/ BeingStopped(j) \/ Terminated
=============================================================================
