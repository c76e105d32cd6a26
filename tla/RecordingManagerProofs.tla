---------------------- MODULE RecordingManagerProofs -----------------------
(***************************************************************************)
(* Proofs about RecordingManager for any number of channels, jobs and      *)
(* calling threads.  The inductive invariant says who may still stop a     *)
(* job (StopInv), where the discontinuity mark is (MarkInv) and what a     *)
(* thread object says about its thread (JoinInv).                          *)
(***************************************************************************)
EXTENDS RecordingManager, TLAPS

-----------------------------------------------------------------------------
(* Each update of a Job yields a Job, and touches the fields it names.     *)
LEMMA NewJobType == NewJob \in JobType
BY DEF NewJob, JobType, NoWriter, Writers

LEMMA JobUpdates ==
    ASSUME NEW r \in JobType
    PROVE  /\ Assigned(r) \in JobType
           /\ Flagged(r) \in JobType
           /\ RecorderTold(r) \in JobType
           /\ SourceTold(r) \in JobType
           /\ Joined(r) \in JobType
           /\ Prepared(r) \in JobType
           /\ SourceCleared(r) \in JobType
           /\ Rotated(r) \in JobType
           /\ FirstSegment(r) \in JobType
           /\ Closed(r) \in JobType
           /\ MarkLost(r) \in JobType
           /\ Reconnecting(r) \in JobType
<1> USE DEF JobType, Writers, NoWriter
<1>1. /\ Assigned(r) \in JobType /\ Flagged(r) \in JobType
      /\ RecorderTold(r) \in JobType /\ SourceTold(r) \in JobType
  BY DEF Assigned, Flagged, RecorderTold, SourceTold
<1>2. Joined(r) \in JobType  BY DEF Joined
<1>3. Prepared(r) \in JobType  BY DEF Prepared
<1>4. SourceCleared(r) \in JobType  BY DEF SourceCleared
<1>5. Rotated(r) \in JobType /\ FirstSegment(r) \in JobType
  BY DEF Rotated, FirstSegment
<1>6. Closed(r) \in JobType /\ MarkLost(r) \in JobType
  BY DEF Closed, MarkLost
<1>7. Reconnecting(r) \in JobType  BY DEF Reconnecting
<1> QED  BY <1>1, <1>2, <1>3, <1>4, <1>5, <1>6, <1>7

LEMMA FrameFields ==
    ASSUME NEW a \in {"idle", "spawn", "assign", "flag", "recorder", "source", "join"},
           NEW u \in Jobs \cup {NoJob}, NEW f \in SUBSET Jobs, NEW t \in SUBSET Jobs
    PROVE  /\ Frame(a, u, f, t) \in FrameType
           /\ Frame(a, u, f, t).at = a /\ Frame(a, u, f, t).cur = u
           /\ Frame(a, u, f, t).toFlag = f /\ Frame(a, u, f, t).toJoin = t
BY DEF Frame, FrameType

LEMMA FrameTypes ==
    ASSUME NEW r \in FrameType
    PROVE  /\ r.at \in {"idle", "spawn", "assign", "flag", "recorder", "source", "join"}
           /\ r.cur \in Jobs \cup {NoJob}
           /\ r.toFlag \in SUBSET Jobs
           /\ r.toJoin \in SUBSET Jobs
BY DEF FrameType

-----------------------------------------------------------------------------
(* Type correctness: every caller and every recording thread is at a point *)
(* of its function, and the table and the frames hold jobs.                *)
LEMMA ThreadTypeStep ==
    ASSUME TypeOK, NEW j \in Jobs, ThreadStep(j)
    PROVE  TypeOK'
<1> USE JobUpdates DEF TypeOK, ThreadPoints
<1>1. CASE Check(j)  BY <1>1 DEF Check
<1>2. CASE RunReset(j)  BY <1>2 DEF RunReset
<1>3. CASE SourceReset(j)  BY <1>3 DEF SourceReset
<1>4. CASE SourceOpened(j)  BY <1>4 DEF SourceOpened
<1>5. CASE ReadNext(j)  BY <1>5 DEF ReadNext
<1>6. CASE ReadPacket(j)  BY <1>6 DEF ReadPacket
<1>7. CASE ReadKeyFrame(j)  BY <1>7 DEF ReadKeyFrame
<1>8. CASE ReadEnd(j)  BY <1>8 DEF ReadEnd
<1>9. CASE RunFinish(j)  BY <1>9 DEF RunFinish
<1>10. CASE RunThrows(j)  BY <1>10 DEF RunThrows
<1>11. CASE WriterThrows(j)  BY <1>11 DEF WriterThrows
<1>12. CASE RunLeave(j)  BY <1>12 DEF RunLeave
<1>13. CASE RunAgain(j)  BY <1>13 DEF RunAgain
<1> QED
  BY <1>1, <1>2, <1>3, <1>4, <1>5, <1>6, <1>7, <1>8, <1>9, <1>10, <1>11, <1>12, <1>13
  DEF ThreadStep

LEMMA CallerTypeStep ==
    ASSUME TypeOK, NEW c \in Callers, Request(c) \/ CallerStep(c)
    PROVE  TypeOK'
<1>0. Idle \in FrameType /\ Idle.at = "idle"
  BY FrameFields DEF Idle
<1>00. /\ call[c].toFlag \in SUBSET Jobs /\ call[c].toJoin \in SUBSET Jobs
  BY FrameTypes DEF TypeOK
<1>1. ASSUME NEW k \in Keys, NEW j \in Jobs, StartInsert(c, k, j) PROVE TypeOK'
  BY <1>1, NewJobType, FrameFields DEF StartInsert, ThreadPoints, TypeOK
<1>2. CASE StartSpawn(c)  BY <1>2, FrameFields DEF StartSpawn, ThreadPoints, TypeOK
<1>3. CASE StartSpawnFails(c)  BY <1>0, <1>3 DEF StartSpawnFails, TypeOK
<1>4. CASE StartAssign(c)  BY <1>0, <1>4, JobUpdates DEF StartAssign, TypeOK
<1>5. ASSUME NEW k \in Keys, StopErase(c, k) PROVE TypeOK'
  <2>1. {jobs[k]} \in SUBSET Jobs
    BY <1>5 DEF StopErase, Found, TypeOK
  <2> DEFINE new == Frame("flag", NoJob, {jobs[k]}, {jobs[k]})
  <2>2. new \in FrameType /\ new.at = "flag"
    BY <2>1, FrameFields
  <2> HIDE DEF new
  <2> QED  BY <1>5, <2>2 DEF StopErase, new, TypeOK
<1>6. CASE StopAll(c)
  <2> DEFINE all == {jobs[k] : k \in Keys} \ {NoJob}
             new == Frame("flag", NoJob, all, all)
  <2>1. all \in SUBSET Jobs
    BY DEF TypeOK
  <2> HIDE DEF all
  <2>2. new \in FrameType /\ new.at = "flag"
    BY <2>1, FrameFields
  <2>3. call' = call \/ call' = [call EXCEPT ![c] = new]
    BY <1>6 DEF StopAll, all
  <2> HIDE DEF new
  <2>4. jobs' \in [Keys -> Jobs \cup {NoJob}] /\ job' = job /\ pc' = pc /\ closing' = TRUE
    BY <1>6 DEF StopAll, TypeOK
  <2> QED  BY <2>2, <2>3, <2>4 DEF TypeOK
<1>7. ASSUME NEW j \in Jobs, StopFlag(c, j) PROVE TypeOK'
  BY <1>00, <1>7, FrameFields, JobUpdates DEF StopFlag, TypeOK
<1>8. CASE StopRecorder(c)  BY <1>00, <1>8, FrameFields, JobUpdates DEF StopRecorder, TypeOK
<1>9. CASE StopSource(c)
  <2> DEFINE left == call[c].toFlag \ {call[c].cur}
             at == IF left = {} THEN "join" ELSE "flag"
             new == Frame(at, NoJob, left, call[c].toJoin)
  <2>1. left \in SUBSET Jobs
    BY <1>00
  <2> HIDE DEF left
  <2>2. new \in FrameType /\ new.at = at
    BY <1>00, <2>1, FrameFields
  <2> HIDE DEF new
  <2>3. call' = [call EXCEPT ![c] = new]
    BY <1>9 DEF StopSource, new, left
  <2>4. /\ job' = [job EXCEPT ![call[c].cur] = SourceTold(@)] /\ call[c].cur \in Jobs
        /\ UNCHANGED <<jobs, pc, closing>>
    BY <1>9 DEF StopSource, TypeOK
  <2> QED  BY <2>2, <2>3, <2>4, JobUpdates DEF TypeOK
<1>10. ASSUME NEW j \in Jobs, StopJoin(c, j) PROVE TypeOK'
  <2> DEFINE left == call[c].toJoin \ {j}
             new == IF left = {} THEN Idle ELSE Frame("join", NoJob, {}, left)
  <2>1. left \in SUBSET Jobs
    BY <1>00
  <2> HIDE DEF left
  <2>2. new \in FrameType /\ new.at \in {"idle", "join"}
    BY <1>0, <2>1, FrameFields
  <2> HIDE DEF new
  <2>3. call' = [call EXCEPT ![c] = new]
    BY <1>10 DEF StopJoin, new, left
  <2>4. job' = [job EXCEPT ![j] = Joined(@)] /\ UNCHANGED <<jobs, pc, closing>>
    BY <1>10 DEF StopJoin
  <2> QED  BY <2>2, <2>3, <2>4, JobUpdates DEF TypeOK
<1> QED
  BY <1>1, <1>2, <1>3, <1>4, <1>5, <1>6, <1>7, <1>8, <1>9, <1>10 DEF Request, CallerStep

LEMMA InitType == Init => TypeOK
<1>1. Idle \in FrameType /\ Idle.at = "idle"
  BY FrameFields DEF Idle
<1> QED  BY NewJobType, <1>1 DEF Init, TypeOK, ThreadPoints

(* The type invariant holds in every reachable state.                      *)
THEOREM TypeCorrect == SafeSpec => []TypeOK
<1>1. Init => TypeOK  BY InitType
<1>2. TypeOK /\ UNCHANGED vars => TypeOK'
  BY DEF TypeOK, vars
<1>3. TypeOK /\ [Next]_vars => TypeOK'
  BY <1>2, ThreadTypeStep, CallerTypeStep DEF Next
<1> QED  BY <1>1, <1>3, PTL DEF SafeSpec

-----------------------------------------------------------------------------
(* Who may still stop a job. A key leads to one job; a job to be stopped   *)
(* has left the table; a thread ends only when told; a job whose thread    *)
(* runs, or is about to be created, is in the table, told to stop, or      *)
(* among the jobs some caller is going to tell.                            *)
Spawning(c, j) == call[c].at = "spawn" /\ call[c].cur = j

StopInv ==
    /\ \A k, l \in Keys : jobs[k] = jobs[l] /\ jobs[k] # NoJob => k = l
    /\ \A c \in Callers : \A j \in call[c].toFlag : ~Registered(j)
    /\ \A c \in Callers : call[c].at \in {"idle", "spawn", "assign", "join"}
                          => call[c].toFlag = {}
    /\ \A c \in Callers : call[c].at \in {"recorder", "source"} => job[call[c].cur].stopping
    /\ \A c \in Callers : call[c].at = "spawn" => pc[call[c].cur] = "none"
    /\ \A c, d \in Callers : call[c].at = "spawn" /\ Spawning(d, call[c].cur) => c = d
    /\ \A j \in Jobs : Registered(j) => ~job[j].stopping
    /\ \A j \in Jobs : pc[j] = "done" => job[j].stopping
    /\ \A j \in Jobs : Alive(j) \/ (\E c \in Callers : Spawning(c, j))
                       => Registered(j) \/ BeingStopped(j)

LEMMA StoppingKept ==
    ASSUME NEW r \in JobType
    PROVE  /\ Assigned(r).stopping = r.stopping /\ RecorderTold(r).stopping = r.stopping
           /\ SourceTold(r).stopping = r.stopping /\ Joined(r).stopping = r.stopping
           /\ Prepared(r).stopping = r.stopping /\ SourceCleared(r).stopping = r.stopping
           /\ Rotated(r).stopping = r.stopping /\ FirstSegment(r).stopping = r.stopping
           /\ Closed(r).stopping = r.stopping /\ MarkLost(r).stopping = r.stopping
           /\ Reconnecting(r).stopping = r.stopping
           /\ Flagged(r).stopping
           /\ ~NewJob.stopping
BY DEF JobType, Assigned, RecorderTold, SourceTold, Joined, Prepared, SourceCleared,
       Rotated, FirstSegment, Closed, MarkLost, Reconnecting, Flagged, NewJob

LEMMA StopThreadStep ==
    ASSUME TypeOK, StopInv, NEW j \in Jobs, ThreadStep(j)
    PROVE  StopInv'
<1>1. jobs' = jobs /\ call' = call
  BY DEF ThreadStep, Check, RunReset, SourceReset, SourceOpened, ReadNext, ReadPacket,
         ReadKeyFrame, ReadEnd, RunFinish, RunThrows, WriterThrows, RunLeave, RunAgain
<1>2. \A i \in Jobs \ {j} : job'[i] = job[i] /\ pc'[i] = pc[i]
  BY DEF ThreadStep, Check, RunReset, SourceReset, SourceOpened, ReadNext, ReadPacket,
         ReadKeyFrame, ReadEnd, RunFinish, RunThrows, WriterThrows, RunLeave, RunAgain, TypeOK
<1>3. job[j] \in JobType
  BY DEF TypeOK
<1>4. /\ job'[j].stopping = job[j].stopping
      /\ pc[j] \notin {"none", "done"}
      /\ pc'[j] # "none"
      /\ pc'[j] = "done" => job[j].stopping
  <2> USE DEF TypeOK
  <2>1. CASE Check(j)  BY <2>1 DEF Check
  <2>2. CASE RunReset(j)  BY <2>2, <1>3, StoppingKept DEF RunReset
  <2>3. CASE SourceReset(j)  BY <2>3, <1>3, StoppingKept DEF SourceReset
  <2>4. CASE SourceOpened(j)  BY <2>4 DEF SourceOpened
  <2>5. CASE ReadNext(j)  BY <2>5 DEF ReadNext
  <2>6. CASE ReadPacket(j)  BY <2>6, <1>3, StoppingKept DEF ReadPacket
  <2>7. CASE ReadKeyFrame(j)  BY <2>7, <1>3, StoppingKept DEF ReadKeyFrame
  <2>8. CASE ReadEnd(j)  BY <2>8 DEF ReadEnd
  <2>9. CASE RunFinish(j)  BY <2>9, <1>3, StoppingKept DEF RunFinish
  <2>10. CASE RunThrows(j)  BY <2>10, <1>3, StoppingKept DEF RunThrows
  <2>11. CASE WriterThrows(j)  BY <2>11, <1>3, StoppingKept DEF WriterThrows
  <2>12. CASE RunLeave(j)  BY <2>12 DEF RunLeave, GivesUp
  <2>13. CASE RunAgain(j)  BY <2>13, <1>3, StoppingKept DEF RunAgain
  <2> QED
    BY <2>1, <2>2, <2>3, <2>4, <2>5, <2>6, <2>7, <2>8, <2>9, <2>10, <2>11, <2>12, <2>13
    DEF ThreadStep
<1>5. \A i \in Jobs : /\ job'[i].stopping = job[i].stopping
                      /\ Alive(i)' => Alive(i)
                      /\ pc[i] = "none" => pc'[i] = "none"
                      /\ pc'[i] = "done" => job'[i].stopping
  BY <1>2, <1>4 DEF Alive, StopInv
<1>6. \A c \in Callers : call[c].at \in {"spawn", "recorder", "source"} => call[c].cur \in Jobs
  BY DEF TypeOK
<1>7. /\ \A i \in Jobs : Registered(i)' = Registered(i) /\ BeingStopped(i)' = BeingStopped(i)
      /\ \A c \in Callers : \A i \in Jobs : Spawning(c, i)' = Spawning(c, i)
  BY <1>1, <1>5 DEF Registered, BeingStopped, Spawning
<1>8. \A c \in Callers : call[c].toFlag \subseteq Jobs
  BY FrameTypes DEF TypeOK
<1> QED  BY <1>1, <1>5, <1>6, <1>7, <1>8 DEF StopInv, Spawning

(* A step of a caller that replaces its frame and leaves the table alone.  *)
LEMMA StopFrameStep ==
    ASSUME TypeOK, StopInv, NEW c \in Callers, NEW f \in FrameType,
           call' = [call EXCEPT ![c] = f], jobs' = jobs,
           \A i \in Jobs : job[i].stopping => job'[i].stopping,
           \A i \in Jobs : job'[i].stopping => job[i].stopping \/ i \in call[c].toFlag,
           \A i \in Jobs : pc'[i] = pc[i] \/ (Spawning(c, i) /\ pc'[i] = "check"),
           f.toFlag \subseteq call[c].toFlag,
           \A i \in call[c].toFlag : i \in f.toFlag \/ job'[i].stopping,
           f.at \in {"idle", "assign", "join"} => f.toFlag = {},
           f.at \in {"recorder", "source"} => f.cur \in Jobs /\ job'[f.cur].stopping,
           f.at # "spawn",
           (\E i \in Jobs : Spawning(c, i) /\ pc'[i] = pc[i]) => f.at = "idle"
    PROVE  StopInv'
<1>1. call'[c] = f /\ \A d \in Callers \ {c} : call'[d] = call[d]
  BY DEF TypeOK
<1>2. \A i \in Jobs : Registered(i)' = Registered(i)
  BY DEF Registered
<1>3. \A i \in Jobs : BeingStopped(i) => BeingStopped(i)'
  BY <1>1 DEF BeingStopped
<1>4. \A d \in Callers, i \in Jobs : Spawning(d, i)' => Spawning(d, i) /\ d # c
  BY <1>1 DEF Spawning
<1>5. \A d \in Callers : call[d].toFlag \subseteq Jobs
  BY FrameTypes DEF TypeOK
<1>6. \A d \in Callers : call[d].at \in {"spawn", "recorder", "source"} => call[d].cur \in Jobs
  BY DEF TypeOK
<1>7. \A d \in Callers : call'[d].at = "spawn" => d # c /\ pc'[call[d].cur] = pc[call[d].cur]
  BY <1>1, <1>6 DEF StopInv, Spawning
<1>8. \A i \in Jobs : Alive(i)' => Alive(i) \/ Spawning(c, i)
  BY DEF Alive
<1>9. /\ \A d \in Callers : \A i \in call'[d].toFlag : ~Registered(i)'
      /\ \A d \in Callers : call'[d].at \in {"idle", "spawn", "assign", "join"}
                            => call'[d].toFlag = {}
      /\ \A d \in Callers : call'[d].at \in {"recorder", "source"} => job'[call'[d].cur].stopping
  BY <1>1, <1>2, <1>5, <1>6 DEF StopInv
<1>10. /\ \A d \in Callers : call'[d].at = "spawn" => pc'[call'[d].cur] = "none"
       /\ \A d, e \in Callers : call'[d].at = "spawn" /\ Spawning(e, call[d].cur)' => d = e
  BY <1>1, <1>4, <1>6, <1>7 DEF StopInv
<1>11. \A i \in Jobs : Registered(i)' => ~job'[i].stopping
  BY <1>2 DEF StopInv
<1>12. \A i \in Jobs : pc'[i] = "done" => job'[i].stopping
  BY DEF StopInv
<1>13. \A i \in Jobs : Alive(i)' \/ (\E d \in Callers : Spawning(d, i)')
                       => Registered(i)' \/ BeingStopped(i)'
  BY <1>2, <1>3, <1>4, <1>8 DEF StopInv
<1>14. \A k, l \in Keys : jobs'[k] = jobs'[l] /\ jobs'[k] # NoJob => k = l
  BY DEF StopInv
<1> QED
  BY <1>1, <1>7, <1>9, <1>10, <1>11, <1>12, <1>13, <1>14 DEF StopInv, Spawning

LEMMA StopInsertStep ==
    ASSUME TypeOK, StopInv, NEW c \in Callers, NEW k \in Keys, NEW j \in Jobs,
           StartInsert(c, k, j)
    PROVE  StopInv'
<1> DEFINE new == Frame("spawn", j, {}, {})
<1>1. new \in FrameType /\ new.at = "spawn" /\ new.cur = j /\ new.toFlag = {}
  BY FrameFields
<1> HIDE DEF new
<1>2. call'[c] = new /\ \A d \in Callers \ {c} : call'[d] = call[d]
  BY DEF StartInsert, new, TypeOK
<1>3. /\ job'[j] = NewJob /\ ~job'[j].stopping /\ pc'[j] = "none"
      /\ \A i \in Jobs \ {j} : job'[i] = job[i] /\ pc'[i] = pc[i]
  BY StoppingKept, NewJobType DEF StartInsert, TypeOK
<1>4. ~Registered(j) /\ ~Held(j) /\ ~Alive(j)
  BY DEF StartInsert, Referenced
<1>5. jobs' = [jobs EXCEPT ![k] = j] /\ jobs[k] = NoJob /\ j # NoJob
  BY NullJob DEF StartInsert, FreeKey
<1>6. Registered(j)' /\ \A i \in Jobs \ {j} : Registered(i)' = Registered(i)
  BY <1>5, NullJob DEF Registered, TypeOK
<1>7. \A d \in Callers : call[d].cur # j /\ j \notin call[d].toFlag
  BY <1>4 DEF Held
<1>8. call[c].toFlag = {} /\ call[c].at = "idle"
  BY FrameFields DEF StartInsert, Idle
<1>9. \A d \in Callers : call[d].toFlag \subseteq Jobs
  BY FrameTypes DEF TypeOK
<1>10. \A d \in Callers : call[d].at \in {"spawn", "recorder", "source"} => call[d].cur \in Jobs
  BY DEF TypeOK
<1>11. /\ \A d \in Callers : call'[d].toFlag = call[d].toFlag
       /\ \A i \in Jobs \ {j} : BeingStopped(i)' <=> BeingStopped(i)
       /\ \A i \in Jobs \ {j} : Alive(i)' <=> Alive(i)
       /\ ~Alive(j)'
  <2>1. \A d \in Callers : call'[d].toFlag = call[d].toFlag
    BY <1>1, <1>2, <1>8
  <2> QED  BY <2>1, <1>3 DEF BeingStopped, Alive
<1>12. \A d \in Callers : \A i \in Jobs : 
          Spawning(d, i)' => (d = c /\ i = j) \/ (d # c /\ i # j /\ Spawning(d, i))
  BY <1>1, <1>2, <1>7 DEF Spawning
<1>13. \A l, m \in Keys : jobs'[l] = jobs'[m] /\ jobs'[l] # NoJob => l = m
  BY <1>4, <1>5 DEF StopInv, Registered, TypeOK
<1>14. \A d \in Callers : \A i \in call'[d].toFlag : ~Registered(i)'
  BY <1>6, <1>7, <1>9, <1>11 DEF StopInv
<1>15. /\ \A d \in Callers : call'[d].at \in {"idle", "spawn", "assign", "join"}
                             => call'[d].toFlag = {}
       /\ \A d \in Callers : call'[d].at \in {"recorder", "source"}
                             => job'[call'[d].cur].stopping
       /\ \A d \in Callers : call'[d].at = "spawn" => pc'[call'[d].cur] = "none"
  BY <1>1, <1>2, <1>3, <1>7, <1>10, <1>11 DEF StopInv
<1>16. \A d, e \in Callers : call'[d].at = "spawn" /\ Spawning(e, call[d].cur)' => d = e
  BY <1>1, <1>2, <1>7, <1>10 DEF StopInv, Spawning
<1>17. /\ \A i \in Jobs : Registered(i)' => ~job'[i].stopping
       /\ \A i \in Jobs : pc'[i] = "done" => job'[i].stopping
  BY <1>3, <1>6 DEF StopInv
<1>18. \A i \in Jobs : Alive(i)' \/ (\E d \in Callers : Spawning(d, i)')
                        => Registered(i)' \/ BeingStopped(i)'
  BY <1>6, <1>11, <1>12 DEF StopInv
<1> QED
  BY <1>1, <1>2, <1>13, <1>14, <1>15, <1>16, <1>17, <1>18 DEF StopInv, Spawning

(* stop() and stop_all() move jobs from the table to the caller's list.    *)
LEMMA StopTakeStep ==
    ASSUME TypeOK, StopInv, NEW c \in Callers, call[c].at = "idle",
           NEW all \in SUBSET Jobs, NEW f \in FrameType,
           f.at = "flag", f.toFlag = all, call' = [call EXCEPT ![c] = f],
           \A i \in all : Registered(i), \A i \in all : ~Registered(i)',
           \A l \in Keys : jobs'[l] = jobs[l] \/ (jobs'[l] = NoJob /\ jobs[l] \in all),
           job' = job, pc' = pc
    PROVE  StopInv'
<1>1. call'[c] = f /\ \A d \in Callers \ {c} : call'[d] = call[d]
  BY DEF TypeOK
<1>2. \A i \in Jobs : Registered(i)' <=> Registered(i) /\ i \notin all
  BY NullJob DEF Registered
<1>3. \A d \in Callers : call[d].toFlag \subseteq Jobs
  BY FrameTypes DEF TypeOK
<1>4. call[c].toFlag = {}
  BY DEF StopInv
<1>5. \A i \in Jobs : BeingStopped(i) \/ i \in all => BeingStopped(i)'
  BY <1>1, <1>4 DEF BeingStopped
<1>6. \A d \in Callers, i \in Jobs : Spawning(d, i)' => Spawning(d, i) /\ d # c
  BY <1>1 DEF Spawning
<1>7. \A l, m \in Keys : jobs'[l] = jobs'[m] /\ jobs'[l] # NoJob => l = m
  BY DEF StopInv
<1>8. \A d \in Callers : \A i \in call'[d].toFlag : ~Registered(i)'
  BY <1>1, <1>2, <1>3 DEF StopInv
<1>9. /\ \A d \in Callers : call'[d].at \in {"idle", "spawn", "assign", "join"}
                            => call'[d].toFlag = {}
      /\ \A d \in Callers : call'[d].at \in {"recorder", "source"}
                            => job'[call'[d].cur].stopping
      /\ \A d \in Callers : call'[d].at = "spawn" => pc'[call'[d].cur] = "none"
  BY <1>1 DEF StopInv
<1>13. \A d, e \in Callers : call'[d].at = "spawn" /\ Spawning(e, call[d].cur)' => d = e
  BY <1>1 DEF StopInv, Spawning
<1>10. \A i \in Jobs : Registered(i)' => ~job'[i].stopping
  BY <1>2 DEF StopInv
<1>11. \A i \in Jobs : Alive(i)' \/ (\E d \in Callers : Spawning(d, i)')
                        => Registered(i)' \/ BeingStopped(i)'
  BY <1>2, <1>5, <1>6 DEF StopInv, Alive
<1>12. \A i \in Jobs : pc'[i] = "done" => job'[i].stopping
  BY DEF StopInv
<1> QED
  BY <1>1, <1>7, <1>8, <1>9, <1>10, <1>11, <1>12, <1>13 DEF StopInv, Spawning

LEMMA StopCallerStep ==
    ASSUME TypeOK, StopInv, NEW c \in Callers, Request(c) \/ CallerStep(c)
    PROVE  StopInv'
<1>0. Idle \in FrameType /\ Idle.at = "idle" /\ Idle.toFlag = {}
  BY FrameFields DEF Idle
<1>00. /\ call[c].toFlag \in SUBSET Jobs /\ call[c].toJoin \in SUBSET Jobs
       /\ \A i \in Jobs : job[i] \in JobType
       /\ call[c].at \in {"idle", "spawn", "assign", "join"} => call[c].toFlag = {}
  BY FrameTypes DEF TypeOK, StopInv
<1>1. ASSUME NEW k \in Keys, NEW j \in Jobs, StartInsert(c, k, j) PROVE StopInv'
  BY <1>1, StopInsertStep
<1>2. CASE StartSpawn(c)
  <2> DEFINE new == Frame("assign", call[c].cur, {}, {})
  <2>1. call[c].at = "spawn" /\ call[c].cur \in Jobs /\ pc[call[c].cur] = "none"
    BY <1>2 DEF StartSpawn, TypeOK, StopInv
  <2>2. new \in FrameType /\ new.at = "assign" /\ new.toFlag = {}
    BY <2>1, FrameFields
  <2> HIDE DEF new
  <2>3. /\ call' = [call EXCEPT ![c] = new] /\ UNCHANGED <<jobs, job>>
        /\ pc' = [pc EXCEPT ![call[c].cur] = "check"]
    BY <1>2 DEF StartSpawn, new
  <2>4. \A i \in Jobs : (pc'[i] = pc[i] /\ i # call[c].cur) \/ (Spawning(c, i) /\ pc'[i] = "check")
    BY <2>1, <2>3 DEF Spawning, TypeOK
  <2> QED  BY <1>00, <2>1, <2>2, <2>3, <2>4, StopFrameStep DEF Spawning
<1>3. CASE StartSpawnFails(c)
  BY <1>0, <1>00, <1>3, StopFrameStep DEF StartSpawnFails
<1>4. CASE StartAssign(c)
  <2>1. \A i \in Jobs : job'[i].stopping = job[i].stopping
    BY <1>00, <1>4, StoppingKept DEF StartAssign, TypeOK
  <2> QED  BY <1>0, <1>00, <1>4, <2>1, StopFrameStep DEF StartAssign
<1>5. ASSUME NEW k \in Keys, StopErase(c, k) PROVE StopInv'
  <2>1. jobs[k] \in Jobs /\ call[c].at = "idle"
    BY <1>0, <1>5 DEF StopErase, Found, TypeOK
  <2> DEFINE all == {jobs[k]}
             new == Frame("flag", NoJob, all, all)
  <2>2. new \in FrameType /\ new.at = "flag" /\ new.toFlag = all
    BY <2>1, FrameFields
  <2> HIDE DEF new
  <2>3. /\ call' = [call EXCEPT ![c] = new] /\ jobs' = [jobs EXCEPT ![k] = NoJob]
        /\ UNCHANGED <<job, pc>>
    BY <1>5 DEF StopErase, new
  <2>4. \A l \in Keys : jobs'[l] = jobs[l] \/ (jobs'[l] = NoJob /\ jobs[l] \in all)
    BY <2>3 DEF TypeOK
  <2>5. Registered(jobs[k]) /\ \A l \in Keys : jobs'[l] # jobs[k]
    BY <2>1, <2>3, NullJob DEF StopInv, Registered, TypeOK
  <2>6. \A i \in all : Registered(i) /\ ~Registered(i)'
    BY <2>3, <2>5 DEF Registered
  <2> QED  BY <2>1, <2>2, <2>3, <2>4, <2>6, StopTakeStep
<1>6. CASE StopAll(c)
  <2> DEFINE all == {jobs[k] : k \in Keys} \ {NoJob}
             new == Frame("flag", NoJob, all, all)
  <2>1. all \in SUBSET Jobs /\ \A i \in all : Registered(i)
    BY DEF TypeOK, Registered
  <2>2. \A k \in Keys : jobs[k] = NoJob \/ jobs[k] \in all
    OBVIOUS
  <2>3. /\ jobs' = [k \in Keys |-> NoJob] /\ job' = job /\ pc' = pc
        /\ call[c].at = "idle"
        /\ call' = IF all = {} THEN call ELSE [call EXCEPT ![c] = new]
    BY <1>0, <1>6 DEF StopAll
  <2> HIDE DEF all
  <2>4. new \in FrameType /\ new.at = "flag" /\ new.toFlag = all
    BY <2>1, FrameFields
  <2> HIDE DEF new
  <2>5. \A k \in Keys : jobs'[k] = NoJob
    BY <2>3
  <2>6. CASE all = {}
    <3>1. jobs' = jobs
      BY <2>2, <2>3, <2>6 DEF TypeOK
    <3>2. call' = call
      BY <2>3, <2>6
    <3> QED  BY <2>3, <3>1, <3>2 DEF StopInv, Registered, BeingStopped, Spawning, Alive
  <2>7. CASE all # {}
    <3>1. \A i \in all : ~Registered(i)'
      BY <2>1, <2>5, NullJob DEF Registered
    <3>2. call' = [call EXCEPT ![c] = new]
      BY <2>3, <2>7
    <3> QED  BY <2>1, <2>2, <2>3, <2>4, <2>5, <3>1, <3>2, StopTakeStep
  <2> QED  BY <2>6, <2>7
<1>7. ASSUME NEW j \in Jobs, StopFlag(c, j) PROVE StopInv'
  <2> DEFINE new == Frame("recorder", j, call[c].toFlag, call[c].toJoin)
  <2>1. /\ new \in FrameType /\ new.at = "recorder" /\ new.cur = j
        /\ new.toFlag = call[c].toFlag
    BY <1>00, FrameFields
  <2> HIDE DEF new
  <2>2. /\ call' = [call EXCEPT ![c] = new] /\ UNCHANGED <<jobs, pc>>
        /\ job' = [job EXCEPT ![j] = Flagged(@)]
        /\ call[c].at = "flag" /\ j \in call[c].toFlag
    BY <1>7 DEF StopFlag, new
  <2>3. job'[j].stopping /\ \A i \in Jobs \ {j} : job'[i] = job[i]
    BY <1>00, <2>2, StoppingKept DEF TypeOK
  <2> QED  BY <2>1, <2>2, <2>3, StopFrameStep DEF Spawning
<1>8. CASE StopRecorder(c)
  <2> DEFINE new == Frame("source", call[c].cur, call[c].toFlag, call[c].toJoin)
  <2>1. call[c].at = "recorder" /\ call[c].cur \in Jobs /\ job[call[c].cur].stopping
    BY <1>8 DEF StopRecorder, TypeOK, StopInv
  <2>2. /\ new \in FrameType /\ new.at = "source" /\ new.cur = call[c].cur
        /\ new.toFlag = call[c].toFlag
    BY <1>00, <2>1, FrameFields
  <2> HIDE DEF new
  <2>3. /\ call' = [call EXCEPT ![c] = new] /\ UNCHANGED <<jobs, pc>>
        /\ job' = [job EXCEPT ![call[c].cur] = RecorderTold(@)]
    BY <1>8 DEF StopRecorder, new
  <2>4. \A i \in Jobs : job'[i].stopping = job[i].stopping
    BY <1>00, <2>1, <2>3, StoppingKept DEF TypeOK
  <2> QED  BY <2>1, <2>2, <2>3, <2>4, StopFrameStep DEF Spawning
<1>9. CASE StopSource(c)
  <2> DEFINE left == call[c].toFlag \ {call[c].cur}
             at == IF left = {} THEN "join" ELSE "flag"
             new == Frame(at, NoJob, left, call[c].toJoin)
  <2>1. call[c].at = "source" /\ call[c].cur \in Jobs /\ job[call[c].cur].stopping
    BY <1>9 DEF StopSource, TypeOK, StopInv
  <2>2. /\ left \in SUBSET Jobs /\ left \subseteq call[c].toFlag
        /\ \A i \in call[c].toFlag : i \in left \/ i = call[c].cur
    BY <1>00
  <2>3. /\ call' = [call EXCEPT ![c] = new] /\ UNCHANGED <<jobs, pc>>
        /\ job' = [job EXCEPT ![call[c].cur] = SourceTold(@)]
    BY <1>9 DEF StopSource
  <2> HIDE DEF left
  <2>6. at \in {"join", "flag"} /\ (at = "join" => left = {})
    OBVIOUS
  <2> HIDE DEF at
  <2>7. new \in FrameType /\ new.at = at /\ new.toFlag = left
    BY <1>00, <2>2, <2>6, FrameFields
  <2>4. /\ new \in FrameType /\ new.at \in {"join", "flag"} /\ new.toFlag = left
        /\ new.at = "join" => left = {}
    BY <2>6, <2>7
  <2> HIDE DEF new
  <2>5. \A i \in Jobs : job'[i].stopping = job[i].stopping
    BY <1>00, <2>1, <2>3, StoppingKept DEF TypeOK
  <2> QED  BY <1>00, <2>1, <2>2, <2>3, <2>4, <2>5, StopFrameStep DEF Spawning
<1>10. ASSUME NEW j \in Jobs, StopJoin(c, j) PROVE StopInv'
  <2> DEFINE left == call[c].toJoin \ {j}
             new == IF left = {} THEN Idle ELSE Frame("join", NoJob, {}, left)
  <2>1. left \in SUBSET Jobs
    BY <1>00
  <2>2. /\ call' = [call EXCEPT ![c] = new] /\ UNCHANGED <<jobs, pc>>
        /\ job' = [job EXCEPT ![j] = Joined(@)] /\ call[c].at = "join"
    BY <1>10 DEF StopJoin
  <2> HIDE DEF left
  <2>5. LET f == Frame("join", NoJob, {}, left)
        IN  f \in FrameType /\ f.at = "join" /\ f.toFlag = {}
    BY <2>1, FrameFields
  <2>3. new \in FrameType /\ new.at \in {"idle", "join"} /\ new.toFlag = {}
    BY <1>0, <2>5
  <2> HIDE DEF new
  <2>4. \A i \in Jobs : job'[i].stopping = job[i].stopping
    BY <1>00, <2>2, StoppingKept DEF TypeOK
  <2> QED  BY <1>00, <2>2, <2>3, <2>4, StopFrameStep DEF Spawning
<1> QED
  BY <1>1, <1>2, <1>3, <1>4, <1>5, <1>6, <1>7, <1>8, <1>9, <1>10 DEF Request, CallerStep

(* The two facts above are inductive together with the types.              *)
THEOREM StopInvariant == SafeSpec => [](TypeOK /\ StopInv)
<1>1. Init => TypeOK  BY InitType
<1>2. Init => StopInv
  <2> SUFFICES ASSUME Init PROVE StopInv
    OBVIOUS
  <2>1. Idle.at = "idle" /\ Idle.toFlag = {}
    BY DEF Idle, Frame
  <2>2. \A c \in Callers : call[c].at = "idle" /\ call[c].toFlag = {}
    BY <2>1 DEF Init
  <2>3. \A j \in Jobs : ~job[j].stopping /\ pc[j] = "none"
    BY DEF Init, NewJob
  <2>4. \A k \in Keys : jobs[k] = NoJob
    BY DEF Init
  <2> QED  BY <2>2, <2>3, <2>4 DEF StopInv, Alive, Spawning
<1>3. TypeOK /\ StopInv /\ UNCHANGED vars => TypeOK' /\ StopInv'
  BY DEF TypeOK, StopInv, vars, Registered, Alive, Spawning, BeingStopped
<1>4. TypeOK /\ StopInv /\ [Next]_vars => TypeOK' /\ StopInv'
  BY <1>3, ThreadTypeStep, CallerTypeStep, StopThreadStep, StopCallerStep DEF Next
<1> QED  BY <1>1, <1>2, <1>4, PTL DEF SafeSpec

(* However starts and stops interleave, a thread that records without a    *)
(* table entry has been told to stop, or a caller is about to tell it.     *)
THEOREM RecordingsCanBeStopped == SafeSpec => []NoOrphan
<1>1. StopInv => NoOrphan
  BY DEF StopInv, NoOrphan
<1> QED  BY <1>1, StopInvariant, PTL

(* The thread of a job in the table has not ended.                         *)
THEOREM RecordingsGoOn == SafeSpec => []NeverGivesUp
<1>1. TypeOK /\ StopInv => NeverGivesUp
  BY DEF TypeOK, StopInv, NeverGivesUp, Registered
<1> QED  BY <1>1, StopInvariant, PTL

-----------------------------------------------------------------------------
(* Where the mark of a reconnection is while it travels from the thread's  *)
(* variable to the recorder and from there to a segment.                   *)
MarkOk(r, point) ==
    /\ ~r.reconnecting => ~r.nextDiscontinuity
    /\ point \in {"open", "opening", "read", "reading"} /\ ~r.writer.open
       => (r.nextDiscontinuity <=> r.reconnecting)
    /\ r.writer.open =>
          /\ point \in {"read", "reading", "finish"}
          /\ r.writer.discontinuity <=> r.reconnecting /\ r.writer.first

MarkInv == \A j \in Jobs : MarkOk(job[j], pc[j])

SameMark(r, s) ==
    /\ s.reconnecting = r.reconnecting
    /\ s.nextDiscontinuity = r.nextDiscontinuity
    /\ s.writer = r.writer

LEMMA StopsKeepMark ==
    ASSUME NEW r \in JobType
    PROVE  /\ SameMark(r, r) /\ SameMark(r, Assigned(r)) /\ SameMark(r, Flagged(r))
           /\ SameMark(r, RecorderTold(r)) /\ SameMark(r, SourceTold(r))
           /\ SameMark(r, Joined(r)) /\ SameMark(r, SourceCleared(r))
BY DEF SameMark, JobType, Assigned, Flagged, RecorderTold, SourceTold, Joined, SourceCleared

LEMMA MarkThreadStep ==
    ASSUME TypeOK, MarkInv, NEW j \in Jobs, ThreadStep(j)
    PROVE  MarkInv'
<1> DEFINE r == job[j]
<1>1. r \in JobType /\ pc[j] \in ThreadPoints
  BY DEF TypeOK
<1>2. \A i \in Jobs \ {j} : job'[i] = job[i] /\ pc'[i] = pc[i]
  BY DEF ThreadStep, Check, RunReset, SourceReset, SourceOpened, ReadNext, ReadPacket,
         ReadKeyFrame, ReadEnd, RunFinish, RunThrows, WriterThrows, RunLeave, RunAgain, TypeOK
<1>3. SUFFICES MarkOk(job'[j], pc'[j])
  BY <1>2 DEF MarkInv
<1>4. MarkOk(r, pc[j])
  BY DEF MarkInv
<1>5. ASSUME job'[j] = r, pc[j] \notin {"reset", "ended"},
             pc'[j] \in {"done", "reset", "opening", "read", "reading", "finish"},
             pc[j] = "check" => pc'[j] \in {"done", "reset"},
             pc[j] \in {"read", "reading"} => pc'[j] \in {"read", "reading", "finish"},
             pc[j] = "opening" => pc'[j] = "read",
             pc[j] \in {"check", "opening", "read", "reading"}
      PROVE  MarkOk(job'[j], pc'[j])
  BY <1>4, <1>5 DEF MarkOk
<1>6. CASE Check(j)
  BY <1>5, <1>6 DEF Check, TypeOK
<1>7. CASE RunReset(j)
  BY <1>1, <1>4, <1>7 DEF RunReset, Prepared, MarkOk, TypeOK, JobType, Writers
<1>8. CASE SourceReset(j)
  <2>1. SameMark(r, SourceCleared(r))
    BY <1>1, StopsKeepMark
  <2> QED  BY <1>4, <1>8, <2>1 DEF SourceReset, MarkOk, SameMark, TypeOK
<1>9. CASE SourceOpened(j)
  BY <1>5, <1>9 DEF SourceOpened, TypeOK
<1>10. CASE ReadNext(j)
  BY <1>5, <1>10 DEF ReadNext, TypeOK
<1>11. CASE ReadPacket(j)
  <2>1. CASE r.writer.open
    BY <1>5, <1>11, <2>1 DEF ReadPacket, TypeOK
  <2>2. CASE ~r.writer.open
    BY <1>1, <1>4, <1>11, <2>2
    DEF ReadPacket, FirstSegment, MarkOk, TypeOK, JobType, Writers
  <2> QED  BY <2>1, <2>2
<1>12. CASE ReadKeyFrame(j)
  BY <1>1, <1>4, <1>12 DEF ReadKeyFrame, Rotated, MarkOk, TypeOK, JobType, Writers
<1>13. CASE ReadEnd(j)
  BY <1>5, <1>13 DEF ReadEnd, TypeOK
<1>14. CASE RunFinish(j)
  BY <1>1, <1>4, <1>14 DEF RunFinish, Closed, NoWriter, MarkOk, TypeOK, JobType
<1>15. CASE RunThrows(j)
  BY <1>1, <1>4, <1>15 DEF RunThrows, Closed, NoWriter, MarkOk, TypeOK, JobType
<1>16. CASE WriterThrows(j)
  BY <1>1, <1>4, <1>16 DEF WriterThrows, MarkLost, Closed, NoWriter, MarkOk, TypeOK, JobType
<1>17. CASE RunLeave(j)
  BY <1>4, <1>17 DEF RunLeave, MarkOk, TypeOK
<1>18. CASE RunAgain(j)
  BY <1>1, <1>4, <1>18 DEF RunAgain, Reconnecting, MarkOk, TypeOK, JobType
<1> QED
  BY <1>6, <1>7, <1>8, <1>9, <1>10, <1>11, <1>12, <1>13, <1>14, <1>15, <1>16, <1>17, <1>18
  DEF ThreadStep

LEMMA MarkCallerStep ==
    ASSUME TypeOK, StopInv, MarkInv, NEW c \in Callers, Request(c) \/ CallerStep(c)
    PROVE  MarkInv'
<1>1. ASSUME \A j \in Jobs : SameMark(job[j], job'[j]) /\ pc'[j] = pc[j] PROVE MarkInv'
  BY <1>1 DEF MarkInv, MarkOk, SameMark
<1>2. \A j \in Jobs : job[j] \in JobType
  BY DEF TypeOK
<1>3. ASSUME NEW k \in Keys, NEW j \in Jobs, StartInsert(c, k, j) PROVE MarkInv'
  BY <1>3 DEF StartInsert, MarkInv, MarkOk, NewJob, NoWriter, TypeOK
<1>4. CASE StartSpawn(c)
  <2>1. call[c].cur \in Jobs /\ pc' = [pc EXCEPT ![call[c].cur] = "check"] /\ job' = job
    BY <1>4 DEF StartSpawn, TypeOK
  <2>2. \A j \in Jobs : pc'[j] = pc[j] \/ pc'[j] = "check"
    BY <2>1 DEF TypeOK
  <2>3. \A j \in Jobs : pc[j] = "none" => ~job[j].writer.open
    BY DEF MarkInv, MarkOk
  <2>4. pc[call[c].cur] = "none"
    BY <1>4 DEF StartSpawn, StopInv
  <2> QED  BY <2>1, <2>2, <2>3, <2>4 DEF MarkInv, MarkOk, TypeOK
<1>5. CASE StartSpawnFails(c)
  BY <1>1, <1>2, <1>5, StopsKeepMark DEF StartSpawnFails
<1>6. CASE StartAssign(c)
  BY <1>1, <1>2, <1>6, StopsKeepMark DEF StartAssign, TypeOK
<1>7. ASSUME NEW k \in Keys, StopErase(c, k) PROVE MarkInv'
  BY <1>1, <1>2, <1>7, StopsKeepMark DEF StopErase
<1>8. CASE StopAll(c)
  BY <1>1, <1>2, <1>8, StopsKeepMark DEF StopAll
<1>9. ASSUME NEW j \in Jobs, StopFlag(c, j) PROVE MarkInv'
  BY <1>1, <1>2, <1>9, StopsKeepMark DEF StopFlag, TypeOK
<1>10. CASE StopRecorder(c)
  BY <1>1, <1>2, <1>10, StopsKeepMark DEF StopRecorder, TypeOK
<1>11. CASE StopSource(c)
  BY <1>1, <1>2, <1>11, StopsKeepMark DEF StopSource, TypeOK
<1>12. ASSUME NEW j \in Jobs, StopJoin(c, j) PROVE MarkInv'
  BY <1>1, <1>2, <1>12, StopsKeepMark DEF StopJoin, TypeOK
<1> QED
  BY <1>3, <1>4, <1>5, <1>6, <1>7, <1>8, <1>9, <1>10, <1>11, <1>12
  DEF Request, CallerStep

(* Exactly the first segment after a reconnection carries the mark.        *)
THEOREM ReconnectIsMarked == SafeSpec => []DiscontinuityMarked
<1>1. Init => MarkInv
  BY DEF Init, MarkInv, MarkOk, NewJob, NoWriter
<1>2. MarkInv /\ UNCHANGED vars => MarkInv'
  BY DEF MarkInv, MarkOk, vars
<1>3. TypeOK /\ StopInv /\ MarkInv /\ [Next]_vars => MarkInv'
  BY <1>2, MarkThreadStep, MarkCallerStep DEF Next
<1>4. MarkInv => DiscontinuityMarked
  BY DEF MarkInv, MarkOk, DiscontinuityMarked
<1> QED  BY <1>1, <1>3, <1>4, StopInvariant, PTL DEF SafeSpec

-----------------------------------------------------------------------------
(* What a handle says about the thread: while it is empty there is no       *)
(* thread, or start() is about to assign it; a joined thread has ended.     *)
JoinInv ==
    /\ \A j \in Jobs : job[j].handle = "empty" =>
          ~Alive(j) \/ \E c \in Callers : Assigning(c, j)
    /\ \A j \in Jobs : job[j].handle = "joined" => pc[j] = "done"
    /\ \A c \in Callers : call[c].at \in {"idle", "spawn", "assign"} => call[c].toJoin = {}
    /\ \A c \in Callers, j \in Jobs : Spawning(c, j) => job[j].handle = "empty"
    /\ \A c \in Callers, j \in Jobs : Assigning(c, j) => pc[j] # "none"

LEMMA HandleKept ==
    ASSUME NEW r \in JobType
    PROVE  /\ Flagged(r).handle = r.handle /\ RecorderTold(r).handle = r.handle
           /\ SourceTold(r).handle = r.handle /\ Prepared(r).handle = r.handle
           /\ SourceCleared(r).handle = r.handle /\ Rotated(r).handle = r.handle
           /\ FirstSegment(r).handle = r.handle /\ Closed(r).handle = r.handle
           /\ MarkLost(r).handle = r.handle /\ Reconnecting(r).handle = r.handle
           /\ Assigned(r).handle = "joinable"
           /\ Joined(r).handle = IF r.handle = "joinable" THEN "joined" ELSE r.handle
           /\ NewJob.handle = "empty"
BY DEF JobType, Assigned, RecorderTold, SourceTold, Joined, Prepared, SourceCleared,
       Rotated, FirstSegment, Closed, MarkLost, Reconnecting, Flagged, NewJob

LEMMA ThreadKeepsHandles ==
    ASSUME TypeOK, NEW j \in Jobs, ThreadStep(j)
    PROVE  /\ jobs' = jobs /\ call' = call
           /\ pc[j] \notin {"none", "done"}
           /\ \A i \in Jobs : job'[i].handle = job[i].handle
           /\ \A i \in Jobs \ {j} : pc'[i] = pc[i]
<1>1. jobs' = jobs /\ call' = call
  BY DEF ThreadStep, Check, RunReset, SourceReset, SourceOpened, ReadNext, ReadPacket,
         ReadKeyFrame, ReadEnd, RunFinish, RunThrows, WriterThrows, RunLeave, RunAgain
<1>2. \A i \in Jobs \ {j} : job'[i] = job[i] /\ pc'[i] = pc[i]
  BY DEF ThreadStep, Check, RunReset, SourceReset, SourceOpened, ReadNext, ReadPacket,
         ReadKeyFrame, ReadEnd, RunFinish, RunThrows, WriterThrows, RunLeave, RunAgain, TypeOK
<1>3. job[j] \in JobType
  BY DEF TypeOK
<1>4. job'[j].handle = job[j].handle /\ pc[j] \notin {"none", "done"}
  <2> USE DEF TypeOK
  <2>1. CASE Check(j)  BY <2>1 DEF Check
  <2>2. CASE RunReset(j)  BY <2>2, <1>3, HandleKept DEF RunReset
  <2>3. CASE SourceReset(j)  BY <2>3, <1>3, HandleKept DEF SourceReset
  <2>4. CASE SourceOpened(j)  BY <2>4 DEF SourceOpened
  <2>5. CASE ReadNext(j)  BY <2>5 DEF ReadNext
  <2>6. CASE ReadPacket(j)  BY <2>6, <1>3, HandleKept DEF ReadPacket
  <2>7. CASE ReadKeyFrame(j)  BY <2>7, <1>3, HandleKept DEF ReadKeyFrame
  <2>8. CASE ReadEnd(j)  BY <2>8 DEF ReadEnd
  <2>9. CASE RunFinish(j)  BY <2>9, <1>3, HandleKept DEF RunFinish
  <2>10. CASE RunThrows(j)  BY <2>10, <1>3, HandleKept DEF RunThrows
  <2>11. CASE WriterThrows(j)  BY <2>11, <1>3, HandleKept DEF WriterThrows
  <2>12. CASE RunLeave(j)  BY <2>12 DEF RunLeave
  <2>13. CASE RunAgain(j)  BY <2>13, <1>3, HandleKept DEF RunAgain
  <2> QED
    BY <2>1, <2>2, <2>3, <2>4, <2>5, <2>6, <2>7, <2>8, <2>9, <2>10, <2>11, <2>12, <2>13
    DEF ThreadStep
<1> QED  BY <1>1, <1>2, <1>4

LEMMA JoinThreadStep ==
    ASSUME TypeOK, JoinInv, NEW j \in Jobs, ThreadStep(j)
    PROVE  JoinInv'
<1>1. jobs' = jobs /\ call' = call
  BY ThreadKeepsHandles
<1>2. pc[j] \notin {"none", "done"}
  BY ThreadKeepsHandles
<1>3. \A i \in Jobs : /\ job'[i].handle = job[i].handle
                      /\ i # j => pc'[i] = pc[i]
  BY ThreadKeepsHandles
<1>4. \A c \in Callers, i \in Jobs :
         Spawning(c, i)' = Spawning(c, i) /\ Assigning(c, i)' = Assigning(c, i)
  BY <1>1 DEF Spawning, Assigning
<1>5. job[j].handle # "joined" /\ Alive(j)
  BY <1>2 DEF JoinInv, Alive
<1>6. \A i \in Jobs : job'[i].handle = "empty" =>
         ~Alive(i)' \/ \E c \in Callers : Assigning(c, i)'
  BY <1>3, <1>4, <1>5 DEF JoinInv, Alive
<1>7. \A i \in Jobs : job'[i].handle = "joined" => pc'[i] = "done"
  BY <1>3, <1>5 DEF JoinInv
<1>8. \A i \in Jobs : pc[i] # "none" => pc'[i] # "none"
  <2>1. pc'[j] # "none"
    BY DEF ThreadStep, Check, RunReset, SourceReset, SourceOpened, ReadNext, ReadPacket,
       ReadKeyFrame, ReadEnd, RunFinish, RunThrows, WriterThrows, RunLeave, RunAgain, TypeOK
  <2> QED  BY <1>3, <2>1
<1> QED  BY <1>1, <1>3, <1>4, <1>6, <1>7, <1>8 DEF JoinInv

(* A step of a caller that does not touch the handles, or the threads.      *)
LEMMA JoinFrameStep ==
    ASSUME TypeOK, JoinInv, NEW c \in Callers, NEW f \in FrameType,
           call' = [call EXCEPT ![c] = f], pc' = pc,
           \A i \in Jobs : job'[i].handle = job[i].handle,
           call[c].at # "assign", f.at \notin {"spawn", "assign"},
           f.at = "idle" => f.toJoin = {}
    PROVE  JoinInv'
<1>1. call'[c] = f /\ \A d \in Callers \ {c} : call'[d] = call[d]
  BY DEF TypeOK
<1>2. \A d \in Callers, i \in Jobs : /\ Spawning(d, i)' => Spawning(d, i)
                                     /\ Assigning(d, i)' <=> Assigning(d, i)
  BY <1>1 DEF Spawning, Assigning
<1>3. \A i \in Jobs : Alive(i)' = Alive(i)
  BY DEF Alive
<1>4. \A i \in Jobs : job'[i].handle = "empty" =>
         ~Alive(i)' \/ \E d \in Callers : Assigning(d, i)'
  BY <1>2, <1>3 DEF JoinInv
<1> QED  BY <1>1, <1>2, <1>4 DEF JoinInv

LEMMA JoinCallerStep ==
    ASSUME TypeOK, StopInv, JoinInv, NEW c \in Callers, Request(c) \/ CallerStep(c)
    PROVE  JoinInv'
<1>1. Idle \in FrameType /\ Idle.at = "idle" /\ Idle.toFlag = {} /\ Idle.toJoin = {}
  BY FrameFields DEF Idle
<1>2. /\ call[c] \in FrameType
      /\ call[c].toFlag \in SUBSET Jobs /\ call[c].toJoin \in SUBSET Jobs
      /\ \A i \in Jobs : job[i] \in JobType
      /\ \A i \in Jobs : job[i].handle \in {"empty", "joinable", "joined"}
  BY FrameTypes DEF TypeOK, JobType
<1>3. ASSUME NEW k \in Keys, NEW j \in Jobs, StartInsert(c, k, j) PROVE JoinInv'
  <2> DEFINE new == Frame("spawn", j, {}, {})
  <2>1. new \in FrameType /\ new.at = "spawn" /\ new.cur = j /\ new.toJoin = {}
    BY FrameFields
  <2> HIDE DEF new
  <2>2. /\ call'[c] = new /\ call[c] = Idle
        /\ \A d \in Callers \ {c} : call'[d] = call[d]
    BY <1>3 DEF StartInsert, new, TypeOK
  <2>3. /\ job'[j].handle = "empty" /\ pc'[j] = "none"
        /\ \A i \in Jobs \ {j} : job'[i] = job[i] /\ pc'[i] = pc[i]
    BY <1>3, HandleKept DEF StartInsert, TypeOK
  <2>4. \A d \in Callers, i \in Jobs :
           /\ Spawning(d, i)' => Spawning(d, i) \/ i = j
           /\ Assigning(d, i) => Assigning(d, i)'
    BY <1>1, <2>1, <2>2 DEF Spawning, Assigning
  <2>5. \A i \in Jobs : job'[i].handle = "empty" =>
           ~Alive(i)' \/ \E d \in Callers : Assigning(d, i)'
    BY <2>3, <2>4 DEF JoinInv, Alive
  <2>6. \A i \in Jobs : job'[i].handle = "joined" => pc'[i] = "done"
    BY <2>3 DEF JoinInv
  <2>7. \A d \in Callers : call'[d].at \in {"idle", "spawn", "assign"} => call'[d].toJoin = {}
    BY <2>1, <2>2 DEF JoinInv
  <2>8. \A d \in Callers, i \in Jobs : Spawning(d, i)' => job'[i].handle = "empty"
    BY <2>3, <2>4 DEF JoinInv
  <2>9. \A d \in Callers, i \in Jobs : Assigning(d, i)' => pc'[i] # "none"
    <3>1. \A d \in Callers : call[d].cur # j
      BY <1>3 DEF StartInsert, Referenced, Held
    <3>2. \A d \in Callers, i \in Jobs : Assigning(d, i)' => Assigning(d, i) /\ i # j
      BY <2>1, <2>2, <3>1 DEF Assigning
    <3> QED  BY <2>3, <3>2 DEF JoinInv
  <2> QED  BY <2>5, <2>6, <2>7, <2>8, <2>9 DEF JoinInv
<1>4. CASE StartSpawn(c)
  <2> DEFINE j == call[c].cur
             new == Frame("assign", j, {}, {})
  <2>1. call[c].at = "spawn" /\ j \in Jobs /\ Spawning(c, j) /\ job[j].handle = "empty"
    BY <1>4 DEF StartSpawn, TypeOK, JoinInv, Spawning
  <2>2. new \in FrameType /\ new.at = "assign" /\ new.cur = j /\ new.toJoin = {}
    BY <2>1, FrameFields
  <2> HIDE DEF new
  <2>3. /\ call'[c] = new /\ job' = job /\ pc'[j] = "check"
        /\ \A d \in Callers \ {c} : call'[d] = call[d]
        /\ \A i \in Jobs \ {j} : pc'[i] = pc[i]
    BY <1>4, <2>1 DEF StartSpawn, new, TypeOK
  <2>4. \A d \in Callers, i \in Jobs : /\ Spawning(d, i)' => Spawning(d, i)
                                       /\ Assigning(d, i) => Assigning(d, i)'
    BY <2>1, <2>2, <2>3 DEF Spawning, Assigning
  <2>5. Assigning(c, j)'
    BY <2>2, <2>3 DEF Assigning
  <2>6. \A i \in Jobs : job'[i].handle = "empty" =>
           ~Alive(i)' \/ \E d \in Callers : Assigning(d, i)'
    <3> SUFFICES ASSUME NEW i \in Jobs, job'[i].handle = "empty"
                 PROVE  ~Alive(i)' \/ \E d \in Callers : Assigning(d, i)'
      OBVIOUS
    <3>1. CASE i = j
      <4>1. Assigning(c, i)'
        BY <2>2, <2>3, <3>1 DEF Assigning
      <4> QED  BY <4>1
    <3>2. CASE i # j
      <4>1. pc'[i] = pc[i] /\ job[i].handle = "empty"
        BY <2>3, <3>2
      <4>2. ~Alive(i) \/ \E d \in Callers : Assigning(d, i)
        BY <4>1 DEF JoinInv
      <4> QED  BY <2>4, <4>1, <4>2 DEF Alive
    <3> QED  BY <3>1, <3>2
  <2>7. \A i \in Jobs : job'[i].handle = "joined" => pc'[i] = "done"
    BY <2>1, <2>3 DEF JoinInv
  <2>8. \A d \in Callers : call'[d].at \in {"idle", "spawn", "assign"} => call'[d].toJoin = {}
    BY <2>2, <2>3 DEF JoinInv
  <2>9. \A d \in Callers, i \in Jobs : Assigning(d, i)' => pc'[i] # "none"
    <3>1. \A d \in Callers, i \in Jobs : Assigning(d, i)' => Assigning(d, i) \/ i = j
      BY <2>2, <2>3 DEF Assigning
    <3> QED  BY <2>1, <2>3, <3>1 DEF JoinInv
  <2> QED  BY <2>3, <2>4, <2>6, <2>7, <2>8, <2>9 DEF JoinInv
<1>5. CASE StartSpawnFails(c)
  BY <1>1, <1>5, JoinFrameStep DEF StartSpawnFails
<1>6. CASE StartAssign(c)
  <2> DEFINE j == call[c].cur
  <2>1. call[c].at = "assign" /\ j \in Jobs
    BY <1>6 DEF StartAssign, TypeOK
  <2>2. /\ call'[c] = Idle /\ pc' = pc
        /\ \A d \in Callers \ {c} : call'[d] = call[d]
        /\ job'[j].handle = "joinable" /\ \A i \in Jobs \ {j} : job'[i] = job[i]
    BY <1>2, <1>6, <2>1, HandleKept DEF StartAssign, TypeOK
  <2>3. \A d \in Callers, i \in Jobs :
           /\ Spawning(d, i)' => Spawning(d, i) /\ d # c
           /\ Assigning(d, i) => Assigning(d, i)' \/ i = j
    BY <1>1, <2>1, <2>2 DEF Spawning, Assigning
  <2>4. \A i \in Jobs : job'[i].handle = "empty" =>
           ~Alive(i)' \/ \E d \in Callers : Assigning(d, i)'
    BY <2>2, <2>3 DEF JoinInv, Alive
  <2>5. \A i \in Jobs : job'[i].handle = "joined" => pc'[i] = "done"
    BY <2>2 DEF JoinInv
  <2>6. \A d \in Callers : call'[d].at \in {"idle", "spawn", "assign"} => call'[d].toJoin = {}
    BY <1>1, <2>2 DEF JoinInv
  <2>7. \A d \in Callers, i \in Jobs : Spawning(d, i)' => job'[i].handle = "empty"
    <3>1. pc[j] # "none"
      BY <2>1 DEF JoinInv, Assigning
    <3>2. \A d \in Callers : ~Spawning(d, j)
      BY <3>1 DEF StopInv, Spawning
    <3> QED  BY <2>2, <2>3, <3>2 DEF JoinInv
  <2>8. \A d \in Callers, i \in Jobs : Assigning(d, i)' => pc'[i] # "none"
    <3>1. \A d \in Callers, i \in Jobs : Assigning(d, i)' => Assigning(d, i)
      BY <1>1, <2>2 DEF Assigning
    <3> QED  BY <2>2, <3>1 DEF JoinInv
  <2> QED  BY <2>4, <2>5, <2>6, <2>7, <2>8 DEF JoinInv
<1>7. ASSUME NEW k \in Keys, StopErase(c, k) PROVE JoinInv'
  <2> DEFINE new == Frame("flag", NoJob, {jobs[k]}, {jobs[k]})
  <2>1. jobs[k] \in Jobs /\ call[c] = Idle
    BY <1>7 DEF StopErase, Found, TypeOK
  <2>2. new \in FrameType /\ new.at = "flag"
    BY <2>1, FrameFields
  <2>3. call' = [call EXCEPT ![c] = new] /\ UNCHANGED <<job, pc>>
    BY <1>7 DEF StopErase
  <2> HIDE DEF new
  <2> QED  BY <1>1, <2>1, <2>2, <2>3, JoinFrameStep
<1>8. CASE StopAll(c)
  <2> DEFINE all == {jobs[k] : k \in Keys} \ {NoJob}
             new == Frame("flag", NoJob, all, all)
  <2>1. all \in SUBSET Jobs /\ call[c] = Idle /\ job' = job /\ pc' = pc
    BY <1>8 DEF StopAll, TypeOK
  <2>2. call' = IF all = {} THEN call ELSE [call EXCEPT ![c] = new]
    BY <1>8 DEF StopAll
  <2> HIDE DEF all
  <2>3. new \in FrameType /\ new.at = "flag"
    BY <2>1, FrameFields
  <2> HIDE DEF new
  <2>4. CASE all = {}
    <3>1. call' = call
      BY <2>2, <2>4
    <3> QED  BY <2>1, <3>1 DEF JoinInv, Alive, Assigning, Spawning
  <2>5. CASE all # {}
    BY <1>1, <2>1, <2>2, <2>3, <2>5, JoinFrameStep
  <2> QED  BY <2>4, <2>5
<1>9. ASSUME NEW j \in Jobs, StopFlag(c, j) PROVE JoinInv'
  <2> DEFINE new == Frame("recorder", j, call[c].toFlag, call[c].toJoin)
  <2>1. new \in FrameType /\ new.at = "recorder"
    BY <1>2, FrameFields
  <2> HIDE DEF new
  <2>2. /\ call' = [call EXCEPT ![c] = new] /\ pc' = pc
        /\ job' = [job EXCEPT ![j] = Flagged(@)] /\ call[c].at = "flag"
    BY <1>9 DEF StopFlag, new
  <2>3. \A i \in Jobs : job'[i].handle = job[i].handle
    BY <1>2, <2>2, HandleKept DEF TypeOK
  <2> QED  BY <2>1, <2>2, <2>3, JoinFrameStep
<1>10. CASE StopRecorder(c)
  <2> DEFINE new == Frame("source", call[c].cur, call[c].toFlag, call[c].toJoin)
  <2>1. call[c].at = "recorder" /\ call[c].cur \in Jobs
    BY <1>10 DEF StopRecorder, TypeOK
  <2>2. new \in FrameType /\ new.at = "source"
    BY <1>2, <2>1, FrameFields
  <2> HIDE DEF new
  <2>3. /\ call' = [call EXCEPT ![c] = new] /\ pc' = pc
        /\ job' = [job EXCEPT ![call[c].cur] = RecorderTold(@)]
    BY <1>10 DEF StopRecorder, new
  <2>4. \A i \in Jobs : job'[i].handle = job[i].handle
    BY <1>2, <2>1, <2>3, HandleKept DEF TypeOK
  <2> QED  BY <2>1, <2>2, <2>3, <2>4, JoinFrameStep
<1>11. CASE StopSource(c)
  <2> DEFINE left == call[c].toFlag \ {call[c].cur}
             at == IF left = {} THEN "join" ELSE "flag"
             new == Frame(at, NoJob, left, call[c].toJoin)
  <2>1. call[c].at = "source" /\ call[c].cur \in Jobs
    BY <1>11 DEF StopSource, TypeOK
  <2>2. left \in SUBSET Jobs /\ call[c].toJoin \in SUBSET Jobs
    BY <1>2
  <2>3. /\ call' = [call EXCEPT ![c] = new] /\ pc' = pc
        /\ job' = [job EXCEPT ![call[c].cur] = SourceTold(@)]
    BY <1>11 DEF StopSource
  <2> HIDE DEF left
  <2>4. at \in {"join", "flag"}
    OBVIOUS
  <2> HIDE DEF at
  <2>5. new \in FrameType /\ new.at = at
    BY <1>2, <2>2, <2>4, FrameFields
  <2> HIDE DEF new
  <2>6. \A i \in Jobs : job'[i].handle = job[i].handle
    BY <1>2, <2>1, <2>3, HandleKept DEF TypeOK
  <2> QED  BY <2>1, <2>3, <2>4, <2>5, <2>6, JoinFrameStep
<1>12. ASSUME NEW j \in Jobs, StopJoin(c, j) PROVE JoinInv'
  <2> DEFINE left == call[c].toJoin \ {j}
             new == IF left = {} THEN Idle ELSE Frame("join", NoJob, {}, left)
  <2>1. left \in SUBSET Jobs
    BY <1>2
  <2>2. /\ call' = [call EXCEPT ![c] = new] /\ pc' = pc
        /\ job' = [job EXCEPT ![j] = Joined(@)] /\ call[c].at = "join" /\ MayPass(j)
    BY <1>12 DEF StopJoin
  <2> HIDE DEF left
  <2>3. LET f == Frame("join", NoJob, {}, left)
        IN  f \in FrameType /\ f.at = "join" /\ f.toJoin = left
    BY <2>1, FrameFields
  <2>4. new.at \in {"idle", "join"} /\ (new.at = "idle" => new.toJoin = {})
    BY <1>1, <2>3
  <2> HIDE DEF new
  <2>5. call'[c] = new /\ \A d \in Callers \ {c} : call'[d] = call[d]
    BY <2>2 DEF TypeOK
  <2>6. /\ job'[j].handle = IF job[j].handle = "joinable" THEN "joined" ELSE job[j].handle
        /\ \A i \in Jobs \ {j} : job'[i] = job[i]
    BY <1>2, <2>2, HandleKept DEF TypeOK
  <2>7. \A d \in Callers, i \in Jobs :
           /\ Spawning(d, i)' => Spawning(d, i)
           /\ Assigning(d, i) => Assigning(d, i)'
    BY <2>2, <2>4, <2>5 DEF Spawning, Assigning
  <2>8. \A i \in Jobs : job'[i].handle = "empty" =>
           ~Alive(i)' \/ \E d \in Callers : Assigning(d, i)'
    BY <2>2, <2>6, <2>7 DEF JoinInv, Alive
  <2>9. \A i \in Jobs : job'[i].handle = "joined" => pc'[i] = "done"
    BY <2>2, <2>6 DEF JoinInv, MayPass
  <2>10. \A d \in Callers : call'[d].at \in {"idle", "spawn", "assign"} => call'[d].toJoin = {}
    BY <2>4, <2>5 DEF JoinInv
  <2>11. \A d \in Callers, i \in Jobs : Spawning(d, i)' => job'[i].handle = "empty"
    BY <2>6, <2>7 DEF JoinInv
  <2>12. \A d \in Callers, i \in Jobs : Assigning(d, i)' => pc'[i] # "none"
    <3>1. \A d \in Callers, i \in Jobs : Assigning(d, i)' => Assigning(d, i)
      BY <2>4, <2>5 DEF Assigning
    <3> QED  BY <2>2, <3>1 DEF JoinInv
  <2> QED  BY <2>8, <2>9, <2>10, <2>11, <2>12 DEF JoinInv
<1> QED
  BY <1>3, <1>4, <1>5, <1>6, <1>7, <1>8, <1>9, <1>10, <1>11, <1>12 DEF Request, CallerStep

LEMMA JoinInvariant == SafeSpec => [](TypeOK /\ StopInv /\ JoinInv)
<1>1. Init => JoinInv
  <2> SUFFICES ASSUME Init PROVE JoinInv
    OBVIOUS
  <2>1. Idle.at = "idle" /\ Idle.toJoin = {}
    BY FrameFields DEF Idle
  <2>2. \A c \in Callers : call[c].at = "idle" /\ call[c].toJoin = {}
    BY <2>1 DEF Init
  <2>3. \A j \in Jobs : job[j].handle = "empty" /\ pc[j] = "none"
    BY DEF Init, NewJob
  <2> QED  BY <2>2, <2>3 DEF JoinInv, Spawning, Assigning, Alive
<1>2. JoinInv /\ UNCHANGED vars => JoinInv'
  BY DEF JoinInv, vars, Alive, Spawning, Assigning
<1>3. TypeOK /\ StopInv /\ JoinInv /\ [Next]_vars => JoinInv'
  BY <1>2, JoinThreadStep, JoinCallerStep DEF Next
<1> QED  BY <1>1, <1>3, StopInvariant, PTL DEF SafeSpec

LEMMA OtherFramesKept ==
    ASSUME TypeOK, NEW c \in Callers, Request(c) \/ CallerStep(c)
    PROVE  \A d \in Callers \ {c} : call'[d] = call[d]
<1> USE DEF TypeOK
<1>1. ASSUME NEW k \in Keys, NEW j \in Jobs, StartInsert(c, k, j)
      PROVE  \A d \in Callers \ {c} : call'[d] = call[d]
  BY <1>1 DEF StartInsert
<1>2. CASE StartSpawn(c)  BY <1>2 DEF StartSpawn
<1>3. CASE StartSpawnFails(c)  BY <1>3 DEF StartSpawnFails
<1>4. CASE StartAssign(c)  BY <1>4 DEF StartAssign
<1>5. ASSUME NEW k \in Keys, StopErase(c, k)
      PROVE  \A d \in Callers \ {c} : call'[d] = call[d]
  BY <1>5 DEF StopErase
<1>6. CASE StopAll(c)
  <2> DEFINE all == {jobs[k] : k \in Keys} \ {NoJob}
             new == Frame("flag", NoJob, all, all)
  <2>1. call' = IF all = {} THEN call ELSE [call EXCEPT ![c] = new]
    BY <1>6 DEF StopAll
  <2> HIDE DEF all, new
  <2> QED  BY <2>1
<1>7. ASSUME NEW j \in Jobs, StopFlag(c, j)
      PROVE  \A d \in Callers \ {c} : call'[d] = call[d]
  BY <1>7 DEF StopFlag
<1>8. CASE StopRecorder(c)  BY <1>8 DEF StopRecorder
<1>9. CASE StopSource(c)  BY <1>9 DEF StopSource
<1>10. ASSUME NEW j \in Jobs, StopJoin(c, j)
       PROVE  \A d \in Callers \ {c} : call'[d] = call[d]
  BY <1>10 DEF StopJoin
<1> QED
  BY <1>1, <1>2, <1>3, <1>4, <1>5, <1>6, <1>7, <1>8, <1>9, <1>10 DEF Request, CallerStep

(* The only step by which a caller has one job less to join.                *)
LEMMA LeavesByJoin ==
    ASSUME TypeOK, JoinInv, Next, NEW c \in Callers, NEW j \in Jobs, Left(c, j)
    PROVE  StopJoin(c, j)
<1>1. /\ call[c].at \notin {"idle", "spawn", "assign"}
      /\ call[c].toFlag \in SUBSET Jobs /\ call[c].toJoin \in SUBSET Jobs
  BY FrameTypes DEF Left, JoinInv, TypeOK
<1>2. ~\E i \in Jobs : ThreadStep(i)
  BY DEF Left, ThreadStep, Check, RunReset, SourceReset, SourceOpened, ReadNext, ReadPacket,
     ReadKeyFrame, ReadEnd, RunFinish, RunThrows, WriterThrows, RunLeave, RunAgain
<1>3. PICK d \in Callers : Request(d) \/ CallerStep(d)
  BY <1>2 DEF Next
<1>4. d = c
  BY <1>3, OtherFramesKept DEF Left
<1>5. ~Request(c)
  <2>1. Idle.at = "idle"
    BY DEF Idle, Frame
  <2>2. call[c] # Idle
    BY <1>1, <2>1
  <2>3. ~StopAll(c) /\ \A k \in Keys : ~StopErase(c, k) /\ \A i \in Jobs : ~StartInsert(c, k, i)
    BY <2>2 DEF StartInsert, StopErase, StopAll
  <2> QED  BY <2>3 DEF Request
<1>6. PICK i \in Jobs : StopFlag(c, i) \/ StopRecorder(c) \/ StopSource(c) \/ StopJoin(c, i)
  BY <1>1, <1>3, <1>4, <1>5 DEF CallerStep, StartSpawn, StartSpawnFails, StartAssign, Left
<1>7. ~StopFlag(c, i)
  <2>1. Frame("recorder", i, call[c].toFlag, call[c].toJoin).toJoin = call[c].toJoin
    BY <1>1, FrameFields
  <2> QED  BY <2>1 DEF StopFlag, TypeOK, Left
<1>8. ~StopRecorder(c)
  <2>1. Frame("source", call[c].cur, call[c].toFlag, call[c].toJoin).toJoin = call[c].toJoin
    BY DEF Frame
  <2> QED  BY <2>1 DEF StopRecorder, TypeOK, Left
<1>9. ~StopSource(c)
  <2> DEFINE left == call[c].toFlag \ {call[c].cur}
             at == IF left = {} THEN "join" ELSE "flag"
             new == Frame(at, NoJob, left, call[c].toJoin)
  <2>1. new.toJoin = call[c].toJoin
    BY DEF Frame
  <2>2. StopSource(c) => call' = [call EXCEPT ![c] = new]
    BY DEF StopSource
  <2> HIDE DEF new
  <2> QED  BY <2>1, <2>2 DEF TypeOK, Left
<1>10. StopJoin(c, i)
  BY <1>6, <1>7, <1>8, <1>9
<1>11. i = j
  <2> DEFINE left == call[c].toJoin \ {i}
             new == IF left = {} THEN Idle ELSE Frame("join", NoJob, {}, left)
  <2>1. left = {} \/ new.toJoin = left
    BY DEF Frame
  <2>2. call'[c] = new
    BY <1>10 DEF StopJoin, TypeOK
  <2> HIDE DEF new
  <2> QED  BY <2>1, <2>2 DEF Left
<1> QED  BY <1>10, <1>11

(* When a stop leaves a job, its thread has ended: it was joined, or it was *)
(* never created, or start() has created it and not assigned it yet. Calls  *)
(* may overlap as they like.                                                *)
THEOREM StopsWaitForThreads == SafeSpec => StopWaitsOutsideStart
<1> DEFINE Waits == \A c \in Callers, j \in Jobs :
                       Left(c, j) => ~Alive(j)' \/ \E d \in Callers : Assigning(d, j)
<1>1. ASSUME TypeOK, JoinInv, Next PROVE Waits
  <2>1. ASSUME NEW c \in Callers, NEW j \in Jobs, Left(c, j), ~\E d \in Callers : Assigning(d, j)
        PROVE  ~Alive(j)'
    <3>1. StopJoin(c, j)
      BY <1>1, <2>1, LeavesByJoin
    <3>2. pc' = pc /\ MayPass(j) /\ job[j].handle \in {"empty", "joinable", "joined"}
      BY <1>1, <3>1 DEF StopJoin, TypeOK, JobType
    <3>3. ~Alive(j)
      BY <1>1, <2>1, <3>2 DEF JoinInv, MayPass, Alive
    <3> QED  BY <3>2, <3>3 DEF Alive
  <2> QED  BY <2>1
<1>2. TypeOK /\ JoinInv /\ [Next]_vars => [Waits]_vars
  BY <1>1
<1> QED  BY <1>2, JoinInvariant, PTL DEF SafeSpec, StopWaitsOutsideStart

(* Who can leave a thread object behind: what an assignment finds is not    *)
(* in the table any more, and whoever takes a job out of the table joins it.*)
LEMMA HandleLeft ==
    ASSUME TypeOK, StopInv, JoinInv, Next, NEW j \in Jobs, ~Unjoined(j), Unjoined(j)'
    PROVE  \E c \in Callers : Assigning(c, j) /\ ~Registered(j)
<1>1. SUFFICES ASSUME ~\E c \in Callers : Assigning(c, j) /\ ~Registered(j)
               PROVE  FALSE
  OBVIOUS
<1>2. /\ job'[j].handle = "joinable"
      /\ ~Registered(j)' /\ \A c \in Callers : j \notin call'[c].toJoin
  BY DEF Unjoined
<1>3. ASSUME NEW i \in Jobs, ThreadStep(i) PROVE FALSE
  <2>1. jobs' = jobs /\ call' = call
    BY <1>3 DEF ThreadStep, Check, RunReset, SourceReset, SourceOpened, ReadNext, ReadPacket,
       ReadKeyFrame, ReadEnd, RunFinish, RunThrows, WriterThrows, RunLeave, RunAgain
  <2>2. job'[j].handle = job[j].handle
    BY <1>3, ThreadKeepsHandles
  <2> QED  BY <1>2, <2>1, <2>2 DEF Unjoined, Registered
<1>4. PICK c \in Callers : Request(c) \/ CallerStep(c)
  BY <1>3 DEF Next
<1>5. /\ call[c] \in FrameType
      /\ call[c].toFlag \in SUBSET Jobs /\ call[c].toJoin \in SUBSET Jobs
      /\ \A i \in Jobs : job[i] \in JobType
  BY FrameTypes DEF TypeOK
<1>6. ASSUME jobs' = jobs, job'[j].handle = job[j].handle,
             \A d \in Callers \ {c} : call'[d] = call[d],
             j \in call[c].toJoin => j \in call'[c].toJoin
      PROVE  FALSE
  BY <1>2, <1>6 DEF Unjoined, Registered
<1>7. Idle.at = "idle" /\ Idle.toJoin = {}
  BY FrameFields DEF Idle
<1>8. \A d \in Callers \ {c} : call'[d] = call[d]
  BY <1>4, OtherFramesKept
<1>9. ASSUME NEW k \in Keys, NEW i \in Jobs, StartInsert(c, k, i) PROVE FALSE
  <2>1. i # j
    BY <1>2, <1>9, HandleKept DEF StartInsert, TypeOK
  <2>2. jobs' = [jobs EXCEPT ![k] = i] /\ jobs[k] = NoJob /\ job'[j] = job[j]
    BY <1>9, <2>1 DEF StartInsert, FreeKey, TypeOK
  <2>3. Registered(j) => Registered(j)'
    BY <2>2, NullJob DEF Registered, TypeOK
  <2>4. call[c].toJoin = {}
    BY <1>7, <1>9 DEF StartInsert
  <2> QED  BY <1>2, <1>8, <2>2, <2>3, <2>4 DEF Unjoined
<1>10. ~StartSpawn(c)
  <2>1. StartSpawn(c) => jobs' = jobs /\ job' = job /\ call[c].toJoin = {}
    BY DEF StartSpawn, JoinInv
  <2> QED  BY <1>6, <1>8, <2>1
<1>11. ~StartSpawnFails(c)
  <2>1. StartSpawnFails(c) => jobs' = jobs /\ job' = job /\ call[c].toJoin = {}
    BY DEF StartSpawnFails, JoinInv
  <2> QED  BY <1>6, <1>8, <2>1
<1>12. CASE StartAssign(c)
  <2>1. jobs' = jobs /\ call[c].at = "assign" /\ call[c].toJoin = {}
    BY <1>12 DEF StartAssign, JoinInv
  <2>2. CASE call[c].cur = j
    BY <1>1, <1>2, <2>1, <2>2 DEF Assigning, Registered
  <2>3. CASE call[c].cur # j
    <3>1. job'[j] = job[j]
      BY <1>12, <2>3 DEF StartAssign, TypeOK
    <3> QED  BY <1>6, <1>8, <2>1, <3>1
  <2> QED  BY <2>2, <2>3
<1>13. ASSUME NEW k \in Keys, StopErase(c, k) PROVE FALSE
  <2> DEFINE new == Frame("flag", NoJob, {jobs[k]}, {jobs[k]})
  <2>1. jobs[k] \in Jobs /\ call[c].toJoin = {}
    BY <1>7, <1>13 DEF StopErase, Found, TypeOK
  <2>2. new.toJoin = {jobs[k]}
    BY DEF Frame
  <2> HIDE DEF new
  <2>3. jobs' = [jobs EXCEPT ![k] = NoJob] /\ call'[c] = new /\ job' = job
    BY <1>13 DEF StopErase, new, TypeOK
  <2>4. jobs[k] # j
    BY <1>2, <2>2, <2>3
  <2>5. Registered(j) => Registered(j)'
    BY <2>3, <2>4 DEF Registered, TypeOK
  <2> QED  BY <1>2, <1>8, <2>1, <2>3, <2>5 DEF Unjoined
<1>14. CASE StopAll(c)
  <2> DEFINE all == {jobs[k] : k \in Keys} \ {NoJob}
             new == Frame("flag", NoJob, all, all)
  <2>1. job' = job /\ call[c].toJoin = {} /\ (Registered(j) => j \in all)
    BY <1>7, <1>14, NullJob DEF StopAll, Registered
  <2>2. call' = IF all = {} THEN call ELSE [call EXCEPT ![c] = new]
    BY <1>14 DEF StopAll
  <2>3. new.toJoin = all
    BY DEF Frame
  <2> HIDE DEF all, new
  <2>4. j \notin all
    BY <1>2, <2>2, <2>3 DEF TypeOK
  <2> QED  BY <1>2, <1>8, <2>1, <2>4 DEF Unjoined
<1>15. ASSUME NEW i \in Jobs, StopFlag(c, i) PROVE FALSE
  <2> DEFINE new == Frame("recorder", i, call[c].toFlag, call[c].toJoin)
  <2>1. new.toJoin = call[c].toJoin
    BY DEF Frame
  <2> HIDE DEF new
  <2>2. jobs' = jobs /\ call'[c] = new
    BY <1>15 DEF StopFlag, new, TypeOK
  <2>3. job'[j].handle = job[j].handle
    BY <1>5, <1>15, HandleKept DEF StopFlag, TypeOK
  <2> QED  BY <1>6, <1>8, <2>1, <2>2, <2>3
<1>16. CASE StopRecorder(c)
  <2> DEFINE new == Frame("source", call[c].cur, call[c].toFlag, call[c].toJoin)
  <2>1. new.toJoin = call[c].toJoin
    BY DEF Frame
  <2> HIDE DEF new
  <2>2. jobs' = jobs /\ call'[c] = new
    BY <1>16 DEF StopRecorder, new, TypeOK
  <2>3. job'[j].handle = job[j].handle
    BY <1>5, <1>16, HandleKept DEF StopRecorder, TypeOK
  <2> QED  BY <1>6, <1>8, <2>1, <2>2, <2>3
<1>17. CASE StopSource(c)
  <2> DEFINE left == call[c].toFlag \ {call[c].cur}
             at == IF left = {} THEN "join" ELSE "flag"
             new == Frame(at, NoJob, left, call[c].toJoin)
  <2>1. new.toJoin = call[c].toJoin
    BY DEF Frame
  <2>2. jobs' = jobs /\ call' = [call EXCEPT ![c] = new]
    BY <1>17 DEF StopSource
  <2> HIDE DEF new
  <2>3. job'[j].handle = job[j].handle
    BY <1>5, <1>17, HandleKept DEF StopSource, TypeOK
  <2> QED  BY <1>6, <1>8, <2>1, <2>2, <2>3 DEF TypeOK
<1>18. ASSUME NEW i \in Jobs, StopJoin(c, i) PROVE FALSE
  <2> DEFINE left == call[c].toJoin \ {i}
             new == IF left = {} THEN Idle ELSE Frame("join", NoJob, {}, left)
  <2>1. jobs' = jobs /\ call' = [call EXCEPT ![c] = new] /\ job' = [job EXCEPT ![i] = Joined(@)]
    BY <1>18 DEF StopJoin
  <2>2. Joined(job[i]).handle # "joinable"
    BY <1>5, HandleKept
  <2>3. i # j /\ job'[j] = job[j]
    BY <1>2, <2>1, <2>2 DEF TypeOK
  <2>4. left # {} => new.toJoin = left
    BY DEF Frame
  <2>5. j \in call[c].toJoin => j \in left
    BY <2>3
  <2> HIDE DEF left, new
  <2>6. call'[c] = new
    BY <2>1 DEF TypeOK
  <2> QED  BY <1>6, <1>8, <2>1, <2>3, <2>4, <2>5, <2>6
<1> QED
  BY <1>4, <1>9, <1>10, <1>11, <1>12, <1>13, <1>14, <1>15, <1>16, <1>17, <1>18
  DEF Request, CallerStep

(* No thread object is left behind that nobody joins, but by a start() that *)
(* assigns it after a stop() has taken its job out of the table.            *)
THEOREM HandlesAreJoinedByStops == SafeSpec => HandlesAreJoined
<1> DEFINE Kept == \A j \in Jobs : Unjoined(j)' =>
                      Unjoined(j) \/ \E c \in Callers : Assigning(c, j) /\ ~Registered(j)
<1>1. TypeOK /\ StopInv /\ JoinInv /\ [Next]_vars => [Kept]_vars
  BY HandleLeft
<1> QED  BY <1>1, JoinInvariant, PTL DEF SafeSpec, HandlesAreJoined
=============================================================================
