------------------------ MODULE RecordingStoreProofs ------------------------
(***************************************************************************)
(* Proofs about RecordingStore for any number of recorders and playbacks,  *)
(* any capacity, lifetime and resolution of file names, and any number of  *)
(* segments, crashes and units of time.  A segment is what somebody holds  *)
(* of a take: a row of the index, what a recorder is writing or about to   *)
(* index, or what a playback has found.  The inductive invariant says how  *)
(* segments share takes and names (Named, OwnTakes), which files still     *)
(* hold them (Kept, Sealed) and what the maintenance thread knows (Scan).  *)
(***************************************************************************)
EXTENDS RecordingStore, FiniteSetTheorems, TLAPS

(* The records that rows, recorders, maintenance and playbacks hold.        *)
Rows == [id : Nat, path : Paths, start : Times, end : Nat, size : {0, 1},
         checksum : Takes, take : Takes]
Opened == [path : Paths, start : Times, take : Takes]
Finished ==
    {s \in [path : Paths, start : Times, take : Takes, end : Nat, size : {0, 1},
            checksum : Takes] : s.start < s.end}

RecorderState ==
    [at : {"running"}, current : {NoSegment}, sequence : Takes]
        \cup [at : {"writing"}, current : Opened, sequence : Takes]
        \cup [at : {"closed"}, current : Finished, sequence : Takes]
MaintenanceState ==
    [at : {"asleep", "scanning", "missing", "reclaiming", "removed"}, todo : SUBSET Rows,
     since : Nat, remaining : Nat, row : Rows \cup {NoSegment}]
PlayerState ==
    [at : {"out", "listed", "found"}, url : Signed \cup {NoUrl}, id : Nat,
     row : Rows \cup {NoSegment}]

StateOK ==
    /\ recorder \in [Recorders -> RecorderState]
    /\ \A r \in Recorders : recorder[r].sequence <= takes
    /\ mt \in MaintenanceState
    /\ player \in [Players -> PlayerState]
    /\ \A p \in Players : PlayerIs(p, "found") => player[p].row \in Rows
    /\ rows \subseteq Rows /\ IsFiniteSet(rows)
    /\ \A s, t \in rows : s.id = t.id => s = t
    /\ \A p \in Paths : names[p] <= takes

(* Segments: what is written or to be indexed, indexed, or was found.       *)
Open == {r \in Recorders : recorder[r].at \in {"writing", "closed"}}
Closed == {r \in Recorders : RecorderIs(r, "closed")}
Found == {player[p].row : p \in {q \in Players : PlayerIs(q, "found")}}
Segments == rows \cup {Current(r) : r \in Open} \cup Found

(* A segment's name was given out; two takes of one name make it reused.    *)
Named ==
    /\ \A s \in Segments : s.take \in 1..takes /\ names[s.path] > 0
    /\ \A s, t \in Segments : s.path = t.path /\ s.take # t.take => s.path \in Reused

(* No take is indexed twice, and none that is still in a recorder's hands.  *)
OwnTakes ==
    /\ \A s, t \in rows : s.take = t.take => s = t
    /\ \A s \in rows : \A r \in Open : s.take # Current(r).take
    /\ \A r, q \in Open : r # q => Current(r).take # Current(q).take

(* Nobody touches the file of a segment before it is indexed.              *)
Kept == \A r \in Open : disk[Current(r).path] = Current(r).take \/ Current(r).path \in Reused

(* From its measurement on, a file is complete, and it may only go away.    *)
Sealed == \A s \in rows \cup {Current(r) : r \in Closed} \cup Found :
    \/ s.path \in Reused \/ s.size = 0
    \/ disk[s.path] \in {s.take, 0} /\ s.take \notin unfinished

(* The maintenance thread alone erases rows: the rows it has listed are     *)
(* still there, and it has not counted more than there are.                *)
Scan ==
    /\ mt.todo \subseteq rows
    /\ mt.at \in {"missing", "reclaiming", "removed"} => mt.row \in rows \ mt.todo
    /\ mt.at = "reclaiming" => TooOld(mt.row) \/ TooMuch
    /\ mt.at = "removed" => disk[mt.row.path] # mt.row.take
    /\ mt.at # "asleep" => mt.since <= now /\ mt.remaining <= Sized(rows)

(* The window is checked with the row that is sent.                        *)
Granting == \A p \in Players : PlayerIs(p, "found") => InWindow(player[p].row, player[p].url)

IInv ==
    /\ TypeOK /\ StateOK /\ Named /\ OwnTakes /\ Kept /\ Sealed /\ Scan /\ Granting
-----------------------------------------------------------------------------
LEMMA Quotients ==
    ASSUME NEW a \in Nat, NEW b \in Nat \ {0}
    PROVE  a \div b \in 0..a
<1>1. a \div b \in Int /\ a = b * (a \div b) + (a % b) /\ a % b \in 0..(b - 1)
  OBVIOUS
<1> DEFINE q == a \div b
<1> HIDE DEF q
<1>2. q \in Int /\ a - b * q \in 0..(b-1)
  BY <1>1 DEF q
<1>3. q >= 0
  BY <1>2
<1>4. q <= a
  BY <1>2, <1>3
<1> QED  BY <1>2, <1>3, <1>4 DEF q

LEMMA RecorderFields ==
    ASSUME StateOK, NEW r \in Recorders
    PROVE  /\ recorder[r].at \in {"running", "writing", "closed"}
           /\ recorder[r].sequence \in Takes /\ recorder[r].sequence <= takes
           /\ recorder[r].at = "running" => Current(r) = NoSegment
           /\ recorder[r].at = "writing" => Current(r) \in Opened
           /\ recorder[r].at = "closed" => Current(r) \in Finished
           /\ recorder[r].at # "running" =>
                  Current(r).path \in Paths /\ Current(r).take \in Takes
BY DEF StateOK, RecorderState, Current, Opened, Finished

LEMMA NextNames ==
    ASSUME TypeOK, StateOK, NEW r \in Recorders
    PROVE  NextName(r) \in Paths
<1>1. recorder[r].sequence \in 0..takes /\ takes \in 0..MaxTakes /\ MaxTakes \in Nat
  BY RecorderFields, Numbers DEF TypeOK, Takes
<1>2. now \div Second \in 0..now /\ now \in 0..MaxTime /\ MaxTime \in Nat
  BY Quotients, SecondIsPositive, Numbers DEF TypeOK, Times
<1>3. now \div Second \in Times /\ recorder[r].sequence \in 0..MaxTakes
  BY <1>1, <1>2 DEF Times
<1> QED  BY <1>3 DEF NextName, PathFor, Paths, Channels

(* What becomes of a recorder: it opens a file, leaves, measures what it    *)
(* has written, or goes on to its next segment.                            *)
LEMMA OpenSegmentMoves ==
    ASSUME TypeOK, StateOK, NEW r \in Recorders, OpenSegment(r)
    PROVE  /\ recorder'[r].at = "writing" /\ Current(r)'.path = NextName(r)
           /\ Current(r)'.take = takes + 1
           /\ takes' = takes + 1 /\ takes' \in Takes /\ takes \in Nat
           /\ recorder' \in [Recorders -> RecorderState]
           /\ \A q \in Recorders : recorder'[q].sequence <= takes'
           /\ \A q \in Recorders \ {r} : recorder'[q] = recorder[q]
<1> DEFINE current == [path |-> NextName(r), start |-> now, take |-> takes']
           s == [at |-> "writing", sequence |-> recorder[r].sequence + 1, current |-> current]
<1>1. recorder' = [recorder EXCEPT ![r] = s] /\ recorder \in [Recorders -> RecorderState]
  BY DEF OpenSegment, StateOK
<1>2. takes' = takes + 1 /\ takes' \in Takes /\ takes \in Nat
  BY Numbers DEF OpenSegment, TypeOK, Takes
<1>3. current \in Opened
  BY <1>2, NextNames DEF TypeOK, Opened
<1>4. recorder[r].sequence + 1 \in Takes /\ recorder[r].sequence + 1 <= takes'
  BY <1>2, RecorderFields, Numbers DEF Takes
<1>5. s \in RecorderState
  <2> HIDE DEF current
  <2> QED  BY <1>3, <1>4 DEF RecorderState
<1>6. /\ recorder' \in [Recorders -> RecorderState] /\ recorder'[r] = s
      /\ \A q \in Recorders \ {r} : recorder'[q] = recorder[q]
  BY <1>1, <1>5
<1>7. \A q \in Recorders : recorder[q].sequence <= takes /\ recorder[q].sequence \in Nat
  BY RecorderFields, Numbers DEF Takes
<1>8. \A q \in Recorders : recorder'[q].sequence <= takes'
  BY <1>2, <1>4, <1>6, <1>7
<1> QED  BY <1>2, <1>6, <1>8 DEF Current

LEMMA LeavesMoves ==
    ASSUME TypeOK, StateOK, NEW r \in Recorders, RunLeaves(r) \/ IndexThrows(r)
    PROVE  /\ recorder'[r].at = "running" /\ takes' = takes
           /\ recorder' \in [Recorders -> RecorderState]
           /\ \A q \in Recorders : recorder'[q].sequence <= takes
           /\ \A q \in Recorders \ {r} : recorder'[q] = recorder[q]
<1>1. 0 \in Takes /\ takes \in Nat
  BY Numbers DEF TypeOK, Takes
<1>2. FreshRun \in RecorderState /\ FreshRun.at = "running" /\ FreshRun.sequence = 0
  BY <1>1 DEF FreshRun, RecorderState
<1>3. recorder' = [recorder EXCEPT ![r] = FreshRun] /\ takes' = takes
  BY DEF RunLeaves, IndexThrows, history
<1> QED  BY <1>1, <1>2, <1>3 DEF StateOK

LEMMA MeasuredFields ==
    ASSUME TypeOK, NEW s \in Opened
    PROVE  /\ Measured(s) \in Finished
           /\ Measured(s).path = s.path /\ Measured(s).take = s.take
           /\ Measured(s).size = 0 \/ online
<1>1. now \in Nat /\ s.start \in Nat /\ 0 \in Takes /\ disk[s.path] \in Takes
  BY Numbers DEF TypeOK, Times, Takes, Opened
<1>2. /\ (IF now > s.start THEN now ELSE s.start + 1) \in Nat
      /\ s.start < IF now > s.start THEN now ELSE s.start + 1
      /\ (IF Readable(s.path) THEN disk[s.path] ELSE 0) \in Takes
  BY <1>1
<1> QED  BY <1>2 DEF Measured, Finished, Opened, Readable

LEMMA CloseSegmentMoves ==
    ASSUME TypeOK, StateOK, NEW r \in Recorders, CloseSegment(r)
    PROVE  /\ recorder'[r].at = "closed" /\ Current(r) \in Opened
           /\ Current(r)' = Measured(Current(r)) /\ takes' = takes
           /\ recorder' \in [Recorders -> RecorderState]
           /\ \A q \in Recorders : recorder'[q].sequence <= takes
           /\ \A q \in Recorders \ {r} : recorder'[q] = recorder[q]
<1> DEFINE m == Measured(Current(r))
           s == [recorder[r] EXCEPT !.at = "closed", !.current = m]
<1>1. Current(r) \in Opened
  BY RecorderFields DEF CloseSegment, RecorderIs
<1>2. recorder' = [recorder EXCEPT ![r] = s] /\ takes' = takes
  BY DEF CloseSegment, StateOK, Current
<1>3. m \in Finished
  BY <1>1, MeasuredFields
<1> HIDE DEF m
<1>4. /\ s \in RecorderState /\ s.at = "closed" /\ s.current = m
      /\ s.sequence = recorder[r].sequence
  BY <1>3 DEF StateOK, RecorderState
<1> HIDE DEF s
<1> QED  BY <1>1, <1>2, <1>4 DEF StateOK, Current, m

LEMMA IndexSegmentMoves ==
    ASSUME TypeOK, StateOK, NEW r \in Recorders, IndexSegment(r)
    PROVE  /\ recorder'[r].at = "running" /\ Current(r) \in Finished /\ takes' = takes
           /\ recorder' \in [Recorders -> RecorderState]
           /\ \A q \in Recorders : recorder'[q].sequence <= takes
           /\ \A q \in Recorders \ {r} : recorder'[q] = recorder[q]
<1> DEFINE s == [recorder[r] EXCEPT !.at = "running", !.current = NoSegment]
<1>1. Current(r) \in Finished
  BY RecorderFields DEF IndexSegment, RecorderIs
<1>2. recorder' = [recorder EXCEPT ![r] = s] /\ takes' = takes
  BY DEF IndexSegment, StateOK, history
<1>3. /\ s \in RecorderState /\ s.at = "running" /\ s.sequence = recorder[r].sequence
  BY DEF StateOK, RecorderState
<1> HIDE DEF s
<1> QED  BY <1>1, <1>2, <1>3 DEF StateOK

LEMMA RowFields ==
    ASSUME NEW c \in Finished, NEW i \in Nat
    PROVE  /\ Row(c, i) \in Rows /\ Row(c, i).id = i /\ Row(c, i).path = c.path
           /\ Row(c, i).take = c.take /\ Row(c, i).size = c.size
           /\ Row(c, i).start < Row(c, i).end
BY DEF Row, Rows, Finished

LEMMA SizedFields ==
    ASSUME NEW set, IsFiniteSet(set)
    PROVE  /\ Sized(set) \in Nat
           /\ \A s : /\ IsFiniteSet(set \cup {s}) /\ Sized(set) <= Sized(set \cup {s})
                     /\ IsFiniteSet(set \ {s})
                     /\ s \in set /\ s.size = 1 => Sized(set \ {s}) = Sized(set) - 1
                     /\ s.size # 1 => Sized(set \ {s}) = Sized(set)
<1> DEFINE Full(t) == {x \in t : x.size = 1}
<1>1. IsFiniteSet(Full(set)) /\ Cardinality(Full(set)) \in Nat
  BY FS_Subset, FS_CardinalityType
<1> SUFFICES ASSUME NEW s
             PROVE  /\ IsFiniteSet(set \cup {s}) /\ Sized(set) <= Sized(set \cup {s})
                    /\ IsFiniteSet(set \ {s})
                    /\ s \in set /\ s.size = 1 => Sized(set \ {s}) = Sized(set) - 1
                    /\ s.size # 1 => Sized(set \ {s}) = Sized(set)
  BY <1>1 DEF Sized
<1>2. IsFiniteSet(set \cup {s}) /\ IsFiniteSet(set \ {s})
  BY FS_AddElement, FS_Subset
<1>3. Sized(set) <= Sized(set \cup {s})
  <2>1. Full(set) \subseteq Full(set \cup {s}) /\ IsFiniteSet(Full(set \cup {s}))
    BY <1>2, FS_Subset
  <2> QED  BY <2>1, FS_Subset DEF Sized
<1>4. ASSUME s \in set, s.size = 1 PROVE Sized(set \ {s}) = Sized(set) - 1
  <2>1. Full(set \ {s}) = Full(set) \ {s} /\ s \in Full(set)
    BY <1>4
  <2> QED  BY <1>1, <2>1, FS_RemoveElement DEF Sized
<1>5. ASSUME s.size # 1 PROVE Sized(set \ {s}) = Sized(set)
  <2>1. Full(set \ {s}) = Full(set)
    BY <1>5
  <2> QED  BY <2>1 DEF Sized
<1> QED  BY <1>2, <1>3, <1>4, <1>5

(* What becomes of the maintenance thread.                                 *)
LEMMA AsleepFields ==
    /\ Asleep \in MaintenanceState /\ Asleep.at = "asleep" /\ Asleep.todo = {}
BY DEF Asleep, MaintenanceState

LEMMA ListAllMoves ==
    ASSUME TypeOK, StateOK, ListAll
    PROVE  /\ mt' \in MaintenanceState /\ mt'.at = "scanning" /\ mt'.todo = rows
           /\ mt'.since = now /\ mt'.remaining = Sized(rows)
<1>1. now \in Nat /\ Sized(rows) \in Nat /\ rows \subseteq Rows
  BY SizedFields, Numbers DEF TypeOK, StateOK, Times
<1>2. mt' = [at |-> "scanning", todo |-> rows, since |-> now, remaining |-> Sized(rows),
             row |-> NoSegment]
  BY DEF ListAll, Asleep
<1> QED  BY <1>1, <1>2 DEF MaintenanceState

Inspected(s) ==
    /\ mt' \in MaintenanceState /\ mt'.at = Verdict(s) /\ mt'.todo = mt.todo \ {s}
    /\ mt'.since = mt.since /\ mt'.remaining = mt.remaining
    /\ Verdict(s) # "scanning" => mt'.row = s

LEMMA InspectMoves ==
    ASSUME TypeOK, StateOK, Inspect
    PROVE  \E s \in mt.todo : Inspected(s)
<1>1. PICK s \in mt.todo :
         mt' = [mt EXCEPT !.at = Verdict(s), !.todo = @ \ {s},
                          !.row = IF Verdict(s) = "scanning" THEN NoSegment ELSE s]
  BY DEF Inspect
<1>2. Verdict(s) \in {"missing", "reclaiming", "scanning"}
  BY DEF Verdict
<1>3. mt \in MaintenanceState /\ s \in Rows
  BY DEF StateOK, MaintenanceState
<1>4. Inspected(s)
  BY <1>1, <1>2, <1>3 DEF Inspected, MaintenanceState
<1> QED  BY <1>4

LEMMA RemoveMoves ==
    ASSUME TypeOK, StateOK, RemoveFile
    PROVE  /\ mt' \in MaintenanceState /\ mt'.at = "removed" /\ mt'.todo = mt.todo
           /\ mt'.since = mt.since /\ mt'.remaining = mt.remaining /\ mt'.row = mt.row
BY DEF RemoveFile, StateOK, MaintenanceState

LEMMA RemoveFailsMoves ==
    ASSUME TypeOK, StateOK, RemoveFails
    PROVE  /\ mt' \in MaintenanceState /\ mt'.at = "scanning" /\ mt'.todo = mt.todo
           /\ mt'.since = mt.since /\ mt'.remaining = mt.remaining
BY DEF RemoveFails, StateOK, MaintenanceState

LEMMA EraseRowMoves ==
    ASSUME TypeOK, StateOK, mt.row \in rows, EraseRow
    PROVE  /\ mt' \in MaintenanceState /\ mt'.at = "scanning" /\ mt'.todo = mt.todo
           /\ mt'.since = mt.since /\ rows' = rows \ {mt.row}
           /\ mt'.remaining =
                  IF mt.remaining > mt.row.size THEN mt.remaining - mt.row.size ELSE 0
<1> DEFINE left == IF mt.remaining > mt.row.size THEN mt.remaining - mt.row.size ELSE 0
<1>1. mt \in MaintenanceState /\ mt.remaining \in Nat /\ mt.row.size \in {0, 1}
  BY DEF StateOK, MaintenanceState, Rows
<1>2. left \in Nat
  BY <1>1
<1>3. mt' = [mt EXCEPT !.at = "scanning", !.row = NoSegment, !.remaining = left]
  BY <1>1 DEF EraseRow
<1> HIDE DEF left
<1>4. /\ mt' \in MaintenanceState /\ mt'.at = "scanning" /\ mt'.todo = mt.todo
      /\ mt'.since = mt.since /\ mt'.remaining = left
  BY <1>1, <1>2, <1>3 DEF MaintenanceState
<1>5. rows' = rows \ {mt.row}
  BY DEF EraseRow, StateOK
<1> QED  BY <1>4, <1>5 DEF left

(* What playbacks have found, they found in the index.                     *)
LEMMA PlayersMove ==
    ASSUME StateOK, [Next]_vars
    PROVE  /\ player' \in [Players -> PlayerState]
           /\ \A p \in Players : player'[p].at = "found" =>
                  \/ player[p].at = "found" /\ player'[p] = player[p]
                  \/ player'[p].row \in rows /\ InWindow(player'[p].row, player'[p].url)
<1>0. player \in [Players -> PlayerState] /\ rows \subseteq Rows
  BY DEF StateOK
<1>1. CASE player' = player
  BY <1>0, <1>1
<1>2. ASSUME NEW p \in Players, NEW reply \in PlayerState, Gives(p, reply),
             reply.at = "found" => reply.row \in rows /\ InWindow(reply.row, reply.url)
      PROVE  /\ player' \in [Players -> PlayerState]
             /\ \A q \in Players : player'[q].at = "found" =>
                    \/ player[q].at = "found" /\ player'[q] = player[q]
                    \/ player'[q].row \in rows /\ InWindow(player'[q].row, player'[q].url)
  BY <1>0, <1>2 DEF Gives
<1>3. Out.at = "out" /\ Out \in PlayerState
  BY DEF Out, PlayerState
<1>4. ASSUME NEW p \in Players, PlayerStep(p)
      PROVE  \E reply \in PlayerState :
                 /\ Gives(p, reply)
                 /\ reply.at = "found" => reply.row \in rows /\ InWindow(reply.row, reply.url)
  <2>1. CASE GetPlaylist(p)
    <3>1. PICK url \in Signed : \E id \in Playlist(url) :
             Gives(p, [Out EXCEPT !.at = "listed", !.url = url, !.id = id])
      BY <2>1 DEF GetPlaylist
    <3>2. PICK id \in Playlist(url) :
             Gives(p, [Out EXCEPT !.at = "listed", !.url = url, !.id = id])
      BY <3>1
    <3>3. id \in Nat
      BY <1>0 DEF Playlist, Rows
    <3> DEFINE reply == [Out EXCEPT !.at = "listed", !.url = url, !.id = id]
    <3>4. reply.at = "listed" /\ reply \in PlayerState
      BY <3>3 DEF Out, PlayerState
    <3> HIDE DEF reply
    <3> QED  BY <3>2, <3>4 DEF reply
  <2>2. CASE FindSegment(p)
    <3>1. PICK s \in Granted(p) : Gives(p, [player[p] EXCEPT !.at = "found", !.row = s])
      BY <2>2 DEF FindSegment
    <3>2. s \in rows /\ InWindow(s, player[p].url)
      BY <3>1 DEF Granted
    <3> DEFINE reply == [player[p] EXCEPT !.at = "found", !.row = s]
    <3>3. /\ reply.at = "found" /\ reply.row = s /\ reply.url = player[p].url
          /\ reply \in PlayerState
      BY <1>0, <3>2 DEF PlayerState
    <3> HIDE DEF reply
    <3> QED  BY <3>1, <3>2, <3>3 DEF reply
  <2> QED  BY <1>3, <1>4, <2>1, <2>2 DEF PlayerStep, SendFile, Refused
<1>5. CASE Crash
  BY <1>0, <1>3, <1>5 DEF Crash, PlayerIs
<1>6. player' = player \/ Crash \/ \E p \in Players : PlayerStep(p)
  BY DEF Next, vars, RecorderStep, OpenSegment, RunLeaves, CloseSegment, IndexSegment,
         IndexThrows, MaintenanceStep, ListAll, Inspect, RemoveFile, RemoveFails, EraseRow,
         RunThrows, RunEnds, Tick, Mount
<1> QED  BY <1>1, <1>2, <1>4, <1>5, <1>6

(* A step that opens no file makes no new segment: what recorders, rows and *)
(* playbacks hold afterwards, one of them held before.                     *)
Opens == \E r \in Recorders : OpenSegment(r)
Indexes(r) == IndexSegment(r) /\ rows' = rows \cup {Row(Current(r), nextId)}

LEMMA OpenStays ==
    ASSUME TypeOK, StateOK, [Next]_vars, ~Opens
    PROVE  /\ takes' = takes /\ names' = names /\ Open' \subseteq Open
           /\ recorder' \in [Recorders -> RecorderState]
           /\ \A r \in Recorders : recorder'[r].sequence <= takes
           /\ \A r \in Open' : /\ Current(r)'.path = Current(r).path
                               /\ Current(r)'.take = Current(r).take
           /\ \A r \in Closed' : \/ r \in Closed /\ Current(r)' = Current(r)
                                 \/ CloseSegment(r)
<1>0. /\ recorder \in [Recorders -> RecorderState]
      /\ \A r \in Recorders : recorder[r].sequence <= takes
  BY DEF StateOK
<1>1. CASE UNCHANGED <<recorder, takes, names>>
  BY <1>0, <1>1 DEF Open, Closed, Current, RecorderIs
<1>2. ASSUME NEW r \in Recorders, RunLeaves(r) \/ IndexThrows(r) \/ IndexSegment(r)
      PROVE  /\ takes' = takes /\ names' = names /\ recorder' \in [Recorders -> RecorderState]
             /\ \A q \in Recorders : recorder'[q].sequence <= takes
             /\ recorder'[r].at = "running"
             /\ \A q \in Recorders \ {r} : recorder'[q] = recorder[q]
  BY <1>2, LeavesMoves, IndexSegmentMoves DEF RunLeaves, IndexThrows, IndexSegment, history
<1>3. ASSUME NEW r \in Recorders, CloseSegment(r)
      PROVE  /\ takes' = takes /\ names' = names /\ recorder' \in [Recorders -> RecorderState]
             /\ \A q \in Recorders : recorder'[q].sequence <= takes
             /\ r \in Open /\ Current(r)'.path = Current(r).path
             /\ Current(r)'.take = Current(r).take
             /\ \A q \in Recorders \ {r} : recorder'[q] = recorder[q]
  BY <1>3, CloseSegmentMoves, MeasuredFields DEF CloseSegment, Open, RecorderIs
<1>4. CASE Crash
  <2>1. FreshRun \in RecorderState /\ FreshRun.at = "running" /\ FreshRun.sequence = 0
    BY Numbers DEF FreshRun, RecorderState, Takes
  <2>2. \A r \in Recorders : recorder'[r] = FreshRun
    BY <1>4 DEF Crash
  <2>3. recorder' \in [Recorders -> RecorderState] /\ takes' = takes /\ names' = names
    BY <1>4, <2>1 DEF Crash, history
  <2> QED  BY <2>1, <2>2, <2>3, Numbers DEF Open, Closed, RecorderIs, TypeOK, Takes
<1>5. ASSUME NEW r \in Recorders, RecorderStep(r), ~OpenSegment(r)
      PROVE  /\ takes' = takes /\ names' = names /\ recorder' \in [Recorders -> RecorderState]
             /\ Open' \subseteq Open
             /\ \A q \in Recorders : recorder'[q].sequence <= takes
             /\ \A q \in Open' : /\ Current(q)'.path = Current(q).path
                                 /\ Current(q)'.take = Current(q).take
             /\ \A q \in Closed' : \/ q \in Closed /\ Current(q)' = Current(q)
                                   \/ CloseSegment(q)
  <2>1. CASE RunLeaves(r) \/ IndexThrows(r) \/ IndexSegment(r)
    BY <1>2, <2>1 DEF Open, Closed, Current, RecorderIs
  <2>2. CASE CloseSegment(r)
    BY <1>3, <2>2 DEF Open, Closed, Current, RecorderIs
  <2> QED  BY <1>5, <2>1, <2>2 DEF RecorderStep
<1> QED
  BY <1>1, <1>4, <1>5
     DEF Next, Opens, vars, MaintenanceStep, ListAll, Inspect, RemoveFile, RemoveFails,
         EraseRow, RunThrows, RunEnds, PlayerStep, GetPlaylist, FindSegment, SendFile,
         Refused, Tick, Mount, history

LEMMA RowsStay ==
    ASSUME TypeOK, StateOK, [Next]_vars
    PROVE  rows' \subseteq rows \/ \E r \in Closed : Indexes(r)
<1>1. ASSUME NEW r \in Recorders, IndexSegment(r) PROVE r \in Closed /\ Indexes(r)
  BY <1>1 DEF IndexSegment, Indexes, Closed
<1>2. CASE Crash
  BY <1>2 DEF Crash, IndexSurvives, IndexIsLost, index
<1> QED
  BY <1>1, <1>2
     DEF Next, vars, RecorderStep, OpenSegment, RunLeaves, CloseSegment, IndexThrows,
         MaintenanceStep, ListAll, Inspect, RemoveFile, RemoveFails, EraseRow, RunThrows,
         RunEnds, PlayerStep, GetPlaylist, FindSegment, SendFile, Refused, Tick, Mount, index

LEMMA FoundStays ==
    ASSUME StateOK, [Next]_vars
    PROVE  Found' \subseteq Found \cup rows
BY PlayersMove DEF Found, PlayerIs

LEMMA NextIds ==
    ASSUME TypeOK, StateOK, NEW r \in Closed
    PROVE  /\ nextId \in Nat /\ Current(r) \in Finished /\ Row(Current(r), nextId) \in Rows
           /\ Row(Current(r), nextId).id = nextId
           /\ Row(Current(r), nextId).path = Current(r).path
           /\ Row(Current(r), nextId).take = Current(r).take
           /\ Row(Current(r), nextId).size = Current(r).size
           /\ Row(Current(r), nextId).start < Row(Current(r), nextId).end
           /\ \A s \in rows : s.id # nextId /\ s.id \in Nat
<1>1. nextId \in Nat /\ Current(r) \in Finished
  BY RecorderFields DEF TypeOK, Closed, RecorderIs
<1>2. \A s \in rows : s.id < nextId /\ s.id \in Nat
  BY DEF TypeOK, StateOK, Rows
<1> QED  BY <1>1, <1>2, RowFields

LEMMA SegmentsStay ==
    ASSUME TypeOK, StateOK, [Next]_vars, ~Opens
    PROVE  \A s \in Segments' : \E t \in Segments : t.path = s.path /\ t.take = s.take
<1> SUFFICES ASSUME NEW s \in Segments'
             PROVE  \E t \in Segments : t.path = s.path /\ t.take = s.take
  OBVIOUS
<1>1. CASE s \in rows'
  <2>1. s \in rows \/ \E r \in Closed : s = Row(Current(r), nextId)
    BY <1>1, RowsStay DEF Indexes
  <2>2. ASSUME NEW r \in Closed, s = Row(Current(r), nextId)
        PROVE  Current(r) \in Segments /\ Current(r).path = s.path /\ Current(r).take = s.take
    BY <2>2, NextIds DEF Segments, Closed, Open, RecorderIs
  <2> QED  BY <2>1, <2>2 DEF Segments
<1>2. CASE \E r \in Open' : s = Current(r)'
  BY <1>2, OpenStays DEF Segments
<1>3. CASE s \in Found'
  BY <1>3, FoundStays DEF Segments
<1> QED  BY <1>1, <1>2, <1>3 DEF Segments

LEMMA OpenSegmentSegments ==
    ASSUME TypeOK, StateOK, NEW r \in Recorders, OpenSegment(r)
    PROVE  /\ \A s \in Segments' : s \in Segments \/ s = Current(r)'
           /\ rows' = rows /\ Found' = Found /\ Open' = Open \cup {r} /\ r \notin Open
           /\ Closed' = Closed
           /\ \A q \in Open : Current(q)' = Current(q)
<1>1. rows' = rows /\ Found' = Found /\ recorder[r].at = "running"
  BY DEF OpenSegment, index, Found, RecorderIs, PlayerIs
<1>2. /\ recorder'[r].at = "writing"
      /\ \A q \in Recorders \ {r} : recorder'[q] = recorder[q]
  BY OpenSegmentMoves
<1>3. /\ Open' = Open \cup {r} /\ r \notin Open /\ Closed' = Closed
      /\ \A q \in Open : Current(q)' = Current(q)
  BY <1>1, <1>2 DEF Open, Closed, Current, RecorderIs
<1> QED  BY <1>1, <1>3 DEF Segments

LEMMA StateStep ==
    ASSUME IInv, [Next]_vars
    PROVE  StateOK'
<1> USE DEF IInv
<1>1. /\ recorder' \in [Recorders -> RecorderState]
      /\ \A r \in Recorders : recorder'[r].sequence <= takes'
      /\ \A p \in Paths : names'[p] <= takes'
  <2>1. CASE Opens
    <3>1. PICK r \in Recorders : OpenSegment(r)
      BY <2>1 DEF Opens
    <3>2. \A p \in Paths : names[p] \in Nat /\ names[p] <= takes /\ takes \in Nat
      BY Numbers DEF StateOK, TypeOK, Takes
    <3>3. names' = [names EXCEPT ![NextName(r)] = @ + 1] /\ takes' = takes + 1
      BY <3>1 DEF OpenSegment
    <3>4. \A p \in Paths : names'[p] <= takes'
      BY <3>2, <3>3 DEF TypeOK
    <3> QED  BY <3>1, <3>4, OpenSegmentMoves
  <2>2. CASE ~Opens
    BY <2>2, OpenStays DEF StateOK
  <2> QED  BY <2>1, <2>2
<1>2. mt' \in MaintenanceState
  <2>1. CASE mt' = mt \/ mt' = Asleep
    BY <2>1, AsleepFields DEF StateOK
  <2>2. CASE MaintenanceStep
    BY <2>1, <2>2, ListAllMoves, InspectMoves, RemoveMoves, RemoveFailsMoves, EraseRowMoves
       DEF MaintenanceStep, RunThrows, RunEnds, Inspected, Scan, EraseRow, MaintenanceIs
  <2> QED
    BY <2>1, <2>2
       DEF Next, vars, RecorderStep, OpenSegment, RunLeaves, CloseSegment, IndexSegment,
           IndexThrows, PlayerStep, GetPlaylist, FindSegment, SendFile, Refused, Tick, Mount,
           Crash
<1>3. /\ player' \in [Players -> PlayerState]
      /\ \A p \in Players : PlayerIs(p, "found")' => player'[p].row \in Rows
  BY PlayersMove DEF StateOK, PlayerIs
<1>4. /\ rows' \subseteq Rows /\ IsFiniteSet(rows')
      /\ \A s, t \in rows' : s.id = t.id => s = t
  <2>1. CASE rows' \subseteq rows
    BY <2>1, FS_Subset DEF StateOK
  <2>2. ASSUME NEW r \in Closed, Indexes(r)
        PROVE  /\ rows' \subseteq Rows /\ IsFiniteSet(rows')
               /\ \A s, t \in rows' : s.id = t.id => s = t
    BY <2>2, NextIds, SizedFields DEF Indexes, StateOK
  <2> QED  BY <2>1, <2>2, RowsStay
<1> QED  BY <1>1, <1>2, <1>3, <1>4 DEF StateOK

LEMMA TypeStep ==
    ASSUME IInv, [Next]_vars
    PROVE  TypeOK'
<1> USE DEF IInv
<1>0. StateOK'
  BY StateStep
<1>1. /\ takes' \in Takes /\ names' \in [Paths -> Takes]
      /\ disk' \in [Paths -> Takes] /\ unfinished' \subseteq Takes
  <2>1. CASE Opens
    <3>1. PICK r \in Recorders : OpenSegment(r)
      BY <2>1 DEF Opens
    <3>2. takes' = takes + 1 /\ takes' \in Takes /\ takes \in Nat
      BY <3>1, OpenSegmentMoves
    <3>3. \A p \in Paths : names[p] \in Nat /\ names[p] <= takes
      BY Numbers DEF StateOK, TypeOK, Takes
    <3>4. \A p \in Paths : names[p] + 1 \in Takes
      BY <3>2, <3>3, Numbers DEF Takes
    <3>5. names' = [names EXCEPT ![NextName(r)] = names[NextName(r)] + 1] /\ NextName(r) \in Paths
      BY <3>1, NextNames DEF OpenSegment
    <3>6. names' \in [Paths -> Takes]
      BY <3>4, <3>5 DEF TypeOK
    <3> QED  BY <3>1, <3>2, <3>6 DEF OpenSegment, TypeOK
  <2>2. CASE ~Opens
    <3>1. takes' = takes /\ names' = names
      BY <2>2, OpenStays
    <3>2. 0 \in Takes
      BY Numbers DEF Takes
    <3>3. disk' = disk \/ RemoveFile
      BY <2>2
         DEF Next, Opens, vars, storage, RecorderStep, RunLeaves, CloseSegment, IndexSegment,
             IndexThrows, MaintenanceStep, ListAll, Inspect, RemoveFails, EraseRow,
             RunThrows, RunEnds, PlayerStep, GetPlaylist, FindSegment, SendFile, Refused,
             Tick, Mount, Crash
    <3>4. disk' \in [Paths -> Takes]
      BY <3>2, <3>3 DEF RemoveFile, TypeOK
    <3>5. unfinished' \subseteq unfinished
      BY <2>2
         DEF Next, Opens, vars, history, RecorderStep, RunLeaves, CloseSegment, IndexSegment,
             IndexThrows, MaintenanceStep, ListAll, Inspect, RemoveFile, RemoveFails, EraseRow,
             RunThrows, RunEnds, PlayerStep, GetPlaylist, FindSegment, SendFile, Refused,
             Tick, Mount, Crash
    <3> QED  BY <3>1, <3>4, <3>5 DEF TypeOK
  <2> QED  BY <2>1, <2>2
<1>2. now' \in Times /\ online' \in BOOLEAN
  <2>1. CASE Tick
    BY <2>1, Numbers DEF Tick, storage, TypeOK, Times
  <2>2. CASE Mount
    BY <2>2 DEF Mount, world, TypeOK
  <2>3. CASE ~Tick /\ ~Mount
    BY <2>3
       DEF Next, vars, world, storage, RecorderStep, OpenSegment, RunLeaves, CloseSegment,
           IndexSegment, IndexThrows, MaintenanceStep, ListAll, Inspect, RemoveFile,
           RemoveFails, EraseRow, RunThrows, RunEnds, PlayerStep, GetPlaylist, FindSegment,
           SendFile, Refused, Crash, TypeOK
  <2> QED  BY <2>1, <2>2, <2>3
<1>3. /\ nextId' \in Nat \ {0}
      /\ \A s \in rows' : s.id < nextId' /\ s.path \in Paths /\ s.start < s.end
  <2>1. ASSUME NEW r \in Recorders, IndexSegment(r)
        PROVE  /\ nextId' \in Nat \ {0}
               /\ \A s \in rows' : s.id < nextId' /\ s.path \in Paths /\ s.start < s.end
    <3>1. r \in Closed /\ nextId' = nextId + 1 /\ rows' = rows \cup {Row(Current(r), nextId)}
      BY <2>1 DEF IndexSegment, Closed
    <3>2. Row(Current(r), nextId).path \in Paths
      BY <3>1, NextIds DEF Rows
    <3>3. nextId + 1 \in Nat \ {0} /\ \A s \in rows : s.id < nextId + 1
      BY <3>1, NextIds DEF TypeOK
    <3> QED  BY <3>1, <3>2, <3>3, NextIds DEF TypeOK
  <2>2. CASE nextId' = nextId /\ rows' \subseteq rows
    BY <2>2 DEF TypeOK
  <2>3. CASE Crash
    BY <2>2, <2>3 DEF Crash, IndexSurvives, IndexIsLost, index
  <2> QED
    BY <2>1, <2>2, <2>3
       DEF Next, vars, index, RecorderStep, OpenSegment, RunLeaves, CloseSegment, IndexThrows,
           MaintenanceStep, ListAll, Inspect, RemoveFile, RemoveFails, EraseRow, RunThrows,
           RunEnds, PlayerStep, GetPlaylist, FindSegment, SendFile, Refused, Tick, Mount
<1>4. \A r \in Recorders : recorder'[r].at \in {"running", "writing", "closed"}
  BY <1>0 DEF StateOK, RecorderState
<1>5. mt'.at \in {"asleep", "scanning", "missing", "reclaiming", "removed"}
  BY <1>0 DEF StateOK, MaintenanceState
<1>6. \A p \in Players : player'[p].at \in {"out", "listed", "found"}
  BY PlayersMove DEF PlayerState
<1> QED  BY <1>1, <1>2, <1>3, <1>4, <1>5, <1>6 DEF TypeOK

LEMMA NamedStep ==
    ASSUME IInv, [Next]_vars
    PROVE  Named'
<1> USE DEF IInv
<1>1. CASE ~Opens
  <2>1. takes' = takes /\ names' = names /\ Reused' = Reused
    BY <1>1, OpenStays DEF Reused
  <2>2. \A s \in Segments' : s.take \in 1..takes /\ names[s.path] > 0
    BY <1>1, SegmentsStay DEF Named
  <2>3. \A s, t \in Segments' : s.path = t.path /\ s.take # t.take => s.path \in Reused
    <3> SUFFICES ASSUME NEW s \in Segments', NEW t \in Segments',
                        s.path = t.path, s.take # t.take
                 PROVE  s.path \in Reused
      OBVIOUS
    <3>1. PICK u \in Segments : u.path = s.path /\ u.take = s.take
      BY <1>1, SegmentsStay
    <3>2. PICK v \in Segments : v.path = t.path /\ v.take = t.take
      BY <1>1, SegmentsStay
    <3> QED  BY <3>1, <3>2 DEF Named
  <2> QED  BY <2>1, <2>2, <2>3 DEF Named
<1>2. ASSUME NEW r \in Recorders, OpenSegment(r) PROVE Named'
  <2>1. /\ Current(r)'.path = NextName(r) /\ NextName(r) \in Paths
        /\ Current(r)'.take = takes + 1 /\ takes' = takes + 1 /\ takes \in Nat
    BY <1>2, OpenSegmentMoves, NextNames
  <2>2. /\ names' = [names EXCEPT ![NextName(r)] = names[NextName(r)] + 1]
        /\ names \in [Paths -> Nat] /\ DOMAIN names = Paths
    BY <1>2, Numbers DEF OpenSegment, TypeOK, Takes
  <2>3. \A s \in Segments' : s \in Segments \/ s = Current(r)'
    BY <1>2, OpenSegmentSegments
  <2>4. \A s \in Segments : s.path \in Paths
    BY RecorderFields DEF Segments, Found, Open, StateOK, Rows
  <2>5. \A s \in Segments' : s.take \in 1..takes' /\ names'[s.path] > 0
    BY <2>1, <2>2, <2>3, <2>4 DEF Named
  <2>6. \A p \in Paths : (p \in Reused => p \in Reused') /\
            (p = NextName(r) /\ names[p] > 0 => p \in Reused')
    BY <2>2 DEF Reused
  <2>7. ASSUME NEW s \in Segments', NEW t \in Segments', s.path = t.path, s.take # t.take
        PROVE  s.path \in Reused'
    <3>1. CASE s \in Segments /\ t \in Segments
      BY <2>4, <2>6, <2>7, <3>1 DEF Named
    <3>2. CASE s \in Segments /\ t = Current(r)'
      BY <2>1, <2>4, <2>6, <2>7, <3>2 DEF Named
    <3>3. CASE s = Current(r)' /\ t \in Segments
      BY <2>1, <2>4, <2>6, <2>7, <3>3 DEF Named
    <3> QED  BY <2>3, <2>7, <3>1, <3>2, <3>3
  <2> QED  BY <2>5, <2>7 DEF Named
<1> QED  BY <1>1, <1>2 DEF Opens

LEMMA OwnTakesStep ==
    ASSUME IInv, [Next]_vars
    PROVE  OwnTakes'
<1> USE DEF IInv
<1>1. CASE ~Opens
  <2>1. /\ Open' \subseteq Open
        /\ \A r \in Open' : Current(r)'.take = Current(r).take
    BY <1>1, OpenStays
  <2>2. \A r, q \in Open' : r # q => Current(r)'.take # Current(q)'.take
    BY <2>1 DEF OwnTakes
  <2>3. CASE rows' \subseteq rows
    BY <2>1, <2>2, <2>3 DEF OwnTakes
  <2>4. ASSUME NEW r \in Closed, Indexes(r) PROVE OwnTakes'
    <3>1. /\ rows' = rows \cup {Row(Current(r), nextId)} /\ r \in Open
          /\ Row(Current(r), nextId).take = Current(r).take
      BY <2>4, NextIds DEF Indexes, Closed, Open, RecorderIs
    <3>2. r \notin Open'
      BY <2>4, IndexSegmentMoves DEF Indexes, Closed, Open
    <3> QED  BY <2>1, <2>2, <3>1, <3>2 DEF OwnTakes
  <2> QED  BY <2>3, <2>4, RowsStay
<1>2. ASSUME NEW r \in Recorders, OpenSegment(r) PROVE OwnTakes'
  <2>1. Current(r)'.take = takes + 1 /\ takes \in Nat
    BY <1>2, OpenSegmentMoves
  <2>2. \A s \in rows \cup {Current(q) : q \in Open} : s.take # takes + 1
    BY <2>1 DEF Named, Segments
  <2> QED  BY <1>2, <2>1, <2>2, OpenSegmentSegments DEF OwnTakes
<1> QED  BY <1>1, <1>2 DEF Opens

(* What a step does to files: a recorder opens one, the maintenance thread  *)
(* removes one, or none is touched.                                        *)
LEMMA FilesStay ==
    ASSUME TypeOK, StateOK, [Next]_vars, ~Opens
    PROVE  /\ disk' = disk \/ RemoveFile
           /\ unfinished' \subseteq unfinished /\ Reused' = Reused
<1>1. disk' = disk \/ RemoveFile
  BY DEF Next, Opens, vars, storage, RecorderStep, RunLeaves, CloseSegment, IndexSegment,
         IndexThrows, MaintenanceStep, ListAll, Inspect, RemoveFails, EraseRow, RunThrows,
         RunEnds, PlayerStep, GetPlaylist, FindSegment, SendFile, Refused, Tick, Mount, Crash
<1>2. unfinished' \subseteq unfinished
  BY DEF Next, Opens, vars, history, RecorderStep, RunLeaves, CloseSegment, IndexSegment,
         IndexThrows, MaintenanceStep, ListAll, Inspect, RemoveFile, RemoveFails, EraseRow,
         RunThrows, RunEnds, PlayerStep, GetPlaylist, FindSegment, SendFile, Refused, Tick,
         Mount, Crash
<1> QED  BY <1>1, <1>2, OpenStays DEF Reused

LEMMA FileOpened ==
    ASSUME IInv, NEW r \in Recorders, OpenSegment(r)
    PROVE  /\ \A p \in Paths : disk'[p] = IF p = NextName(r) THEN takes + 1 ELSE disk[p]
           /\ NextName(r) \in Paths /\ unfinished' = unfinished \cup {takes + 1}
           /\ Reused \subseteq Reused'
           /\ \A s \in Segments : s.path \in Paths /\ s.take \in Nat /\ s.take # takes + 1
           /\ \A s \in Segments : s.path = NextName(r) => s.path \in Reused'
<1> USE DEF IInv
<1>1. /\ NextName(r) \in Paths /\ takes' = takes + 1 /\ takes \in Nat
      /\ names \in [Paths -> Nat] /\ disk \in [Paths -> Takes]
  BY OpenSegmentMoves, NextNames, Numbers DEF TypeOK, Takes
<1>2. /\ disk' = [disk EXCEPT ![NextName(r)] = takes + 1]
      /\ names' = [names EXCEPT ![NextName(r)] = names[NextName(r)] + 1]
      /\ unfinished' = unfinished \cup {takes + 1}
  BY <1>1 DEF OpenSegment
<1>3. \A s \in Segments : s.path \in Paths
  BY RecorderFields DEF Segments, Found, Open, StateOK, Rows
<1>4. \A s \in Segments : s.take \in Nat /\ s.take # takes + 1 /\ names[s.path] > 0
  BY <1>1 DEF Named
<1>5. /\ \A p \in Paths : p \in Reused => p \in Reused'
      /\ \A p \in Paths : p = NextName(r) /\ names[p] > 0 => p \in Reused'
  BY <1>1, <1>2 DEF Reused
<1> QED  BY <1>1, <1>2, <1>3, <1>4, <1>5 DEF Reused

LEMMA KeptStep ==
    ASSUME IInv, [Next]_vars
    PROVE  Kept'
<1> USE DEF IInv
<1>1. CASE ~Opens
  <2>1. /\ Open' \subseteq Open /\ Reused' = Reused
        /\ \A r \in Open' : Current(r)'.path = Current(r).path /\ Current(r)'.take = Current(r).take
    BY <1>1, OpenStays, FilesStay
  <2>2. CASE disk' = disk
    BY <2>1, <2>2 DEF Kept
  <2>3. CASE RemoveFile
    <3>1. /\ disk' = [disk EXCEPT ![mt.row.path] = 0] /\ mt.row \in rows
      BY <2>3 DEF RemoveFile, MaintenanceIs, Scan
    <3>2. \A r \in Open : Current(r).path = mt.row.path => Current(r).path \in Reused
      BY <3>1 DEF OwnTakes, Named, Segments
    <3>3. \A r \in Open : Current(r).path # mt.row.path => disk'[Current(r).path] = disk[Current(r).path]
      BY <3>1, RecorderFields DEF TypeOK, Open
    <3> QED  BY <2>1, <3>2, <3>3 DEF Kept
  <2> QED  BY <1>1, <2>2, <2>3, FilesStay
<1>2. ASSUME NEW r \in Recorders, OpenSegment(r) PROVE Kept'
  <2>1. /\ Open' = Open \cup {r} /\ \A q \in Open : Current(q)' = Current(q)
        /\ Current(r)'.path = NextName(r) /\ Current(r)'.take = takes + 1
    BY <1>2, OpenSegmentSegments, OpenSegmentMoves
  <2>2. \A q \in Open : Current(q) \in Segments
    BY DEF Segments
  <2> QED  BY <1>2, <2>1, <2>2, FileOpened DEF Kept
<1> QED  BY <1>1, <1>2 DEF Opens

LEMMA SealedStep ==
    ASSUME IInv, [Next]_vars
    PROVE  Sealed'
<1> USE DEF IInv
<1> DEFINE Old == rows \cup {Current(r) : r \in Closed} \cup Found
           Fine(s) == \/ s.path \in Reused \/ s.size = 0
                      \/ disk[s.path] \in {s.take, 0} /\ s.take \notin unfinished
<1>1. \A s \in Old : Fine(s) /\ s \in Segments
  BY DEF Sealed, Segments, Closed, Open, RecorderIs
<1> SUFFICES ASSUME NEW s \in Old' PROVE Fine(s)'
  BY DEF Sealed
<1>2. CASE ~Opens
  <2>1. ASSUME NEW t \in Old, t.path = s.path, t.take = s.take, t.size = s.size
        PROVE  Fine(s)'
    <3>1. t.path \in Paths
      BY <1>1, RecorderFields DEF Segments, Found, Open, StateOK, Rows
    <3>2. disk'[s.path] \in {disk[s.path], 0}
      BY <1>2, <2>1, <3>1, FilesStay DEF RemoveFile, TypeOK
    <3> QED  BY <1>1, <1>2, <2>1, <3>2, FilesStay
  <2>2. CASE s \in rows \cup Found
    BY <2>1, <2>2
  <2>3. ASSUME NEW r \in Closed, s = Row(Current(r), nextId) PROVE Fine(s)'
    BY <2>1, <2>3, NextIds
  <2>4. ASSUME NEW r \in Closed', s = Current(r)' PROVE Fine(s)'
    <3>1. CASE r \in Closed /\ Current(r)' = Current(r)
      BY <2>1, <2>4, <3>1
    <3>2. CASE CloseSegment(r)
      <4>1. /\ r \in Open /\ s = Measured(Current(r)) /\ Current(r) \in Opened
        BY <2>4, <3>2, CloseSegmentMoves DEF CloseSegment, Open, Closed, RecorderIs
      <4>2. /\ s.path = Current(r).path /\ s.take = Current(r).take
            /\ s.size = 0 \/ online
        BY <4>1, MeasuredFields
      <4>3. disk' = disk /\ (online => s.take \notin unfinished')
        BY <3>2, <4>2 DEF CloseSegment, storage
      <4> QED  BY <1>2, <4>1, <4>2, <4>3, FilesStay DEF Kept
    <3> QED  BY <1>2, <2>4, <3>1, <3>2, OpenStays
  <2>5. \/ s \in rows \cup Found
        \/ \E r \in Closed : s = Row(Current(r), nextId)
        \/ \E r \in Closed' : s = Current(r)'
    BY RowsStay, FoundStays DEF Indexes
  <2> QED  BY <2>2, <2>3, <2>4, <2>5
<1>3. ASSUME NEW r \in Recorders, OpenSegment(r) PROVE Fine(s)'
  <2>1. s \in Old
    <3>1. /\ rows' = rows /\ Found' = Found /\ Closed' = Closed
          /\ \A q \in Closed : Current(q)' = Current(q)
      BY <1>3, OpenSegmentSegments DEF Closed, Open, RecorderIs
    <3> QED  BY <3>1
  <2>2. /\ s.path \in Paths /\ s.take # takes + 1 /\ Fine(s)
        /\ s.path = NextName(r) => s.path \in Reused'
    BY <1>1, <1>3, <2>1, FileOpened
  <2> QED  BY <1>3, <2>2, FileOpened
<1> QED  BY <1>2, <1>3 DEF Opens

LEMMA ScanStep ==
    ASSUME IInv, [Next]_vars
    PROVE  Scan'
<1> USE DEF IInv
<1>0. mt \in MaintenanceState /\ IsFiniteSet(rows) /\ now \in Nat /\ rows \subseteq Rows
  BY Numbers DEF StateOK, TypeOK, Times
<1>1. CASE mt' = Asleep
  BY <1>1, AsleepFields DEF Scan
<1>2. ASSUME mt' = mt, now' >= now, rows \subseteq rows', Sized(rows) <= Sized(rows'),
             mt.at = "removed" => disk'[mt.row.path] # mt.row.take
      PROVE  Scan'
  <2>1. Sized(rows) \in Nat /\ Sized(rows') \in Nat /\ now' \in Nat /\ mt.since \in Nat
        /\ mt.remaining \in Nat
    BY <1>0, SizedFields, StateStep, TypeStep, Numbers
       DEF MaintenanceState, StateOK, TypeOK, Times
  <2> QED  BY <1>0, <1>2, <2>1 DEF Scan, TooOld, TooMuch
<1>3. CASE ListAll
  BY <1>0, <1>3, ListAllMoves, SizedFields DEF Scan, ListAll, world, index
<1>4. CASE Inspect
  <2>1. PICK s \in mt.todo : Inspected(s)
    BY <1>4, InspectMoves
  <2>2. UNCHANGED <<now, rows, disk>> /\ mt.at # "asleep"
    BY <1>4 DEF Inspect, MaintenanceIs, world, index, storage
  <2>3. Verdict(s) \in {"scanning", "missing", "reclaiming"}
        /\ (Verdict(s) = "reclaiming" => TooOld(s) \/ TooMuch)
    BY DEF Verdict
  <2> QED  BY <2>1, <2>2, <2>3 DEF Scan, Inspected, TooOld, TooMuch
<1>5. CASE RemoveFile
  <2>1. UNCHANGED <<now, rows>> /\ mt.row \in rows \ mt.todo
        /\ disk' = [disk EXCEPT ![mt.row.path] = 0] /\ mt.at # "asleep"
    BY <1>5 DEF RemoveFile, MaintenanceIs, world, index, Scan
  <2>2. mt.row.path \in Paths /\ mt.row.take # 0
    BY <1>0, <2>1 DEF Rows, Named, Segments
  <2> QED  BY <1>5, <2>1, <2>2, RemoveMoves DEF Scan, TypeOK
<1>6. CASE RemoveFails
  BY <1>6, RemoveFailsMoves DEF Scan, RemoveFails, MaintenanceIs, world, index
<1>7. CASE EraseRow
  <2>1. mt.row \in rows \ mt.todo /\ now' = now /\ mt.at # "asleep"
    BY <1>7 DEF EraseRow, MaintenanceIs, world, Scan
  <2>2. mt.row.size \in {0, 1} /\ mt.remaining \in Nat /\ Sized(rows) \in Nat
        /\ mt.remaining <= Sized(rows)
    BY <1>0, <2>1, SizedFields DEF Rows, MaintenanceState, Scan
  <2>3. Sized(rows \ {mt.row}) = Sized(rows) - mt.row.size
    BY <1>0, <2>1, <2>2, SizedFields
  <2>4. Sized(rows \ {mt.row}) \in Nat
    BY <1>0, SizedFields
  <2>5. /\ mt'.at = "scanning" /\ mt'.todo = mt.todo /\ mt'.since = mt.since
        /\ rows' = rows \ {mt.row}
        /\ mt'.remaining =
               IF mt.remaining > mt.row.size THEN mt.remaining - mt.row.size ELSE 0
    BY <1>7, <2>1, EraseRowMoves
  <2>6. mt'.remaining <= Sized(rows')
    BY <2>2, <2>3, <2>4, <2>5
  <2> QED  BY <2>1, <2>5, <2>6 DEF Scan
<1>8. CASE Opens
  <2>1. PICK r \in Recorders : OpenSegment(r)
    BY <1>8 DEF Opens
  <2>2. UNCHANGED <<mt, now, rows>>
    BY <2>1 DEF OpenSegment, world, index
  <2>3. mt.at = "removed" => mt.row \in rows /\ mt.row \in Segments
    BY DEF Scan, Segments
  <2>4. mt.at = "removed" => disk'[mt.row.path] # mt.row.take
    BY <2>1, <2>3, FileOpened DEF Scan
  <2> QED  BY <1>0, <1>2, <2>2, <2>4, SizedFields
<1>9. CASE ~Opens /\ ~MaintenanceStep /\ mt' # Asleep
  <2>1. mt' = mt /\ (now' = now \/ Tick)
    BY <1>9
       DEF Opens, Next, vars, world, RecorderStep, RunLeaves, CloseSegment, IndexSegment,
           IndexThrows, PlayerStep, GetPlaylist, FindSegment, SendFile, Refused, Tick,
           Mount, Crash
  <2>2. disk' = disk
    BY <1>9, FilesStay DEF MaintenanceStep
  <2>3. rows' = rows \/ \E s : rows' = rows \cup {s}
    BY <1>9
       DEF Opens, Next, vars, index, RecorderStep, RunLeaves, CloseSegment, IndexSegment,
           IndexThrows, PlayerStep, GetPlaylist, FindSegment, SendFile, Refused, Tick,
           Mount, Crash
  <2>4. rows \subseteq rows' /\ Sized(rows) <= Sized(rows')
    <3>1. Sized(rows) \in Nat
      BY <1>0, SizedFields
    <3>2. CASE rows' = rows
      BY <3>1, <3>2
    <3>3. ASSUME NEW s, rows' = rows \cup {s} PROVE rows \subseteq rows' /\ Sized(rows) <= Sized(rows')
      BY <1>0, <3>3, SizedFields
    <3> QED  BY <2>3, <3>2, <3>3
  <2>5. now' >= now
    BY <1>0, <2>1 DEF Tick
  <2> QED  BY <1>2, <2>1, <2>2, <2>4, <2>5 DEF Scan
<1> QED
  BY <1>1, <1>3, <1>4, <1>5, <1>6, <1>7, <1>8, <1>9 DEF MaintenanceStep, RunThrows, RunEnds

LEMMA GrantingStep ==
    ASSUME IInv, [Next]_vars
    PROVE  Granting'
BY PlayersMove DEF IInv, Granting, PlayerIs, InWindow, Overlaps

-----------------------------------------------------------------------------
LEMMA Start == Init => IInv
<1> SUFFICES ASSUME Init PROVE IInv
  OBVIOUS
<1> USE DEF Init
<1>1. 0 \in Takes /\ 0 \in Times
  BY Numbers DEF Takes, Times
<1>2. FreshRun \in RecorderState /\ FreshRun.at = "running" /\ FreshRun.sequence = 0
  BY <1>1 DEF FreshRun, RecorderState
<1>3. Out \in PlayerState /\ Out.at = "out"
  BY DEF Out, PlayerState
<1>4. TypeOK
  BY <1>1, <1>2, <1>3, AsleepFields DEF TypeOK
<1>5. StateOK
  BY <1>1, <1>2, <1>3, AsleepFields, FS_EmptySet DEF StateOK, PlayerIs
<1>6. Open = {} /\ Found = {} /\ Closed = {}
  BY <1>2, <1>3 DEF Open, Found, Closed, RecorderIs, PlayerIs
<1>7. Named /\ OwnTakes /\ Kept /\ Sealed
  BY <1>6 DEF Named, OwnTakes, Kept, Sealed, Segments
<1>8. Scan /\ Granting
  BY <1>3, AsleepFields DEF Scan, Granting, PlayerIs
<1> QED  BY <1>4, <1>5, <1>7, <1>8 DEF IInv

LEMMA Step == IInv /\ [Next]_vars => IInv'
BY TypeStep, StateStep, NamedStep, OwnTakesStep, KeptStep, SealedStep, ScanStep, GrantingStep
   DEF IInv

LEMMA Invariant == SafeSpec => []IInv
BY Start, Step, PTL DEF SafeSpec

(* Whatever recorders, maintenance, playbacks and crashes do, the fields    *)
(* keep their types; the ids of insert() stay ahead of those of the index,  *)
(* and no indexed segment ends before it starts.                           *)
THEOREM TypeCorrect == SafeSpec => []TypeOK
<1>1. IInv => TypeOK
  BY DEF IInv
<1> QED  BY <1>1, Invariant, PTL

(* What a playback is sent lies in the window that was signed for it and is *)
(* the complete recording indexed under the id it asked for, although the   *)
(* index, the file and the reply are read one after the other, unless the   *)
(* name of the file was given out again or it had no size when measured.   *)
THEOREM PlaybackGetsItsRecording == SafeSpec => []ServedIsRecorded
<1>1. IInv => ServedIsRecorded
  <2> SUFFICES ASSUME IInv, NEW p \in Players, PlayerIs(p, "found"),
                      Readable(player[p].row.path)
               PROVE  LET s == player[p].row IN
                      /\ InWindow(s, player[p].url)
                      /\ \/ s.path \in Reused \/ s.size = 0
                         \/ disk[s.path] = s.take /\ s.take \notin unfinished
    BY DEF ServedIsRecorded
  <2>1. player[p].row \in Found
    BY DEF Found
  <2> QED  BY <2>1 DEF IInv, Sealed, Granting, Readable
<1> QED  BY <1>1, Invariant, PTL

-----------------------------------------------------------------------------
(* The refinement.                                                          *)
Doubted == IF MaintenanceIs("missing") THEN {mt.row} ELSE {}

LEMMA SameCardinality ==
    ASSUME NEW set
    PROVE  Catalogue!Cardinality(set) = Cardinality(set)
BY Zenon DEF Cardinality, Catalogue!Cardinality

LEMMA OpenSegmentReuses ==
    ASSUME IInv, NEW r \in Recorders, OpenSegment(r)
    PROVE  Catalogue!Next \/ UNCHANGED Catalogue!vars
<1> DEFINE p == NextName(r)
<1>1. /\ UNCHANGED <<now, online, rows, mt>> /\ Doubted' = Doubted
      /\ p.second = now \div Second /\ p \in Paths
  BY FileOpened DEF OpenSegment, world, index, NextName, PathFor, Doubted, MaintenanceIs
<1>2. Playable' = {s \in Playable : s.path # p}
  <2>1. \A s \in rows : s.path \in Paths /\ s.take # takes + 1
    BY FileOpened DEF Segments
  <2>2. /\ \A q \in Paths : disk'[q] = IF q = p THEN takes + 1 ELSE disk[q]
        /\ unfinished' = unfinished \cup {takes + 1}
    BY FileOpened
  <2> QED  BY <1>1, <2>1, <2>2 DEF Playable
<1>3. /\ names' = [names EXCEPT ![p] = names[p] + 1]
      /\ names \in [Paths -> Nat]
  BY Numbers DEF OpenSegment, IInv, TypeOK, Takes
<1> HIDE DEF p
<1>4. CASE names[p] > 0
  <2>1. Reused' = Reused \cup {p}
    BY <1>1, <1>3, <1>4 DEF Reused
  <2>2. Catalogue!Reuse(p)
    BY <1>1, <1>2, <2>1 DEF Catalogue!Reuse, Doubted
  <2> QED  BY <2>1, <2>2 DEF Catalogue!Next
<1>5. CASE ~(names[p] > 0)
  <2>1. Reused' = Reused
    BY <1>1, <1>3, <1>5 DEF Reused
  <2>2. \A s \in rows : s.path # p
    BY <1>5 DEF IInv, Named, Segments
  <2>3. Playable' = Playable
    BY <1>2, <2>2 DEF Playable
  <2> QED  BY <1>1, <2>1, <2>3 DEF Catalogue!vars, Doubted
<1> QED  BY <1>4, <1>5

LEMMA IndexSegmentPublishes ==
    ASSUME IInv, NEW r \in Recorders, IndexSegment(r)
    PROVE  Catalogue!Next
<1> DEFINE s == Row(Current(r), nextId)
<1>1. /\ r \in Closed /\ r \in Open /\ rows' = rows \cup {s}
      /\ UNCHANGED <<now, online, disk, unfinished, names, mt>>
  BY DEF IndexSegment, Closed, Open, RecorderIs, world, storage, history
<1>2. Reused' = Reused /\ Doubted' = Doubted
  BY <1>1 DEF Reused, Doubted, MaintenanceIs
<1>3. /\ s \notin rows /\ s.path = Current(r).path /\ s.take = Current(r).take
      /\ s.size = Current(r).size
  BY <1>1, NextIds DEF IInv
<1> HIDE DEF s
<1>4. \/ Playable' = Playable \cup {s}
      \/ Playable' = Playable /\ ~(disk[s.path] = s.take /\ s.take \notin unfinished)
  BY <1>1 DEF Playable
<1>5. \/ disk[s.path] = s.take /\ s.take \notin unfinished
      \/ s.path \in Reused \/ s.size = 0
  BY <1>1, <1>3 DEF IInv, Sealed, Kept
<1>6. Catalogue!Publish(s)
  BY <1>1, <1>2, <1>3, <1>4, <1>5 DEF Catalogue!Publish, Doubted
<1> QED  BY <1>1, <1>6 DEF Catalogue!Next

LEMMA RemoveFileReclaims ==
    ASSUME IInv, RemoveFile
    PROVE  Catalogue!Next \/ UNCHANGED Catalogue!vars
<1> USE DEF IInv
<1>1. /\ mt.row \in rows /\ mt.at = "reclaiming" /\ mt'.at = "removed"
      /\ UNCHANGED <<now, online, rows, unfinished, names>>
      /\ disk' = [disk EXCEPT ![mt.row.path] = 0]
  BY RemoveMoves DEF RemoveFile, MaintenanceIs, Scan, world, index, history
<1>2. Reused' = Reused /\ Doubted = {} /\ Doubted' = {}
  BY <1>1 DEF Reused, Doubted, MaintenanceIs
<1>3. \A s \in rows : s.path \in Paths /\ s.take # 0
  BY DEF StateOK, Rows, Named, Segments
<1>4. \A q \in Paths : disk'[q] = IF q = mt.row.path THEN 0 ELSE disk[q]
  BY <1>1 DEF TypeOK
<1>5. Playable' = {s \in Playable : s.path # mt.row.path}
  BY <1>1, <1>3, <1>4 DEF Playable
<1>6. CASE \A s \in Playable : s.path # mt.row.path
  <2>1. Playable' = Playable
    BY <1>5, <1>6
  <2> QED  BY <1>1, <1>2, <2>1 DEF Catalogue!vars, Doubted
<1>7. ASSUME NEW s \in Playable, s.path = mt.row.path
      PROVE  Catalogue!Next
  <2>1. s \in rows /\ disk[s.path] = s.take
    BY DEF Playable
  <2>2. \A t \in Playable : t.path = mt.row.path => t = s
    BY <1>7, <2>1 DEF Playable, OwnTakes
  <2>3. Playable' = Playable \ {s}
    BY <1>5, <1>7, <2>2
  <2>4. Catalogue!Expired(s, now) \/ Catalogue!OverCapacity \/ s.path \in Reused
    <3>1. CASE s = mt.row
      <4>1. TooOld(s) \/ TooMuch
        BY <1>1, <3>1 DEF Scan
      <4>2. CASE TooOld(s)
        <5>1. mt.since <= now /\ mt.since \in Nat /\ now \in Nat /\ s.end \in Nat
          BY <1>1, <2>1, Numbers DEF Scan, StateOK, MaintenanceState, Rows, TypeOK, Times
        <5>2. Lifetime # 0 /\ s.end + Lifetime < mt.since /\ Lifetime \in Nat
          BY <4>2, Numbers DEF TooOld
        <5> QED  BY <5>1, <5>2 DEF Catalogue!Expired
      <4>3. CASE TooMuch
        <5>1. mt.remaining <= Sized(rows) /\ mt.remaining \in Nat /\ Sized(rows) \in Nat
          BY <1>1, SizedFields DEF Scan, StateOK, MaintenanceState
        <5>2. Capacity # 0 /\ mt.remaining > Capacity /\ Capacity \in Nat
          BY <4>3, Numbers DEF TooMuch
        <5>3. Sized(rows) > Capacity
          BY <5>1, <5>2
        <5>4. Catalogue!Cardinality({t \in rows : t.size = 1}) > Capacity
          BY <5>3, SameCardinality DEF Sized
        <5> QED  BY <5>2, <5>4 DEF Catalogue!OverCapacity
      <4> QED  BY <4>1, <4>2, <4>3
    <3>2. CASE s # mt.row
      BY <1>1, <1>7, <2>1, <3>2 DEF OwnTakes, Named, Segments
    <3> QED  BY <3>1, <3>2
  <2>5. Catalogue!Reclaim(s)
    BY <1>1, <1>2, <2>3, <2>4 DEF Catalogue!Reclaim, Doubted
  <2> QED  BY <2>1, <2>5 DEF Catalogue!Next
<1> QED  BY <1>6, <1>7

LEMMA CatalogueStep ==
    ASSUME IInv, [Next]_vars
    PROVE  Catalogue!Next \/ UNCHANGED Catalogue!vars
<1> USE DEF IInv
<1>1. CASE UNCHANGED <<now, online, disk, rows, unfinished, names>>
  <2>0. Playable' = Playable /\ Reused' = Reused
    BY <1>1 DEF Playable, Reused
  <2>1. CASE Doubted' = Doubted
    BY <1>1, <2>0, <2>1 DEF Catalogue!vars, Doubted
  <2>2. CASE Doubted' = {}
    BY <1>1, <2>0, <2>2 DEF Catalogue!Next, Catalogue!Settle, Doubted
  <2>3. CASE Inspect
    <3>1. PICK s \in mt.todo : Inspected(s)
      BY <2>3, InspectMoves
    <3>2. CASE Verdict(s) # "missing"
      BY <2>2, <3>1, <3>2 DEF Inspected, Doubted, MaintenanceIs
    <3>3. CASE Verdict(s) = "missing"
      <4>1. Doubted' = {s} /\ s \in rows
        BY <3>1, <3>3 DEF Inspected, Doubted, MaintenanceIs, Scan
      <4>2. online => disk[s.path] = 0 /\ s.take # 0
        BY <3>3, <4>1 DEF Verdict, Readable, Named, Segments
      <4>3. online => s \notin Playable
        BY <4>2 DEF Playable
      <4>4. Catalogue!Doubt(s)
        BY <1>1, <2>0, <4>1, <4>3 DEF Catalogue!Doubt, Doubted
      <4> QED  BY <4>1, <4>4 DEF Catalogue!Next
    <3> QED  BY <3>2, <3>3
  <2>4. CASE mt' = mt
    BY <2>1, <2>4 DEF Doubted, MaintenanceIs
  <2>5. CASE mt' = Asleep
    BY <2>2, <2>5, AsleepFields DEF Doubted, MaintenanceIs
  <2>6. CASE ListAll
    BY <2>2, <2>6, ListAllMoves DEF Doubted, MaintenanceIs
  <2>7. CASE RemoveFails
    BY <2>2, <2>7, RemoveFailsMoves DEF Doubted, MaintenanceIs
  <2>8. CASE RemoveFile
    BY <2>8, RemoveFileReclaims
  <2>9. CASE EraseRow
    <3>1. mt'.at = "scanning"
      BY <2>9, EraseRowMoves DEF EraseRow, MaintenanceIs, Scan
    <3> QED  BY <2>2, <3>1 DEF Doubted, MaintenanceIs
  <2> QED
    BY <2>3, <2>4, <2>5, <2>6, <2>7, <2>8, <2>9
       DEF Next, vars, RecorderStep, OpenSegment, RunLeaves, CloseSegment, IndexSegment,
           IndexThrows, MaintenanceStep, RunThrows, RunEnds, PlayerStep, GetPlaylist,
           FindSegment, SendFile, Refused, Tick, Mount, Crash
<1>2. ASSUME NEW r \in Recorders, RunLeaves(r) \/ CloseSegment(r)
      PROVE  UNCHANGED Catalogue!vars
  <2>1. /\ UNCHANGED <<now, online, disk, rows, names, mt>>
        /\ unfinished' \in {unfinished, unfinished \ {Current(r).take}}
    BY <1>2 DEF RunLeaves, CloseSegment, world, storage, index
  <2>2. \A s \in rows : s.take # Current(r).take
    <3>1. CASE RecorderIs(r, "running")
      <4>1. Current(r).take = 0
        BY <3>1, RecorderFields DEF RecorderIs, NoSegment
      <4> QED  BY <4>1 DEF Named, Segments
    <3>2. CASE RecorderIs(r, "writing")
      BY <3>2 DEF OwnTakes, Open, RecorderIs
    <3> QED  BY <1>2, <3>1, <3>2 DEF RunLeaves, CloseSegment
  <2>3. Playable' = Playable
    BY <2>1, <2>2 DEF Playable
  <2>4. Reused' = Reused /\ Doubted' = Doubted
    BY <2>1 DEF Reused, Doubted, MaintenanceIs
  <2> QED  BY <2>1, <2>3, <2>4 DEF Catalogue!vars, Doubted
<1>3. CASE EraseRow
  <2>1. /\ mt.row \in rows /\ rows' = rows \ {mt.row} /\ mt'.at = "scanning"
        /\ UNCHANGED <<now, online, disk, unfinished, names>>
    BY <1>3, EraseRowMoves DEF EraseRow, MaintenanceIs, Scan, world, storage, history
  <2>2. Playable' = Playable \ {mt.row} /\ Reused' = Reused /\ Doubted' = {}
    BY <2>1 DEF Playable, Reused, Doubted, MaintenanceIs
  <2>3. mt.row \notin Playable \/ mt.row \in Doubted
    BY <1>3 DEF EraseRow, MaintenanceIs, Scan, Playable, Doubted
  <2>4. Catalogue!Forget(mt.row)
    BY <2>1, <2>2, <2>3 DEF Catalogue!Forget, Doubted
  <2> QED  BY <2>1, <2>4 DEF Catalogue!Next
<1>4. CASE Tick
  <2>1. /\ now' = now + 1 /\ UNCHANGED <<online, disk, rows, unfinished, names, mt>>
    BY <1>4 DEF Tick, storage, index, history
  <2>2. Playable' = Playable /\ Reused' = Reused /\ Doubted' = Doubted
    BY <2>1 DEF Playable, Reused, Doubted, MaintenanceIs
  <2> QED  BY <2>1, <2>2 DEF Catalogue!Next, Catalogue!Tick, Doubted
<1>5. CASE Mount
  <2>1. /\ online' = ~online /\ UNCHANGED <<now, disk, rows, unfinished, names, mt>>
    BY <1>5 DEF Mount, world, index, history
  <2>2. Playable' = Playable /\ Reused' = Reused /\ Doubted' = Doubted
    BY <2>1 DEF Playable, Reused, Doubted, MaintenanceIs
  <2> QED  BY <2>1, <2>2 DEF Catalogue!Next, Catalogue!Mount, Doubted
<1>6. CASE Crash
  <2>1. /\ UNCHANGED <<now, online, disk, unfinished, names>> /\ mt' = Asleep
        /\ rows' = rows \/ rows' = {}
    BY <1>6 DEF Crash, IndexSurvives, IndexIsLost, storage, index, history
  <2>2. /\ Reused' = Reused /\ Doubted' = {}
        /\ \/ rows' = rows /\ Playable' = Playable
           \/ rows' = {} /\ Playable' = {}
    BY <2>1, AsleepFields DEF Playable, Reused, Doubted, MaintenanceIs
  <2> QED  BY <2>1, <2>2 DEF Catalogue!Next, Catalogue!Restart, Doubted
<1>7. ASSUME NEW r \in Recorders, RecorderStep(r)
      PROVE  Catalogue!Next \/ UNCHANGED Catalogue!vars
  BY <1>1, <1>2, <1>7, OpenSegmentReuses, IndexSegmentPublishes
     DEF RecorderStep, IndexThrows, world, storage, index, history
<1>8. CASE MaintenanceStep
  BY <1>1, <1>3, <1>8, RemoveFileReclaims
     DEF MaintenanceStep, ListAll, Inspect, RemoveFails, RunThrows, RunEnds,
         world, storage, index, history
<1>9. ASSUME NEW p \in Players, PlayerStep(p)
      PROVE  Catalogue!Next \/ UNCHANGED Catalogue!vars
  BY <1>1, <1>9
     DEF PlayerStep, GetPlaylist, FindSegment, SendFile, Refused, world, storage, index, history
<1>10. CASE UNCHANGED vars
  BY <1>1, <1>10 DEF vars
<1> QED  BY <1>4, <1>5, <1>6, <1>7, <1>8, <1>9, <1>10 DEF Next

(* The index, the files and the maintenance keep the promise of the         *)
(* catalogue step by step: a segment is published complete, taken from      *)
(* playbacks only when it has expired, the store is over its capacity or    *)
(* its name was used again, and leaves the index after its file.           *)
THEOREM StoreKeepsPromise == SafeSpec => KeepsPromise
<1>1. Init => Catalogue!Init
  BY AsleepFields DEF Init, Catalogue!Init, Playable, Reused, MaintenanceIs
<1>2. IInv /\ [Next]_vars => [Catalogue!Next]_(Catalogue!vars)
  BY CatalogueStep
<1> QED  BY <1>1, <1>2, Invariant, PTL DEF SafeSpec, KeepsPromise, Catalogue!Spec
=============================================================================
