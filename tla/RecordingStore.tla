--------------------------- MODULE RecordingStore ---------------------------
(***************************************************************************)
(* Segment files, their index, and those who share them: the recorder      *)
(* threads (SegmentRecorder), RecordingMaintenance, and playbacks, which   *)
(* get an URL over TLV and then a playlist and segments over HTTP. The     *)
(* process may crash between any two steps and the storage, a network      *)
(* mount, may go away and come back.                                       *)
(*                                                                         *)
(* A file is the number of the recording that was written to it last (its  *)
(* take); a checksum is what a file held when it was computed. The length  *)
(* of a segment is measured by the clock. Every segment has the same size. *)
(* Each call of the index, which holds one lock, and each operation on a   *)
(* file is a step.                                                         *)
(***************************************************************************)
EXTENDS Naturals, FiniteSets

CONSTANTS
    Recorders,     \* recorder threads
    ChannelOf,     \* the channel each of them records
    Players,
    Windows,       \* the windows of time they ask for
    Capacity,      \* storage_max_gib, in segments, 0: no limit
    Lifetime,      \* recording_retention_days, 0: for ever
    Second,        \* units of time in a second
    Drivers,       \* database_driver: "mysql", "memory"
    MaxTime, MaxTakes, MaxCrashes

ASSUME Numbers == {Capacity, Lifetime, MaxTime, MaxTakes, MaxCrashes} \subseteq Nat
ASSUME SecondIsPositive == Second \in Nat \ {0}
ASSUME DriverNames == Drivers \subseteq {"mysql", "memory"}

VARIABLES
    now,
    online,        \* the storage answers
    disk,          \* take in each file, 0: no such file
    rows,          \* the index
    nextId,
    takes,         \* segments opened so far
    unfinished,    \* takes whose file was never closed
    names,         \* the takes that were given each name
    recorder,      \* where each recorder is, its segment and sequence number
    mt,            \* the maintenance thread
    player,        \* what each playback has and is doing
    crashes

vars == <<now, online, disk, rows, nextId, takes, unfinished, names,
          recorder, mt, player, crashes>>
storage == <<online, disk>>
index == <<rows, nextId>>
history == <<takes, unfinished, names>>
world == <<now, crashes>>

Channels == {ChannelOf[r] : r \in Recorders}
Times == 0..MaxTime
Paths == [channel : Channels, second : Times, sequence : 0..MaxTakes]

(* camera_C/channel_C/YYYYmmdd_HHMMSS_sequence.ts                           *)
PathFor(c, t, n) == [channel |-> c, second |-> t \div Second, sequence |-> n]

NoSegment == [take |-> 0]
FreshRun == [at |-> "running", current |-> NoSegment, sequence |-> 0]
Asleep == [at |-> "asleep", todo |-> {}, since |-> 0, remaining |-> 0, row |-> NoSegment]
NoUrl == [window |-> <<>>]
Out == [at |-> "out", url |-> NoUrl, id |-> 0, row |-> NoSegment]

Init ==
    /\ now = 0 /\ online = TRUE
    /\ disk = [p \in Paths |-> 0]
    /\ rows = {} /\ nextId = 1
    /\ takes = 0 /\ unfinished = {} /\ names = [p \in Paths |-> 0]
    /\ recorder = [r \in Recorders |-> FreshRun]
    /\ mt = Asleep
    /\ player = [p \in Players |-> Out]
    /\ crashes = 0

Readable(path) == online /\ disk[path] # 0

-----------------------------------------------------------------------------
(* SegmentRecorder::run, called again and again by RecordingManager. The   *)
(* sequence number is a local of run().                                    *)
RecorderIs(r, where) == recorder[r].at = where
Current(r) == recorder[r].current

NextName(r) == PathFor(ChannelOf[r], now, recorder[r].sequence)

(* The writer creates the file, or truncates the one of that name.         *)
OpenSegment(r) ==
    /\ RecorderIs(r, "running") /\ online /\ takes < MaxTakes
    /\ takes' = takes + 1
    /\ disk' = [disk EXCEPT ![NextName(r)] = takes']
    /\ names' = [names EXCEPT ![NextName(r)] = @ + 1]
    /\ unfinished' = unfinished \cup {takes'}
    /\ recorder' = [recorder EXCEPT ![r] =
           [at |-> "writing", sequence |-> @.sequence + 1,
            current |-> [path |-> NextName(r), start |-> now, take |-> takes']]]
    /\ UNCHANGED <<world, online, index, mt, player>>

(* read() or the writer fails, or the stream ends before a packet: a file  *)
(* that is open is closed and not indexed.                                 *)
RunLeaves(r) ==
    /\ RecorderIs(r, "running") \/ RecorderIs(r, "writing")
    /\ unfinished' = unfinished \ {Current(r).take}
    /\ recorder' = [recorder EXCEPT ![r] = FreshRun]
    /\ UNCHANGED <<world, storage, index, takes, names, mt, player>>

(* finish_segment() closes the file and measures it; a storage that is     *)
(* away takes no trailer, and yields no size and no checksum.              *)
Measured(s) ==
    [path |-> s.path, start |-> s.start, take |-> s.take,
     end |-> IF now > s.start THEN now ELSE s.start + 1,
     size |-> IF Readable(s.path) THEN 1 ELSE 0,
     checksum |-> IF Readable(s.path) THEN disk[s.path] ELSE 0]

CloseSegment(r) ==
    /\ RecorderIs(r, "writing")
    /\ recorder' = [recorder EXCEPT ![r].at = "closed", ![r].current = Measured(@)]
    /\ unfinished' = IF online THEN unfinished \ {Current(r).take} ELSE unfinished
    /\ UNCHANGED <<world, storage, index, takes, names, mt, player>>

(* insert(): a row under the next id. run() goes on with the next segment. *)
Row(s, id) ==
    [id |-> id, path |-> s.path, start |-> s.start, end |-> s.end,
     size |-> s.size, checksum |-> s.checksum, take |-> s.take]

IndexSegmentBug(r) ==                       \* the id is used again
    /\ RecorderIs(r, "closed")
    /\ rows' = rows \cup {Row(Current(r), nextId)}
    /\ recorder' = [recorder EXCEPT ![r].at = "running", ![r].current = NoSegment]
    /\ UNCHANGED <<world, storage, nextId, history, mt, player>>

IndexSegment(r) ==
    /\ RecorderIs(r, "closed")
    /\ rows' = rows \cup {Row(Current(r), nextId)}
    /\ nextId' = nextId + 1
    /\ recorder' = [recorder EXCEPT ![r].at = "running", ![r].current = NoSegment]
    /\ UNCHANGED <<world, storage, history, mt, player>>

IndexThrows(r) ==
    /\ RecorderIs(r, "closed")
    /\ recorder' = [recorder EXCEPT ![r] = FreshRun]
    /\ UNCHANGED <<world, storage, index, history, mt, player>>

RecorderStep(r) ==
    \/ OpenSegment(r) \/ RunLeaves(r)
    \/ CloseSegment(r) \/ IndexSegment(r) \/ IndexThrows(r)

-----------------------------------------------------------------------------
(* RecordingMaintenance: run_once() over the rows list_all() returned,     *)
(* oldest first, and a sleep. An index that fails ends the run.            *)
MaintenanceIs(where) == mt.at = where
Sized(set) == Cardinality({s \in set : s.size = 1})
Oldest(s, set) ==
    \A t \in set \ {s} : s.start < t.start \/ (s.start = t.start /\ s.id < t.id)

TooOld(s) == Lifetime # 0 /\ s.end + Lifetime < mt.since
TooMuch == Capacity # 0 /\ mt.remaining > Capacity

ListAll ==
    /\ MaintenanceIs("asleep") /\ rows # {}
    /\ mt' = [Asleep EXCEPT !.at = "scanning", !.todo = rows, !.since = now,
                            !.remaining = Sized(rows)]
    /\ UNCHANGED <<world, storage, index, history, recorder, player>>

VerdictBug(s) ==                            \* a row without a file is skipped
    IF Readable(s.path) /\ (TooOld(s) \/ TooMuch) THEN "reclaiming" ELSE "scanning"

Verdict(s) ==
    IF ~Readable(s.path) THEN "missing"
    ELSE IF TooOld(s) \/ TooMuch THEN "reclaiming" ELSE "scanning"

Inspect ==
    /\ MaintenanceIs("scanning")
    /\ \E s \in mt.todo :
           /\ Oldest(s, mt.todo)
           /\ mt' = [mt EXCEPT !.at = Verdict(s), !.todo = @ \ {s},
                               !.row = IF Verdict(s) = "scanning" THEN NoSegment ELSE s]
    /\ UNCHANGED <<world, storage, index, history, recorder, player>>

RemoveFile ==
    /\ MaintenanceIs("reclaiming") /\ Readable(mt.row.path)
    /\ disk' = [disk EXCEPT ![mt.row.path] = 0]
    /\ mt' = [mt EXCEPT !.at = "removed"]
    /\ UNCHANGED <<world, online, index, history, recorder, player>>

RemoveFails ==
    /\ MaintenanceIs("reclaiming") /\ ~Readable(mt.row.path)
    /\ mt' = [mt EXCEPT !.at = "scanning", !.row = NoSegment]
    /\ UNCHANGED <<world, storage, index, history, recorder, player>>

EraseRowBug ==                              \* remaining counts what is gone
    /\ MaintenanceIs("missing") \/ MaintenanceIs("removed")
    /\ rows' = {s \in rows : s.id # mt.row.id}
    /\ mt' = [mt EXCEPT !.at = "scanning", !.row = NoSegment]
    /\ UNCHANGED <<world, storage, nextId, history, recorder, player>>

EraseRow ==
    /\ MaintenanceIs("missing") \/ MaintenanceIs("removed")
    /\ rows' = {s \in rows : s.id # mt.row.id}
    /\ mt' = [mt EXCEPT !.at = "scanning", !.row = NoSegment,
                        !.remaining = IF @ > mt.row.size THEN @ - mt.row.size ELSE 0]
    /\ UNCHANGED <<world, storage, nextId, history, recorder, player>>

RunThrows ==
    /\ MaintenanceIs("missing") \/ MaintenanceIs("removed")
    /\ mt' = Asleep
    /\ UNCHANGED <<world, storage, index, history, recorder, player>>

RunEnds ==
    /\ MaintenanceIs("scanning") /\ mt.todo = {}
    /\ mt' = Asleep
    /\ UNCHANGED <<world, storage, index, history, recorder, player>>

MaintenanceStep ==
    ListAll \/ Inspect \/ RemoveFile \/ RemoveFails \/ EraseRow \/ RunThrows \/ RunEnds

-----------------------------------------------------------------------------
(* PlaybackProtocolHandler and HlsHttpServer. An URL is signed for a        *)
(* channel and a window; a playlist names the segments of the window by     *)
(* their ids, and the window is checked again with each segment. An URL     *)
(* expires at some moment: what a player asks for is refused from then on.  *)
PlayerIs(p, where) == player[p].at = where
Overlaps(s, w) == s.start < w[2] /\ s.end > w[1]
InWindow(s, url) == s.path.channel = url.channel /\ Overlaps(s, url.window)
Gives(p, reply) == player' = [player EXCEPT ![p] = reply]
Signed == [channel : Channels, window : Windows]

(* vod() lists them all; the player asks for one of them.                  *)
Playlist(url) == {s.id : s \in {t \in rows : InWindow(t, url)}}

GetPlaylist(p) ==
    /\ PlayerIs(p, "out")
    /\ \E url \in Signed :
           \E id \in Playlist(url) :
               Gives(p, [Out EXCEPT !.at = "listed", !.url = url, !.id = id])
    /\ UNCHANGED <<world, storage, index, history, recorder, mt>>

(* find_by_id() and the checks on what it found.                           *)
GrantedBug(p) == {s \in rows : s.id = player[p].id}   \* any segment by its id

Granted(p) ==
    {s \in rows : s.id = player[p].id /\ InWindow(s, player[p].url)}

FindSegment(p) ==
    /\ PlayerIs(p, "listed")
    /\ \E s \in Granted(p) :
           Gives(p, [player[p] EXCEPT !.at = "found", !.row = s])
    /\ UNCHANGED <<world, storage, index, history, recorder, mt>>

(* reply_file() opens the file after the index has answered and sends what *)
(* it holds, if it can be read; what is sent is checked in ServedIsRecorded. *)
SendFile(p) ==
    /\ PlayerIs(p, "found")
    /\ Gives(p, Out)
    /\ UNCHANGED <<world, storage, index, history, recorder, mt>>

Refused(p) ==
    /\ PlayerIs(p, "listed")
    /\ Gives(p, Out)
    /\ UNCHANGED <<world, storage, index, history, recorder, mt>>

PlayerStep(p) ==
    GetPlaylist(p) \/ FindSegment(p) \/ SendFile(p) \/ Refused(p)

-----------------------------------------------------------------------------
Tick ==
    /\ now < MaxTime
    /\ now' = now + 1
    /\ UNCHANGED <<storage, index, history, recorder, mt, player, crashes>>

Mount ==
    /\ online' = ~online
    /\ UNCHANGED <<world, disk, index, history, recorder, mt, player>>

(* The process ends and is started again. A file it was writing stays as   *)
(* it is; an index in memory is gone; the clients keep their playlists.    *)
IndexSurvives == "mysql" \in Drivers /\ UNCHANGED index
IndexIsLost == "memory" \in Drivers /\ rows' = {} /\ nextId' = 1

Crash ==
    /\ crashes < MaxCrashes
    /\ crashes' = crashes + 1
    /\ recorder' = [r \in Recorders |-> FreshRun]
    /\ mt' = Asleep
    /\ player' = [p \in Players |->
           IF PlayerIs(p, "found") THEN Out ELSE player[p]]
    /\ IndexSurvives \/ IndexIsLost
    /\ UNCHANGED <<now, storage, history>>

Next ==
    \/ \E r \in Recorders : RecorderStep(r)
    \/ MaintenanceStep
    \/ \E p \in Players : PlayerStep(p)
    \/ Tick \/ Mount \/ Crash

(* The maintenance thread is scheduled. The index and the storage may fail *)
(* now and then, but not each time they are needed. (Each of these steps    *)
(* changes mt.)                                                            *)
Fairness ==
    /\ WF_mt(ListAll \/ Inspect \/ RemoveFails \/ RunEnds)
    /\ SF_mt(RemoveFile) /\ SF_mt(EraseRow)

SafeSpec == Init /\ [][Next]_vars
Spec == SafeSpec /\ Fairness

-----------------------------------------------------------------------------
Takes == 0..MaxTakes

TypeOK ==
    /\ now \in Times /\ online \in BOOLEAN
    /\ disk \in [Paths -> Takes]
    /\ nextId \in Nat \ {0} /\ takes \in Takes
    /\ unfinished \subseteq Takes /\ names \in [Paths -> Takes]
    /\ \A s \in rows : s.id < nextId /\ s.path \in Paths /\ s.start < s.end
    /\ \A r \in Recorders : recorder[r].at \in {"running", "writing", "closed"}
    /\ mt.at \in {"asleep", "scanning", "missing", "reclaiming", "removed"}
    /\ \A p \in Players : player[p].at \in {"out", "listed", "found"}

Reused == {p \in Paths : names[p] > 1}

(* What a player is sent for a segment of its playlist lies in the window   *)
(* that was signed and is the complete recording that was indexed under     *)
(* that id, unless the name of the file was given out again or the file was *)
(* closed while the storage was away.                                       *)
ServedIsRecorded ==
    \A p \in Players :
        LET s == player[p].row IN
        PlayerIs(p, "found") /\ Readable(s.path) =>
            /\ InWindow(s, player[p].url)
            /\ \/ s.path \in Reused \/ s.size = 0
               \/ disk[s.path] = s.take /\ s.take \notin unfinished

(* The store keeps the promise of SegmentCatalogue, for the segments that  *)
(* have an entry; they are playable while their file holds their take.     *)
Playable == {s \in rows : disk[s.path] = s.take /\ s.take \notin unfinished}

Catalogue == INSTANCE SegmentCatalogue WITH
    index <- rows, playable <- Playable, reused <- Reused,
    doubted <- IF MaintenanceIs("missing") THEN {mt.row} ELSE {}

KeepsPromise == Catalogue!Spec

(* A segment that has expired leaves the index, and an index that is over  *)
(* the capacity comes back to it, whatever crashes, fails or is recorded.  *)
Expired(s) == Lifetime # 0 /\ s.end + Lifetime < now
WithinLimits ==
    /\ \A s \in rows : ~Expired(s)
    /\ Capacity # 0 => Sized(rows) <= Capacity

LimitsAreReached == []<>WithinLimits
=============================================================================
