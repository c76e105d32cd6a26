# Verification of the smart home server

TLA+ models of the C++ server in `src/` and of the part of the Qt client in
`client/` that talks to it, the TLC configurations that check them on small
instances, and TLAPS proofs of what holds for every instance. Paths below are
relative to the repository; each module names in comments the code it stands
for, and `PROJECT.json` maps every definition to its lines.

How to run, in this directory:

    tlc -workers 2 -config MCThreadPool.cfg MCThreadPool.tla     # any MC<name>.cfg
    tlapm ThreadPoolProofs.tla                                   # any *Proofs.tla

## 1. Inventory

The server is one process (`src/main.cpp`). The main thread is the reactor:
`TcpServer::run` selects over the listener and the connections, decodes TLV
frames and posts each as a task to a bounded `ThreadPool` (`thread_num`, 4 by
default in `conf/server.conf`). A worker executes the whole request: first
`AuthProtocolHandler`, then, once the connection is authenticated, the camera,
device, recording, playback and stream handlers. The reactor itself calls the
close handlers, authentication first and streams second. Recordings, streams,
maintenance and HLS have threads of their own. The client is one thread with an
event loop, besides the thread of its video decoder.

| part | state | operations | talks to | what is hard | what makes it correct |
|---|---|---|---|---|---|
| ThreadPool | task queue, `running_`, `stopping_`, threads | start, post, stop, worker_loop | every handler (tasks), TcpServer and HlsHttpServer (owners) | notify after unlock, stop against sleeping workers, throwing tasks | each accepted task runs once; no lost wake-up; stop drains and returns |
| TcpServer, TcpConnection | `connections_` by descriptor, `connected_`, send mutex, decoder | run, accept, read, remove, send, close, stop | pool, handlers | descriptors closed by any worker and used again, blocking sends, stop from another thread | a connection's close handler runs at most once; what is read belongs to the connection it is read for; frames are not mixed; what arrives is read |
| TLV codec | buffer of the decoder | append, encode | TcpServer, client | a frame cut anywhere, limits, compaction | frames out = frames in |
| AuthService, AuthProtocolHandler, UserRepository | `pending_` and `authenticated_` by connection address, `pending_registrations_` by name, users | two stages of register and login, connection_closed | TcpServer's workers and reactor | pipelined requests, disconnect during a request, address reuse, a repository that throws | one holder of a registration; users never overwritten; sessions stay with their connection |
| RecordingManager, RecordingProtocolHandler | `jobs_`, flags and thread of each job | start, stop, status, stop_all | SegmentRecorder, FfmpegMediaSource | flags that are reset, handle published late, joins on a worker | no orphan; reconnects for ever; stop waits and returns; first segment after a reconnect is marked |
| SegmentRecorder, FfmpegTsSegmentWriter | open segment, sequence number, `stopping_` | run, finish_segment, request_stop | storage, index | an exception between opening and indexing, a crash in between, names by the second | every indexed file is complete |
| Recording repository, MountedStorage, HlsPlaylistBuilder | index rows, files | insert, find, list, erase, resolve, build | recorder, maintenance, HLS | the disk and the index change at different times | an entry names the recording it was made for |
| RecordingMaintenance | thread, period | start, stop, run_once (missing, expired, over capacity, MD5) | index, storage | a mount that goes away, a crash between file and row, stale lists | nothing that still exists is forgotten; limits are reached |
| HlsHttpServer, hls_auth | its own pool, connections | playlist and segment requests | index, storage | reclaiming, restarts and reused ids during a playback | what is sent lies in the signed window and is what was recorded |
| StreamProtocolHandler, MediaStreamSession | `sessions_` by connection; flags, ring, two threads of each session | GetStream, StopStream, connection_closed, destructors | TcpConnection, RingBuffer, FfmpegMediaSource | start against stop, last reference dropped anywhere, client gone | no thread outlives its session; fragments follow their metadata; stop returns |
| RingBuffer | array, two indices, `closed_`, `dropped_` | push, pop, wait_pop, close | stream threads | full or empty, notify_one, time-outs | a first-in first-out queue that counts what it drops |
| media_wire | fragments of the packet in progress | fragment, append | session, client | lost or mixed fragments | a packet comes out whole or not at all |
| camera repository, camera API, protocols | a table behind a mutex | list, request | HTTP client | none beyond the table's mutex | - |
| Playback protocol | none | one translation | index | - | - |
| Configuration, Logger, MD5, HTTP clients, main | read once, or none | - | - | order of shutdown | - |
| Qt client: ProtocolClient | operation in progress, `authenticated_`, assemblies | connect, register, log in, request, read | server, dialog, window | replies that end no operation, reconnects, streams restarted | the client's state agrees with the server's session |
| Qt client: LoginDialog, MainWindow | pending action, busy, fields, message boxes, client.ini | clicks, timers, saved settings | ProtocolClient | slots that stay connected, message boxes inside slots | every attempt ends |
| Qt client: VideoDecoder | codec | configure, decode, reset (queued to its thread) | ProtocolClient, MainWindow | calls that overtake a restart | whole packets of one stream with its own codec |

The hazards of these parts, each at its line and with the properties that cover
it, are in `PROJECT.json`.

## 2. Plan

Written, in this order (the parts everything else runs on come first), each with
its runs and then its proofs:

1. `TaskService` (abstract) and `ThreadPool`; `ThreadPoolProofs`.
2. `RecordingManager`, with the control of `SegmentRecorder::run` and the flags
   of `FfmpegMediaSource`; `RecordingManagerProofs`.
3. `AuthProtocol`, over the queue that `TaskService` promises; `AuthProtocolProofs`.
4. `PacketQueue` (abstract) and `RingBuffer`; the first part of `MediaPathProofs`.
5. `MediaStream`, over the queue that `PacketQueue` promises and the part of
   `TcpConnection` it sees; `MediaStreamProofs`.
6. `SegmentCatalogue` (abstract) and `RecordingStore`: files, index,
   maintenance, playback; crashes and unmounts between any two steps;
   `RecordingStoreProofs`.
7. `TcpServer`: the select loop, descriptors that are closed behind its back and
   given out again, stop(); `TcpServerProofs`.
8. `MediaLink`: frames, fragments, reassembly and decoding over one connection;
   the second part of `MediaPathProofs`.
9. `ClientLogin`: the client's dialog, window and connection against the
   session the server keeps; `ClientLoginProofs`.

Nothing of the plan is left. `MediaLink` came last because its two decoders are
loops; each is a function of the number of passes, which an induction over that
number reaches (section 5).

## 3. What is modelled

One critical section of a mutex, one atomic store, one blocking call or one send
is one action, unless a comment of the module says that steps were merged and
why no other thread can see the difference. History variables and fields (`accepted`,
`completed`, `wire`, `own`, `by`) record what happened; no guard reads them.

### ThreadPool, TaskService

`thread_pool.cpp`, whole. `wpc`, `ppc`, `opc` are where each worker, poster and
the owner are; `PostAccept` and `PostNotify` are apart because `post()` notifies
after it has released the mutex; `StopMark`, `StopNotifyAll`, `StopJoin`,
`StopFinish` are `stop()`. A task that throws and one that returns both end in
`WorkerFinish`. Spurious wake-ups are an action. `TaskService` is what the pool
promises: a line of bounded length, served in order, drained when it closes.
`pending()` is the length of the queue and changes nothing.

### RecordingManager

`recording_manager.cpp` with `segment_recorder.cpp:22-35` and the interrupt flag
of `ffmpeg_media_source.cpp`. `jobs` is the table, `job` the fields of each Job
with those of its recorder and source, `pc` the thread of the job, `call` the
frame of each thread that executes start(), stop() or stop_all(). Three flags
tell a job to stop (`stopping`, `recStopping`, `srcStopping`); `RunReset` and
`SourceReset` are the two places that clear one. `handle` is the `std::thread`
member: a Job that is destroyed while it is "joinable" is `Terminated`, the
process has ended, and nothing is enabled after it. `StartSpawn` and `StartAssign`
are apart because the thread runs, and stop() may look for it, before start() has
assigned it to the Job.

With several workers that window is open, so a stop may return early and leave
a handle that nobody joins. `StopWaitsOutsideStart` and `HandlesAreJoined` say for any
number of callers that nothing else lets this happen, and
`StopReturnsUnlessOverridden` that only a flag cleared after it was set lets a stop
wait for ever; the properties without the exceptions are under "known violations".

### AuthProtocol

`auth_service.cpp`, `auth_protocol.cpp` and both user repositories. Connections
live at addresses, which are used again once nothing refers to the connection
that was there; `session` and `authenticated` are the maps keyed by address,
`pending` is `pending_registrations_`. A worker's `frame` is what its request has
computed so far; the reactor's one local is the name that connection_closed() is
about to cancel. Digests are abstracted to the salt they were made with, so a
right and a wrong one differ.

### RingBuffer, PacketQueue

`ring_buffer.hpp`, whole, with the spare slot, both policies, wait_pop's
predicate, time-outs and spurious wake-ups. `PacketQueue` is a bounded sequence
that drops its oldest or refuses the newest and counts what it drops. Values are
numbered, so a lost, repeated or reordered one shows.

### MediaStream

`media_stream.cpp` and `stream_protocol.cpp`, with what they see of
`tcp_server.cpp` and `ffmpeg_media_source.cpp`. `table` is `sessions_`; `ses` the
fields of each session and the positions of its reader and sender; `frame` what
each worker and the reactor execute. Shared pointers matter here: `Release` is
the end of a local `shared_ptr`, and whoever drops the last one runs the
destructor, which calls stop() again; `StartErases` may do so inside
`sessions_.erase()`, with the mutex held. It erases by connection, so a start that
fails late takes the entry of the next session of its connection: `NoOrphanStream`
says that a session with a live thread has its entry or a caller that holds it, and
`NoThreadOutlivesSession` that this caller joins it in the end. `ReactorReads` comes before
`ReactorRemoves` because a worker may close the connection in between. The
authentication gate is left out: every request of a connection may reach the
handler, which includes all that pass the gate. Merged steps: stop() closes the
ring as it interrupts the source (the flag affects reads only, the ring the
sender), and the reader closes the ring as it leaves its loop (nothing of the
session happens between the two).

Undefined behaviour: `source_->close()` can run while another thread is inside
`open()`. What that leads to besides a crash, a call that fails, can happen in
the model at any time.

### RecordingStore, SegmentCatalogue

`segment_recorder.cpp`, `recording.cpp`, `mysql_recording_repository.cpp`,
`recording_maintenance.cpp`, `playback_protocol.cpp` and the requests of
`hls_http_server.cpp`. RecordingManager has the control of a recording thread,
this module what it leaves behind. `disk` is the take (the number of the recording)
in each file, `rows` the index, `recorder[r]` where the thread of a channel is in
`run()` with its open segment, `mt` the run of the maintenance thread with the list,
the clock and the total it took at its start, `player` a playback: an URL for a
channel and a window, a segment of its playlist, the row that `find_by_id` returned.
Every call of the index and every operation on a file is a step, because nothing
holds a lock over two of them. `Mount` takes the storage away and brings it back,
`Crash` restarts the process, with an index in MySQL that is kept or one in memory that
is lost.

Abstractions: segments have the same size; an URL expires at some moment, so a player
may be refused at any time (`Refused`, also for a full task queue); the text of a playlist, the HMAC and the path check are
left out (every path in the index is below the root). `takes`, `unfinished` and `names`
are history.

`SegmentCatalogue` is what playback may rely on: a published segment is playable until
it has expired or the store is over its capacity, and loses its entry after its file.
The two exceptions the code has are written into the promise rather than
hidden: a name given out twice within a second (`reused`), and a segment that the
maintenance looked for in vain (`doubted`), which an unmounted disk is enough for.

What the model has and no property forbids, because no document does: a file of size 0
with an empty checksum is indexed when the storage goes away as it is closed; files left by
a crash, by a failed writer or by an insert that fails are in no index, counted by no
limit and reclaimed by nobody (`RunLeaves`, `IndexThrows`, `Crash`). A crash between the
removal of a file and that of its row is repaired by the next run.

### TcpServer

`tcp_server.cpp`, `run()` from its loop to its return. `owner[f]` is whose socket
descriptor `f` is, `sock[c]` the number the TcpConnection remembers, `connected[c]` its
flag, `connections` the map by descriptor; the four disagree in interesting ways
because a worker whose send fails closes the descriptor while the reactor's map and
snapshot still have it, and the next accept may get the same number. `round` is the snapshot of a round
and the set select() returned. `thread[t]` is where each thread is, with the
connection, the pieces left of the frame it sends, and the requests it has decoded and not
posted; `Accept` and `Insert` are apart, because stop() may take the map in between; the reactor itself sends when the queue is full or a frame is malformed.
`StopBegins` to `StopCloses` are `stop()`; nothing in `src/` calls it, so the server
ends with its process, but it is public.

Not in the model: descriptors of the process other than connections, the listener's own
number, and SIGPIPE, which `src/` neither blocks nor ignores and which ends the process
on Linux when a reply is sent to a connection that was reset before. Where a send
returns an error instead (ECONNRESET, or Windows), `SendFails` is what happens next.

### MediaLink

One connection, both directions, from `playLive()` to a decoded packet: `tlv.cpp`,
`media_wire.cpp` and the sender's order of `media_stream.cpp` on one side,
`protocol_client.cpp` and `video_decoder.cpp` on the other. `up` and `down` are
cells that TCP may deliver in pieces of any size; a cell knows its frame and its
place in it, which is what decoding is checked against and what no guard but the
one on a complete header reads. There are two loops. `CutOne` is one pass of the
server's `append()` and `Cut` the loop; it keeps a read position and compacts
(`Compacted`). `ReadOne` is one pass of the client's `readAvailable()`, which also
dispatches the frame, and `Read` the loop. Each is a function of the number of passes,
as many as there are cells, which is more than can cut anything off. `events` are the
calls queued to the decoder's thread. `PacketReassembler` of `media_wire.cpp` is
used by tests only; the client has its own (`ConsumeFragment`).

The workers execute any request that is queued (`Executes`), in any order. `sessions` is
the entry in `sessions_`, the number of sessions inside start(), and the sender of each
stream that was announced: `StopStreamOf` erases the entry, another worker may take a
GetStream at once, and the old sender goes on sending until it notices. What it sends
after the metadata of a later stream is *late*: such a fragment looks like one of the
new stream, whose ids it shares, and the client may build it into a packet or decode it
(`MCMediaLinkMixed.cfg`). `PacketsAreWhole` says that nothing else spoils a packet. When
a sender ends, which errors its reader reports and that a thread may not be created
is left to MediaStream; here a sender may always send no more.

Over its own limit the client drops what it has received and goes on reading; that is
in `ReadOne`, with the server's limit for the client's 16 MiB, and no frame of the
server reaches it. Not in the model: what is shown of a frame that was already queued when the user stopped;
a live frame that flips the view while a recording plays.

### ClientLogin

`protocol_client.cpp`, `login_dialog.cpp` and the connection side of
`main_window.cpp` and `main.cpp`, with the server's session for that connection.
The client is one thread, so a step is one event with all its slots; functions that
slots call are operators from a process state to the next (`Login(p, form)`), and
`Becomes` makes the result the next state. A message box runs an event loop inside a
slot of `readyRead()`: other events happen, nothing is read, and the slot goes on
in `CloseBox`. The dialog's slots stay connected after it is closed, as in the code.
`up` and `down` are messages in order; the server may accept, refuse, answer with the
plain Error of a full queue, or close at any point. `server.refused` is history.
Requests that keep no state in ProtocolClient are one request, `RequestCameras`.

Simplified: the host fields (`connectToServer` ignores them while connected), the
wording of status lines, and the login or registration a client never started.

## 4. Runs

| run | instance | states | shows |
|---|---|---|---|
| pool | 3 workers, 2 posters, 4 tasks, queue of 2 | 34,219 | safety, refinement of TaskService, liveness |
| recording_concurrent | 1 channel, 2 jobs, 2 callers | 176,648 | safety when requests overlap; stop() waits and handles are joined but for the window inside start() |
| recording_liveness | 1 channel, 1 job, 2 callers, cameras that may send for ever | 1,890 | stop() returns unless a flag it has set was cleared, reconnects |
| auth_registration | one client that waits and one that does not (2 requests), 2 addresses, 2 workers, queue of 2 | 1,270,041 | registration |
| ring | 3 consumers, capacity 3, 9 items | 6,408 | refinement of PacketQueue, no sleeper forgotten |
| stream_concurrent | 2 workers and the reactor, 1 connection, 2 sessions, ring of 1 | 2,065,112 | lifetime of sessions, streams without an entry |
| stream_liveness | 2 workers and the reactor, 1 connection, 1 session, cameras that may send for ever | 37,536 | stop() returns unless start() cleared its flags, a client that cannot be reached ends its reader |
| storage | 1 recorder, 1 playback, maintenance; capacity and lifetime of 1, 2 segments, 3 units of time, 1 crash | 375,544 | what is played is what was recorded, refinement of SegmentCatalogue, limits are reached |
| tcp | reactor, 1 worker, a caller of stop(), 2 clients, 2 descriptors, queue of 1, frames of 2 pieces | 525,825 | descriptors, frames of one connection, and that what arrives is read |
| tcp_blind | the same | violation | finding |
| media_link | 2 streams of 2 packets of 2 fragments, 1 stop, requests executed in any order, frames of up to 4 cells | 146,933 | no byte lost or read twice, whole packets with their codec unless a late fragment is part of one |
| client | 1 account and incomplete forms, 2 requests under way | 294,244 | the client agrees with the server, attempts end |

**Why these bounds.** *Pool*: three workers and two posters are the least for one
notification to be taken by a worker that was not sleeping while another sleeps
and a third runs; four tasks fill the queue twice; the pool may be stopped and started any number of
times. *Recording*: two jobs let a
key be recorded anew while the thread of the old job still runs, two callers let
every pair of requests overlap; a stop that waits waits for one job, so one is enough
for liveness, and stop_all() has one job at a time to tell and join (the theorems are about any number of each). *Auth*: one name is what clients compete for; two
addresses and two clients let an address be used again; two requests in flight
are what makes two workers serve one connection. *Ring*: nine items
move both indices twice round an array of four. *Storage*: the second segment is what
makes the first one too much, or what is opened under its name; two units of time are a
second, so the clock passes from one name to the next and past a lifetime; one crash can
fall between any two steps, and the run after it can fall behind it. A second playback would share nothing but the
index, which it does not change. There is one recorder: a run that starts while the stopped run
of its channel is still ending needs two, and is covered only by the theorems, which hold for any number. *Tcp*: two clients are the old and the new owner of a
descriptor, a queue of one fills with the second request of the first, a frame of two
pieces can be interrupted. *Media link*: the second stream reuses the packet ids of the
first, which may have stopped amid a packet; a header of two cells and a GetStream of four let a cut
fall in the header, after it, in the value and between frames; with `CompactAt` 4 and a StopStream of two cells every
branch of the compaction is taken, a buffer that keeps what was read included (a StopStream
with three cells of the GetStream behind it), and a request over `MaxLength` the limit. One stop separates two streams; a second one multiplies the
states without a new pair of neighbours. *Client*: one account with a complete and an incomplete form; the dialog has
one operation at a time, and two requests under way are what lets the main window start an
operation while an answer is on its way. *Stream*: two sessions are the old
and the new one of a connection, and connections share nothing but the table and its
mutex; a ring of one is empty, full and dropping at once. Liveness is checked on one session, which is what
a stop waits for. `MaxItems`, `Pipeline`, `MaxTime`,
`MaxTakes`, `MaxCrashes`, `Asks`, `MaxPlays`, `MaxStops` and `UnderWay`
cap counters that the program does not; every other bound is a parameter of the code.

**Symmetry** is used in runs that check safety only. `stream_concurrent` has a
VIEW: the interrupt flags, which only fairness reads, and `wire`, which is a
record, do not distinguish states there; no property of that run mentions them. `CHECK_DEADLOCK FALSE` is where the system may rest:
all clients gone, the handler or manager destroyed, the process ended, the bounds of time and requests used up. The pool and
the ring check deadlock.

### Fairness

- ThreadPool: weak fairness of each worker, of a poster that has a notification
  to make and of the owner inside stop(). The operating system schedules runnable
  threads and a released mutex is acquired; nothing is assumed of who posts, of
  spurious wake-ups or of starts. Tasks end: a handler that blocks for ever (the
  known violations of `stop()`) is outside this promise.
- RecordingManager (`Spec`): weak fairness of callers and threads. A read that
  has its interrupt flag set ends (libavformat polls `interrupt_read` while it
  waits), with packets possibly before that, hence strong fairness of
  `ReadInterrupted`. Nothing else ends a stream: a camera may send for ever.
- MediaStream (`Spec`): the same, with open() that ends (`rw_timeout`), a weakly
  fair sender, and a packet that has a last fragment (strong fairness of
  `SendsLast`; a blocked send ends because the client reads or goes away). A
  camera may send for ever and a read may skip other tracks for ever.
  `UnreachableClientEndsReader` is conditional on `CameraAnswers`: the sender sets
  `stopping_` and does not interrupt the source, so the reader notices at the end
  of its current read.

- RecordingStore: weak fairness of the steps of a maintenance run that always
  succeed, strong fairness of those that need the index or the storage
  (`EraseRow`, `RemoveFile`): each may fail now and then, and `std::remove` and MySQL
  are tried again by every run, but they do not fail every time. Nothing is assumed of recorders, players,
  crashes or the mount.
- TcpServer: weak fairness of the reactor, of each worker and of a stop() that has
  begun. It assumes that clients that stay read what they are sent: a client that does
  not blocks whoever sends to it, a worker or the reactor. Nobody has to call stop(),
  ask or leave.
- ClientLogin: a connection attempt succeeds or fails, a socket notices that its
  peer has closed, the server answers, and what has arrived is read. Users, timers and message boxes may
  do nothing for ever. The client has no time-out of its own, so a server that neither
  answers nor closes is outside this promise.
- MediaLink, AuthProtocol: safety only.

### Finding

`tcp_blind`: a send that fails on a worker closes the descriptor and leaves the
connection in `connections_`. From the next round on the closed descriptor is in the
set of select(), which fails for all of them (`tcp_server.cpp:165-176`); nobody is read
or accepted again and the close handler of that connection is never called. `tcp`
shows that this is the only way: `ServesUnlessBlind` has no other exception.

### Known violations

These configurations are kept to reproduce what is known to go wrong; each checks one
property, which TLC refutes. They are not in `PROJECT.json`, whose runs are the passing
ones and one finding; the passing runs say what remains true beside them.

Of three of them the repository says otherwise. `README.md:73-75` promises that
registration and login state is cleaned up by itself on a disconnect (断线自动清理) and that
clients do not get into each other's stages, against MCAuthAbandoned and MCAuthReuse.
`docs/ARCHITECTURE.md:14` has the client decode a stream with the metadata it was sent
first, against MCStreamMixed and MCMediaLinkMixed. And the reply "recording stopped"
(`recording_manager.cpp:164-167`), after which `recording_manager_tests.cpp:62-70` expects the
segments to be complete, is sent too early in MCRecordingStopRace. About the others the
documents say nothing, or only what a correct program would do anyway.

| configuration | module | property | what happens |
|---|---|---|---|
| MCRecordingStopHangs.cfg | MCRecordingManager | StopReturns | `run()` and `open()` clear the flags that `stop()` has set (`segment_recorder.cpp:25`, `ffmpeg_media_source.cpp:32`); `stop()` then joins a thread that reads a live camera for ever, and its worker is lost |
| MCRecordingStopRace.cfg | MCRecordingManager | StopWaitsForThread | `stop()` between the publication of the job and the assignment of its thread returns without waiting |
| MCAuthAbandoned.cfg | MCAuthProtocol | DisconnectCleansUp | a Section1 executed after the disconnect leaves its name reserved |
| MCAuthReuse.cfg | MCAuthProtocol | SessionStaysWithConnection | sessions keyed by a raw pointer outlive their connection |
| MCStreamMixed.cfg | MCMediaStream | FragmentsFollowMetadata | the old sender is stopped after its table entry is gone, so a pipelined GetStream starts the next stream while it still sends |
| MCMediaLinkMixed.cfg | MediaLink | NothingLateIsDecoded | the same, seen from the client: fragments of the stopped stream reach the decoder that the next stream has configured |
| MCStreamStopHangs.cfg | MCMediaStream | StopReturns | `MediaStreamSession::start` clears the flags (`media_stream.cpp:23`) that a StopStream executed by another worker has set; its `join()` then waits for a camera that may never end |
| MCTcpStopped.cfg | MCTcpServer | StopLeavesNoneConnected | `stop()` takes `connections_` between the accept of a connection and its insertion: `run()` returns with that connection open |
| MCTcpMisdirected.cfg | MCTcpServer | RepliesAreOwn | `close()` does not take `send_mutex_`: `stop()` or the reactor closes a descriptor amid a worker's send, the next client gets the number, and the rest of the frame |
| MCClientRefused.cfg | ClientLogin | RefusedEnds | a plain Error, as from a full task queue, does not end the operation in progress: on this connection every later attempt is turned away as still running |
| MCClientSaved.cfg | ClientLogin | SavesWhatWasUsed | a login in the main window runs the closed dialog's slot, which saves the dialog's fields over client.ini; `~MainWindow()` usually writes the window's own again |

MCRecordingStopRace, MCStreamMixed, MCMediaLinkMixed and MCStreamStopHangs need
`thread_num > 1`, which is the default, and a client that does not wait for the reply,
or two clients; MCRecordingStopHangs happens with one worker as well.

## 5. Proofs

All theorems are for any values of the constants that satisfy the named assumptions.

| module | theorems | assumptions on constants |
|---|---|---|
| ThreadPoolProofs | TypeCorrect, TasksRunOnce, WakeupsAreNotLost, StopDrains, NoSleeperInStop, PoolImplementsService | PoolSizes (finite, non-empty pool; positive queue), Callers |
| RecordingManagerProofs | TypeCorrect, RecordingsCanBeStopped, RecordingsGoOn, ReconnectIsMarked, StopsWaitForThreads, HandlesAreJoinedByStops | NullJob |
| AuthProtocolProofs | TypeCorrect, UserRecordsAreKept, RegistrationHasOneHolder, DigestsMatch | Limits, NoneIsNothing, FiniteWorkers |
| MediaPathProofs | of RingBuffer: TypeCorrect, RingImplementsQueue, SleepersAreWoken; of MediaLink: FramesRecovered, PacketsWhole | CapacityIsPositive, Bounds, ConsumersAreFinite; Sizes, RequestLimits |
| MediaStreamProofs | TypeCorrect, SessionsEndJoined, ClosedConnectionsAreClean, StreamsAreAttended | NoneIsNothing, ReactorIsNoWorker, RingHasRoom |
| RecordingStoreProofs | TypeCorrect, PlaybackGetsItsRecording, StoreKeepsPromise | Numbers, SecondIsPositive |
| TcpServerProofs | TypeCorrect, DescriptorsStayOwn, FramesStayWhole | PiecesOfAFrame, QueueHasRoom, RequestLimits, ThreadsDiffer |
| ClientLoginProofs | TypeCorrect, ClientAgrees | BlankIsNoForm |

These say that a null value is none of the values, that a limit is a positive number
(what the configuration enforces), that the pool is finite and that the reactor is not
one of its workers. None limits the number of workers or callers. The inductive invariants of RecordingManager's joins, the
digests of AuthProtocol, MediaStream, RecordingStore, TcpServer, ClientLogin and
MediaLink were checked by TLC on the instances of their runs before they were proved.

- **ThreadPool.** `EachTaskOnce` is inductive with `TypeOK`. The rest needs
  `PhaseInv`, which ties the two flags, the owner's position and the workers'
  positions together: without it nothing says that a worker which has left its
  loop left an empty queue behind, or that none sleeps after notify_all.
  `NoLostWakeup` counts: each step that lengthens the queue or puts a worker to
  sleep is paid by one that is on its way. `PoolImplementsService` maps every step
  to a step of `TaskService` or a stutter; that a queued task finds a free slot is
  the lemma `FreeSlot`.
- **RecordingManager.** `NoOrphan` and `NeverGivesUp` follow from `StopInv`: a job
  with a thread, or with a start() about to create one, is in the table, told to
  stop, or among the jobs some caller is going to tell; a thread ends only when
  told; what is registered has not been told. `DiscontinuityMarked` needs `MarkInv`,
  which follows the mark from the thread's variable through the recorder to the
  segment, also across runs that end before a packet and writers that fail.
  `JoinInv` says what a handle tells about its thread, for any callers: an empty one has
  no live thread unless some start() is just about to assign it, a joined one has ended,
  and while a start() is there the thread exists. A stop passes a job only when its handle
  is not joinable any more, which leaves the two cases of `StopWaitsOutsideStart`.
- **AuthProtocol.** `HolderInv` lists who may hold a registration (a session, a
  worker before or after it, the reactor on its way to cancel) pairwise exclusive,
  each with its entry in the map; `OneHolder` alone says it with a set of tagged
  holders, which the provers handle badly. `UsersAreKept` is an action property
  and follows from the type invariant. `DigestMatchesSetting` needs `DInv`, which
  follows one client that waits for its replies through its stages: it has one request,
  queued or served (`OneRequest`); its digest is made with the setting it was told last
  (`Fresh`); the entry of a registration is the one its holder made (`Reserved`, from
  `HolderInv`); and the setting of its session is what the worker is about to tell it or
  what it knows (`Replied`, `Replying`, `Completing`). The other clients may pipeline
  anything, close at any point and use the same names.
- **RingBuffer.** The refinement is arithmetic modulo the array's size: the lemmas
  `SlotFacts`, `BetweenFacts`, `SlotsDiffer` and `SlotShifts` say where the
  i-th item is and that no two share a slot, and `StoreAppends`, `HeadTakes` and
  `ReplaceShifts` turn the three ways to move an index into Append, Tail and both.
  `RingImplementsQueue` covers both overflow policies; the run instantiates the one
  the server uses. `NobodyLeftAsleep` compares cardinalities and is proved on top.
- **MediaLink.** `LinkInv` is inductive: the types, `FramesAreRecovered`, and `Sound`,
  which speaks of one sequence, what the client has received followed by what is under
  way to it, and ignores in it what is late (`OnTime`, `StreamOf`). In that sequence a fragment continues the last fragment cell before it, or
  the assembly that waits for it when there is none, unless that has a late fragment
  already (`Ordered`, `Continues`, `Fits`); the last
  cell before a fragment that is of any stream is of the same stream, or failing that
  the last such call, or failing that the codec unless it is not configured
  (`CellsAnnounced`, `CallsAnnounced`);
  and what the sender of the stream announced last (`Current`) sends next would continue it. The sequence changes in four ways,
  with a group of lemmas each: a frame is cut off its front and dispatched
  (`CutContinues`, `CutAnnounced`, `Dispatched`), a frame is appended (`SentIsOrdered`,
  `SentIsLast`; `OthersAreSound` for errors and late fragments, which change nothing,
  `MetadataIsSound` for the start of the next stream, which makes the sender before it late), a call is handled (`HandledIsSound`), and stopping drops the assemblies
  (`ResetIsSound`), after which an unfinished packet finds no assembly and is discarded.
  Framing is about runs of cells: the cells of a complete first frame can be cut off
  (`FrontIsCut`), those of a new one appended (`FrameIsSent`), and compacting changes
  what is stored and not what is unread (`CompactedKeeps`). The loops are proved by
  induction over the passes: `SetInduction`, from the well-founded order of the numbers,
  gives the function (`Iteration`) and the invariant of a pass (`UpTo`, with
  `CutOneKeeps` and `ReadOneKeeps`); a pass takes a frame or changes nothing, so after
  as many passes as cells nothing complete is left (`CutFacts`, `ReadFacts`).
- **MediaStream.** The point of a caller says what its frame holds (`StateOK`).
  `NoThreadOutlivesSession` follows from `Dying` and `Passed`: who runs a destructor is
  the only one left with the session, and has joined the handles it has passed.
  `ClosedConnectionHasNoStream` needs `Leaving`: a stream that a removed connection still
  has is about to be taken out by connection_closed(), or its start() has not sent the
  metadata yet and will fail to. `NoOrphanStream` is inductive
  with these (`AttendedStep`): a thread is created by a caller that holds the session;
  what takes an entry out of the table holds the session from then on, also the start
  that failed and takes the entry of a later session, unless another caller does; and a
  caller that is the last to hold a session runs its destructor first.
- **RecordingStore.** A segment is a row of the index, what a recorder writes or is
  about to index, or what a playback has found. Two segments of one name with different
  takes make the name reused (`Named`); no take is in two rows (`OwnTakes`); until it is
  indexed nobody but its recorder touches a file (`Kept`), and from its measurement on
  the file is complete or gone (`Sealed`); the rows that the maintenance has listed are
  still there, and what it reclaims is too old or too much now (`Scan`).
  `StoreKeepsPromise` is the whole of `KeepsPromise`, one lemma or case for each kind of
  step: `OpenSegment` is `Reuse` when its name exists and a stutter when it does not,
  `IndexSegment` is `Publish`, `RemoveFile` is `Reclaim` or removes nothing that was
  playable, `Inspect` doubts (`Doubt`), `EraseRow` is `Forget`, a maintenance run that
  ends amid a doubt is `Settle`, `Crash` is `Restart`, the clock and the mount are
  `Tick` and `Mount`, and everything else stutters.
- **TcpServer.** What refers to a connection refers to one that was accepted, with the
  descriptor it got (`References`). `Closing` says who may still give a descriptor back:
  the connection is connected, or one thread at "close" has taken that away, so no
  descriptor is closed that meanwhile belongs to another. `Holding` ties `send_mutex_` to
  the thread amid a frame, or amid the close that ends it; `Telling` says for whom the
  close handler is still to be called, which makes `told` at most 1; a connection on its
  way from `Accept` to `Insert` is one of those the reactor is busy with, and was told nothing.
- **ClientLogin.** The slots call each other, so the proof first reduces what each of
  them does to the connection: it changes nothing, dials, asks for the cameras or begins
  an operation (`Same`, `Dials`, `Lists`, `Opens`), and a message that is read fails the
  operation, is ignored, is answered with a digest, or ends a registration or a login.
  Over these kinds the invariant is short: at most one message of the two stages is on
  its way, up or down (`OneAtATime`); it belongs to the operation in progress and finds
  its stage at the server (`Asking`, `Answering`); an operation without a message was
  refused (`Waiting`). While the two ends are not both open it says only that a
  disconnected client remembers nothing.

Only model-checked: everything under fairness (`StopReturns` of ThreadPool,
`StopReturnsUnlessOverridden` of two modules, `Reconnects`, `UnreachableClientEndsReader`, `LimitsAreReached`, `ServesUnlessBlind`,
`AttemptsEnd`, the fairness part of `ImplementsService`), because the prover has no
ENABLED. Every invariant and every action property of the passing runs that is not about
fairness is a theorem. Two facts are the other way round, proved and without a run of their
own: that no worker sleeps through stop() of ThreadPool (`NoSleeperInStop`), and the
types of ClientLogin.

## 6. Not modelled

- Camera repository, camera API and camera protocols: a table behind one mutex,
  and translations of one request each; no two steps of them relate.
- `PacketReassembler` and the deserializers of `media_wire.cpp`: called by tests only.
- The HLS listening socket, and the start and stop of its pool and thread (those of ThreadPool).
- `main`: construction and destruction order; its message and close handlers are in
  TcpServer, ClientLogin and AuthProtocol, the choice of the repositories in RecordingStore.
- The window's layout, theme, log and recording forms, and the ffmpeg process that
  publishes a local webcam.
- Left out on purpose: wording of messages, logging, configuration and its ranges,
  MD5 and HMAC (pure functions), HTTP clients (one blocking call, no state), libav and MySQL beyond success, failure and interruption.
- Time: retry delays, the 200 ms of wait_pop, rw_timeout and the client's timers are
  choices that may happen whenever the code waits; only RecordingStore has a clock.
- Memory: allocation failures, except a std::thread that cannot be created.
