---------------------------- MODULE MediaStream ----------------------------
(***************************************************************************)
(* smart_home::StreamProtocolHandler and MediaStreamSession: the table of  *)
(* live streams, the reader and sender threads of each session, the        *)
(* workers of TcpServer that execute GetStream and StopStream, and its     *)
(* reactor, which executes connection_closed().                            *)
(*                                                                         *)
(* The ring is what PacketQueue promises, reduced to the number of packets *)
(* in it. A packet is one fragment or more. Each atomic store, critical    *)
(* section, blocking call and send is a step of its own, but stop() closes *)
(* the ring as it interrupts the source, and the reader as it leaves its   *)
(* loop: in between, others could only wait longer. A close of the source  *)
(* during open() or read() is a data race; what it leads to besides *)
(* a crash, an open() or read() that fails, can happen here at any time.   *)
(***************************************************************************)
EXTENDS Naturals

CONSTANTS
    Connections,
    Sessions,      \* MediaStreamSession objects that can exist at once
    Workers,
    Reactor,
    RingCapacity,
    None           \* no session, no connection

ASSUME NoneIsNothing == None \notin Sessions \cup Connections
ASSUME ReactorIsNoWorker == Reactor \notin Workers
ASSUME RingHasRoom == RingCapacity \in Nat \ {0}

Callers == Workers \cup {Reactor}

VARIABLES
    connected,     \* connected_ of each TcpConnection
    removed,       \* the reactor has taken the connection out of connections_
    table,         \* sessions_
    ses,           \* the fields of each session
    frame,         \* what each caller is executing, and on which session
    wire,          \* whose metadata, and whose fragment after it, was sent last
    closing        \* ~StreamProtocolHandler has begun

vars == <<connected, removed, table, ses, frame, wire, closing>>
links == <<connected, removed, wire>>

NewSession(c) ==
    [conn |-> c, running |-> FALSE, stopping |-> FALSE, interrupt |-> FALSE,
     ring |-> 0, ringClosed |-> FALSE, reader |-> "none", sender |-> "none",
     readerHandle |-> "empty", senderHandle |-> "empty"]

(* on: the connection the reactor removes. dying: the session is being     *)
(* destroyed by the caller that dropped the last reference to it. later:   *)
(* that happens inside sessions_.erase(), and the caller goes on with its  *)
(* own session after it; mutex_ is held until then.                        *)
Frame(at, s, dying) == [at |-> at, cur |-> s, on |-> None, dying |-> dying, later |-> None]
Idle == Frame("idle", None, FALSE)
Here(w) == frame[w].cur
Unlocked == \A w \in Callers : frame[w].later = None

Registered(s) == \E c \in Connections : table[c] = s
Holders(s) == {w \in Callers : s \in {frame[w].cur, frame[w].later}}
Referenced(s) == Registered(s) \/ Holders(s) # {}
Alive(s) == ses[s].reader \notin {"none", "done"} \/ ses[s].sender \notin {"none", "done"}

Init ==
    /\ connected = [c \in Connections |-> TRUE]
    /\ removed = [c \in Connections |-> FALSE]
    /\ table = [c \in Connections |-> None]
    /\ ses = [s \in Sessions |-> NewSession(None)]
    /\ frame = [w \in Callers |-> Idle]
    /\ wire = [c \in Connections |-> [metadata |-> None, fragment |-> None]]
    /\ closing = FALSE

(* Caller w goes on to point p, or stays where it is, and its session      *)
(* becomes r.                                                              *)
Goes(w, p) == frame' = [frame EXCEPT ![w].at = p]
Becomes(s, r) == ses' = [ses EXCEPT ![s] = r]
Moves(w, from, to, r) ==
    /\ frame[w].at = from
    /\ Goes(w, to)
    /\ Becomes(Here(w), r)
    /\ UNCHANGED <<links, table, closing>>

-----------------------------------------------------------------------------
(* StreamProtocolHandler::start(). A connection that has a session gets an *)
(* error and nothing changes.                                              *)
HasStreamBug(c) == FALSE                        \* the entry is overwritten
HasStream(c) == table[c] # None

StartInsert(w, c, s) ==
    /\ w # Reactor
    /\ ~closing
    /\ frame[w] = Idle
    /\ Unlocked
    /\ ~HasStream(c)
    /\ ~Referenced(s) /\ ~Alive(s)
    /\ table' = [table EXCEPT ![c] = s]
    /\ Becomes(s, NewSession(c))
    /\ frame' = [frame EXCEPT ![w] = Frame("run", s, FALSE)]
    /\ UNCHANGED <<links, closing>>

(* MediaStreamSession::start(): running_, then stopping_, then open(),     *)
(* which clears the interrupt flag before it connects.                     *)
StartRuns(w) == Moves(w, "run", "clear", [ses[Here(w)] EXCEPT !.running = TRUE])
StartClears(w) == Moves(w, "clear", "open", [ses[Here(w)] EXCEPT !.stopping = FALSE])
SourceClears(w) == Moves(w, "open", "opening", [ses[Here(w)] EXCEPT !.interrupt = FALSE])
SourceOpens(w) == Moves(w, "opening", "metadata", ses[Here(w)])
SourceFails(w) == Moves(w, "opening", "failed", ses[Here(w)])

(* sink_->metadata(): false when the connection is closed, or closes now.  *)
DeliversBug(c) == TRUE                          \* the result of send() ignored
Delivers(c) == connected[c]

SendMetadata(w) ==
    LET c == ses[Here(w)].conn
    IN  /\ frame[w].at = "metadata"
        /\ Delivers(c)
        /\ wire' = [wire EXCEPT ![c] = [metadata |-> Here(w), fragment |-> None]]
        /\ Goes(w, "reader")
        /\ UNCHANGED <<connected, removed, table, ses, closing>>

MetadataFails(w) ==
    /\ frame[w].at = "metadata"
    /\ ~Delivers(ses[Here(w)].conn)
    /\ Goes(w, "failed")
    /\ UNCHANGED <<links, table, ses, closing>>

StartReader(w) ==
    Moves(w, "reader", "sender",
          [ses[Here(w)] EXCEPT !.reader = "check", !.readerHandle = "joinable"])
StartSender(w) ==
    Moves(w, "sender", "release",
          [ses[Here(w)] EXCEPT !.sender = "check", !.senderHandle = "joinable"])

(* std::thread throws.                                                     *)
ThreadFails(w) ==
    /\ frame[w].at \in {"reader", "sender"}
    /\ Goes(w, "failed")
    /\ UNCHANGED <<links, table, ses, closing>>

(* The handlers of start(): the session's, then the table's, which erases  *)
(* whatever the connection has there, and may destroy it.                  *)
StartFails(w) == Moves(w, "failed", "erase", [ses[Here(w)] EXCEPT !.running = FALSE])

StartErases(w) ==
    /\ frame[w].at = "erase"
    /\ Unlocked
    /\ LET c == ses[Here(w)].conn
       IN  /\ table' = [table EXCEPT ![c] = None]
           /\ IF table[c] # None /\ Holders(table[c]) = {}
              THEN frame' = [frame EXCEPT ![w] = [Frame("test", table[c], TRUE)
                                                    EXCEPT !.later = Here(w)]]
              ELSE Goes(w, "release")
    /\ UNCHANGED <<links, ses, closing>>

-----------------------------------------------------------------------------
(* StreamProtocolHandler::stop(), for a StopStream, a closed connection or *)
(* the destructor.                                                         *)
TakesOut(w, c) ==
    /\ Unlocked
    /\ table[c] # None
    /\ table' = [table EXCEPT ![c] = None]
    /\ frame' = [frame EXCEPT ![w] = Frame("test", table[c], FALSE)]
    /\ UNCHANGED <<links, ses, closing>>

StopStream(w, c) ==
    /\ w # Reactor
    /\ ~closing
    /\ frame[w] = Idle
    /\ TakesOut(w, c)

(* The reactor reads the end of a connection it finds connected, closes it *)
(* and calls the close handler.                                            *)
ReactorReads(c) ==
    /\ frame[Reactor] = Idle
    /\ ~closing
    /\ connected[c] /\ ~removed[c]
    /\ frame' = [frame EXCEPT ![Reactor] = [Idle EXCEPT !.at = "remove", !.on = c]]
    /\ UNCHANGED <<links, table, ses, closing>>

ReactorRemoves(c) ==
    /\ frame[Reactor].at = "remove" /\ frame[Reactor].on = c
    /\ removed' = [removed EXCEPT ![c] = TRUE]
    /\ connected' = [connected EXCEPT ![c] = FALSE]
    /\ Goes(Reactor, "closed")
    /\ UNCHANGED <<table, ses, wire, closing>>

ConnectionClosed(c) ==
    /\ frame[Reactor].at = "closed" /\ frame[Reactor].on = c
    /\ \/ TakesOut(Reactor, c)
       \/ /\ Unlocked
          /\ table[c] = None
          /\ frame' = [frame EXCEPT ![Reactor] = Idle]
          /\ UNCHANGED <<links, table, ses, closing>>

Destroy ==
    /\ \A w \in Callers : frame[w] = Idle
    /\ closing' = TRUE
    /\ UNCHANGED <<links, table, ses, frame>>

DestroyStops(c) ==
    /\ closing
    /\ frame[Reactor] = Idle
    /\ TakesOut(Reactor, c)

-----------------------------------------------------------------------------
(* MediaStreamSession::stop(), also from the destructor.                   *)
NothingToStopBug(r) == ~r.running               \* running_ alone is asked
NothingToStop(r) ==
    ~r.running /\ r.readerHandle # "joinable" /\ r.senderHandle # "joinable"

StopTests(w) ==
    Moves(w, "test", IF NothingToStop(ses[Here(w)]) THEN "release" ELSE "mark", ses[Here(w)])

StopMarks(w) == Moves(w, "mark", "interrupt", [ses[Here(w)] EXCEPT !.stopping = TRUE])

InterruptedBug(r) == [r EXCEPT !.ringClosed = TRUE]  \* request_stop() left out
Interrupted(r) == [r EXCEPT !.interrupt = TRUE, !.ringClosed = TRUE]

StopInterrupts(w) == Moves(w, "interrupt", "joinReader", Interrupted(ses[Here(w)]))

Joined(handle) == IF handle = "joinable" THEN "joined" ELSE handle

JoinReader(w) ==
    /\ frame[w].at = "joinReader"
    /\ ses[Here(w)].readerHandle = "joinable" => ses[Here(w)].reader = "done"
    /\ Moves(w, "joinReader", "joinSender", [ses[Here(w)] EXCEPT !.readerHandle = Joined(@)])

SenderJoinableBug(r) == FALSE                   \* detached rather than joined
SenderJoinable(r) == r.senderHandle = "joinable"

JoinSender(w) ==
    /\ frame[w].at = "joinSender"
    /\ SenderJoinable(ses[Here(w)]) => ses[Here(w)].sender = "done"
    /\ Moves(w, "joinSender", "release",
             [ses[Here(w)] EXCEPT !.senderHandle = Joined(@), !.running = FALSE])

(* The local shared_ptr goes away; the last one runs ~MediaStreamSession.  *)
Last(w) == ~Registered(Here(w)) /\ Holders(Here(w)) = {w}

Release(w) ==
    /\ frame[w].at = "release"
    /\ frame' = [frame EXCEPT ![w] =
            IF frame[w].later # None THEN Frame("release", frame[w].later, FALSE)
            ELSE IF Last(w) /\ ~frame[w].dying THEN Frame("test", Here(w), TRUE)
            ELSE Idle]
    /\ ses' = IF frame[w].dying /\ ~Alive(Here(w)) THEN [ses EXCEPT ![Here(w)] = NewSession(None)] ELSE ses
    /\ UNCHANGED <<links, table, closing>>

-----------------------------------------------------------------------------
(* The threads of a session.                                               *)
Thread(s, r) ==
    /\ Becomes(s, r)
    /\ UNCHANGED <<links, table, frame, closing>>

(* The reader closes the ring when it leaves its loop.                     *)
Left(r) == [r EXCEPT !.reader = "done", !.ringClosed = TRUE]

ReaderChecks(s) ==
    /\ ses[s].reader = "check"
    /\ Thread(s, IF ses[s].stopping THEN Left(ses[s])
                 ELSE [ses[s] EXCEPT !.reader = "reading"])

(* push(): the oldest packet makes room in a full ring, and a closed one   *)
(* takes nothing.                                                          *)
PushedBug(r) == IF r.ringClosed THEN r.ring ELSE r.ring + 1
Pushed(r) == IF r.ringClosed \/ r.ring = RingCapacity THEN r.ring ELSE r.ring + 1

ReaderPushes(s) ==
    /\ ses[s].reader = "reading"
    /\ Thread(s, [ses[s] EXCEPT !.reader = "check", !.ring = Pushed(ses[s])])

(* The end of the stream, an interruption or an error.                     *)
ReaderEnds(s) ==
    /\ ses[s].reader = "reading"
    /\ Thread(s, Left(ses[s]))

Ended(r) == [r EXCEPT !.sender = "done", !.running = FALSE]

SenderChecks(s) ==
    /\ ses[s].sender = "check"
    /\ Thread(s, IF ses[s].stopping THEN Ended(ses[s])
                 ELSE [ses[s] EXCEPT !.sender = "waiting"])

SenderTakes(s) ==
    /\ ses[s].sender = "waiting"
    /\ ses[s].ring > 0
    /\ Thread(s, [ses[s] EXCEPT !.sender = "testing", !.ring = @ - 1])

(* wait_pop() returns false: the ring is closed, or 200 ms have passed.    *)
SenderGivesUp(s) ==
    /\ ses[s].sender = "waiting"
    /\ ses[s].ring = 0
    /\ Thread(s, Ended(ses[s]))

(* fragment_packet() throws.                                               *)
SenderThrows(s) ==
    /\ ses[s].sender = "waiting"
    /\ ses[s].ring > 0
    /\ Thread(s, [Ended(ses[s]) EXCEPT !.ring = @ - 1])

(* stopping_ is asked before each fragment, and may be set before the      *)
(* fragment is sent.                                                       *)
StoppedBug(r) == [r EXCEPT !.sender = "ending"] \* the reader is not told
Stopped(r) == [r EXCEPT !.sender = "ending", !.stopping = TRUE]

SenderTests(s) ==
    /\ ses[s].sender = "testing"
    /\ Thread(s, IF ses[s].stopping THEN Stopped(ses[s])
                 ELSE [ses[s] EXCEPT !.sender = "sending"])

(* A fragment is sent, the last of its packet or not.                      *)
SenderSends(s, next) ==
    LET c == ses[s].conn
    IN  /\ ses[s].sender = "sending"
        /\ connected[c]
        /\ Becomes(s, [ses[s] EXCEPT !.sender = next])
        /\ wire' = [wire EXCEPT ![c].fragment = s]
        /\ UNCHANGED <<connected, removed, table, frame, closing>>

SendsFragment(s) == SenderSends(s, "testing")
SendsLast(s) == SenderSends(s, "check")

SenderFails(s) ==
    /\ ses[s].sender = "sending"
    /\ ~connected[ses[s].conn]
    /\ Thread(s, Stopped(ses[s]))

SenderEnds(s) ==
    /\ ses[s].sender = "ending"
    /\ Thread(s, Ended(ses[s]))

(* A send of this or another handler fails and closes the connection. The  *)
(* reactor does not read from it any more.                                 *)
ConnectionFails(c) ==
    /\ connected[c]
    /\ connected' = [connected EXCEPT ![c] = FALSE]
    /\ UNCHANGED <<removed, table, ses, frame, wire, closing>>

-----------------------------------------------------------------------------
StartStep(w) ==
    \/ StartRuns(w) \/ StartClears(w) \/ SourceClears(w) \/ SourceOpens(w) \/ SourceFails(w)
    \/ SendMetadata(w) \/ MetadataFails(w) \/ StartReader(w) \/ StartSender(w)
    \/ ThreadFails(w) \/ StartFails(w) \/ StartErases(w)

StopStep(w) ==
    \/ StopTests(w) \/ StopMarks(w) \/ StopInterrupts(w)
    \/ JoinReader(w) \/ JoinSender(w)

CallerStep(w) == StartStep(w) \/ StopStep(w) \/ Release(w)

ReactorStep ==
    \E c \in Connections : ReactorRemoves(c) \/ ConnectionClosed(c) \/ DestroyStops(c)

ReaderStep(s) == ReaderChecks(s) \/ ReaderPushes(s) \/ ReaderEnds(s)

SenderStep(s) ==
    \/ SenderChecks(s) \/ SenderTakes(s) \/ SenderGivesUp(s) \/ SenderThrows(s)
    \/ SenderTests(s) \/ SendsFragment(s) \/ SendsLast(s) \/ SenderFails(s) \/ SenderEnds(s)

Next ==
    \/ \E w \in Callers :
          \/ CallerStep(w)
          \/ \E c \in Connections : StopStream(w, c) \/ \E s \in Sessions : StartInsert(w, c, s)
    \/ ReactorStep \/ Destroy
    \/ \E c \in Connections : ReactorReads(c) \/ ConnectionFails(c)
    \/ \E s \in Sessions : ReaderStep(s) \/ SenderStep(s)

SafeSpec == Init /\ [][Next]_vars

(* Threads are scheduled, an open() ends (rw_timeout), packets are finite, *)
(* a client reads what it is sent or goes away, and a read whose interrupt *)
(* flag stays set ends. A camera may send for ever, and a read() that      *)
(* skips the packets of other tracks may go on for ever.                   *)
ReadInterrupted(s) == ses[s].interrupt /\ ReaderEnds(s)

Fairness ==
    /\ WF_vars(ReactorStep)
    /\ \A w \in Callers : WF_vars(CallerStep(w))
    /\ \A s \in Sessions :
          /\ WF_vars(ReaderChecks(s)) /\ SF_vars(ReadInterrupted(s))
          /\ WF_vars(SenderStep(s)) /\ SF_vars(SendsLast(s))

Spec == SafeSpec /\ Fairness

-----------------------------------------------------------------------------
Points == {"idle", "run", "clear", "open", "opening", "metadata", "reader", "sender",
           "failed", "erase", "remove", "closed", "test", "mark", "interrupt",
           "joinReader", "joinSender", "release"}

SessionType ==
    [conn : Connections \cup {None}, running : BOOLEAN, stopping : BOOLEAN,
     interrupt : BOOLEAN, ring : 0..RingCapacity, ringClosed : BOOLEAN,
     reader : {"none", "check", "reading", "done"},
     sender : {"none", "check", "waiting", "testing", "sending", "ending", "done"},
     readerHandle : {"empty", "joinable", "joined"},
     senderHandle : {"empty", "joinable", "joined"}]

FrameType == [at : Points, cur : Sessions \cup {None}, on : Connections \cup {None},
              dying : BOOLEAN, later : Sessions \cup {None}]

TypeOK ==
    /\ connected \in [Connections -> BOOLEAN]
    /\ removed \in [Connections -> BOOLEAN]
    /\ table \in [Connections -> Sessions \cup {None}]
    /\ ses \in [Sessions -> SessionType]
    /\ frame \in [Callers -> FrameType]
    /\ \A w \in Callers :
          /\ frame[w].cur = None <=> frame[w].at \in {"idle", "remove", "closed"}
          /\ \A s \in {frame[w].cur, frame[w].later} \ {None} : ses[s].conn \in Connections
    /\ wire \in [Connections -> [metadata : Sessions \cup {None},
                                 fragment : Sessions \cup {None}]]
    /\ closing \in BOOLEAN

(* A session is destroyed with both its threads joined, whoever drops the  *)
(* last reference: no thread is left with a dangling this, and no handle   *)
(* ends the process (stop() returns early; start() may still be running).  *)
NoThreadOutlivesSession ==
    \A w \in Callers : frame[w].at = "release" /\ frame[w].dying =>
        /\ ~Alive(Here(w))
        /\ ses[Here(w)].readerHandle # "joinable" /\ ses[Here(w)].senderHandle # "joinable"

(* Once the reactor has removed a connection and nothing is being executed *)
(* for it, it has no stream, although a GetStream may be executed after    *)
(* connection_closed(): the metadata of such a stream is not delivered.    *)
ClosedConnectionHasNoStream ==
    \A c \in Connections :
        /\ removed[c] /\ frame[Reactor].on # c
        /\ \A w \in Callers : frame[w].cur # None => ses[frame[w].cur].conn # c
        => table[c] = None

(* No stream runs on unattended: the threads of a session that its table   *)
(* entry does not lead to any more are joined by a caller that still has   *)
(* the session. Fragments of an old stream after the metadata of a new one *)
(* come only from such a session (stream_protocol.cpp:96-98).              *)
NoOrphanStream == \A s \in Sessions : Alive(s) => Registered(s) \/ Holders(s) # {}

(* A client gets fragments only of the stream whose metadata it got last,  *)
(* with which it has initialised its decoder (docs/ARCHITECTURE.md:14).    *)
(* Refuted with two workers, which may execute a StopStream and the        *)
(* GetStream after it at once.                                             *)
FragmentsFollowMetadata ==
    \A c \in Connections : wire[c].fragment \in {None, wire[c].metadata}

(* stop() returns, and holds neither the reactor nor a worker for ever,    *)
(* unless start() of the same session, still being executed, clears both   *)
(* flags after stop() has set them: the reader it then creates may be      *)
(* joined for as long as the camera sends (media_stream.cpp:23).           *)
Overridden(w) ==
    /\ frame[w].at = "joinReader"
    /\ ses[Here(w)].reader \notin {"none", "done"}
    /\ ~ses[Here(w)].stopping /\ ~ses[Here(w)].interrupt

StopReturnsUnlessOverridden ==
    \A w \in Callers : frame[w].at = "mark" ~> frame[w].at = "idle" \/ Overridden(w)

(* The same without the exception.                                         *)
StopReturns == \A w \in Callers : frame[w].at = "mark" ~> frame[w].at = "idle"

(* A sender that cannot reach its client ends the reader too, which nobody *)
(* else may do: the reactor does not look at such a connection any more.   *)
(* The camera must go on sending packets or let its reads time out.        *)
CameraAnswers(s) == []<>(ses[s].reader # "reading")

UnreachableClientEndsReader ==
    \A s \in Sessions :
        CameraAnswers(s) =>
            (ses[s].sender = "sending" /\ ~connected[ses[s].conn] ~> ses[s].reader = "done")
=============================================================================
