------------------------------ MODULE TcpServer ------------------------------
(***************************************************************************)
(* smart_home::TcpServer and TcpConnection: the reactor thread in run(),   *)
(* the workers that handle requests and send replies, a thread that calls  *)
(* stop(), and the clients at the other end.                               *)
(*                                                                         *)
(* A descriptor is a number: a socket that is closed gives it back, and    *)
(* the next accept gets it. A request is one frame that its handler     *)
(* answers with one frame; a frame is handed to ::send in Pieces calls.    *)
(* The pool is a queue with a limit (ThreadPool models it). Clients go on  *)
(* reading until they leave. Each critical section and each call on a      *)
(* socket is a step; in close() the exchange of connected_ and shutdown()  *)
(* are one.                                                                *)
(***************************************************************************)
EXTENDS Naturals, Sequences

CONSTANTS
    Conns,         \* clients, each with the TcpConnection it gets
    MaxFd,         \* descriptors the process can have besides the listener
    Workers,
    Reactor, Stopper,
    None,          \* no connection, no thread, no descriptor
    Asks,          \* how many requests each client may send
    Pieces,
    QueueCapacity  \* task_queue_size

ASSUME PiecesOfAFrame == Pieces \in Nat \ {0}
ASSUME QueueHasRoom == QueueCapacity \in Nat \ {0}
ASSUME RequestLimits == Asks \in [Conns -> Nat]
ASSUME ThreadsDiffer == /\ Reactor # Stopper /\ {Reactor, Stopper} \cap Workers = {}
                        /\ None \notin Conns \cup Workers \cup {Reactor, Stopper} \cup Nat
ASSUME SomeDescriptors == MaxFd \in Nat

Fds == 1..MaxFd
Senders == Workers \cup {Reactor}
Threads == Senders \cup {Stopper}

VARIABLES
    running, listening,
    owner,         \* whose socket each descriptor is
    sock,          \* socket_ of each connection
    connected,     \* connected_ of each connection
    holder,        \* the thread that holds send_mutex_ of each connection
    connections,   \* connections_
    client,        \* where each client is, its requests sent, and not yet read
    tasks,         \* the queue of workers_
    told,          \* how often close_handler_ was called for each connection
    thread,        \* what each thread is doing, to which connection
    round          \* the reactor's snapshot, and the descriptors that are ready

vars == <<running, listening, owner, sock, connected, holder, connections,
          client, tasks, told, thread, round>>
flags == <<running, listening>>
link == <<sock, connected, holder>>

(* left: pieces not yet sent. posts: requests not yet posted. bad: the     *)
(* frames could not be decoded.                                            *)
Doing(what, c) == [at |-> what, conn |-> c, left |-> 0, posts |-> 0, bad |-> FALSE]
Idle == Doing("idle", None)
NoRound == [snapshot |-> {}, ready |-> {}]

Init ==
    /\ running = TRUE /\ listening = TRUE
    /\ owner = [f \in Fds |-> None]
    /\ sock = [c \in Conns |-> None]
    /\ connected = [c \in Conns |-> FALSE]
    /\ holder = [c \in Conns |-> None]
    /\ connections = [f \in Fds |-> None]
    /\ client = [c \in Conns |-> [at |-> "away", asked |-> 0, unread |-> 0]]
    /\ tasks = <<>>
    /\ told = [c \in Conns |-> 0]
    /\ thread = [t \in Threads |-> IF t = Reactor THEN Doing("loop", None) ELSE Idle]
    /\ round = NoRound

Is(t, where) == thread[t].at = where
On(t) == thread[t].conn
Goes(t, where) == thread' = [thread EXCEPT ![t].at = where]
Rests(t) == thread' = [thread EXCEPT ![t] = Idle]
Scanning == Doing("scan", None)
Posting(c, n) == IF n = 0 THEN Scanning ELSE [Doing("post", c) EXCEPT !.posts = n]

Entries == {connections[f] : f \in Fds} \ {None}
Gone(c) == client[c].at = "gone"

-----------------------------------------------------------------------------
(* Clients.                                                                *)
Connect(c) ==
    /\ client[c].at = "away"
    /\ client' = [client EXCEPT ![c].at = "waiting"]
    /\ UNCHANGED <<flags, owner, link, connections, tasks, told, thread, round>>

Ask(c) ==
    /\ client[c].at = "connected" /\ client[c].asked < Asks[c]
    /\ client' = [client EXCEPT ![c].asked = @ + 1, ![c].unread = @ + 1]
    /\ UNCHANGED <<flags, owner, link, connections, tasks, told, thread, round>>

Disconnect(c) ==
    /\ client[c].at = "connected"
    /\ client' = [client EXCEPT ![c].at = "gone"]
    /\ UNCHANGED <<flags, owner, link, connections, tasks, told, thread, round>>

ClientStep(c) == Connect(c) \/ Ask(c) \/ Disconnect(c)

-----------------------------------------------------------------------------
(* TcpConnection::send(), by a worker or the reactor; when it is done, the *)
(* reactor goes on with the requests it has read or removes the connection.*)
After(t) ==
    IF t # Reactor THEN Idle
    ELSE IF thread[t].bad THEN Doing("remove", On(t))
    ELSE Posting(On(t), thread[t].posts)

SendDone(t) == thread' = [thread EXCEPT ![t] = After(t)]
Unlocked(c) == holder' = [holder EXCEPT ![c] = None]

MayLockBug(c) == TRUE                             \* no send_mutex_
MayLock(c) == holder[c] = None

SendBegins(t) ==
    /\ Is(t, "send") /\ MayLock(On(t))
    /\ IF connected[On(t)]
       THEN /\ holder' = [holder EXCEPT ![On(t)] = t]
            /\ thread' = [thread EXCEPT ![t].at = "sending", ![t].left = Pieces]
       ELSE SendDone(t) /\ UNCHANGED holder
    /\ UNCHANGED <<flags, owner, sock, connected, connections, client, tasks, told, round>>

(* ::send on the descriptor, whoever has it by now. A socket that was shut *)
(* down takes nothing; what is sent to a client that has gone may be       *)
(* accepted for a while.                                                   *)
Target(c) == owner[sock[c]]
Accepts(c) == Target(c) # None /\ connected[Target(c)]
Refuses(c) == ~(Accepts(c) /\ ~Gone(Target(c)))

SendPiece(t) ==
    /\ Is(t, "sending") /\ Accepts(On(t))
    /\ IF thread[t].left > 1
       THEN thread' = [thread EXCEPT ![t].left = @ - 1] /\ UNCHANGED holder
       ELSE SendDone(t) /\ Unlocked(On(t))
    /\ UNCHANGED <<flags, owner, sock, connected, connections, client, tasks, told, round>>

(* close(): the first to call it shuts the socket down and closes it.      *)
Shut(t, c, otherwise) ==
    /\ connected' = [connected EXCEPT ![c] = FALSE]
    /\ thread' = [thread EXCEPT ![t] =
           IF connected[c] THEN [@ EXCEPT !.at = "close", !.conn = c] ELSE otherwise]

SendFails(t) ==
    /\ Is(t, "sending") /\ Refuses(On(t))
    /\ Shut(t, On(t), After(t))
    /\ IF connected[On(t)] THEN UNCHANGED holder ELSE Unlocked(On(t))
    /\ UNCHANGED <<flags, owner, sock, connections, client, tasks, told, round>>

Released(c) == owner' = [owner EXCEPT ![sock[c]] = None]

(* close_socket(), in a send that failed.                                  *)
SendCloses(t) ==
    /\ Is(t, "close") /\ holder[On(t)] = t
    /\ Released(On(t)) /\ Unlocked(On(t)) /\ SendDone(t)
    /\ UNCHANGED <<flags, sock, connected, connections, client, tasks, told, round>>

SendStep(t) == SendBegins(t) \/ SendPiece(t) \/ SendFails(t) \/ SendCloses(t)

-----------------------------------------------------------------------------
(* A worker takes a request and answers it. It leaves when workers_.stop() *)
(* was called and the queue is empty.                                      *)
Take(w) ==
    /\ Is(w, "idle") /\ tasks # <<>>
    /\ thread' = [thread EXCEPT ![w] = Doing("send", Head(tasks))]
    /\ tasks' = Tail(tasks)
    /\ UNCHANGED <<flags, owner, link, connections, client, told, round>>

WorkerLeaves(w) ==
    /\ Is(w, "idle") /\ tasks = <<>> /\ Is(Reactor, "join")
    /\ Goes(w, "ended")
    /\ UNCHANGED <<flags, owner, link, connections, client, tasks, told, round>>

WorkerStep(w) == Take(w) \/ WorkerLeaves(w) \/ SendStep(w)

-----------------------------------------------------------------------------
(* run(): the descriptors of connections_ are watched, and each connection *)
(* of the snapshot that is ready is read.                                  *)
Snapshot ==
    /\ Is(Reactor, "loop") /\ running
    /\ Goes(Reactor, "select")
    /\ round' = [snapshot |-> Entries, ready |-> {f \in Fds : connections[f] # None}]
    /\ UNCHANGED <<flags, owner, link, connections, client, tasks, told>>

LoopEnds ==
    /\ Is(Reactor, "loop") /\ ~running
    /\ Goes(Reactor, "join")
    /\ UNCHANGED <<flags, owner, link, connections, client, tasks, told, round>>

(* Data, or the end of the stream, can be read.                            *)
Readable(c) == client[c].unread > 0 \/ Gone(c) \/ ~connected[c]

(* A descriptor that is not open makes select() fail for all of them.      *)
SelectFails ==
    /\ Is(Reactor, "select")
    /\ ~listening \/ \E f \in round.ready : owner[f] = None
    /\ Goes(Reactor, "loop")
    /\ round' = NoRound
    /\ UNCHANGED <<flags, owner, link, connections, client, tasks, told>>

SelectReturns ==
    /\ Is(Reactor, "select")
    /\ listening /\ \A f \in round.ready : owner[f] # None
    /\ Goes(Reactor, "accept")
    /\ round' = [round EXCEPT !.ready = {f \in @ : Readable(owner[f])}]
    /\ UNCHANGED <<flags, owner, link, connections, client, tasks, told>>

(* accept_ready() gets the lowest descriptor that is free.                 *)
Free == {f \in Fds : owner[f] = None}
Lowest(f) == f \in Free /\ \A g \in Free : f <= g
CanAccept(c) == listening /\ client[c].at = "waiting" /\ Free # {}

Accept(c, f) ==
    /\ Is(Reactor, "accept") /\ CanAccept(c) /\ Lowest(f)
    /\ owner' = [owner EXCEPT ![f] = c]
    /\ sock' = [sock EXCEPT ![c] = f]
    /\ connected' = [connected EXCEPT ![c] = TRUE]
    /\ client' = [client EXCEPT ![c].at = "connected"]
    /\ thread' = [thread EXCEPT ![Reactor] = Doing("insert", c)]
    /\ UNCHANGED <<flags, holder, connections, tasks, told, round>>

(* The entry of its descriptor is set, whatever it was and although stop() *)
(* may have taken the others by now.                                       *)
Insert ==
    /\ Is(Reactor, "insert")
    /\ connections' = [connections EXCEPT ![sock[On(Reactor)]] = On(Reactor)]
    /\ thread' = [thread EXCEPT ![Reactor] = Scanning]
    /\ UNCHANGED <<flags, owner, link, client, tasks, told, round>>

NothingToAccept ==
    /\ Is(Reactor, "accept")
    /\ \A c \in Conns : ~CanAccept(c)
    /\ thread' = [thread EXCEPT ![Reactor] = Scanning]
    /\ UNCHANGED <<flags, owner, link, connections, client, tasks, told, round>>

ToReadBug(c) == sock[c] \in round.ready           \* connected() is not asked
ToRead(c) == connected[c] /\ sock[c] \in round.ready

(* A connection that is not to be read now will not be later in the round. *)
Scan ==
    /\ Is(Reactor, "scan")
    /\ IF \E c \in round.snapshot : ToRead(c)
       THEN \E c \in {d \in round.snapshot : ToRead(d)} :
                /\ round' = [round EXCEPT !.snapshot = @ \ {c}]
                /\ thread' = [thread EXCEPT ![Reactor] = Doing("recv", c)]
       ELSE Goes(Reactor, "loop") /\ round' = NoRound
    /\ UNCHANGED <<flags, owner, link, connections, client, tasks, told>>

HasData(c) == c # None /\ client[c].unread > 0

(* connection_ready(): whoever has the descriptor is read. What came is    *)
(* decoded before any of it is posted; it may be malformed.                *)
Receive ==
    LET from == Target(On(Reactor))
    IN  /\ Is(Reactor, "recv")
        /\ HasData(from)
        /\ client' = [client EXCEPT ![from].unread = 0]
        /\ \E malformed \in BOOLEAN :
               thread' = [thread EXCEPT ![Reactor] =
                   IF malformed THEN [@ EXCEPT !.at = "send", !.bad = TRUE]
                   ELSE Posting(On(Reactor), client[from].unread)]
        /\ UNCHANGED <<flags, owner, link, connections, tasks, told, round>>

ReceiveEndsBug ==                                 \* an end taken for nothing yet
    /\ Is(Reactor, "recv") /\ ~HasData(Target(On(Reactor)))
    /\ thread' = [thread EXCEPT ![Reactor] = Scanning]
    /\ UNCHANGED <<flags, owner, link, connections, client, tasks, told, round>>

ReceiveEnds ==
    /\ Is(Reactor, "recv") /\ ~HasData(Target(On(Reactor)))
    /\ Goes(Reactor, "remove")
    /\ UNCHANGED <<flags, owner, link, connections, client, tasks, told, round>>

HasRoomBug == Len(tasks) <= QueueCapacity
HasRoom == Len(tasks) < QueueCapacity

(* Each frame is posted; the reactor answers it itself when the queue is   *)
(* full.                                                                   *)
Post ==
    LET rest == thread[Reactor].posts - 1
    IN  /\ Is(Reactor, "post")
        /\ IF HasRoom
           THEN /\ tasks' = Append(tasks, On(Reactor))
                /\ thread' = [thread EXCEPT ![Reactor] = Posting(On(Reactor), rest)]
           ELSE /\ thread' = [thread EXCEPT ![Reactor].at = "send", ![Reactor].posts = rest]
                /\ UNCHANGED tasks
        /\ UNCHANGED <<flags, owner, link, connections, client, told, round>>

(* remove_connection() takes the entry of the descriptor and closes it.    *)
Entry == connections[sock[On(Reactor)]]
ToldNext == Doing("tell", Entry)

Remove ==
    /\ Is(Reactor, "remove")
    /\ connections' = [connections EXCEPT ![sock[On(Reactor)]] = None]
    /\ IF Entry = None
       THEN thread' = [thread EXCEPT ![Reactor] = Scanning] /\ UNCHANGED connected
       ELSE Shut(Reactor, Entry, ToldNext)
    /\ UNCHANGED <<flags, owner, sock, holder, client, tasks, told, round>>

RemoveCloses ==
    /\ Is(Reactor, "close") /\ holder[On(Reactor)] # Reactor
    /\ Released(On(Reactor)) /\ Goes(Reactor, "tell")
    /\ UNCHANGED <<flags, link, connections, client, tasks, told, round>>

Tell ==
    /\ Is(Reactor, "tell")
    /\ told' = [told EXCEPT ![On(Reactor)] = @ + 1]
    /\ thread' = [thread EXCEPT ![Reactor] = Scanning]
    /\ UNCHANGED <<flags, owner, link, connections, client, tasks, round>>

(* workers_.stop(), after which run() returns.                             *)
Return ==
    /\ Is(Reactor, "join") /\ \A w \in Workers : Is(w, "ended")
    /\ Goes(Reactor, "returned")
    /\ UNCHANGED <<flags, owner, link, connections, client, tasks, told, round>>

ReactorStep ==
    \/ Snapshot \/ LoopEnds \/ SelectFails \/ SelectReturns
    \/ \E c \in Conns, f \in Fds : Accept(c, f)
    \/ Insert \/ NothingToAccept \/ Scan \/ Receive \/ ReceiveEnds \/ Post
    \/ SendStep(Reactor) \/ Remove \/ RemoveCloses \/ Tell \/ Return

-----------------------------------------------------------------------------
(* stop(), by another thread. It closes what it found in connections_; for *)
(* those the close handler is not called.                                  *)
StopBegins ==
    /\ Is(Stopper, "idle")
    /\ running' = FALSE /\ listening' = FALSE
    /\ Goes(Stopper, "swap")
    /\ UNCHANGED <<owner, link, connections, client, tasks, told, round>>

StopSwaps ==
    /\ Is(Stopper, "swap")
    /\ connections' = [f \in Fds |-> None]
    /\ thread' = [thread EXCEPT ![Stopper] = [at |-> "stopping", conn |-> None, todo |-> Entries]]
    /\ UNCHANGED <<flags, owner, link, client, tasks, told, round>>

StopShuts ==
    /\ Is(Stopper, "stopping")
    /\ \E c \in thread[Stopper].todo :
           LET rest == [thread[Stopper] EXCEPT !.todo = @ \ {c}] IN
           /\ connected' = [connected EXCEPT ![c] = FALSE]
           /\ thread' = [thread EXCEPT ![Stopper] =
                  IF connected[c] THEN [rest EXCEPT !.at = "close", !.conn = c] ELSE rest]
    /\ UNCHANGED <<flags, owner, sock, holder, connections, client, tasks, told, round>>

StopCloses ==
    /\ Is(Stopper, "close")
    /\ Released(On(Stopper))
    /\ thread' = [thread EXCEPT ![Stopper].at = "stopping", ![Stopper].conn = None]
    /\ UNCHANGED <<flags, link, connections, client, tasks, told, round>>

StopStep == StopBegins \/ StopSwaps \/ StopShuts \/ StopCloses

-----------------------------------------------------------------------------
Next ==
    \/ \E c \in Conns : ClientStep(c)
    \/ \E w \in Workers : WorkerStep(w)
    \/ ReactorStep \/ StopStep

(* The operating system schedules every thread, and clients that stay read *)
(* what they are sent. Nobody has to call stop().                          *)
Fairness ==
    /\ WF_vars(ReactorStep)
    /\ \A w \in Workers : WF_vars(WorkerStep(w))
    /\ WF_vars(StopSwaps \/ StopShuts \/ StopCloses)

Spec == Init /\ [][Next]_vars /\ Fairness

-----------------------------------------------------------------------------
TypeOK ==
    /\ running \in BOOLEAN /\ listening \in BOOLEAN
    /\ owner \in [Fds -> Conns \cup {None}] /\ connections \in [Fds -> Conns \cup {None}]
    /\ sock \in [Conns -> Fds \cup {None}] /\ connected \in [Conns -> BOOLEAN]
    /\ holder \in [Conns -> Senders \cup {None}]
    /\ tasks \in Seq(Conns) /\ Len(tasks) <= QueueCapacity
    /\ \A c \in Conns : client[c].unread <= client[c].asked /\ client[c].asked <= Asks[c]
    /\ told \in [Conns -> {0, 1}]
    /\ round.snapshot \subseteq Conns /\ round.ready \subseteq Fds

(* A connection that is connected has a descriptor of its own, and the     *)
(* reactor never reads, decodes and answers as one client what another one *)
(* sent, although descriptors are used again while it works on a snapshot. *)
DescriptorsAreOwn ==
    /\ \A c \in Conns : connected[c] => owner[sock[c]] = c
    /\ Is(Reactor, "recv") => Target(On(Reactor)) \in {On(Reactor), None}

(* Of two frames to one connection, one is sent to its end before the      *)
(* other begins: no thread is amid a frame while another one is.           *)
Amid(t, c) == Is(t, "sending") /\ On(t) = c /\ thread[t].left < Pieces
FramesAreWhole ==
    \A c \in Conns : \A t, u \in Senders : Amid(t, c) /\ Amid(u, c) => t = u

(* Again and again all that the clients have sent has been read and those   *)
(* that have gone are removed, unless the server is stopped or the reactor  *)
(* is blind: a send that failed has closed a descriptor which is still in   *)
(* connections_.                                                            *)
Waiting(c) == c \in Entries /\ (client[c].unread > 0 \/ Gone(c))
AllServed == \A c \in Conns : ~Waiting(c)
Blind == \E f \in Fds : connections[f] # None /\ owner[f] = None
ServesUnlessBlind == []<>(AllServed \/ Blind \/ ~running)

(* The same without the exception: what the event loop is for.             *)
Serves == []<>(AllServed \/ ~running)

(* Bytes go to the client they are meant for, or nowhere.                  *)
RepliesAreOwn ==
    \A t \in Senders : Is(t, "sending") => Target(On(t)) \in {On(t), None}

(* When stop() and run() are both over, every connection was closed. One    *)
(* that accept_ready() inserts after stop() has taken the others is not     *)
(* (MCTcpStopped.cfg).                                                      *)
StopLeavesNoneConnected ==
    Is(Reactor, "returned") /\ Is(Stopper, "stopping") /\ thread[Stopper].todo = {}
        => \A c \in Conns : ~connected[c]
=============================================================================
