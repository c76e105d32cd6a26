-------------------------- MODULE TcpServerProofs ---------------------------
(***************************************************************************)
(* Proofs about TcpServer for any number of clients, descriptors, workers, *)
(* requests and pieces and any queue limit.  The inductive invariant says  *)
(* what is known of a connection once it has been accepted (References),   *)
(* who may still give a descriptor back (Closing), who holds send_mutex_   *)
(* (Holding) and for whom the close handler is still to be called          *)
(* (Telling).                                                              *)
(***************************************************************************)
EXTENDS TcpServer, SequenceTheorems, TLAPS

(* Where a worker and the reactor can be; stop() keeps a list instead.     *)
WorkerPoints == {"idle", "send", "sending", "close", "ended"}
ReactorPoints ==
    {"loop", "select", "accept", "insert", "scan", "recv", "post", "send", "sending",
     "remove", "close", "tell", "join", "returned"}
StopperPoints == {"idle", "swap", "stopping", "close"}
Points == WorkerPoints \cup ReactorPoints \cup StopperPoints

SenderState ==
    [at : Points, conn : Conns \cup {None}, left : Nat, posts : Nat, bad : BOOLEAN]
StopperState ==
    [at : {"stopping", "close"}, conn : Conns \cup {None}, todo : SUBSET Conns]
ClientState ==
    [at : {"away", "waiting", "connected", "gone"}, asked : Nat, unread : Nat]

ThreadOK(t, s) ==
    /\ s \in SenderState \cup StopperState
    /\ t \in Senders => s \in SenderState
    /\ t \in Workers => s.at \in WorkerPoints
    /\ t = Reactor => s.at \in ReactorPoints /\ (s.at = "post" => s.posts > 0)
    /\ t = Stopper =>
          \/ s \in SenderState /\ s.at \in {"idle", "swap"}
          \/ s \in StopperState

ThreadsOK ==
    /\ thread \in [Threads -> SenderState \cup StopperState]
    /\ \A t \in Threads : ThreadOK(t, thread[t])

StateOK ==
    /\ ThreadsOK
    /\ client \in [Conns -> ClientState]
    /\ round \in [snapshot : SUBSET Conns, ready : SUBSET Fds]

(* A connection is known once it was accepted, with the descriptor it got; *)
(* whatever refers to a connection refers to a known one.                  *)
Known(c) == c \in Conns /\ sock[c] \in Fds
Busy == {"send", "sending", "close", "insert", "recv", "post", "remove", "tell"}

Accepted ==
    /\ \A c \in Conns : sock[c] = None <=> client[c].at \in {"away", "waiting"}
    /\ \A c \in Conns : sock[c] = None => ~connected[c] /\ told[c] = 0
Descriptors ==
    /\ \A f \in Fds : owner[f] # None => Known(owner[f]) /\ sock[owner[f]] = f
    /\ \A f \in Fds :
           connections[f] # None => Known(connections[f]) /\ sock[connections[f]] = f
Requests == \A i \in 1..Len(tasks) : Known(tasks[i])
AtWork == \A t \in Threads : thread[t].at \in Busy => Known(thread[t].conn)
Lists ==
    /\ \A c \in round.snapshot : Known(c)
    /\ thread[Stopper].at \in {"stopping", "close"} =>
           \A c \in thread[Stopper].todo : Known(c)

References == Accepted /\ Descriptors /\ Requests /\ AtWork /\ Lists

(* A descriptor is closed once, by a thread that found the connection       *)
(* connected and took that away.                                           *)
Closing ==
    /\ \A c \in Conns : connected[c] => owner[sock[c]] = c
    /\ \A t \in Threads : thread[t].at = "close" =>
           ~connected[thread[t].conn] /\ owner[sock[thread[t].conn]] = thread[t].conn
    /\ \A t, u \in Threads :
           thread[t].at = "close" /\ thread[u].at = "close" /\ t # u
               => thread[t].conn # thread[u].conn
    /\ thread[Reactor].at = "recv" =>
           owner[sock[thread[Reactor].conn]] \in {thread[Reactor].conn, None}

(* send_mutex_ is held by the thread that is sending, or that closes the    *)
(* connection because its send has failed.                                 *)
Holding ==
    /\ \A t \in Senders : thread[t].at = "sending" => holder[thread[t].conn] = t
    /\ \A c \in Conns : holder[c] # None =>
           /\ thread[holder[c]].conn = c
           /\ thread[holder[c]].at \in {"sending", "close"}

(* The close handler is called for a connection that was removed, once.     *)
ToTell ==
    \/ thread[Reactor].at = "tell"
    \/ thread[Reactor].at = "close" /\ holder[thread[Reactor].conn] # Reactor
Untold(c) == told[c] = 0 /\ \A f \in Fds : connections[f] # c

Telling ==
    /\ \A f \in Fds : connections[f] # None => told[connections[f]] = 0
    /\ ToTell => Untold(thread[Reactor].conn)
    /\ thread[Reactor].at = "insert" => told[thread[Reactor].conn] = 0

IInv == TypeOK /\ StateOK /\ References /\ Closing /\ Holding /\ Telling
-----------------------------------------------------------------------------
(* Threads.                                                                *)
LEMMA ThreadSets ==
    /\ Senders \subseteq Threads /\ Workers \subseteq Senders
    /\ Reactor \in Senders /\ Stopper \in Threads
    /\ Reactor \notin Workers /\ Stopper \notin Senders
    /\ None \notin Threads /\ None \notin Conns /\ None \notin Fds
BY ThreadsDiffer DEF Senders, Threads, Fds

LEMMA ThreadFields ==
    ASSUME ThreadsOK, NEW t \in Senders
    PROVE  /\ thread[t] \in SenderState
           /\ thread[t].at \in Points /\ thread[t].conn \in Conns \cup {None}
           /\ thread[t].left \in Nat /\ thread[t].posts \in Nat /\ thread[t].bad \in BOOLEAN
           /\ t \in Workers => thread[t].at \in WorkerPoints
           /\ t = Reactor => thread[t].at \in ReactorPoints
BY ThreadSets DEF ThreadsOK, ThreadOK, SenderState

LEMMA StopperFields ==
    ASSUME ThreadsOK, thread[Stopper].at \notin {"idle", "swap"}
    PROVE  /\ thread[Stopper] \in StopperState
           /\ thread[Stopper].at \in {"stopping", "close"}
           /\ thread[Stopper].conn \in Conns \cup {None}
           /\ thread[Stopper].todo \in SUBSET Conns
BY ThreadSets DEF ThreadsOK, ThreadOK, StopperState

LEMMA DoingFields ==
    ASSUME NEW p \in Points, NEW c \in Conns \cup {None}
    PROVE  /\ Doing(p, c) \in SenderState
           /\ Doing(p, c).at = p /\ Doing(p, c).conn = c
BY DEF Doing, SenderState

LEMMA PostingFields ==
    ASSUME NEW c \in Conns, NEW n \in Nat
    PROVE  /\ Posting(c, n) \in SenderState
           /\ Posting(c, n).at = IF n = 0 THEN "scan" ELSE "post"
           /\ n # 0 => Posting(c, n).conn = c /\ Posting(c, n).posts = n
BY DEF Posting, Scanning, Doing, SenderState, Points, ReactorPoints

(* What a sender goes on with after a send.                                *)
LEMMA AfterFields ==
    ASSUME ThreadsOK, NEW t \in Senders, thread[t].conn \in Conns
    PROVE  /\ ThreadOK(t, After(t))
           /\ After(t).at \in {"idle", "remove", "scan", "post"}
           /\ After(t).at \in {"remove", "post"} => After(t).conn = thread[t].conn
           /\ t # Reactor => After(t).at = "idle"
           /\ t = Reactor => After(t).at # "idle"
<1> USE ThreadSets DEF On
<1>0. /\ thread[t].posts \in Nat /\ thread[t].bad \in BOOLEAN
  BY ThreadFields
<1>1. CASE t # Reactor
  BY <1>1, DoingFields DEF After, Idle, ThreadOK, Points, WorkerPoints, Senders
<1>2. CASE t = Reactor /\ thread[t].bad
  <2>1. After(t) = Doing("remove", thread[t].conn)
    BY <1>2 DEF After
  <2>2. "remove" \in Points
    BY DEF Points, ReactorPoints
  <2>3. /\ After(t) \in SenderState /\ After(t).at = "remove"
        /\ After(t).conn = thread[t].conn
    BY <2>1, <2>2, DoingFields
  <2> QED  BY <1>2, <2>3 DEF ThreadOK, ReactorPoints
<1>3. CASE t = Reactor /\ ~thread[t].bad
  <2>1. After(t) = Posting(thread[t].conn, thread[t].posts)
    BY <1>3 DEF After
  <2> QED  BY <1>0, <1>3, <2>1, PostingFields DEF ThreadOK, ReactorPoints
<1> QED  BY <1>0, <1>1, <1>2, <1>3

LEMMA Moved ==
    ASSUME NEW s \in SenderState, NEW p \in Points
    PROVE  /\ [s EXCEPT !.at = p] \in SenderState
           /\ [s EXCEPT !.at = p].at = p /\ [s EXCEPT !.at = p].conn = s.conn
           /\ [s EXCEPT !.at = p].posts = s.posts
BY DEF SenderState

LEMMA Updated ==
    ASSUME ThreadsOK, NEW t \in Threads, NEW s, ThreadOK(t, s),
           thread' = [thread EXCEPT ![t] = s]
    PROVE  /\ ThreadsOK'
           /\ thread'[t] = s /\ \A u \in Threads \ {t} : thread'[u] = thread[u]
<1>1. s \in SenderState \cup StopperState
  BY DEF ThreadOK
<1>2. /\ thread' \in [Threads -> SenderState \cup StopperState]
      /\ thread'[t] = s /\ \A u \in Threads \ {t} : thread'[u] = thread[u]
  BY <1>1 DEF ThreadsOK
<1>3. \A u \in Threads : ThreadOK(u, thread'[u])
  BY <1>2 DEF ThreadsOK
<1> QED  BY <1>2, <1>3 DEF ThreadsOK


-----------------------------------------------------------------------------
(* What each step does to the threads: the one that takes it is found at   *)
(* its next place, the others where they were.                             *)
Only(t) == \A u \in Threads \ {t} : thread'[u] = thread[u]

LEMMA Going ==
    ASSUME ThreadsOK, NEW t \in Senders, NEW p \in Points \ {"post"}, Goes(t, p),
           t \in Workers => p \in WorkerPoints, t = Reactor => p \in ReactorPoints
    PROVE  /\ ThreadsOK' /\ Only(t)
           /\ thread'[t].at = p /\ thread'[t].conn = thread[t].conn
<1> DEFINE s == [thread[t] EXCEPT !.at = p]
<1>1. thread' = [thread EXCEPT ![t] = s]
  BY DEF Goes
<1>2. /\ s \in SenderState /\ s.at = p /\ s.conn = thread[t].conn
  BY ThreadFields, Moved
<1>3. ThreadOK(t, s)
  BY <1>2, ThreadSets DEF ThreadOK
<1> HIDE DEF s
<1> QED  BY <1>1, <1>2, <1>3, Updated, ThreadSets DEF Only

LEMMA SendBeginsMoves ==
    ASSUME ThreadsOK, NEW t \in Senders, On(t) \in Conns, SendBegins(t)
    PROVE  /\ ThreadsOK' /\ Only(t)
           /\ IF connected[On(t)]
              THEN thread'[t].at = "sending" /\ thread'[t].conn = thread[t].conn
              ELSE thread'[t] = After(t)
<1>1. CASE connected[On(t)]
  <2> DEFINE s == [thread[t] EXCEPT !.at = "sending", !.left = Pieces]
  <2>1. thread' = [thread EXCEPT ![t] = s]
    BY <1>1, ThreadSets DEF SendBegins, ThreadsOK
  <2>2. /\ s \in SenderState /\ s.at = "sending" /\ s.conn = thread[t].conn
    <3>1. "sending" \in Points
      BY DEF Points, WorkerPoints
    <3>2. thread[t] \in SenderState
      BY ThreadFields
    <3> QED  BY <3>1, <3>2, PiecesOfAFrame DEF SenderState
  <2>3. ThreadOK(t, s)
    BY <2>2, ThreadSets DEF ThreadOK, WorkerPoints, ReactorPoints
  <2> HIDE DEF s
  <2>4. t \in Threads
    BY ThreadSets
  <2>5. ThreadsOK' /\ Only(t) /\ thread'[t] = s
    BY <2>1, <2>3, <2>4, Updated DEF Only
  <2> QED  BY <1>1, <2>2, <2>5
<1>2. CASE ~connected[On(t)]
  BY <1>2, AfterFields, Updated, ThreadSets DEF SendBegins, SendDone, Only, On
<1> QED  BY <1>1, <1>2

LEMMA SendPieceMoves ==
    ASSUME ThreadsOK, NEW t \in Senders, On(t) \in Conns, SendPiece(t)
    PROVE  /\ ThreadsOK' /\ Only(t)
           /\ IF thread[t].left > 1
              THEN thread'[t].at = "sending" /\ thread'[t].conn = thread[t].conn
              ELSE thread'[t] = After(t)
<1>1. CASE thread[t].left > 1
  <2> DEFINE s == [thread[t] EXCEPT !.left = @ - 1]
  <2>1. thread' = [thread EXCEPT ![t] = s]
    BY <1>1 DEF SendPiece
  <2>2. /\ s \in SenderState /\ s.at = "sending" /\ s.conn = thread[t].conn
    BY <1>1, ThreadFields DEF SenderState, SendPiece, Is
  <2>3. ThreadOK(t, s)
    BY <2>2, ThreadSets DEF ThreadOK, WorkerPoints, ReactorPoints
  <2> HIDE DEF s
  <2> QED  BY <1>1, <2>1, <2>2, <2>3, Updated, ThreadSets DEF Only
<1>2. CASE ~(thread[t].left > 1)
  BY <1>2, AfterFields, Updated, ThreadSets DEF SendPiece, SendDone, Only, On
<1> QED  BY <1>1, <1>2

LEMMA SendFailsMoves ==
    ASSUME ThreadsOK, NEW t \in Senders, On(t) \in Conns, SendFails(t)
    PROVE  /\ ThreadsOK' /\ Only(t)
           /\ IF connected[On(t)]
              THEN thread'[t].at = "close" /\ thread'[t].conn = thread[t].conn
              ELSE thread'[t] = After(t)
<1>1. CASE connected[On(t)]
  <2> DEFINE s == [thread[t] EXCEPT !.at = "close", !.conn = On(t)]
  <2>1. thread' = [thread EXCEPT ![t] = s]
    BY <1>1 DEF SendFails, Shut
  <2>2. /\ s \in SenderState /\ s.at = "close" /\ s.conn = thread[t].conn
    <3>1. "close" \in Points
      BY DEF Points, WorkerPoints
    <3>2. thread[t] \in SenderState
      BY ThreadFields
    <3> QED  BY <3>1, <3>2 DEF SenderState, On
  <2>3. ThreadOK(t, s)
    BY <2>2, ThreadSets DEF ThreadOK, WorkerPoints, ReactorPoints
  <2> HIDE DEF s
  <2>4. t \in Threads
    BY ThreadSets
  <2>5. ThreadsOK' /\ Only(t) /\ thread'[t] = s
    BY <2>1, <2>3, <2>4, Updated DEF Only
  <2> QED  BY <1>1, <2>2, <2>5
<1>2. CASE ~connected[On(t)]
  <2>1. thread' = [thread EXCEPT ![t] = After(t)]
    BY <1>2 DEF SendFails, Shut
  <2> QED  BY <1>2, <2>1, AfterFields, Updated, ThreadSets DEF Only, On
<1> QED  BY <1>1, <1>2

LEMMA SendClosesMoves ==
    ASSUME ThreadsOK, NEW t \in Senders, On(t) \in Conns, SendCloses(t)
    PROVE  ThreadsOK' /\ Only(t) /\ thread'[t] = After(t)
BY AfterFields, Updated, ThreadSets DEF SendCloses, SendDone, Only, On

LEMMA TakeMoves ==
    ASSUME ThreadsOK, tasks \in Seq(Conns), NEW w \in Workers, Take(w)
    PROVE  /\ ThreadsOK' /\ Only(w)
           /\ thread'[w].at = "send" /\ thread'[w].conn = Head(tasks)
<1> DEFINE s == Doing("send", Head(tasks))
<1>1. Head(tasks) \in Conns /\ thread' = [thread EXCEPT ![w] = s]
  BY DEF Take
<1>2. /\ s \in SenderState /\ s.at = "send" /\ s.conn = Head(tasks)
  BY <1>1, DoingFields DEF Points, WorkerPoints
<1>3. ThreadOK(w, s)
  BY <1>2, ThreadSets DEF ThreadOK, WorkerPoints
<1> HIDE DEF s
<1> QED  BY <1>1, <1>2, <1>3, Updated, ThreadSets DEF Only

LEMMA ScanningMoves ==
    ASSUME ThreadsOK, thread' = [thread EXCEPT ![Reactor] = Scanning]
    PROVE  ThreadsOK' /\ Only(Reactor) /\ thread'[Reactor].at = "scan"
<1>1. /\ Scanning \in SenderState /\ Scanning.at = "scan"
  BY DoingFields DEF Scanning, Points, ReactorPoints
<1>2. ThreadOK(Reactor, Scanning)
  BY <1>1, ThreadSets DEF ThreadOK, ReactorPoints
<1> QED  BY <1>1, <1>2, Updated, ThreadSets DEF Only

LEMMA DoingMoves ==
    ASSUME ThreadsOK, NEW p \in ReactorPoints \ {"post"}, NEW c \in Conns,
           thread' = [thread EXCEPT ![Reactor] = Doing(p, c)]
    PROVE  /\ ThreadsOK' /\ Only(Reactor)
           /\ thread'[Reactor].at = p /\ thread'[Reactor].conn = c
<1>1. /\ Doing(p, c) \in SenderState /\ Doing(p, c).at = p /\ Doing(p, c).conn = c
  BY DoingFields DEF Points
<1>2. ThreadOK(Reactor, Doing(p, c))
  BY <1>1, ThreadSets DEF ThreadOK
<1> QED  BY <1>1, <1>2, Updated, ThreadSets DEF Only

LEMMA AcceptMoves ==
    ASSUME ThreadsOK, NEW c \in Conns, NEW f \in Fds, Accept(c, f)
    PROVE  /\ ThreadsOK' /\ Only(Reactor)
           /\ thread'[Reactor].at = "insert" /\ thread'[Reactor].conn = c
BY DoingMoves DEF Accept, ReactorPoints

LEMMA PostingMoves ==
    ASSUME ThreadsOK, NEW c \in Conns, NEW n \in Nat,
           thread' = [thread EXCEPT ![Reactor] = Posting(c, n)]
    PROVE  /\ ThreadsOK' /\ Only(Reactor)
           /\ thread'[Reactor].at \in {"scan", "post"}
           /\ thread'[Reactor].at = "post" => thread'[Reactor].conn = c
<1>1. ThreadOK(Reactor, Posting(c, n))
  BY PostingFields, ThreadSets DEF ThreadOK, ReactorPoints
<1>2. /\ Posting(c, n).at \in {"scan", "post"}
      /\ Posting(c, n).at = "post" => Posting(c, n).conn = c
  BY PostingFields
<1>3. ThreadsOK' /\ thread'[Reactor] = Posting(c, n) /\ Only(Reactor)
  BY <1>1, Updated, ThreadSets DEF Only
<1> QED  BY <1>2, <1>3

LEMMA ReceiveMoves ==
    ASSUME ThreadsOK, client \in [Conns -> ClientState], On(Reactor) \in Conns,
           Target(On(Reactor)) \in Conns \cup {None}, Receive
    PROVE  /\ ThreadsOK' /\ Only(Reactor)
           /\ thread'[Reactor].at \in {"send", "scan", "post"}
           /\ thread'[Reactor].at # "scan" => thread'[Reactor].conn = thread[Reactor].conn
<1> DEFINE from == Target(On(Reactor))
           s == [thread[Reactor] EXCEPT !.at = "send", !.bad = TRUE]
<1>1. from \in Conns /\ client[from].unread \in Nat
  BY DEF Receive, HasData, ClientState
<1>2. \/ thread' = [thread EXCEPT ![Reactor] = s]
      \/ thread' = [thread EXCEPT ![Reactor] = Posting(On(Reactor), client[from].unread)]
  BY DEF Receive
<1>3. /\ s \in SenderState /\ s.at = "send" /\ s.conn = thread[Reactor].conn
  BY ThreadFields, ThreadSets DEF SenderState, Points, WorkerPoints
<1>4. ThreadOK(Reactor, s)
  BY <1>3, ThreadSets DEF ThreadOK, ReactorPoints
<1> HIDE DEF s, from
<1>5. CASE thread' = [thread EXCEPT ![Reactor] = s]
  BY <1>3, <1>4, <1>5, Updated, ThreadSets DEF Only
<1>6. CASE thread' = [thread EXCEPT ![Reactor] = Posting(On(Reactor), client[from].unread)]
  BY <1>1, <1>6, PostingMoves DEF On
<1> QED  BY <1>2, <1>5, <1>6

LEMMA PostMoves ==
    ASSUME ThreadsOK, On(Reactor) \in Conns, Post
    PROVE  /\ ThreadsOK' /\ Only(Reactor)
           /\ thread'[Reactor].at \in {"send", "scan", "post"}
           /\ thread'[Reactor].at # "scan" => thread'[Reactor].conn = thread[Reactor].conn
<1> DEFINE rest == thread[Reactor].posts - 1
           s == [thread[Reactor] EXCEPT !.at = "send", !.posts = rest]
<1>1. rest \in Nat
  BY ThreadFields, ThreadSets DEF Post, Is, ThreadsOK, ThreadOK
<1>2. \/ thread' = [thread EXCEPT ![Reactor] = s]
      \/ thread' = [thread EXCEPT ![Reactor] = Posting(On(Reactor), rest)]
  BY ThreadSets DEF Post, ThreadsOK
<1>3. /\ s \in SenderState /\ s.at = "send" /\ s.conn = thread[Reactor].conn
  BY <1>1, ThreadFields, ThreadSets DEF SenderState, Points, WorkerPoints
<1>4. ThreadOK(Reactor, s)
  BY <1>3, ThreadSets DEF ThreadOK, ReactorPoints
<1> HIDE DEF s, rest
<1>5. CASE thread' = [thread EXCEPT ![Reactor] = s]
  BY <1>3, <1>4, <1>5, Updated, ThreadSets DEF Only
<1>6. CASE thread' = [thread EXCEPT ![Reactor] = Posting(On(Reactor), rest)]
  BY <1>1, <1>6, PostingMoves DEF On
<1> QED  BY <1>2, <1>5, <1>6

LEMMA RemoveMoves ==
    ASSUME ThreadsOK, Remove, Entry \in Conns \cup {None}
    PROVE  /\ ThreadsOK' /\ Only(Reactor)
           /\ IF Entry = None THEN thread'[Reactor].at = "scan"
              ELSE /\ thread'[Reactor].at = IF connected[Entry] THEN "close" ELSE "tell"
                   /\ thread'[Reactor].conn = Entry
<1>1. CASE Entry = None
  BY <1>1, ScanningMoves DEF Remove
<1>2. CASE Entry # None /\ ~connected[Entry]
  <2>1. thread' = [thread EXCEPT ![Reactor] = Doing("tell", Entry)]
    BY <1>2 DEF Remove, Shut, ToldNext
  <2> QED  BY <1>2, <2>1, DoingMoves DEF ReactorPoints
<1>3. CASE Entry # None /\ connected[Entry]
  <2> DEFINE s == [thread[Reactor] EXCEPT !.at = "close", !.conn = Entry]
  <2>1. thread' = [thread EXCEPT ![Reactor] = s]
    BY <1>3 DEF Remove, Shut
  <2>2. /\ s \in SenderState /\ s.at = "close" /\ s.conn = Entry
    BY <1>3, ThreadFields, ThreadSets DEF SenderState, Points, WorkerPoints
  <2>3. ThreadOK(Reactor, s)
    BY <2>2, ThreadSets DEF ThreadOK, ReactorPoints
  <2> HIDE DEF s
  <2> QED  BY <1>3, <2>1, <2>2, <2>3, Updated, ThreadSets DEF Only
<1> QED  BY <1>1, <1>2, <1>3

LEMMA StopBeginsMoves ==
    ASSUME ThreadsOK, StopBegins
    PROVE  ThreadsOK' /\ Only(Stopper) /\ thread'[Stopper].at = "swap"
<1> DEFINE s == [thread[Stopper] EXCEPT !.at = "swap"]
<1>1. thread' = [thread EXCEPT ![Stopper] = s]
  BY DEF StopBegins, Goes
<1>2. thread[Stopper] \in SenderState
  BY ThreadSets DEF ThreadsOK, ThreadOK, StopBegins, Is, StopperState
<1>3. s \in SenderState /\ s.at = "swap"
  BY <1>2, Moved DEF Points, StopperPoints
<1>4. ThreadOK(Stopper, s)
  BY <1>3, ThreadSets DEF ThreadOK
<1> HIDE DEF s
<1> QED  BY <1>1, <1>3, <1>4, Updated, ThreadSets DEF Only

LEMMA StopSwapsMoves ==
    ASSUME ThreadsOK, connections \in [Fds -> Conns \cup {None}], StopSwaps
    PROVE  /\ ThreadsOK' /\ Only(Stopper)
           /\ thread'[Stopper].at = "stopping" /\ thread'[Stopper].todo = Entries
<1> DEFINE s == [at |-> "stopping", conn |-> None, todo |-> Entries]
<1>1. thread' = [thread EXCEPT ![Stopper] = s]
  BY DEF StopSwaps
<1>2. s \in StopperState /\ s.at = "stopping" /\ s.todo = Entries
  BY DEF StopperState, Entries
<1>3. ThreadOK(Stopper, s)
  BY <1>2, ThreadSets DEF ThreadOK
<1> HIDE DEF s
<1> QED  BY <1>1, <1>2, <1>3, Updated, ThreadSets DEF Only

(* The connection that stop() closes, if it was connected, or goes on from. *)
StopMoved(c) ==
    /\ ThreadsOK' /\ Only(Stopper)
    /\ thread'[Stopper].todo \subseteq thread[Stopper].todo
    /\ connected' = [connected EXCEPT ![c] = FALSE]
    /\ IF connected[c]
       THEN thread'[Stopper].at = "close" /\ thread'[Stopper].conn = c
       ELSE thread'[Stopper].at = "stopping"

LEMMA StopShutsMoves ==
    ASSUME ThreadsOK, StopShuts
    PROVE  \E c \in thread[Stopper].todo : StopMoved(c)
<1>1. /\ thread[Stopper] \in StopperState /\ thread[Stopper].at = "stopping"
      /\ thread[Stopper].conn \in Conns \cup {None}
      /\ thread[Stopper].todo \in SUBSET Conns
  BY StopperFields DEF StopShuts, Is
<1>2. PICK c \in thread[Stopper].todo :
         LET rest == [thread[Stopper] EXCEPT !.todo = @ \ {c}] IN
         /\ connected' = [connected EXCEPT ![c] = FALSE]
         /\ thread' = [thread EXCEPT ![Stopper] =
                IF connected[c] THEN [rest EXCEPT !.at = "close", !.conn = c] ELSE rest]
  BY DEF StopShuts
<1> DEFINE rest == [thread[Stopper] EXCEPT !.todo = @ \ {c}]
           s == [rest EXCEPT !.at = "close", !.conn = c]
<1>3. /\ rest \in StopperState /\ rest.at = "stopping"
      /\ rest.todo \subseteq thread[Stopper].todo
  BY <1>1 DEF StopperState
<1>4. /\ s \in StopperState /\ s.at = "close" /\ s.conn = c
      /\ s.todo \subseteq thread[Stopper].todo
  BY <1>1 DEF StopperState
<1>5. ThreadOK(Stopper, rest) /\ ThreadOK(Stopper, s)
  BY <1>3, <1>4, ThreadSets DEF ThreadOK
<1>6. thread' = [thread EXCEPT ![Stopper] = IF connected[c] THEN s ELSE rest]
  BY <1>2
<1> HIDE DEF rest, s
<1>7. CASE connected[c]
  BY <1>2, <1>4, <1>5, <1>6, <1>7, Updated, ThreadSets DEF StopMoved, Only
<1>8. CASE ~connected[c]
  BY <1>2, <1>3, <1>5, <1>6, <1>8, Updated, ThreadSets DEF StopMoved, Only
<1> QED  BY <1>7, <1>8

LEMMA StopClosesMoves ==
    ASSUME ThreadsOK, StopCloses
    PROVE  /\ ThreadsOK' /\ Only(Stopper)
           /\ thread'[Stopper].at = "stopping"
           /\ thread'[Stopper].todo = thread[Stopper].todo
<1> DEFINE s == [thread[Stopper] EXCEPT !.at = "stopping", !.conn = None]
<1>1. thread' = [thread EXCEPT ![Stopper] = s]
  BY ThreadSets DEF StopCloses, ThreadsOK
<1>2. /\ s \in StopperState /\ s.at = "stopping" /\ s.todo = thread[Stopper].todo
  BY StopperFields DEF StopperState, StopCloses, Is
<1>3. ThreadOK(Stopper, s)
  BY <1>2, ThreadSets DEF ThreadOK
<1> HIDE DEF s
<1> QED  BY <1>1, <1>2, <1>3, Updated, ThreadSets DEF Only

-----------------------------------------------------------------------------
(* What the invariant says of a connection some thread is at work on.      *)
LEMMA OnKnown ==
    ASSUME References, NEW t \in Threads, thread[t].at \in Busy
    PROVE  On(t) \in Conns /\ sock[On(t)] \in Fds
BY DEF References, AtWork, Known, On

LEMMA EntryKnown ==
    ASSUME TypeOK, References, Is(Reactor, "remove")
    PROVE  /\ Entry \in Conns \cup {None}
           /\ Entry # None => Known(Entry) /\ sock[Entry] = sock[On(Reactor)]
<1>1. sock[On(Reactor)] \in Fds
  BY OnKnown, ThreadSets DEF Is, Busy
<1> QED  BY <1>1 DEF Entry, TypeOK, References, Descriptors

LEMMA StateStep ==
    ASSUME IInv, [Next]_vars
    PROVE  StateOK'
<1> USE DEF IInv
<1>0. /\ ThreadsOK /\ client \in [Conns -> ClientState]
      /\ round \in [snapshot : SUBSET Conns, ready : SUBSET Fds]
  BY DEF StateOK
<1>1. CASE UNCHANGED vars
  BY <1>0, <1>1 DEF vars, StateOK, ThreadsOK, ThreadOK
<1>2. ASSUME NEW c \in Conns, ClientStep(c) PROVE StateOK'
  <2>1. UNCHANGED <<thread, round>> /\ client' \in [Conns -> ClientState]
    BY <1>0, <1>2 DEF ClientStep, Connect, Ask, Disconnect, ClientState
  <2> QED  BY <1>0, <2>1 DEF StateOK, ThreadsOK, ThreadOK
<1>3. ASSUME NEW t \in Senders, SendStep(t) PROVE StateOK'
  <2>1. On(t) \in Conns
    BY <1>3, OnKnown, ThreadSets
       DEF SendStep, SendBegins, SendPiece, SendFails, SendCloses, Is, Busy
  <2>2. ThreadsOK' /\ UNCHANGED <<client, round>>
    BY <1>0, <1>3, <2>1, SendBeginsMoves, SendPieceMoves, SendFailsMoves, SendClosesMoves
       DEF SendStep, SendBegins, SendPiece, SendFails, SendCloses
  <2> QED  BY <1>0, <2>2 DEF StateOK
<1>4. ASSUME NEW w \in Workers, Take(w) \/ WorkerLeaves(w) PROVE StateOK'
  <2>1. CASE Take(w)
    BY <1>0, <2>1, TakeMoves DEF Take, StateOK, TypeOK
  <2>2. CASE WorkerLeaves(w)
    BY <1>0, <2>2, Going, ThreadSets DEF WorkerLeaves, StateOK, Points, WorkerPoints
  <2> QED  BY <1>4, <2>1, <2>2
<1>5. CASE Snapshot \/ LoopEnds \/ SelectFails \/ SelectReturns \/ ReceiveEnds
           \/ RemoveCloses \/ Return
  <2>1. ThreadsOK'
    BY <1>0, <1>5, Going, ThreadSets
       DEF Snapshot, LoopEnds, SelectFails, SelectReturns, ReceiveEnds,
           RemoveCloses, Return, Points, ReactorPoints
  <2>2. client' = client
    BY <1>5 DEF Snapshot, LoopEnds, SelectFails, SelectReturns, ReceiveEnds,
                RemoveCloses, Return
  <2>3. round' \in [snapshot : SUBSET Conns, ready : SUBSET Fds]
    BY <1>0, <1>5 DEF Snapshot, LoopEnds, SelectFails, SelectReturns, ReceiveEnds,
                RemoveCloses, Return, Entries, TypeOK, NoRound
  <2> QED  BY <1>0, <2>1, <2>2, <2>3 DEF StateOK
<1>6. ASSUME NEW c \in Conns, NEW f \in Fds, Accept(c, f) PROVE StateOK'
  <2>1. ThreadsOK' /\ round' = round
    BY <1>0, <1>6, AcceptMoves DEF Accept
  <2>2. client' \in [Conns -> ClientState]
    BY <1>0, <1>6 DEF Accept, ClientState
  <2> QED  BY <1>0, <2>1, <2>2 DEF StateOK
<1>7. CASE Insert \/ NothingToAccept \/ Tell
  BY <1>0, <1>7, ScanningMoves DEF Insert, NothingToAccept, Tell, StateOK
<1>8. CASE Scan
  <2>1. CASE \E c \in round.snapshot : ToRead(c)
    BY <1>0, <1>8, <2>1, DoingMoves DEF Scan, StateOK, ReactorPoints
  <2>2. CASE ~ \E c \in round.snapshot : ToRead(c)
    BY <1>0, <1>8, <2>2, Going, ThreadSets DEF Scan, StateOK, Points, ReactorPoints, NoRound
  <2> QED  BY <2>1, <2>2
<1>9. CASE Receive
  <2>1. On(Reactor) \in Conns /\ sock[On(Reactor)] \in Fds
    BY <1>9, OnKnown, ThreadSets DEF Receive, Is, Busy
  <2>2. Target(On(Reactor)) \in Conns \cup {None}
    BY <2>1 DEF Target, TypeOK
  <2>3. ThreadsOK' /\ round' = round
    BY <1>0, <1>9, <2>1, <2>2, ReceiveMoves DEF Receive
  <2>4. client' \in [Conns -> ClientState]
    BY <1>0, <1>9 DEF Receive, ClientState
  <2> QED  BY <1>0, <2>3, <2>4 DEF StateOK
<1>10. CASE Post
  BY <1>0, <1>10, OnKnown, ThreadSets, PostMoves DEF Post, Is, Busy, StateOK
<1>11. CASE Remove
  BY <1>0, <1>11, EntryKnown, RemoveMoves DEF Remove, StateOK
<1>12. CASE StopBegins \/ StopSwaps \/ StopShuts \/ StopCloses
  <2>1. ThreadsOK'
    BY <1>0, <1>12, StopBeginsMoves, StopSwapsMoves, StopShutsMoves, StopClosesMoves
       DEF StopMoved, TypeOK
  <2>2. UNCHANGED <<client, round>>
    BY <1>12 DEF StopBegins, StopSwaps, StopShuts, StopCloses
  <2> QED  BY <1>0, <2>1, <2>2 DEF StateOK
<1> QED
  BY <1>1, <1>2, <1>3, <1>4, <1>5, <1>6, <1>7, <1>8, <1>9, <1>10, <1>11, <1>12, ThreadSets
     DEF Next, WorkerStep, ReactorStep, StopStep

(* Every step keeps the type invariant: the queue does not outgrow its     *)
(* limit, and the close handler is called once.                            *)
LEMMA TypeStep ==
    ASSUME IInv, [Next]_vars
    PROVE  TypeOK'
<1> USE DEF IInv
<1>0. /\ client \in [Conns -> ClientState]
      /\ round \in [snapshot : SUBSET Conns, ready : SUBSET Fds]
      /\ round' \in [snapshot : SUBSET Conns, ready : SUBSET Fds]
  BY StateStep DEF StateOK
<1>a. round'.snapshot \subseteq Conns /\ round'.ready \subseteq Fds
  BY <1>0
<1>1. CASE UNCHANGED vars
  BY <1>1 DEF vars, TypeOK
<1>2. ASSUME NEW c \in Conns, ClientStep(c) PROVE TypeOK'
  <2>1. \A d \in Conns : client'[d].unread <= client'[d].asked /\ client'[d].asked <= Asks[d]
    <3>1. CASE Connect(c) \/ Disconnect(c)
      <4>1. \A d \in Conns : /\ client'[d].unread = client[d].unread
                            /\ client'[d].asked = client[d].asked
        BY <1>0, <3>1 DEF Connect, Disconnect, ClientState
      <4> QED  BY <4>1 DEF TypeOK
    <3>2. CASE Ask(c)
      BY <1>0, <3>2, RequestLimits DEF Ask, ClientState, TypeOK
    <3> QED  BY <1>2, <3>1, <3>2 DEF ClientStep
  <2> QED  BY <1>2, <2>1 DEF ClientStep, Connect, Ask, Disconnect, TypeOK, flags, link
<1>3. ASSUME NEW t \in Senders, SendStep(t) PROVE TypeOK'
  <2>1. On(t) \in Conns /\ sock[On(t)] \in Fds
    BY <1>3, OnKnown, ThreadSets
       DEF SendStep, SendBegins, SendPiece, SendFails, SendCloses, Is, Busy
  <2>2. UNCHANGED <<running, listening, sock, connections, client, tasks, told, round>>
    BY <1>3 DEF SendStep, SendBegins, SendPiece, SendFails, SendCloses, flags
  <2>3. /\ owner' \in [Fds -> Conns \cup {None}] /\ connected' \in [Conns -> BOOLEAN]
        /\ holder' \in [Conns -> Senders \cup {None}]
    BY <1>3, <2>1
       DEF SendStep, SendBegins, SendPiece, SendFails, SendCloses, TypeOK, Shut,
           Released, Unlocked
  <2> QED  BY <2>2, <2>3 DEF TypeOK
<1>4. ASSUME NEW w \in Workers, Take(w) \/ WorkerLeaves(w) PROVE TypeOK'
  <2>1. tasks' \in Seq(Conns) /\ Len(tasks') <= QueueCapacity
    <3>1. tasks \in Seq(Conns) /\ Len(tasks) <= QueueCapacity /\ QueueCapacity \in Nat
      BY QueueHasRoom DEF TypeOK
    <3>2. CASE Take(w)
      <4>1. tasks # <<>> /\ tasks' = Tail(tasks)
        BY <3>2 DEF Take
      <4> QED  BY <3>1, <4>1, HeadTailProperties
    <3>3. CASE WorkerLeaves(w)
      BY <3>1, <3>3 DEF WorkerLeaves
    <3> QED  BY <1>4, <3>2, <3>3
  <2> QED  BY <1>4, <2>1 DEF Take, WorkerLeaves, TypeOK, flags, link
<1>5. CASE Snapshot \/ LoopEnds \/ SelectFails \/ SelectReturns \/ ReceiveEnds
           \/ NothingToAccept \/ Scan \/ Return
  <2>1. UNCHANGED <<running, listening, owner, sock, connected, holder, connections,
                    client, tasks, told>>
    BY <1>5 DEF Snapshot, LoopEnds, SelectFails, SelectReturns, ReceiveEnds,
                NothingToAccept, Scan, Return, flags, link
  <2> QED  BY <1>a, <2>1 DEF TypeOK
<1>6. ASSUME NEW c \in Conns, NEW f \in Fds, Accept(c, f) PROVE TypeOK'
  <2>1. \A d \in Conns : client'[d].unread <= client'[d].asked /\ client'[d].asked <= Asks[d]
    BY <1>0, <1>6 DEF Accept, ClientState, TypeOK
  <2> QED  BY <1>6, <2>1 DEF Accept, TypeOK, flags
<1>7. CASE Receive
  <2>1. \A d \in Conns : client'[d].unread <= client'[d].asked /\ client'[d].asked <= Asks[d]
    BY <1>0, <1>7, RequestLimits DEF Receive, ClientState, TypeOK
  <2> QED  BY <1>7, <2>1 DEF Receive, TypeOK, flags, link
<1>8. CASE Post
  <2>1. On(Reactor) \in Conns
    BY <1>8, OnKnown, ThreadSets DEF Post, Is, Busy
  <2>2. tasks' \in Seq(Conns) /\ Len(tasks') <= QueueCapacity
    <3>1. tasks \in Seq(Conns) /\ Len(tasks) <= QueueCapacity /\ QueueCapacity \in Nat
      BY QueueHasRoom DEF TypeOK
    <3>2. \/ tasks' = tasks
          \/ tasks' = Append(tasks, On(Reactor)) /\ Len(tasks) < QueueCapacity
      BY <1>8 DEF Post, HasRoom
    <3> QED  BY <2>1, <3>1, <3>2, AppendProperties
  <2> QED  BY <1>8, <2>2 DEF Post, TypeOK, flags, link
<1>9. CASE Remove
  BY <1>9 DEF Remove, Shut, TypeOK, flags
<1>10. CASE RemoveCloses
  BY <1>10 DEF RemoveCloses, Released, TypeOK, flags, link
<1>11. CASE Tell
  <2>1. told[On(Reactor)] = 0
    BY <1>11 DEF Tell, Is, Telling, ToTell, Untold, On
  <2>2. told \in [Conns -> {0, 1}] /\ told' = [told EXCEPT ![On(Reactor)] = @ + 1]
    BY <1>11 DEF Tell, TypeOK
  <2>3. told' = [told EXCEPT ![On(Reactor)] = 1]
    BY <2>1, <2>2
  <2>4. told' \in [Conns -> {0, 1}]
    BY <2>2, <2>3
  <2> QED  BY <1>11, <2>4 DEF Tell, TypeOK, flags, link
<1>12. CASE StopBegins \/ StopSwaps \/ StopShuts \/ StopCloses
  <2>1. CASE StopBegins
    BY <2>1 DEF StopBegins, TypeOK, link
  <2>2. CASE StopSwaps
    BY <2>2 DEF StopSwaps, TypeOK, flags, link
  <2>3. CASE StopShuts
    BY <2>3 DEF StopShuts, TypeOK, flags
  <2>4. CASE StopCloses
    BY <2>4 DEF StopCloses, Released, TypeOK, flags, link
  <2> QED  BY <1>12, <2>1, <2>2, <2>3, <2>4
<1>13. CASE Insert
  <2>1. On(Reactor) \in Conns
    BY <1>13, OnKnown, ThreadSets DEF Insert, Is, Busy
  <2>2. connections' \in [Fds -> Conns \cup {None}]
    BY <1>13, <2>1 DEF Insert, TypeOK
  <2> QED  BY <1>13, <2>2 DEF Insert, TypeOK, flags, link
<1> QED
  BY <1>1, <1>2, <1>3, <1>4, <1>5, <1>6, <1>7, <1>8, <1>9, <1>10, <1>11, <1>12, <1>13, ThreadSets
     DEF Next, WorkerStep, ReactorStep, StopStep

(* A connection that is known keeps the descriptor it was accepted with.   *)
LEMMA KnownStays ==
    ASSUME IInv, [Next]_vars, NEW d \in Conns, Known(d)
    PROVE  Known(d)' /\ sock'[d] = sock[d]
<1>1. CASE UNCHANGED sock
  BY <1>1 DEF Known
<1>2. ASSUME NEW c \in Conns, NEW f \in Fds, Accept(c, f) PROVE Known(d)' /\ sock'[d] = sock[d]
  <2>1. sock[c] = None /\ sock' = [sock EXCEPT ![c] = f]
    BY <1>2 DEF IInv, References, Accepted, Accept, CanAccept
  <2> QED  BY <2>1, ThreadSets DEF Known
<1> QED
  BY <1>1, <1>2
     DEF Next, vars, link, ClientStep, Connect, Ask, Disconnect, WorkerStep, Take, WorkerLeaves,
         ReactorStep, Snapshot, LoopEnds, SelectFails, SelectReturns, Insert, NothingToAccept,
         Scan, Receive, ReceiveEnds, Post, Remove, RemoveCloses, Tell, Return, SendStep,
         SendBegins, SendPiece, SendFails, SendCloses,
         StopStep, StopBegins, StopSwaps, StopShuts, StopCloses

LEMMA AcceptedStep ==
    ASSUME IInv, [Next]_vars
    PROVE  Accepted'
<1> USE DEF IInv, References
<1>0. client \in [Conns -> ClientState]
  BY DEF StateOK
<1>1. CASE UNCHANGED <<sock, client, connected, told>>
  BY <1>1 DEF Accepted
<1>2. ASSUME NEW c \in Conns, ClientStep(c) PROVE Accepted'
  BY <1>0, <1>2 DEF ClientStep, Connect, Ask, Disconnect, ClientState, Accepted, link
<1>3. ASSUME NEW c \in Conns, connected' = [connected EXCEPT ![c] = FALSE],
             UNCHANGED <<sock, client, told>>
      PROVE  Accepted'
  BY <1>3 DEF Accepted, TypeOK
<1>4. ASSUME NEW c \in Conns, NEW f \in Fds, Accept(c, f) PROVE Accepted'
  <2>1. \A d \in Conns : client'[d].at = IF d = c THEN "connected" ELSE client[d].at
    BY <1>0, <1>4 DEF Accept, ClientState
  <2>2. \A d \in Conns : d # c => sock'[d] = sock[d] /\ connected'[d] = connected[d]
    BY <1>4 DEF Accept, TypeOK
  <2>3. sock'[c] = f /\ f # None /\ told' = told
    BY <1>4, ThreadSets DEF Accept, TypeOK
  <2> QED  BY <2>1, <2>2, <2>3 DEF Accepted
<1>5. CASE Receive
  <2>1. \A d \in Conns : client'[d].at = client[d].at
    BY <1>0, <1>5 DEF Receive, ClientState
  <2> QED  BY <1>5, <2>1 DEF Receive, Accepted, link
<1>6. CASE Tell
  <2>1. On(Reactor) \in Conns /\ sock[On(Reactor)] # None
    BY <1>6, OnKnown, ThreadSets DEF Tell, Is, Busy
  <2>2. \A d \in Conns : d # On(Reactor) => told'[d] = told[d]
    BY <1>6 DEF Tell, TypeOK
  <2> QED  BY <1>6, <2>1, <2>2 DEF Tell, Accepted, link
<1>7. ASSUME NEW t \in Senders, SendStep(t) PROVE Accepted'
  <2>1. On(t) \in Conns
    BY <1>7, OnKnown, ThreadSets
       DEF SendStep, SendBegins, SendPiece, SendFails, SendCloses, Is, Busy
  <2> QED
    BY <1>1, <1>3, <1>7, <2>1
       DEF SendStep, SendBegins, SendPiece, SendFails, SendCloses, Shut
<1>8. CASE Remove
  <2>1. \/ UNCHANGED <<sock, client, connected, told>>
        \/ Entry # None /\ connected' = [connected EXCEPT ![Entry] = FALSE]
                        /\ UNCHANGED <<sock, client, told>>
    BY <1>8 DEF Remove, Shut
  <2>2. Entry \in Conns \cup {None}
    BY <1>8, EntryKnown DEF Remove
  <2> QED  BY <1>1, <1>3, <2>1, <2>2
<1>9. CASE StopShuts
  <2>1. PICK c \in thread[Stopper].todo : connected' = [connected EXCEPT ![c] = FALSE]
    BY <1>9 DEF StopShuts
  <2>2. c \in Conns
    BY <1>9, StopperFields DEF StopShuts, StateOK, Is
  <2> QED  BY <1>3, <1>9, <2>1, <2>2 DEF StopShuts
<1> QED
  BY <1>1, <1>2, <1>4, <1>5, <1>6, <1>7, <1>8, <1>9, ThreadSets
     DEF Next, vars, link, WorkerStep, Take, WorkerLeaves,
         ReactorStep, Snapshot, LoopEnds, SelectFails, SelectReturns, Insert, NothingToAccept,
         Scan, ReceiveEnds, Post, RemoveCloses, Return,
         StopStep, StopBegins, StopSwaps, StopCloses

(* A descriptor is given out when it is nobody's, and only the thread that *)
(* closes takes it back.                                                   *)
LEMMA DescriptorsStep ==
    ASSUME IInv, [Next]_vars
    PROVE  Descriptors'
<1> USE DEF IInv, References
<1>1. ASSUME \A f \in Fds : owner'[f] \in {owner[f], None},
             \A f \in Fds : connections'[f] \in {connections[f], None}
      PROVE  Descriptors'
  BY <1>1, KnownStays DEF Descriptors, Known
<1>2. ASSUME NEW c \in Conns, NEW f \in Fds, Accept(c, f) PROVE Descriptors'
  <2>1. (\A g \in Fds \ {f} : owner'[g] = owner[g]) /\ connections' = connections
    BY <1>2 DEF Accept, TypeOK
  <2>2. owner'[f] = c /\ sock'[c] = f
    BY <1>2 DEF Accept, TypeOK
  <2>3. \A d \in Conns : Known(d) => Known(d)' /\ sock'[d] = sock[d]
    BY KnownStays
  <2> QED  BY <2>1, <2>2, <2>3 DEF Descriptors, Known
<1>3. CASE UNCHANGED <<owner, connections>>
  BY <1>1, <1>3
<1>4. ASSUME NEW t \in Senders, SendStep(t) PROVE Descriptors'
  BY <1>1, <1>4 DEF SendStep, SendBegins, SendPiece, SendFails, SendCloses, Released, TypeOK
<1>5. CASE Remove
  BY <1>1, <1>5 DEF Remove, TypeOK
<1>6. CASE RemoveCloses \/ StopCloses
  BY <1>1, <1>6 DEF RemoveCloses, StopCloses, Released, TypeOK
<1>7. CASE StopSwaps
  BY <1>1, <1>7 DEF StopSwaps, TypeOK
<1>8. CASE Insert
  <2>1. On(Reactor) \in Conns /\ sock[On(Reactor)] \in Fds
    BY <1>8, OnKnown, ThreadSets DEF Insert, Is, Busy
  <2>2. /\ UNCHANGED <<owner, sock>>
        /\ \A f \in Fds : connections'[f] =
               IF f = sock[On(Reactor)] THEN On(Reactor) ELSE connections[f]
    BY <1>8 DEF Insert, TypeOK, link
  <2> QED  BY <2>1, <2>2 DEF Descriptors, Known
<1> QED
  BY <1>2, <1>3, <1>4, <1>5, <1>6, <1>7, <1>8, ThreadSets
     DEF Next, vars, ClientStep, Connect, Ask, Disconnect, WorkerStep, Take, WorkerLeaves,
         ReactorStep, Snapshot, LoopEnds, SelectFails, SelectReturns, NothingToAccept, Scan,
         Receive, ReceiveEnds, Post, Tell, Return, StopStep, StopBegins, StopShuts

LEMMA RequestsStep ==
    ASSUME IInv, [Next]_vars
    PROVE  Requests'
<1> USE DEF IInv, References
<1>0. \A d \in Conns : Known(d) => Known(d)'
  BY KnownStays
<1>1. CASE tasks' = tasks
  BY <1>0, <1>1 DEF Requests, Known
<1>2. ASSUME NEW w \in Workers, Take(w) PROVE Requests'
  <2>1. /\ tasks' = Tail(tasks) /\ Len(tasks') = Len(tasks) - 1 /\ Len(tasks) \in Nat
        /\ \A i \in 1..Len(tasks') : tasks'[i] = tasks[i + 1]
    BY <1>2, HeadTailProperties, LenProperties DEF Take, TypeOK
  <2> QED  BY <1>0, <2>1 DEF Requests, Known
<1>3. CASE Post
  <2>1. Known(On(Reactor))
    BY <1>3, OnKnown, ThreadSets DEF Post, Is, Busy, Known
  <2>2. \/ tasks' = tasks
        \/ tasks' = Append(tasks, On(Reactor))
    BY <1>3 DEF Post
  <2>3. CASE tasks' = Append(tasks, On(Reactor))
    <3>1. \A i \in 1..Len(tasks') :
              \/ i \in 1..Len(tasks) /\ tasks'[i] = tasks[i]
              \/ tasks'[i] = On(Reactor)
      BY <2>1, <2>3, AppendProperties, LenProperties DEF TypeOK, Known
    <3> QED  BY <1>0, <2>1, <3>1 DEF Requests, Known
  <2> QED  BY <1>1, <2>2, <2>3
<1> QED
  BY <1>1, <1>2, <1>3, ThreadSets
     DEF Next, vars, ClientStep, Connect, Ask, Disconnect, WorkerStep, WorkerLeaves,
         ReactorStep, Snapshot, LoopEnds, SelectFails, SelectReturns, Accept, Insert,
         NothingToAccept, Scan, Receive, ReceiveEnds, Remove, RemoveCloses, Tell, Return,
         SendStep, SendBegins, SendPiece, SendFails, SendCloses,
         StopStep, StopBegins, StopSwaps, StopShuts, StopCloses

LEMMA AtWorkStep ==
    ASSUME IInv, [Next]_vars
    PROVE  AtWork'
<1> USE DEF IInv, References
<1>0. /\ ThreadsOK /\ client \in [Conns -> ClientState]
      /\ \A d : Known(d) => Known(d)'
  BY KnownStays DEF StateOK, Known
<1>1. ASSUME NEW t \in Threads, Only(t),
             thread'[t].at \in Busy => Known(thread'[t].conn)
      PROVE  AtWork'
  <2>1. Known(thread'[t].conn) =>
            thread'[t].conn \in Conns /\ sock'[thread'[t].conn] \in Fds
    BY <1>0 DEF Known
  <2> QED  BY <1>0, <1>1, <2>1 DEF AtWork, Only, Known
<1>2. CASE UNCHANGED thread
  BY <1>0, <1>2 DEF AtWork
<1>3. ASSUME NEW t \in Senders, SendStep(t) PROVE AtWork'
  <2>1. On(t) \in Conns /\ Known(thread[t].conn)
    BY <1>3, OnKnown, ThreadSets
       DEF SendStep, SendBegins, SendPiece, SendFails, SendCloses, Is, Busy, Known, On
  <2>2. \/ thread'[t] = After(t) \/ thread'[t].conn = thread[t].conn
    BY <1>0, <1>3, <2>1, SendBeginsMoves, SendPieceMoves, SendFailsMoves, SendClosesMoves
       DEF SendStep
  <2>3. Only(t)
    BY <1>0, <1>3, <2>1, SendBeginsMoves, SendPieceMoves, SendFailsMoves, SendClosesMoves
       DEF SendStep
  <2>4. After(t).at \in Busy => After(t).conn = thread[t].conn
    BY <1>0, <2>1, AfterFields DEF Busy, On
  <2> QED  BY <1>1, <2>1, <2>2, <2>3, <2>4, ThreadSets
<1>4. ASSUME NEW w \in Workers, Take(w) \/ WorkerLeaves(w) PROVE AtWork'
  <2>1. CASE Take(w)
    <3>1. Known(Head(tasks))
      BY <2>1, HeadTailProperties, LenProperties, EmptySeq DEF Take, TypeOK, Requests
    <3> QED  BY <1>0, <1>1, <2>1, <3>1, TakeMoves, ThreadSets DEF TypeOK
  <2>2. CASE WorkerLeaves(w)
    <3>1. Only(w) /\ thread'[w].at = "ended"
      BY <1>0, <2>2, Going, ThreadSets DEF WorkerLeaves, Points, WorkerPoints
    <3> QED  BY <1>1, <3>1, ThreadSets DEF Busy
  <2> QED  BY <1>4, <2>1, <2>2
<1>5. CASE Snapshot \/ LoopEnds \/ SelectFails \/ SelectReturns \/ Return
  <2>1. Only(Reactor) /\ thread'[Reactor].at \in {"select", "join", "loop", "accept", "returned"}
    BY <1>0, <1>5, Going, ThreadSets
       DEF Snapshot, LoopEnds, SelectFails, SelectReturns, Return, Points, ReactorPoints
  <2> QED  BY <1>1, <2>1, ThreadSets DEF Busy
<1>6. CASE ReceiveEnds \/ RemoveCloses
  <2>1. Known(thread[Reactor].conn)
    BY <1>6, OnKnown, ThreadSets DEF ReceiveEnds, RemoveCloses, Is, Busy, Known, On
  <2>2. Only(Reactor) /\ thread'[Reactor].conn = thread[Reactor].conn
    BY <1>0, <1>6, Going, ThreadSets DEF ReceiveEnds, RemoveCloses, Points, ReactorPoints
  <2> QED  BY <1>1, <2>1, <2>2, ThreadSets
<1>7. CASE Insert \/ NothingToAccept \/ Tell
  <2>1. Only(Reactor) /\ thread'[Reactor].at = "scan"
    BY <1>0, <1>7, ScanningMoves DEF Insert, NothingToAccept, Tell
  <2> QED  BY <1>1, <2>1, ThreadSets DEF Busy
<1>8. CASE Scan
  <2>1. CASE \E c \in round.snapshot : ToRead(c)
    <3>1. PICK c \in round.snapshot : thread' = [thread EXCEPT ![Reactor] = Doing("recv", c)]
      BY <1>8, <2>1 DEF Scan
    <3>2. Known(c)
      BY DEF Lists
    <3> QED  BY <1>0, <1>1, <3>1, <3>2, DoingMoves, ThreadSets DEF ReactorPoints, Known
  <2>2. CASE ~ \E c \in round.snapshot : ToRead(c)
    <3>1. Only(Reactor) /\ thread'[Reactor].at = "loop"
      BY <1>0, <1>8, <2>2, Going, ThreadSets DEF Scan, Points, ReactorPoints
    <3> QED  BY <1>1, <3>1, ThreadSets DEF Busy
  <2> QED  BY <2>1, <2>2
<1>9. CASE Receive \/ Post
  <2>1. On(Reactor) \in Conns /\ sock[On(Reactor)] \in Fds /\ Known(thread[Reactor].conn)
    BY <1>9, OnKnown, ThreadSets DEF Receive, Post, Is, Busy, Known, On
  <2>2. Target(On(Reactor)) \in Conns \cup {None}
    BY <2>1 DEF Target, TypeOK
  <2>3. Only(Reactor) /\ (thread'[Reactor].at # "scan" => thread'[Reactor].conn = thread[Reactor].conn)
    BY <1>0, <1>9, <2>1, <2>2, ReceiveMoves, PostMoves
  <2> QED  BY <1>1, <2>1, <2>3, ThreadSets DEF Busy
<1>10. CASE Remove
  <2>1. Entry # None => Known(Entry)
    BY <1>10, EntryKnown DEF Remove
  <2>2. Only(Reactor) /\ (thread'[Reactor].at # "scan" => Entry # None /\ thread'[Reactor].conn = Entry)
    BY <1>0, <1>10, EntryKnown, RemoveMoves DEF Remove
  <2> QED  BY <1>1, <2>1, <2>2, ThreadSets DEF Busy
<1>11. CASE StopBegins \/ StopSwaps \/ StopCloses
  <2>1. Only(Stopper) /\ thread'[Stopper].at \in {"swap", "stopping"}
    BY <1>0, <1>11, StopBeginsMoves, StopSwapsMoves, StopClosesMoves DEF TypeOK
  <2> QED  BY <1>1, <2>1, ThreadSets DEF Busy
<1>12. CASE StopShuts
  <2>1. PICK c \in thread[Stopper].todo : StopMoved(c)
    BY <1>0, <1>12, StopShutsMoves
  <2>2. Known(c)
    BY <1>12 DEF StopShuts, Is, Lists
  <2> QED  BY <1>1, <2>1, <2>2, ThreadSets DEF Busy, StopMoved
<1>13. ASSUME NEW c \in Conns, NEW f \in Fds, Accept(c, f) PROVE AtWork'
  <2>1. Known(c)'
    BY <1>13 DEF Accept, Known, TypeOK
  <2>2. Only(Reactor) /\ thread'[Reactor].conn = c
    BY <1>0, <1>13, AcceptMoves
  <2>3. ASSUME NEW t \in Threads \ {Reactor}, thread'[t].at \in Busy
        PROVE  thread'[t].conn \in Conns /\ sock'[thread'[t].conn] \in Fds
    <3>1. thread'[t] = thread[t] /\ Known(thread[t].conn)
      BY <2>2, <2>3 DEF Only, AtWork
    <3>2. thread[t].conn \in Conns /\ sock'[thread[t].conn] \in Fds
      BY <1>0, <3>1 DEF Known
    <3> QED  BY <3>1, <3>2
  <2>4. thread'[Reactor].conn \in Conns /\ sock'[thread'[Reactor].conn] \in Fds
    BY <2>1, <2>2 DEF Known
  <2> QED  BY <2>3, <2>4 DEF AtWork, Known
<1> QED
  BY <1>2, <1>3, <1>4, <1>5, <1>6, <1>7, <1>8, <1>9, <1>10, <1>11, <1>12, <1>13, ThreadSets
     DEF Next, vars, ClientStep, Connect, Ask, Disconnect, WorkerStep, ReactorStep, StopStep

LEMMA ListsStep ==
    ASSUME IInv, [Next]_vars
    PROVE  Lists'
<1> USE DEF IInv, References
<1>0. /\ ThreadsOK
      /\ \A d : Known(d) => Known(d)'
  BY KnownStays DEF StateOK, Known
<1>e. \A d \in Entries : Known(d)
  BY DEF Entries, Descriptors
<1>1. \A d \in round'.snapshot : Known(d)'
  <2>1. CASE round' = round
    BY <1>0, <2>1 DEF Lists
  <2>2. CASE Snapshot
    BY <1>0, <1>e, <2>2 DEF Snapshot
  <2>3. CASE round' = NoRound
    BY <2>3 DEF NoRound
  <2>4. CASE SelectReturns
    BY <1>0, <2>4 DEF SelectReturns, Lists, StateOK
  <2>5. CASE \E c \in round.snapshot : round' = [round EXCEPT !.snapshot = @ \ {c}]
    BY <1>0, <2>5 DEF Lists, StateOK
  <2> QED
    BY <2>1, <2>2, <2>3, <2>4, <2>5, ThreadSets
       DEF Next, vars, ClientStep, Connect, Ask, Disconnect, WorkerStep, Take, WorkerLeaves,
           ReactorStep, LoopEnds, SelectFails, Accept, Insert, NothingToAccept, Scan, Receive,
           ReceiveEnds, Post, Remove, RemoveCloses, Tell, Return,
           SendStep, SendBegins, SendPiece, SendFails, SendCloses,
           StopStep, StopBegins, StopSwaps, StopShuts, StopCloses
<1>2. thread'[Stopper].at \in {"stopping", "close"} =>
          \A d \in thread'[Stopper].todo : Known(d)'
  <2>1. CASE thread'[Stopper] = thread[Stopper]
    BY <1>0, <2>1 DEF Lists
  <2>2. CASE StopBegins \/ StopSwaps \/ StopCloses
    <3>1. \/ thread'[Stopper].at = "swap"
          \/ thread'[Stopper].todo = Entries
          \/ StopCloses /\ thread'[Stopper].todo = thread[Stopper].todo
      BY <1>0, <2>2, StopBeginsMoves, StopSwapsMoves, StopClosesMoves DEF TypeOK
    <3> QED  BY <1>0, <1>e, <3>1 DEF Lists, StopCloses, Is
  <2>3. CASE StopShuts
    BY <1>0, <2>3, StopShutsMoves DEF Lists, StopShuts, Is, StopMoved
  <2>4. ASSUME NEW t \in Senders, SendStep(t) PROVE thread'[Stopper] = thread[Stopper]
    BY <1>0, <2>4, ThreadSets
       DEF SendStep, SendBegins, SendPiece, SendFails, SendCloses, SendDone, Shut, ThreadsOK
  <2>5. ASSUME NEW w \in Workers, Take(w) \/ WorkerLeaves(w)
        PROVE  thread'[Stopper] = thread[Stopper]
    BY <1>0, <2>5, ThreadSets DEF Take, WorkerLeaves, Goes, ThreadsOK
  <2>6. CASE Snapshot \/ LoopEnds \/ SelectFails \/ SelectReturns \/ Insert \/ NothingToAccept
             \/ Scan
             \/ Receive \/ ReceiveEnds \/ Post \/ Remove \/ RemoveCloses \/ Tell \/ Return
             \/ \E c \in Conns, f \in Fds : Accept(c, f)
    <3>1. thread'[Stopper] = thread[Stopper]
      BY <1>0, <2>6, ThreadSets
         DEF Snapshot, LoopEnds, SelectFails, SelectReturns, Insert, NothingToAccept, Scan, Receive,
             ReceiveEnds, Post, Remove, RemoveCloses, Tell, Return, Accept, Goes, Shut, ThreadsOK
    <3> QED  BY <2>1, <3>1
  <2>7. CASE UNCHANGED vars \/ \E c \in Conns : ClientStep(c)
    <3>1. thread'[Stopper] = thread[Stopper]
      BY <2>7 DEF vars, ClientStep, Connect, Ask, Disconnect
    <3> QED  BY <2>1, <3>1
  <2> QED
    BY <2>1, <2>2, <2>3, <2>4, <2>5, <2>6, <2>7, ThreadSets
       DEF Next, WorkerStep, ReactorStep, StopStep
<1> QED  BY <1>1, <1>2 DEF Lists

(* Closing is kept by three kinds of steps: a thread finds a connection     *)
(* connected and is to close it, it closes it, or it does neither.         *)
Shuts(t, c) ==
    /\ Only(t) /\ thread'[t].at = "close" /\ thread'[t].conn = c
    /\ connected[c] /\ connected' = [connected EXCEPT ![c] = FALSE]
    /\ UNCHANGED <<owner, sock>>
Closes(t) ==
    /\ thread[t].at = "close" /\ Only(t) /\ thread'[t].at \notin {"close", "recv"}
    /\ Released(On(t)) /\ UNCHANGED <<connected, sock>>
Passes(t) ==
    /\ Only(t) /\ thread'[t].at # "close"
    /\ thread'[t].at = "recv" => connected[thread'[t].conn] /\ thread'[t].conn \in Conns
    /\ \A d \in Conns : connected'[d] => connected[d]
    /\ UNCHANGED <<owner, sock>>

LEMMA ClosingKept ==
    ASSUME IInv, NEW t \in Threads, Passes(t) \/ Closes(t) \/ \E c \in Conns : Shuts(t, c)
    PROVE  Closing'
<1>0. /\ \A u \in Threads : thread[u].at \in {"close", "recv"} =>
             thread[u].conn \in Conns /\ sock[thread[u].conn] \in Fds
      /\ \A d \in Conns : connected[d] => sock[d] \in Fds
      /\ connected \in [Conns -> BOOLEAN] /\ owner \in [Fds -> Conns \cup {None}]
      /\ sock \in [Conns -> Fds \cup {None}] /\ Reactor \in Threads
  BY ThreadSets DEF IInv, References, AtWork, Accepted, Known, Busy, TypeOK
<1>1. CASE Passes(t)
  BY <1>0, <1>1 DEF IInv, Closing, Passes, Only
<1>2. CASE Closes(t)
  <2> DEFINE gone == On(t)
  <2>1. /\ gone \in Conns /\ sock[gone] \in Fds /\ ~connected[gone]
        /\ owner[sock[gone]] = gone
    BY <1>0, <1>2 DEF Closes, IInv, Closing, On
  <2>2. \A f \in Fds : owner'[f] = IF f = sock[gone] THEN None ELSE owner[f]
    BY <1>0, <1>2 DEF Closes, Released
  <2>3. \A d \in Conns : connected'[d] => owner'[sock'[d]] = d
    BY <1>0, <1>2, <2>1, <2>2 DEF Closes, IInv, Closing
  <2>4. ASSUME NEW u \in Threads, thread'[u].at = "close"
        PROVE  /\ u # t /\ thread'[u] = thread[u]
               /\ thread[u].conn # gone /\ owner'[sock[thread[u].conn]] = thread[u].conn
    BY <1>0, <1>2, <2>1, <2>2, <2>4 DEF Closes, IInv, Closing, Only, On
  <2>5. thread'[Reactor].at = "recv" =>
            owner'[sock'[thread'[Reactor].conn]] \in {thread'[Reactor].conn, None}
    BY <1>0, <1>2, <2>1, <2>2 DEF Closes, IInv, Closing, Only
  <2> QED  BY <1>2, <2>3, <2>4, <2>5 DEF Closes, IInv, Closing
<1>3. ASSUME NEW c \in Conns, Shuts(t, c) PROVE Closing'
  <2>1. \A d \in Conns : connected'[d] = (d # c /\ connected[d])
    BY <1>0, <1>3 DEF Shuts
  <2>2. \A u \in Threads : thread[u].at = "close" => thread[u].conn # c
    BY <1>3 DEF Shuts, IInv, Closing
  <2>3. \A d \in Conns : connected'[d] => owner'[sock'[d]] = d
    BY <1>3, <2>1 DEF Shuts, IInv, Closing
  <2>4. ASSUME NEW u \in Threads, thread'[u].at = "close"
        PROVE  ~connected'[thread'[u].conn] /\ owner'[sock'[thread'[u].conn]] = thread'[u].conn
    BY <1>0, <1>3, <2>1, <2>4 DEF Shuts, IInv, Closing, Only
  <2>5. ASSUME NEW u \in Threads, NEW v \in Threads, u # v,
               thread'[u].at = "close", thread'[v].at = "close"
        PROVE  thread'[u].conn # thread'[v].conn
    BY <1>0, <1>3, <2>2, <2>5 DEF Shuts, IInv, Closing, Only
  <2>6. thread'[Reactor].at = "recv" =>
            owner'[sock'[thread'[Reactor].conn]] \in {thread'[Reactor].conn, None}
    BY <1>0, <1>3 DEF Shuts, IInv, Closing, Only
  <2> QED  BY <2>3, <2>4, <2>5, <2>6 DEF Closing
<1> QED  BY <1>1, <1>2, <1>3

LEMMA ClosingStep ==
    ASSUME IInv, [Next]_vars
    PROVE  Closing'
<1> USE DEF IInv
<1>0. /\ ThreadsOK /\ client \in [Conns -> ClientState]
      /\ connected \in [Conns -> BOOLEAN] /\ TypeOK /\ References
  BY DEF StateOK, TypeOK
<1>1. CASE UNCHANGED <<thread, owner, sock, connected>>
  BY <1>1 DEF Closing
<1>2. ASSUME NEW t \in Senders, SendStep(t) PROVE Closing'
  <2>1. On(t) \in Conns
    BY <1>2, OnKnown, ThreadSets
       DEF SendStep, SendBegins, SendPiece, SendFails, SendCloses, Is, Busy
  <2>2. After(t).at \notin {"close", "recv"}
    BY <1>0, <2>1, AfterFields DEF On
  <2>3. CASE SendBegins(t)
    BY <1>0, <2>1, <2>2, <2>3, SendBeginsMoves, ClosingKept, ThreadSets
       DEF SendBegins, Passes
  <2>4. CASE SendPiece(t)
    BY <1>0, <2>1, <2>2, <2>4, SendPieceMoves, ClosingKept, ThreadSets
       DEF SendPiece, Passes
  <2>5. CASE SendFails(t)
    <3>1. connected' = [connected EXCEPT ![On(t)] = FALSE] /\ UNCHANGED <<owner, sock>>
      BY <2>5 DEF SendFails, Shut
    <3>2. CASE connected[On(t)]
      <4>1. Shuts(t, On(t))
        BY <1>0, <2>1, <2>5, <3>1, <3>2, SendFailsMoves DEF Shuts, On
      <4> QED  BY <2>1, <4>1, ClosingKept, ThreadSets
    <3>3. CASE ~connected[On(t)]
      <4>1. Passes(t)
        BY <1>0, <2>1, <2>2, <2>5, <3>1, <3>3, SendFailsMoves DEF Passes
      <4> QED  BY <4>1, ClosingKept, ThreadSets
    <3> QED  BY <3>2, <3>3
  <2>6. CASE SendCloses(t)
    <3>1. Closes(t)
      BY <1>0, <2>1, <2>2, <2>6, SendClosesMoves DEF SendCloses, Closes, Is
    <3> QED  BY <3>1, ClosingKept, ThreadSets
  <2> QED  BY <1>2, <2>3, <2>4, <2>5, <2>6 DEF SendStep
<1>3. ASSUME NEW w \in Workers, Take(w) \/ WorkerLeaves(w) PROVE Closing'
  <2>1. Passes(w)
    <3>1. CASE Take(w)
      BY <1>0, <3>1, TakeMoves DEF Passes, Take, link, TypeOK
    <3>2. CASE WorkerLeaves(w)
      BY <1>0, <3>2, Going, ThreadSets DEF Passes, WorkerLeaves, Points, WorkerPoints, link
    <3> QED  BY <1>3, <3>1, <3>2
  <2> QED  BY <2>1, ClosingKept, ThreadSets
<1>4. CASE Snapshot \/ LoopEnds \/ SelectFails \/ SelectReturns \/ ReceiveEnds \/ Return
  <2>1. /\ Only(Reactor)
        /\ thread'[Reactor].at \in {"select", "join", "loop", "accept", "remove", "returned"}
    BY <1>0, <1>4, Going, ThreadSets
       DEF Snapshot, LoopEnds, SelectFails, SelectReturns, ReceiveEnds, Return,
           Points, ReactorPoints
  <2>2. UNCHANGED <<owner, sock, connected>>
    BY <1>4 DEF Snapshot, LoopEnds, SelectFails, SelectReturns, ReceiveEnds, Return, link
  <2> QED  BY <2>1, <2>2, ClosingKept, ThreadSets DEF Passes
<1>5. CASE Insert \/ NothingToAccept \/ Tell
  BY <1>0, <1>5, ScanningMoves, ClosingKept, ThreadSets
     DEF Insert, NothingToAccept, Tell, Passes, link
<1>6. ASSUME NEW c \in Conns, NEW f \in Fds, Accept(c, f) PROVE Closing'
  <2>1. Only(Reactor) /\ thread'[Reactor].at = "insert"
    BY <1>0, <1>6, AcceptMoves
  <2>2. /\ owner[f] = None /\ sock[c] = None /\ f # None
        /\ \A g \in Fds : owner'[g] = IF g = f THEN c ELSE owner[g]
        /\ \A d \in Conns : sock'[d] = IF d = c THEN f ELSE sock[d]
        /\ \A d \in Conns : d # c => connected'[d] = connected[d]
    BY <1>6, ThreadSets DEF Accept, CanAccept, Lowest, Free, TypeOK, References, Accepted
  <2>3. \A d \in Conns : connected'[d] => owner'[sock'[d]] = d
    BY <2>2, ThreadSets DEF Closing, TypeOK, References, Accepted
  <2>4. ASSUME NEW u \in Threads, thread'[u].at = "close"
        PROVE  /\ thread'[u] = thread[u] /\ thread[u].conn \in Conns \ {c}
               /\ sock[thread[u].conn] \in Fds \ {f}
    BY <2>1, <2>2, <2>4, ThreadSets
       DEF Only, References, AtWork, Known, Busy, Closing, TypeOK
  <2>5. ASSUME NEW u \in Threads, thread'[u].at = "close"
        PROVE  ~connected'[thread'[u].conn] /\ owner'[sock'[thread'[u].conn]] = thread'[u].conn
    <3>1. thread'[u] = thread[u] /\ thread[u].conn \in Conns \ {c} /\ sock[thread[u].conn] \in Fds \ {f}
      BY <2>4, <2>5
    <3>2. ~connected[thread[u].conn] /\ owner[sock[thread[u].conn]] = thread[u].conn
      BY <2>5, <3>1 DEF Closing
    <3> HIDE DEF IInv
    <3> QED  BY <2>2, <3>1, <3>2
  <2>6. ASSUME NEW u \in Threads, NEW v \in Threads, u # v,
               thread'[u].at = "close", thread'[v].at = "close"
        PROVE  thread'[u].conn # thread'[v].conn
    BY <2>4, <2>6 DEF Closing
  <2> QED  BY <2>1, <2>3, <2>5, <2>6 DEF Closing
<1>7. CASE Scan
  <2>1. CASE \E c \in round.snapshot : ToRead(c)
    <3>1. PICK c \in round.snapshot :
             ToRead(c) /\ thread' = [thread EXCEPT ![Reactor] = Doing("recv", c)]
      BY <1>7, <2>1 DEF Scan
    <3>2. c \in Conns /\ UNCHANGED <<owner, sock, connected>>
      BY <1>7 DEF References, Lists, Known, Scan, link
    <3>3. Only(Reactor) /\ thread'[Reactor].at = "recv" /\ thread'[Reactor].conn = c
      BY <1>0, <3>1, <3>2, DoingMoves DEF ReactorPoints
    <3>4. Passes(Reactor)
      BY <3>1, <3>2, <3>3 DEF Passes, ToRead
    <3> QED  BY <3>4, ClosingKept, ThreadSets
  <2>2. CASE ~ \E c \in round.snapshot : ToRead(c)
    BY <1>0, <1>7, <2>2, Going, ClosingKept, ThreadSets
       DEF Scan, Passes, Points, ReactorPoints, link
  <2> QED  BY <2>1, <2>2
<1>8. CASE Receive \/ Post
  <2>1. On(Reactor) \in Conns /\ sock[On(Reactor)] \in Fds
    BY <1>8, OnKnown, ThreadSets DEF Receive, Post, Is, Busy
  <2>2. Target(On(Reactor)) \in Conns \cup {None}
    BY <2>1 DEF Target, TypeOK
  <2>3. Passes(Reactor)
    BY <1>0, <1>8, <2>1, <2>2, ReceiveMoves, PostMoves DEF Passes, Receive, Post, link
  <2> QED  BY <2>3, ClosingKept, ThreadSets
<1>9. CASE Remove
  <2>1. Entry \in Conns \cup {None} /\ UNCHANGED <<owner, sock>>
    BY <1>9, EntryKnown DEF Remove
  <2>2. CASE Entry # None /\ connected[Entry]
    <3>1. Shuts(Reactor, Entry)
      BY <1>0, <1>9, <2>1, <2>2, RemoveMoves DEF Shuts, Remove, Shut
    <3> QED  BY <2>1, <2>2, <3>1, ClosingKept, ThreadSets
  <2>3. CASE Entry = None \/ ~connected[Entry]
    <3>1. connected' = connected \/ connected' = [connected EXCEPT ![Entry] = FALSE]
      BY <1>9 DEF Remove, Shut
    <3>2. Passes(Reactor)
      BY <1>0, <1>9, <2>1, <2>3, <3>1, RemoveMoves DEF Passes
    <3> QED  BY <3>2, ClosingKept, ThreadSets
  <2> QED  BY <2>2, <2>3
<1>10. CASE RemoveCloses
  <2>1. Closes(Reactor)
    BY <1>0, <1>10, Going, ThreadSets
       DEF RemoveCloses, Closes, Is, Points, ReactorPoints, link
  <2> QED  BY <2>1, ClosingKept, ThreadSets
<1>11. CASE StopBegins \/ StopSwaps
  BY <1>0, <1>11, StopBeginsMoves, StopSwapsMoves, ClosingKept, ThreadSets
     DEF StopBegins, StopSwaps, Passes, TypeOK, link
<1>12. CASE StopShuts
  <2>1. PICK c \in thread[Stopper].todo : StopMoved(c)
    BY <1>0, <1>12, StopShutsMoves
  <2>2. c \in Conns /\ UNCHANGED <<owner, sock>>
    BY <1>0, <1>12, StopperFields DEF StopShuts, Is
  <2>3. CASE connected[c]
    <3>1. Shuts(Stopper, c)
      BY <2>1, <2>2, <2>3 DEF Shuts, StopMoved
    <3> QED  BY <2>2, <3>1, ClosingKept, ThreadSets
  <2>4. CASE ~connected[c]
    <3>1. Passes(Stopper)
      BY <1>0, <2>1, <2>2, <2>4 DEF Passes, StopMoved
    <3> QED  BY <3>1, ClosingKept, ThreadSets
  <2> QED  BY <2>3, <2>4
<1>13. CASE StopCloses
  <2>1. Closes(Stopper)
    BY <1>0, <1>13, StopClosesMoves DEF StopCloses, Closes, Is, link
  <2> QED  BY <2>1, ClosingKept, ThreadSets
<1> QED
  BY <1>1, <1>2, <1>3, <1>4, <1>5, <1>6, <1>7, <1>8, <1>9, <1>10, <1>11, <1>12, <1>13, ThreadSets
     DEF Next, vars, link, ClientStep, Connect, Ask, Disconnect, WorkerStep, ReactorStep, StopStep

(* The holder of send_mutex_ is where Holding says after a step that locks, *)
(* one that unlocks, and one of a thread that goes on with or without it.   *)
LEMMA HoldingKept ==
    ASSUME IInv, NEW t \in Threads, Only(t),
           \/ /\ UNCHANGED holder
              /\ t = Stopper \/ \A c \in Conns : holder[c] # t
              /\ t # Stopper => thread'[t].at # "sending"
           \/ /\ UNCHANGED holder /\ thread'[t].conn = thread[t].conn
              /\ t # Stopper /\ thread[t].at = "sending"
              /\ thread'[t].at \in {"sending", "close"}
           \/ /\ t # Stopper /\ On(t) \in Conns /\ holder[On(t)] = None
              /\ holder' = [holder EXCEPT ![On(t)] = t]
              /\ thread'[t].at = "sending" /\ thread'[t].conn = On(t)
              /\ thread[t].at = "send"
           \/ /\ t # Stopper /\ On(t) \in Conns /\ holder[On(t)] = t
              /\ Unlocked(On(t)) /\ thread'[t].at # "sending"
    PROVE  Holding'
<1> USE ThreadSets DEF IInv, Only, On
<1>0. /\ holder \in [Conns -> Senders \cup {None}] /\ Senders = Threads \ {Stopper}
      /\ \A u \in Senders : thread[u].at = "sending" => thread[u].conn \in Conns
  BY DEF TypeOK, Senders, Threads, References, AtWork, Busy, Known
<1>1. CASE /\ UNCHANGED holder
           /\ t = Stopper \/ \A c \in Conns : holder[c] # t
           /\ t # Stopper => thread'[t].at # "sending"
  BY <1>0, <1>1 DEF Holding
<1>2. CASE /\ UNCHANGED holder /\ thread'[t].conn = thread[t].conn
           /\ t # Stopper /\ thread[t].at = "sending"
           /\ thread'[t].at \in {"sending", "close"}
  BY <1>0, <1>2 DEF Holding
<1>3. CASE /\ t # Stopper /\ On(t) \in Conns /\ holder[On(t)] = None
           /\ holder' = [holder EXCEPT ![On(t)] = t]
           /\ thread'[t].at = "sending" /\ thread'[t].conn = On(t)
           /\ thread[t].at = "send"
  <2>1. \A c \in Conns : holder'[c] = IF c = On(t) THEN t ELSE holder[c]
    BY <1>0, <1>3
  <2>2. \A c \in Conns : holder[c] # t
    BY <1>3 DEF Holding
  <2>3. \A u \in Senders : thread'[u].at = "sending" => holder'[thread'[u].conn] = u
    BY <1>0, <1>3, <2>1 DEF Holding
  <2>4. \A c \in Conns : holder'[c] # None =>
            /\ thread'[holder'[c]].conn = c
            /\ thread'[holder'[c]].at \in {"sending", "close"}
    BY <1>0, <1>3, <2>1, <2>2 DEF Holding
  <2> QED  BY <2>3, <2>4 DEF Holding
<1>4. CASE /\ t # Stopper /\ On(t) \in Conns /\ holder[On(t)] = t
           /\ Unlocked(On(t)) /\ thread'[t].at # "sending"
  <2>1. \A c \in Conns : holder'[c] = IF c = On(t) THEN None ELSE holder[c]
    BY <1>0, <1>4 DEF Unlocked
  <2>2. \A c \in Conns : c # On(t) => holder[c] # t
    BY <1>4 DEF Holding
  <2>3. \A u \in Senders : thread'[u].at = "sending" => holder'[thread'[u].conn] = u
    BY <1>0, <1>4, <2>1 DEF Holding
  <2>4. \A c \in Conns : holder'[c] # None =>
            /\ thread'[holder'[c]].conn = c
            /\ thread'[holder'[c]].at \in {"sending", "close"}
    BY <1>0, <1>4, <2>1, <2>2 DEF Holding
  <2> QED  BY <2>3, <2>4 DEF Holding
<1> QED  BY <1>1, <1>2, <1>3, <1>4

LEMMA HoldingStep ==
    ASSUME IInv, [Next]_vars
    PROVE  Holding'
<1> USE DEF IInv
<1>0. /\ ThreadsOK /\ client \in [Conns -> ClientState] /\ TypeOK /\ References
      /\ \A t \in Senders : thread[t].at \notin {"sending", "close"} =>
             \A c \in Conns : holder[c] # t
  BY ThreadSets DEF StateOK, Holding, TypeOK
<1>1. CASE UNCHANGED <<thread, holder>>
  BY <1>1 DEF Holding
<1>2. ASSUME NEW t \in Senders, SendStep(t) PROVE Holding'
  <2>1. On(t) \in Conns /\ t # Stopper /\ t \in Threads
    BY <1>2, OnKnown, ThreadSets
       DEF SendStep, SendBegins, SendPiece, SendFails, SendCloses, Is, Busy
  <2>2. After(t).at # "sending"
    BY <1>0, <2>1, AfterFields DEF On
  <2>3. CASE SendBegins(t)
    BY <1>0, <2>1, <2>2, <2>3, SendBeginsMoves, HoldingKept DEF SendBegins, MayLock, Is, On
  <2>4. ASSUME Is(t, "sending") PROVE holder[On(t)] = t
    BY <2>1, <2>4 DEF Holding, Is, On
  <2>5. CASE SendPiece(t)
    <3>1. CASE thread[t].left > 1
      BY <1>0, <2>1, <2>5, <3>1, SendPieceMoves, HoldingKept DEF SendPiece, Is
    <3>2. CASE ~(thread[t].left > 1)
      BY <1>0, <2>1, <2>2, <2>4, <2>5, <3>2, SendPieceMoves, HoldingKept DEF SendPiece
    <3> QED  BY <3>1, <3>2
  <2>6. CASE SendFails(t)
    <3>1. CASE connected[On(t)]
      BY <1>0, <2>1, <2>6, <3>1, SendFailsMoves, HoldingKept DEF SendFails, Is
    <3>2. CASE ~connected[On(t)]
      BY <1>0, <2>1, <2>2, <2>4, <2>6, <3>2, SendFailsMoves, HoldingKept DEF SendFails
    <3> QED  BY <3>1, <3>2
  <2>7. CASE SendCloses(t)
    BY <1>0, <2>1, <2>2, <2>7, SendClosesMoves, HoldingKept DEF SendCloses
  <2> QED  BY <1>2, <2>3, <2>5, <2>6, <2>7 DEF SendStep
<1>3. ASSUME NEW w \in Workers, Take(w) \/ WorkerLeaves(w) PROVE Holding'
  <2>1. Only(w) /\ thread'[w].at \in {"send", "ended"} /\ thread[w].at = "idle" /\ UNCHANGED holder
    <3>1. CASE Take(w)
      BY <1>0, <3>1, TakeMoves DEF Take, Is, link, TypeOK
    <3>2. CASE WorkerLeaves(w)
      BY <1>0, <3>2, Going, ThreadSets DEF WorkerLeaves, Is, Points, WorkerPoints, link
    <3> QED  BY <1>3, <3>1, <3>2
  <2> QED  BY <1>0, <2>1, HoldingKept, ThreadSets
<1>4. ASSUME Only(Reactor), thread[Reactor].at \notin {"sending", "close"},
             thread'[Reactor].at # "sending", UNCHANGED holder
      PROVE  Holding'
  BY <1>0, <1>4, HoldingKept, ThreadSets
<1>5. CASE Snapshot \/ LoopEnds \/ SelectFails \/ SelectReturns \/ ReceiveEnds \/ Return
  <2>1. /\ Only(Reactor)
        /\ thread'[Reactor].at \in {"select", "join", "loop", "accept", "remove", "returned"}
    BY <1>0, <1>5, Going, ThreadSets
       DEF Snapshot, LoopEnds, SelectFails, SelectReturns, ReceiveEnds, Return,
           Points, ReactorPoints
  <2>2. UNCHANGED holder /\ thread[Reactor].at \notin {"sending", "close"}
    BY <1>5 DEF Snapshot, LoopEnds, SelectFails, SelectReturns, ReceiveEnds, Return, link, Is
  <2> QED  BY <1>4, <2>1, <2>2
<1>6. CASE Insert \/ NothingToAccept \/ Tell \/ \E c \in Conns, f \in Fds : Accept(c, f)
  BY <1>0, <1>4, <1>6, ScanningMoves, AcceptMoves
     DEF Insert, NothingToAccept, Tell, Accept, link, Is
<1>7. CASE Scan
  <2>1. CASE \E c \in round.snapshot : ToRead(c)
    <3>1. PICK c \in round.snapshot : thread' = [thread EXCEPT ![Reactor] = Doing("recv", c)]
      BY <1>7, <2>1 DEF Scan
    <3>2. c \in Conns
      BY DEF References, Lists, Known
    <3>3. Only(Reactor) /\ thread'[Reactor].at = "recv"
      BY <1>0, <3>1, <3>2, DoingMoves DEF ReactorPoints
    <3> QED  BY <1>4, <1>7, <3>3 DEF Scan, Is, link
  <2>2. CASE ~ \E c \in round.snapshot : ToRead(c)
    BY <1>0, <1>4, <1>7, <2>2, Going, ThreadSets DEF Scan, Is, Points, ReactorPoints, link
  <2> QED  BY <2>1, <2>2
<1>8. CASE Receive \/ Post
  <2>1. On(Reactor) \in Conns /\ sock[On(Reactor)] \in Fds
    BY <1>8, OnKnown, ThreadSets DEF Receive, Post, Is, Busy
  <2>2. Target(On(Reactor)) \in Conns \cup {None}
    BY <2>1 DEF Target, TypeOK
  <2> QED
    BY <1>0, <1>4, <1>8, <2>1, <2>2, ReceiveMoves, PostMoves DEF Receive, Post, Is, link
<1>9. CASE Remove
  BY <1>0, <1>4, <1>9, EntryKnown, RemoveMoves DEF Remove, Is
<1>10. CASE RemoveCloses
  <2>1. Only(Reactor) /\ thread'[Reactor].at = "tell" /\ UNCHANGED holder
    BY <1>0, <1>10, Going, ThreadSets DEF RemoveCloses, Points, ReactorPoints, link
  <2>2. \A c \in Conns : holder[c] # Reactor
    BY <1>10, ThreadSets DEF RemoveCloses, Holding, On
  <2> QED  BY <2>1, <2>2, HoldingKept, ThreadSets
<1>11. CASE StopStep
  <2>1. Only(Stopper)
    BY <1>0, <1>11, StopBeginsMoves, StopSwapsMoves, StopShutsMoves, StopClosesMoves
       DEF StopStep, StopMoved, TypeOK
  <2>2. UNCHANGED holder
    BY <1>11 DEF StopStep, StopBegins, StopSwaps, StopShuts, StopCloses, link
  <2> QED  BY <2>1, <2>2, HoldingKept, ThreadSets
<1> QED
  BY <1>1, <1>2, <1>3, <1>5, <1>6, <1>7, <1>8, <1>9, <1>10, <1>11, ThreadSets
     DEF Next, vars, link, ClientStep, Connect, Ask, Disconnect, WorkerStep, ReactorStep

LEMMA TellingStep ==
    ASSUME IInv, [Next]_vars
    PROVE  Telling'
<1> USE DEF IInv
<1>0. /\ ThreadsOK /\ client \in [Conns -> ClientState] /\ TypeOK /\ References
      /\ ToTell => On(Reactor) \in Conns
  BY OnKnown, ThreadSets DEF StateOK, ToTell, Busy
<1>1. ASSUME \A f \in Fds : connections'[f] \in {connections[f], None}, told' = told,
             \/ thread'[Reactor].at \notin {"tell", "close", "insert"}
             \/ /\ thread'[Reactor] = thread[Reactor]
                /\ \A c \in Conns : holder[c] = Reactor => holder'[c] = Reactor
      PROVE  Telling'
  <2>1. \A f \in Fds : connections'[f] # None => told'[connections'[f]] = 0
    BY <1>1 DEF Telling
  <2>2. ASSUME ToTell' PROVE Untold(thread[Reactor].conn)' /\ thread'[Reactor] = thread[Reactor]
    <3>1. ToTell /\ thread'[Reactor] = thread[Reactor]
      <4>1. CASE thread[Reactor].at = "tell"
        BY <1>1, <2>2, <4>1 DEF ToTell
      <4>2. CASE thread[Reactor].at = "close"
        <5>1. thread[Reactor].conn \in Conns
          BY <4>2, OnKnown, ThreadSets DEF Busy, On
        <5> QED  BY <1>1, <2>2, <4>2, <5>1 DEF ToTell
      <4> QED  BY <1>1, <2>2, <4>1, <4>2 DEF ToTell
    <3>2. Untold(thread[Reactor].conn) /\ thread[Reactor].conn # None
      BY <1>0, <3>1, ThreadSets DEF Telling, On
    <3> QED  BY <1>1, <3>1, <3>2 DEF Untold
  <2>3. thread'[Reactor].at = "insert" => told'[thread'[Reactor].conn] = 0
    BY <1>1 DEF Telling
  <2> QED  BY <2>1, <2>2, <2>3 DEF Telling
<1>2. CASE UNCHANGED <<connections, told, thread, holder>>
  BY <1>1, <1>2
<1>3. ASSUME NEW t \in Senders, SendStep(t) PROVE Telling'
  <2>1. On(t) \in Conns /\ t \in Threads
    BY <1>3, OnKnown, ThreadSets
       DEF SendStep, SendBegins, SendPiece, SendFails, SendCloses, Is, Busy
  <2>2. UNCHANGED <<connections, told>> /\ Only(t)
    BY <1>0, <1>3, <2>1, SendBeginsMoves, SendPieceMoves, SendFailsMoves, SendClosesMoves
       DEF SendStep, SendBegins, SendPiece, SendFails, SendCloses
  <2>3. CASE t # Reactor
    <3>1. holder[On(t)] # Reactor \/ UNCHANGED holder
      BY <1>3, <2>1, <2>3, ThreadSets
         DEF SendStep, SendBegins, SendPiece, SendFails, SendCloses, MayLock, Is, Holding, On
    <3>2. \A c \in Conns : c # On(t) => holder'[c] = holder[c]
      BY <1>3 DEF SendStep, SendBegins, SendPiece, SendFails, SendCloses, Unlocked, TypeOK
    <3> QED  BY <1>1, <2>2, <2>3, <3>1, <3>2, ThreadSets DEF Only
  <2>4. CASE t = Reactor
    <3>1. After(t).at \notin {"tell", "close", "insert"}
      BY <1>0, <2>1, AfterFields DEF On
    <3>2. CASE SendBegins(t) \/ SendPiece(t) \/ SendCloses(t)
      BY <1>0, <1>1, <2>1, <2>2, <2>4, <3>1, <3>2,
         SendBeginsMoves, SendPieceMoves, SendClosesMoves
    <3>3. CASE SendFails(t)
      <4>1. CASE connected[On(t)]
        <5>1. holder' = holder /\ holder[thread[Reactor].conn] = Reactor
          BY <2>4, <3>3, <4>1 DEF SendFails, Holding, Is
        <5>2. thread'[Reactor].at = "close" /\ thread'[Reactor].conn = thread[Reactor].conn
          BY <1>0, <2>1, <2>4, <3>3, <4>1, SendFailsMoves
        <5>3. ~ToTell'
          BY <5>1, <5>2 DEF ToTell
        <5> QED  BY <2>2, <5>2, <5>3 DEF Telling
      <4>2. CASE ~connected[On(t)]
        BY <1>0, <1>1, <2>1, <2>2, <2>4, <3>1, <3>3, <4>2, SendFailsMoves
      <4> QED  BY <4>1, <4>2
    <3> QED  BY <1>3, <3>2, <3>3 DEF SendStep
  <2> QED  BY <2>3, <2>4
<1>4. ASSUME NEW w \in Workers, Take(w) \/ WorkerLeaves(w) PROVE Telling'
  <2>1. Only(w)
    BY <1>0, <1>4, TakeMoves, Going, ThreadSets
       DEF Take, WorkerLeaves, Points, WorkerPoints, TypeOK
  <2>2. UNCHANGED <<connections, told, holder>>
    BY <1>4 DEF Take, WorkerLeaves, link
  <2> QED  BY <1>1, <2>1, <2>2, ThreadSets DEF Only
<1>5. CASE Snapshot \/ LoopEnds \/ SelectFails \/ SelectReturns \/ ReceiveEnds \/ Return
  <2>1. thread'[Reactor].at \in {"select", "join", "loop", "accept", "remove", "returned"}
    BY <1>0, <1>5, Going, ThreadSets
       DEF Snapshot, LoopEnds, SelectFails, SelectReturns, ReceiveEnds, Return,
           Points, ReactorPoints
  <2>2. UNCHANGED <<connections, told>>
    BY <1>5 DEF Snapshot, LoopEnds, SelectFails, SelectReturns, ReceiveEnds, Return
  <2> QED  BY <1>1, <2>1, <2>2
<1>6. CASE NothingToAccept
  BY <1>0, <1>1, <1>6, ScanningMoves DEF NothingToAccept
<1>7. ASSUME NEW c \in Conns, NEW f \in Fds, Accept(c, f) PROVE Telling'
  <2>1. told' = told /\ told[c] = 0 /\ connections' = connections
    BY <1>7 DEF Accept, CanAccept, References, Accepted
  <2>2. thread'[Reactor].at = "insert" /\ thread'[Reactor].conn = c
    BY <1>0, <1>7, AcceptMoves
  <2> QED  BY <2>1, <2>2 DEF Telling, ToTell
<1>8. CASE Scan
  <2>1. thread'[Reactor].at \in {"recv", "loop"}
    <3>1. CASE \E c \in round.snapshot : ToRead(c)
      <4>1. PICK c \in round.snapshot : thread' = [thread EXCEPT ![Reactor] = Doing("recv", c)]
        BY <1>8, <3>1 DEF Scan
      <4>2. c \in Conns
        BY DEF References, Lists, Known
      <4> QED  BY <1>0, <4>1, <4>2, DoingMoves DEF ReactorPoints
    <3>2. CASE ~ \E c \in round.snapshot : ToRead(c)
      BY <1>0, <1>8, <3>2, Going, ThreadSets DEF Scan, Points, ReactorPoints
    <3> QED  BY <3>1, <3>2
  <2> QED  BY <1>1, <1>8, <2>1 DEF Scan
<1>9. CASE Receive \/ Post
  <2>1. On(Reactor) \in Conns /\ sock[On(Reactor)] \in Fds
    BY <1>9, OnKnown, ThreadSets DEF Receive, Post, Is, Busy
  <2>2. Target(On(Reactor)) \in Conns \cup {None}
    BY <2>1 DEF Target, TypeOK
  <2> QED  BY <1>0, <1>1, <1>9, <2>1, <2>2, ReceiveMoves, PostMoves DEF Receive, Post
<1>10. CASE Remove
  <2>1. /\ Entry \in Conns \cup {None} /\ sock[On(Reactor)] \in Fds
        /\ Entry # None => sock[Entry] = sock[On(Reactor)]
    BY <1>10, EntryKnown, OnKnown, ThreadSets DEF Remove, Is, Busy
  <2>2. /\ told' = told
        /\ \A f \in Fds : connections'[f] =
               IF f = sock[On(Reactor)] THEN None ELSE connections[f]
    BY <1>10 DEF Remove, TypeOK
  <2>3. CASE Entry = None
    BY <1>0, <1>1, <1>10, <2>2, <2>3, RemoveMoves
  <2>4. CASE Entry # None
    <3>1. thread'[Reactor].conn = Entry
      BY <1>0, <1>10, <2>1, <2>4, RemoveMoves
    <3>2. told[Entry] = 0
      BY <2>1, <2>4 DEF Telling, Entry
    <3>3. \A f \in Fds : connections'[f] # Entry
      BY <2>1, <2>2, <2>4 DEF References, Descriptors
    <3> QED  BY <2>2, <3>1, <3>2, <3>3 DEF Telling, Untold
  <2> QED  BY <2>3, <2>4
<1>11. CASE RemoveCloses
  <2>1. ToTell /\ UNCHANGED <<connections, told>>
    BY <1>11 DEF RemoveCloses, ToTell, Is, On
  <2>2. thread'[Reactor].conn = thread[Reactor].conn
    BY <1>0, <1>11, Going, ThreadSets DEF RemoveCloses, Points, ReactorPoints
  <2> QED  BY <2>1, <2>2 DEF Telling, Untold
<1>12. CASE Tell
  <2>1. Untold(On(Reactor)) /\ connections' = connections
    BY <1>12 DEF Tell, Is, Telling, ToTell, On
  <2>2. \A c \in Conns : c # On(Reactor) => told'[c] = told[c]
    BY <1>12 DEF Tell, TypeOK
  <2>3. thread'[Reactor].at = "scan"
    BY <1>0, <1>12, ScanningMoves DEF Tell
  <2> QED  BY <2>1, <2>2, <2>3 DEF Telling, Untold, ToTell, TypeOK
<1>13. CASE StopStep
  <2>1. Only(Stopper)
    BY <1>0, <1>13, StopBeginsMoves, StopSwapsMoves, StopShutsMoves, StopClosesMoves
       DEF StopStep, StopMoved, TypeOK
  <2>2. /\ UNCHANGED <<holder, told>>
        /\ \A f \in Fds : connections'[f] \in {connections[f], None}
    BY <1>13 DEF StopStep, StopBegins, StopSwaps, StopShuts, StopCloses, link
  <2> QED  BY <1>1, <2>1, <2>2, ThreadSets DEF Only
<1>14. CASE Insert
  <2>1. told[On(Reactor)] = 0 /\ told' = told
    BY <1>14 DEF Insert, Is, Telling, On
  <2>2. \A f \in Fds : connections'[f] \in {On(Reactor), connections[f]}
    BY <1>14 DEF Insert, TypeOK
  <2>3. thread'[Reactor].at = "scan"
    BY <1>0, <1>14, ScanningMoves DEF Insert
  <2> QED  BY <2>1, <2>2, <2>3 DEF Telling, ToTell
<1> QED
  BY <1>2, <1>3, <1>4, <1>5, <1>6, <1>7, <1>8, <1>9, <1>10, <1>11, <1>12, <1>13, <1>14, ThreadSets
     DEF Next, vars, link, ClientStep, Connect, Ask, Disconnect, WorkerStep, ReactorStep

-----------------------------------------------------------------------------
LEMMA Start == Init => IInv
<1> SUFFICES ASSUME Init PROVE IInv
  OBVIOUS
<1> USE ThreadSets DEF Init
<1>1. TypeOK
  BY QueueHasRoom, RequestLimits DEF TypeOK, NoRound
<1>2. /\ ThreadsOK /\ \A t \in Threads : thread[t].at \in {"loop", "idle"}
  <2>1. /\ Doing("loop", None) \in SenderState /\ Idle \in SenderState
        /\ Doing("loop", None).at = "loop" /\ Idle.at = "idle"
    BY DoingFields DEF Idle, Points, WorkerPoints, ReactorPoints
  <2>2. \A t \in Threads : thread[t] = IF t = Reactor THEN Doing("loop", None) ELSE Idle
    OBVIOUS
  <2>3. \A t \in Threads : ThreadOK(t, thread[t])
    BY <2>1, <2>2, ThreadsDiffer DEF ThreadOK, WorkerPoints, ReactorPoints
  <2> QED  BY <2>1, <2>2, <2>3 DEF ThreadsOK
<1>3. StateOK
  BY <1>2 DEF StateOK, ClientState, NoRound
<1>4. References
  BY <1>2 DEF References, Accepted, Descriptors, Requests, AtWork, Lists, Busy, NoRound
<1>5. Closing /\ Holding /\ Telling
  BY <1>2 DEF Closing, Holding, Telling, ToTell
<1> QED  BY <1>1, <1>3, <1>4, <1>5 DEF IInv

LEMMA Step == IInv /\ [Next]_vars => IInv'
BY TypeStep, StateStep, AcceptedStep, DescriptorsStep, RequestsStep, AtWorkStep, ListsStep,
   ClosingStep, HoldingStep, TellingStep DEF IInv, References

(* Whatever clients, workers, the reactor and stop() do, the fields keep    *)
(* their types; the task queue does not outgrow task_queue_size although   *)
(* the reactor fills it while the workers take from it, and no connection's *)
(* close handler is called twice.                                          *)
THEOREM TypeCorrect == Spec => []TypeOK
<1>1. IInv => TypeOK
  BY DEF IInv
<1> QED  BY <1>1, Start, Step, PTL DEF Spec

(* A connection whose connected_ is set has a descriptor of its own, and   *)
(* run() never reads from a descriptor of a snapshot that accept_ready()   *)
(* has given to another client since.                                      *)
THEOREM DescriptorsStayOwn == Spec => []DescriptorsAreOwn
<1>1. IInv => DescriptorsAreOwn
  BY DEF IInv, Closing, DescriptorsAreOwn, Is, Target, On
<1> QED  BY <1>1, Start, Step, PTL DEF Spec

(* send_mutex_ keeps the frames of one connection apart: no thread is amid  *)
(* a frame while another one is, however send() fails or close() comes.    *)
THEOREM FramesStayWhole == Spec => []FramesAreWhole
<1>1. IInv => FramesAreWhole
  BY DEF IInv, Holding, FramesAreWhole, Amid, Is, On
<1> QED  BY <1>1, Start, Step, PTL DEF Spec
====
