------------------------- MODULE MediaStreamProofs -------------------------
(***************************************************************************)
(* Proofs about MediaStream for any number of connections, sessions and    *)
(* workers and any ring: types, no thread outlives its session, a closed   *)
(* connection keeps no stream and no stream runs on unattended.            *)
(***************************************************************************)
EXTENDS MediaStream, TLAPS

(* Where a caller may be: amid MediaStreamSession::start() with the        *)
(* handlers behind it, or amid MediaStreamSession::stop().                 *)
Starting == {"run", "clear", "open", "opening", "metadata", "reader", "sender",
             "failed", "erase"}
Stopping == {"test", "mark", "interrupt", "joinReader", "joinSender"}
Undelivered == Starting \ {"reader", "sender"}
AtRest == {"none", "done"}

(* A frame: what a caller holds follows from where it is.                  *)
FrameOK ==
    {f \in FrameType :
        /\ f.cur = None <=> f.at \in {"idle", "remove", "closed"}
        /\ f.on = None <=> f.at \notin {"remove", "closed"}
        /\ f.dying => f.at \in Stopping \cup {"release"}
        /\ f.later # None => f.dying /\ f.later # f.cur}

(* A session: a thread that has been started is joined only when it is     *)
(* done, and belongs to a session that has a connection.                   *)
SessionOK ==
    {r \in SessionType :
        /\ r.reader = "none" <=> r.readerHandle = "empty"
        /\ r.sender = "none" <=> r.senderHandle = "empty"
        /\ r.readerHandle = "joined" => r.reader = "done"
        /\ r.senderHandle = "joined" => r.sender = "done"
        /\ r.conn = None => r.reader = "none" /\ r.sender = "none"}

StateOK ==
    /\ connected \in [Connections -> BOOLEAN]
    /\ removed \in [Connections -> BOOLEAN]
    /\ table \in [Connections -> Sessions \cup {None}]
    /\ ses \in [Sessions -> SessionOK]
    /\ frame \in [Callers -> FrameOK]
    /\ wire \in [Connections -> [metadata : Sessions \cup {None},
                                 fragment : Sessions \cup {None}]]
    /\ closing \in BOOLEAN

(* Only the reactor removes connections, and only workers start streams.   *)
Roles ==
    \A w \in Callers :
        /\ frame[w].at \in {"remove", "closed"} => w = Reactor
        /\ frame[w].at \in Starting => w \in Workers

Holds(w, s) == s \in {frame[w].cur, frame[w].later}

(* What is registered or held is the session of a connection, and the      *)
(* table has it under that connection.                                     *)
Named ==
    /\ \A c \in Connections : table[c] # None => ses[table[c]].conn = c
    /\ \A w \in Callers : \A s \in Sessions : Holds(w, s) => ses[s].conn # None

(* A session is destroyed by the only caller that still has it.            *)
Dying ==
    \A w \in Callers : frame[w].dying =>
        /\ ~Registered(frame[w].cur)
        /\ \A v \in Callers \ {w} : ~Holds(v, frame[w].cur)

(* The destructor has joined what it has passed.                           *)
Passed ==
    \A w \in Callers : frame[w].dying =>
        /\ frame[w].at \in {"joinSender", "release"}
              => ses[frame[w].cur].readerHandle # "joinable"
        /\ frame[w].at = "release" => ses[frame[w].cur].senderHandle # "joinable"

(* A connection that has been removed is closed; a stream it still has is  *)
(* about to be taken out, or about to fail for want of a connection.       *)
Leaving ==
    /\ \A c \in Connections : removed[c] => ~connected[c]
    /\ frame[Reactor].at = "closed" => removed[frame[Reactor].on]
    /\ \A c \in Connections : removed[c] /\ table[c] # None =>
          \/ frame[Reactor].at = "closed" /\ frame[Reactor].on = c
          \/ \E w \in Callers : frame[w].cur = table[c] /\ frame[w].at \in Undelivered

IInv == StateOK /\ Roles /\ Named /\ Dying /\ Passed /\ Leaving

-----------------------------------------------------------------------------
(* Most steps are of two kinds. The frame of a caller becomes g, of the same *)
(* session, which becomes r; the table and the connections stay:           *)
Announces(w) ==
    LET c == ses[frame[w].cur].conn
    IN  /\ frame[w].at = "metadata"
        /\ connected[c]
        /\ wire' = [wire EXCEPT ![c] = [metadata |-> frame[w].cur, fragment |-> None]]

Walks(w, g, r) ==
    LET f == frame[w]
        q == ses[f.cur]
    IN  /\ f.at \in Starting \cup Stopping
        /\ g \in FrameOK
        /\ g.cur = f.cur /\ g.on = f.on /\ g.dying = f.dying /\ g.later = f.later
        /\ g.at \in Starting => f.at \in Starting
        /\ g.at \notin {"idle", "remove", "closed"}
        /\ f.at \in Undelivered => g.at \in Undelivered \/ connected[q.conn]
        /\ r \in SessionOK /\ r.conn = q.conn
        /\ f.at \notin Starting =>
              /\ r.readerHandle = "joinable" => q.readerHandle = "joinable"
              /\ r.senderHandle = "joinable" => q.senderHandle = "joinable"
        /\ f.dying =>
              /\ g.at \in {"joinSender", "release"} => r.readerHandle # "joinable"
              /\ g.at = "release" => r.senderHandle # "joinable"
        /\ wire' = wire \/ Announces(w)
        /\ frame' = [frame EXCEPT ![w] = g]
        /\ ses' = [ses EXCEPT ![f.cur] = r]
        /\ UNCHANGED <<connected, removed, table, closing>>

(* or a thread of session s works, and the session becomes r.              *)
Reaches(s) ==
    /\ connected[ses[s].conn]
    /\ wire' = [wire EXCEPT ![ses[s].conn].fragment = s]

Works(s, r) ==
    /\ r \in SessionOK /\ r.conn = ses[s].conn
    /\ r.readerHandle = ses[s].readerHandle
    /\ r.senderHandle = ses[s].senderHandle
    /\ Alive(s)
    /\ wire' = wire \/ Reaches(s)
    /\ ses' = [ses EXCEPT ![s] = r]
    /\ UNCHANGED <<connected, removed, table, frame, closing>>

LEMMA FrameAtStart ==
    ASSUME StateOK, Roles, Named, NEW w \in Callers, frame[w].cur # None
    PROVE  /\ frame[w] \in FrameOK
           /\ frame[w].cur \in Sessions
           /\ ses[frame[w].cur] \in SessionOK
           /\ ses[frame[w].cur].conn \in Connections
BY NoneIsNothing DEF StateOK, FrameOK, FrameType, Named, Holds, SessionOK, SessionType

LEMMA StartWalks ==
    ASSUME StateOK, Roles, Named, NEW w \in Callers,
           StartStep(w), ~StartErases(w)
    PROVE  \E g \in FrameOK : \E r \in SessionOK : Walks(w, g, r)
<1> DEFINE f == frame[w]
           q == ses[f.cur]
<1>1. frame[w].at \in Starting
  BY DEF StartStep, StartRuns, StartClears, SourceClears, SourceOpens, SourceFails,
         SendMetadata, MetadataFails, StartReader, StartSender, ThreadFails, StartFails,
         Moves, Starting
<1>2. f \in FrameOK /\ f.cur # None /\ f.dying = FALSE
  BY <1>1 DEF StateOK, FrameOK, FrameType, Starting, Stopping
<1>3. /\ f.cur \in Sessions /\ q \in SessionOK /\ q.conn \in Connections
      /\ frame \in [Callers -> FrameOK] /\ ses \in [Sessions -> SessionOK]
  BY <1>2, FrameAtStart DEF StateOK
<1> DEFINE g(p) == [f EXCEPT !.at = p]
<1>4. ASSUME NEW p \in Starting \cup {"release"}
      PROVE  /\ g(p) \in FrameOK /\ g(p).at = p /\ g(p).cur = f.cur
             /\ g(p).on = f.on /\ g(p).dying = f.dying /\ g(p).later = f.later
  BY <1>1, <1>2 DEF FrameOK, FrameType, Points, Starting, Stopping
<1> DEFINE Quiet(p, r) ==
             /\ p \in Starting
             /\ p \in {"reader", "sender"} => f.at \in {"reader", "sender"}
             /\ f.at \in Undelivered => p \in Undelivered
             /\ r \in SessionOK /\ r.conn = q.conn /\ r.sender = q.sender
             /\ Goes(w, p) /\ ses' = [ses EXCEPT ![f.cur] = r]
             /\ UNCHANGED <<links, table, closing>>
<1>5. ASSUME NEW p, NEW r, Quiet(p, r)
      PROVE  \E h \in FrameOK : \E k \in SessionOK : Walks(w, h, k)
  <2>1. /\ frame' = [frame EXCEPT ![w] = g(p)]
        /\ wire' = wire
    BY <1>3, <1>5 DEF Goes, links
  <2>2. g(p) \in FrameOK /\ r \in SessionOK
    BY <1>4, <1>5
  <2>3. Walks(w, g(p), r)
    <3> HIDE DEF g
    <3> QED BY <1>1, <1>2, <1>4, <1>5, <2>1, <2>2 DEF Walks, links, Starting, Stopping
  <2> QED BY <2>2, <2>3
<1> DEFINE runs == [q EXCEPT !.running = TRUE]
           clears == [q EXCEPT !.stopping = FALSE]
           opens == [q EXCEPT !.interrupt = FALSE]
           fails == [q EXCEPT !.running = FALSE]
           reads == [q EXCEPT !.reader = "check", !.readerHandle = "joinable"]
           sends == [q EXCEPT !.sender = "check", !.senderHandle = "joinable"]
<1> DEFINE Same(r) == r \in SessionOK /\ r.conn = q.conn /\ r.sender = q.sender
<1>6. Same(runs) /\ Same(clears) /\ Same(opens) /\ Same(fails)
  <2>1. Same(runs) /\ Same(clears)
    BY <1>3 DEF SessionOK, SessionType
  <2>2. Same(opens)
    BY <1>3 DEF SessionOK, SessionType
  <2>3. Same(fails)
    BY <1>3 DEF SessionOK, SessionType
  <2> QED BY <2>1, <2>2, <2>3
<1>7. Same(reads) /\ sends \in SessionOK /\ sends.conn = q.conn
  BY <1>3, NoneIsNothing DEF SessionOK, SessionType
<1>8. ses = [ses EXCEPT ![f.cur] = q]
  BY <1>3
<1>9. CASE StartRuns(w)
  <2>1. Quiet("clear", runs)
    BY <1>6, <1>9 DEF StartRuns, Moves, Becomes, Here, Starting, Undelivered
  <2> QED BY <1>5, <2>1
<1>10. CASE StartClears(w)
  <2>1. Quiet("open", clears)
    BY <1>6, <1>10 DEF StartClears, Moves, Becomes, Here, Starting, Undelivered
  <2> QED BY <1>5, <2>1
<1>11. CASE SourceClears(w)
  <2>1. Quiet("opening", opens)
    BY <1>6, <1>11 DEF SourceClears, Moves, Becomes, Here, Starting, Undelivered
  <2> QED BY <1>5, <2>1
<1>12. CASE SourceOpens(w)
  <2>1. Quiet("metadata", q)
    BY <1>3, <1>12 DEF SourceOpens, Moves, Becomes, Here, Starting, Undelivered
  <2> QED BY <1>5, <2>1
<1>13. CASE SourceFails(w)
  <2>1. Quiet("failed", q)
    BY <1>3, <1>13 DEF SourceFails, Moves, Becomes, Here, Starting, Undelivered
  <2> QED BY <1>5, <2>1
<1>14. CASE SendMetadata(w)
  <2>1. /\ f.at = "metadata" /\ Announces(w) /\ Goes(w, "reader") /\ connected[q.conn]
        /\ UNCHANGED <<connected, removed, table, ses, closing>>
    BY <1>14 DEF SendMetadata, Announces, Here, Delivers
  <2>2. frame' = [frame EXCEPT ![w] = g("reader")]
    BY <1>3, <2>1 DEF Goes
  <2>3. "reader" \in Starting \cup {"release"}
    BY DEF Starting
  <2>4. Walks(w, g("reader"), q)
    <3> HIDE DEF g
    <3> QED BY <1>1, <1>2, <1>3, <1>4, <1>8, <2>1, <2>2, <2>3 DEF Walks, Starting, Stopping
  <2> QED BY <2>4, <1>3, <1>4, <2>3
<1>15. CASE MetadataFails(w)
  <2>1. Quiet("failed", q)
    BY <1>3, <1>8, <1>15 DEF MetadataFails, Starting, Undelivered
  <2> QED BY <1>5, <2>1
<1>16. CASE StartReader(w)
  <2>1. Quiet("sender", reads)
    BY <1>7, <1>16 DEF StartReader, Moves, Becomes, Here, Starting, Undelivered
  <2> QED BY <1>5, <2>1
<1>17. CASE StartSender(w)
  <2>1. /\ f.at = "sender" /\ Goes(w, "release") /\ ses' = [ses EXCEPT ![f.cur] = sends]
        /\ UNCHANGED <<links, table, closing>>
    BY <1>17 DEF StartSender, Moves, Becomes, Here
  <2>2. frame' = [frame EXCEPT ![w] = g("release")]
    BY <1>3, <2>1 DEF Goes
  <2>3. Walks(w, g("release"), sends)
    <3> HIDE DEF g, sends
    <3> QED BY <1>1, <1>2, <1>3, <1>4, <1>7, <2>1, <2>2
           DEF Walks, links, Starting, Stopping, Undelivered
  <2> QED BY <2>3, <1>7, <1>4
<1>18. CASE ThreadFails(w)
  <2>1. Quiet("failed", q)
    BY <1>3, <1>8, <1>18 DEF ThreadFails, Starting, Undelivered
  <2> QED BY <1>5, <2>1
<1>19. CASE StartFails(w)
  <2>1. Quiet("erase", fails)
    BY <1>6, <1>19 DEF StartFails, Moves, Becomes, Here, Starting, Undelivered
  <2> QED BY <1>5, <2>1
<1> QED
  BY <1>9, <1>10, <1>11, <1>12, <1>13, <1>14, <1>15, <1>16, <1>17, <1>18, <1>19
     DEF StartStep

LEMMA StopWalks ==
    ASSUME StateOK, Roles, Named, Passed, NEW w \in Callers, StopStep(w)
    PROVE  \E g \in FrameOK : \E r \in SessionOK : Walks(w, g, r)
<1> DEFINE f == frame[w]
           q == ses[f.cur]
<1>1. f.at \in Stopping
  BY DEF StopStep, StopTests, StopMarks, StopInterrupts, JoinReader, JoinSender, Moves, Stopping
<1>2. f \in FrameOK /\ f.cur # None
  BY <1>1 DEF StateOK, FrameOK, FrameType, Stopping
<1>3. /\ f.cur \in Sessions /\ q \in SessionOK /\ q.conn \in Connections
      /\ frame \in [Callers -> FrameOK] /\ ses \in [Sessions -> SessionOK]
  BY <1>2, FrameAtStart DEF StateOK
<1> DEFINE g(p) == [f EXCEPT !.at = p]
<1>4. ASSUME NEW p \in Stopping \cup {"release"}
      PROVE  /\ g(p) \in FrameOK /\ g(p).at = p /\ g(p).cur = f.cur
             /\ g(p).on = f.on /\ g(p).dying = f.dying /\ g(p).later = f.later
  BY <1>1, <1>2 DEF FrameOK, FrameType, Points, Stopping
<1> DEFINE Stops(p, r) ==
             /\ p \in Stopping \cup {"release"}
             /\ r \in SessionOK /\ r.conn = q.conn /\ r.sender = q.sender
             /\ r.readerHandle = "joinable" => q.readerHandle = "joinable"
             /\ r.senderHandle = "joinable" => q.senderHandle = "joinable"
             /\ f.dying =>
                   /\ p \in {"joinSender", "release"} => r.readerHandle # "joinable"
                   /\ p = "release" => r.senderHandle # "joinable"
             /\ p = "release" => r.sender \in AtRest
             /\ Goes(w, p) /\ ses' = [ses EXCEPT ![f.cur] = r]
             /\ UNCHANGED <<links, table, closing>>
<1>5. ASSUME NEW p, NEW r, Stops(p, r)
      PROVE  \E h \in FrameOK : \E k \in SessionOK : Walks(w, h, k)
  <2>1. /\ frame' = [frame EXCEPT ![w] = g(p)]
        /\ wire' = wire
    BY <1>3, <1>5 DEF Goes, links
  <2>2. g(p) \in FrameOK /\ r \in SessionOK
    BY <1>4, <1>5
  <2>3. Walks(w, g(p), r)
    <3> HIDE DEF g
    <3> QED BY <1>1, <1>4, <1>5, <2>1, <2>2
            DEF Walks, links, Starting, Stopping, Undelivered
  <2> QED BY <2>2, <2>3
<1> DEFINE marks == [q EXCEPT !.stopping = TRUE]
           interrupts == Interrupted(q)
           joinsReader == [q EXCEPT !.readerHandle = Joined(@)]
           joinsSender == [q EXCEPT !.senderHandle = Joined(@), !.running = FALSE]
           Same(r) == r \in SessionOK /\ r.conn = q.conn /\ r.sender = q.sender
<1>6. /\ Same(marks) /\ Same(interrupts)
      /\ marks.readerHandle = q.readerHandle /\ marks.senderHandle = q.senderHandle
      /\ interrupts.readerHandle = q.readerHandle /\ interrupts.senderHandle = q.senderHandle
  BY <1>3 DEF SessionOK, SessionType, Interrupted
<1>7. CASE StopTests(w)
  <2>1. CASE NothingToStop(q)
    <3>1. q.readerHandle # "joinable" /\ q.senderHandle # "joinable" /\ q.sender \in AtRest
      BY <1>3, <2>1 DEF NothingToStop, SessionOK, SessionType, AtRest
    <3>2. Stops("release", q)
      BY <1>3, <1>7, <2>1, <3>1 DEF StopTests, Moves, Becomes, Here
    <3> QED BY <1>5, <3>2
  <2>2. CASE ~NothingToStop(q)
    <3>1. Stops("mark", q)
      BY <1>3, <1>7, <2>2 DEF StopTests, Moves, Becomes, Here, Stopping
    <3> QED BY <1>5, <3>1
  <2> QED BY <2>1, <2>2
<1>8. CASE StopMarks(w)
  <2>1. Stops("interrupt", marks)
    BY <1>6, <1>8 DEF StopMarks, Moves, Becomes, Here, Stopping
  <2> QED BY <1>5, <2>1
<1>9. CASE StopInterrupts(w)
  <2>1. Stops("joinReader", interrupts)
    <3> HIDE DEF interrupts
    <3>1. ses' = [ses EXCEPT ![f.cur] = interrupts]
      BY <1>9 DEF StopInterrupts, Moves, Becomes, Here, interrupts
    <3> QED BY <1>6, <1>9, <3>1 DEF StopInterrupts, Moves, Stopping
  <2> QED BY <1>5, <2>1
<1>10. CASE JoinReader(w)
  <2>1. /\ f.at = "joinReader"
        /\ q.readerHandle = "joinable" => q.reader = "done"
        /\ Goes(w, "joinSender") /\ ses' = [ses EXCEPT ![f.cur] = joinsReader]
        /\ UNCHANGED <<links, table, closing>>
    BY <1>10 DEF JoinReader, Moves, Becomes, Here
  <2>2. /\ Same(joinsReader) /\ joinsReader.readerHandle # "joinable"
        /\ joinsReader.senderHandle = q.senderHandle
    BY <1>3, <2>1 DEF SessionOK, SessionType, Joined
  <2>3. Stops("joinSender", joinsReader)
    <3> HIDE DEF joinsReader
    <3> QED BY <2>1, <2>2 DEF Stopping
  <2> QED BY <1>5, <2>3
<1>11. CASE JoinSender(w)
  <2>1. /\ f.at = "joinSender"
        /\ q.senderHandle = "joinable" => q.sender = "done"
        /\ Goes(w, "release") /\ ses' = [ses EXCEPT ![f.cur] = joinsSender]
        /\ UNCHANGED <<links, table, closing>>
    BY <1>11 DEF JoinSender, SenderJoinable, Moves, Becomes, Here
  <2>2. /\ Same(joinsSender) /\ joinsSender.senderHandle # "joinable"
        /\ joinsSender.readerHandle = q.readerHandle /\ joinsSender.sender \in AtRest
    BY <1>3, <2>1 DEF SessionOK, SessionType, Joined, AtRest
  <2>3. f.dying => q.readerHandle # "joinable"
    BY <2>1 DEF Passed
  <2>4. Stops("release", joinsSender)
    <3> HIDE DEF joinsSender
    <3> QED BY <2>1, <2>2, <2>3
  <2> QED BY <1>5, <2>4
<1> QED
  BY <1>7, <1>8, <1>9, <1>10, <1>11 DEF StopStep

LEMMA ReaderWorks ==
    ASSUME StateOK, NEW s \in Sessions, ReaderStep(s)
    PROVE  \E r \in SessionOK : Works(s, r)
<1> DEFINE q == ses[s]
           left == Left(q)
           reads == [q EXCEPT !.reader = "reading"]
           pushes == [q EXCEPT !.reader = "check", !.ring = Pushed(q)]
           Same(r) == /\ r \in SessionOK /\ r.conn = q.conn /\ r.sender = q.sender
                      /\ r.readerHandle = q.readerHandle /\ r.senderHandle = q.senderHandle
<1>1. q \in SessionOK /\ q.reader \in {"check", "reading"}
  BY DEF StateOK, ReaderStep, ReaderChecks, ReaderPushes, ReaderEnds
<1>2. Same(left) /\ Same(reads)
  BY <1>1 DEF SessionOK, SessionType, Left
<1>3. Pushed(q) \in 0..RingCapacity
  BY <1>1, RingHasRoom DEF SessionOK, SessionType, Pushed
<1>4. Same(pushes)
  <2> DEFINE n == Pushed(q)
  <2> HIDE DEF n
  <2> QED BY <1>1, <1>3 DEF SessionOK, SessionType, n
<1>5. ASSUME NEW r, Same(r), Thread(s, r)
      PROVE  Works(s, r)
  BY <1>1, <1>5 DEF Thread, Becomes, Works, links, Alive
<1>6. ReaderStep(s) => Thread(s, left) \/ Thread(s, reads) \/ Thread(s, pushes)
  BY DEF ReaderStep, ReaderChecks, ReaderPushes, ReaderEnds
<1> QED
  <2> HIDE DEF Same, left, reads, pushes
  <2>1. Works(s, left) \/ Works(s, reads) \/ Works(s, pushes)
    BY <1>2, <1>4, <1>5, <1>6
  <2> QED BY <2>1, <1>2, <1>4 DEF Same

LEMMA SenderWorks ==
    ASSUME StateOK, NEW s \in Sessions, SenderStep(s)
    PROVE  \E r \in SessionOK : Works(s, r)
<1> DEFINE q == ses[s]
           Alike(r) == /\ r \in SessionOK /\ r.conn = q.conn
                       /\ r.readerHandle = q.readerHandle /\ r.senderHandle = q.senderHandle
<1>1. q \in SessionOK /\ q.sender \notin AtRest /\ ses \in [Sessions -> SessionOK]
  BY DEF StateOK, SenderStep, SenderChecks, SenderTakes, SenderGivesUp, SenderThrows,
         SenderTests, SendsFragment, SendsLast, SenderSends, SenderFails, SenderEnds, AtRest
<1> DEFINE ended == Ended(q)
           stopped == Stopped(q)
           goes(p) == [q EXCEPT !.sender = p]
           takes == [q EXCEPT !.sender = "testing", !.ring = @ - 1]
           throws == [Ended(q) EXCEPT !.ring = @ - 1]
<1>2. /\ Alike(ended) /\ Alike(stopped)
      /\ Alike(goes("waiting")) /\ Alike(goes("sending"))
      /\ Alike(goes("testing")) /\ Alike(goes("check"))
  <2>1. Alike(ended)
    BY <1>1 DEF SessionOK, SessionType, Ended, AtRest
  <2>2. Alike(stopped)
    BY <1>1 DEF SessionOK, SessionType, Stopped, AtRest
  <2>3. ASSUME NEW p \in {"waiting", "sending", "testing", "check"}
        PROVE  Alike(goes(p))
    BY <1>1 DEF SessionOK, SessionType, AtRest
  <2> HIDE DEF Alike, goes, ended, stopped
  <2> QED BY <2>1, <2>2, <2>3
<1>3. q.ring > 0 => Alike(takes) /\ Alike(throws)
  <2>1. q.ring > 0 => q.ring - 1 \in 0..RingCapacity
    BY <1>1, RingHasRoom DEF SessionOK, SessionType
  <2> DEFINE n == q.ring - 1
  <2>2. /\ takes = [q EXCEPT !.sender = "testing", !.ring = n]
        /\ throws = [q EXCEPT !.sender = "done", !.running = FALSE, !.ring = n]
    BY DEF Ended
  <2> HIDE DEF n, takes, throws
  <2>3. n \in 0..RingCapacity => Alike(takes) /\ Alike(throws)
    BY <1>1, <2>2 DEF SessionOK, SessionType, AtRest
  <2> QED BY <2>1, <2>3 DEF n
<1>4. ASSUME NEW r, Alike(r), Thread(s, r)
      PROVE  Works(s, r) /\ r \in SessionOK
  BY <1>1, <1>4 DEF Thread, Becomes, Works, links, Alive, AtRest
<1>5. ASSUME NEW p \in {"testing", "check"}, SenderSends(s, p)
      PROVE  Works(s, goes(p)) /\ goes(p) \in SessionOK
  <2>1. Alike(goes(p))
    BY <1>2, <1>5
  <2> HIDE DEF goes
  <2>2. ses' = [ses EXCEPT ![s] = goes(p)]
    BY <1>5 DEF SenderSends, Becomes, goes
  <2>3. Alive(s)
    BY <1>1 DEF Alive, AtRest
  <2> QED BY <1>1, <1>5, <2>1, <2>2, <2>3 DEF SenderSends, Works, Reaches
<1>6. CASE SenderTakes(s) \/ SenderThrows(s)
  <2>1. q.ring > 0 /\ (Thread(s, takes) \/ Thread(s, throws))
    BY <1>6 DEF SenderTakes, SenderThrows
  <2> HIDE DEF takes, throws, Alike
  <2> QED BY <1>3, <1>4, <2>1
<1>7. CASE SendsFragment(s) \/ SendsLast(s)
  BY <1>5, <1>7 DEF SendsFragment, SendsLast
<1>8. CASE SenderChecks(s) \/ SenderGivesUp(s) \/ SenderTests(s) \/ SenderFails(s) \/ SenderEnds(s)
  <2>1. \/ Thread(s, ended) \/ Thread(s, stopped)
        \/ Thread(s, goes("waiting")) \/ Thread(s, goes("sending"))
    BY <1>8 DEF SenderChecks, SenderGivesUp, SenderTests, SenderFails, SenderEnds
  <2> HIDE DEF ended, stopped, goes, Alike
  <2> QED BY <1>2, <1>4, <2>1
<1> QED
  BY <1>6, <1>7, <1>8 DEF SenderStep

-----------------------------------------------------------------------------
(* The other steps register, take out, drop or destroy a session, or       *)
(* concern a connection.                                                   *)
Takes(w, c) ==
    /\ TakesOut(w, c)
    /\ \/ frame[w] = Idle /\ (w \in Workers \/ closing)
       \/ w = Reactor /\ frame[w].at = "closed" /\ frame[w].on = c

FindsNone(c) ==
    /\ frame[Reactor].at = "closed" /\ frame[Reactor].on = c
    /\ table[c] = None
    /\ frame' = [frame EXCEPT ![Reactor] = Idle]
    /\ UNCHANGED <<connected, removed, table, ses, wire, closing>>

Steps ==
    \/ \E w \in Callers : \E g \in FrameOK : \E r \in SessionOK : Walks(w, g, r)
    \/ \E s \in Sessions : \E r \in SessionOK : Works(s, r)
    \/ \E w \in Workers : \E c \in Connections : \E s \in Sessions : StartInsert(w, c, s)
    \/ \E w \in Callers : StartErases(w)
    \/ \E w \in Callers : Release(w)
    \/ \E w \in Callers : \E c \in Connections : Takes(w, c)
    \/ \E c \in Connections : FindsNone(c)
    \/ \E c \in Connections : ReactorReads(c)
    \/ \E c \in Connections : ReactorRemoves(c)
    \/ \E c \in Connections : ConnectionFails(c)
    \/ Destroy
    \/ UNCHANGED vars

LEMMA NextSteps ==
    ASSUME StateOK, Roles, Named, Passed, [Next]_vars
    PROVE  Steps
<1>1. CASE \E w \in Callers : CallerStep(w)
  <2>1. PICK w \in Callers : CallerStep(w)
    BY <1>1
  <2>2. CASE StartStep(w) /\ ~StartErases(w)
    BY <2>2, StartWalks DEF Steps
  <2>3. CASE StopStep(w)
    BY <2>3, StopWalks DEF Steps
  <2> QED
    BY <2>1, <2>2, <2>3 DEF CallerStep, Steps
<1>2. CASE \E s \in Sessions : ReaderStep(s) \/ SenderStep(s)
  BY <1>2, ReaderWorks, SenderWorks DEF Steps
<1>3. ASSUME NEW w \in Callers, NEW c \in Connections, StopStream(w, c)
      PROVE  Takes(w, c)
  BY <1>3, ReactorIsNoWorker DEF StopStream, Takes, Callers
<1>4. ASSUME NEW w \in Callers, NEW c \in Connections, NEW s \in Sessions,
             StartInsert(w, c, s)
      PROVE  w \in Workers
  BY <1>4 DEF StartInsert, Callers
<1>5. ASSUME NEW c \in Connections, ConnectionClosed(c) \/ DestroyStops(c)
      PROVE  Takes(Reactor, c) \/ FindsNone(c)
  BY <1>5 DEF ConnectionClosed, DestroyStops, Takes, FindsNone, links
<1>6. Reactor \in Callers
  BY DEF Callers
<1>7. CASE ReactorStep
  BY <1>7, <1>5, <1>6 DEF ReactorStep, Steps
<1>8. CASE \E w \in Callers : \E c \in Connections :
              StopStream(w, c) \/ \E s \in Sessions : StartInsert(w, c, s)
  BY <1>8, <1>3, <1>4 DEF Steps
<1>9. CASE Destroy \/ \E c \in Connections : ReactorReads(c) \/ ConnectionFails(c)
  BY <1>9 DEF Steps
<1>10. CASE UNCHANGED vars
  BY <1>10 DEF Steps
<1> QED
  BY <1>1, <1>2, <1>7, <1>8, <1>9, <1>10 DEF Next

(* The frames and sessions that these steps make.                          *)
LEMMA NewFrames ==
    ASSUME NEW s \in Sessions
    PROVE  /\ Idle \in FrameOK
           /\ Frame("run", s, FALSE) \in FrameOK
           /\ \A d \in BOOLEAN : Frame("test", s, d) \in FrameOK
           /\ Frame("release", s, FALSE) \in FrameOK
           /\ \A l \in Sessions \ {s} :
                 [Frame("test", s, TRUE) EXCEPT !.later = l] \in FrameOK
BY NoneIsNothing DEF Frame, Idle, FrameOK, FrameType, Points, Stopping

LEMMA NewSessions ==
    \A c \in Connections \cup {None} : NewSession(c) \in SessionOK
BY RingHasRoom DEF NewSession, SessionOK, SessionType

LEMMA TakesFrame ==
    ASSUME StateOK, NEW w \in Callers, NEW c \in Connections, Takes(w, c)
    PROVE  /\ table[c] \in Sessions
           /\ frame[w].cur = None /\ frame[w].later = None /\ ~frame[w].dying
           /\ frame[w].at \in {"idle", "closed"}
           /\ frame' = [frame EXCEPT ![w] = Frame("test", table[c], FALSE)]
           /\ table' = [table EXCEPT ![c] = None]
           /\ UNCHANGED <<connected, removed, wire, ses, closing>>
<1>1. /\ frame[w] \in FrameOK /\ table[c] \in Sessions
      /\ frame' = [frame EXCEPT ![w] = Frame("test", table[c], FALSE)]
      /\ table' = [table EXCEPT ![c] = None]
      /\ UNCHANGED <<connected, removed, wire, ses, closing>>
  BY DEF Takes, TakesOut, StateOK, links
<1>2. frame[w].at \in {"idle", "closed"}
  BY DEF Takes, Idle, Frame
<1>3. frame[w].cur = None /\ frame[w].later = None /\ ~frame[w].dying
  BY <1>1, <1>2 DEF FrameOK, FrameType, Stopping
<1> QED
  BY <1>1, <1>2, <1>3

(* A caller amid start() that erases: it destroys what it finds, if nobody *)
(* else has it, before it drops its own session.                           *)
LEMMA ErasesFrame ==
    ASSUME StateOK, Named, NEW w \in Callers, StartErases(w)
    PROVE  LET s == frame[w].cur
               c == ses[s].conn
           IN  /\ s \in Sessions /\ c \in Connections
               /\ frame[w].at = "erase" /\ ~frame[w].dying /\ frame[w].later = None
               /\ table' = [table EXCEPT ![c] = None]
               /\ UNCHANGED <<connected, removed, wire, ses, closing>>
               /\ \/ /\ table[c] \in Sessions \ {s}
                     /\ \A v \in Callers : ~Holds(v, table[c])
                     /\ frame' = [frame EXCEPT ![w] =
                                    [Frame("test", table[c], TRUE) EXCEPT !.later = s]]
                  \/ frame' = [frame EXCEPT ![w] = [frame[w] EXCEPT !.at = "release"]]
<1> DEFINE s == frame[w].cur
           c == ses[s].conn
<1>1. /\ frame[w].at = "erase"
      /\ frame[w] \in FrameOK /\ frame \in [Callers -> FrameOK]
  BY DEF StartErases, StateOK
<1>2. s # None /\ ~frame[w].dying /\ frame[w].later = None
  BY <1>1 DEF FrameOK, FrameType, Stopping
<1>3. s \in Sessions /\ c \in Connections
  BY <1>1, <1>2, NoneIsNothing
     DEF Named, Holds, StateOK, FrameOK, FrameType, SessionOK, SessionType
<1>4. /\ table' = [table EXCEPT ![c] = None]
      /\ UNCHANGED <<connected, removed, wire, ses, closing>>
  BY DEF StartErases, Here, links
<1>5. CASE table[c] # None /\ Holders(table[c]) = {}
  <2>1. frame' = [frame EXCEPT ![w] = [Frame("test", table[c], TRUE) EXCEPT !.later = s]]
    BY <1>5 DEF StartErases, Here
  <2>2. \A v \in Callers : ~Holds(v, table[c])
    BY <1>5 DEF Holders, Holds
  <2>3. table[c] \in Sessions \ {s}
    BY <1>3, <1>5, <2>2 DEF StateOK, Holds
  <2> QED BY <1>1, <1>2, <1>3, <1>4, <2>1, <2>2, <2>3
<1>6. CASE ~(table[c] # None /\ Holders(table[c]) = {})
  <2>1. frame' = [frame EXCEPT ![w] = [frame[w] EXCEPT !.at = "release"]]
    BY <1>1, <1>6 DEF StartErases, Here, Goes
  <2> QED BY <1>1, <1>2, <1>3, <1>4, <2>1
<1> QED
  BY <1>5, <1>6

(* A caller that releases goes on with the session it still has, destroys  *)
(* the one that nobody else has, or is through; a session that has been    *)
(* destroyed is free again.                                                *)
LEMMA ReleasesFrame ==
    ASSUME StateOK, Named, Passed, NEW w \in Callers, Release(w)
    PROVE  LET s == frame[w].cur
               l == frame[w].later
           IN  /\ s \in Sessions /\ frame[w].at = "release"
               /\ UNCHANGED <<connected, removed, table, wire, closing>>
               /\ \/ /\ frame[w].dying
                     /\ ses' = [ses EXCEPT ![s] = NewSession(None)]
                     /\ \/ /\ l \in Sessions \ {s}
                           /\ frame' = [frame EXCEPT ![w] = Frame("release", l, FALSE)]
                        \/ l = None /\ frame' = [frame EXCEPT ![w] = Idle]
                  \/ /\ ~frame[w].dying /\ l = None
                     /\ ses' = ses
                     /\ \/ /\ Last(w)
                           /\ frame' = [frame EXCEPT ![w] = Frame("test", s, TRUE)]
                        \/ frame' = [frame EXCEPT ![w] = Idle]
<1> DEFINE s == frame[w].cur
           l == frame[w].later
<1>1. frame[w].at = "release" /\ frame[w] \in FrameOK
  BY DEF Release, StateOK
<1>2. s \in Sessions /\ l \in Sessions \cup {None} /\ (l # None => frame[w].dying /\ l # s)
  BY <1>1 DEF FrameOK, FrameType
<1>3. frame[w].dying => ~Alive(s)
  <2> SUFFICES ASSUME frame[w].dying PROVE ~Alive(s)
    OBVIOUS
  <2>1. ses[s] \in SessionOK
    BY <1>2 DEF StateOK
  <2>2. ses[s].readerHandle # "joinable" /\ ses[s].senderHandle # "joinable"
    BY <1>1 DEF Passed
  <2> QED
    BY <2>1, <2>2 DEF Alive, SessionOK, SessionType
<1>4. UNCHANGED <<connected, removed, table, wire, closing>>
  BY DEF Release, links
<1>5. CASE frame[w].dying
  BY <1>1, <1>2, <1>3, <1>4, <1>5 DEF Release, Here
<1>6. CASE ~frame[w].dying
  BY <1>1, <1>2, <1>4, <1>6 DEF Release, Here
<1> QED
  BY <1>5, <1>6

-----------------------------------------------------------------------------
(* Each part of the invariant is kept.                                     *)
LEMMA StateStep ==
    ASSUME IInv, Steps
    PROVE  StateOK'
<1> USE DEF IInv
<1>1. /\ connected \in [Connections -> BOOLEAN]
      /\ removed \in [Connections -> BOOLEAN]
      /\ table \in [Connections -> Sessions \cup {None}]
      /\ ses \in [Sessions -> SessionOK]
      /\ frame \in [Callers -> FrameOK]
      /\ wire \in [Connections -> [metadata : Sessions \cup {None},
                                   fragment : Sessions \cup {None}]]
      /\ closing \in BOOLEAN
  BY DEF StateOK
<1> DEFINE Kept == UNCHANGED <<connected, removed, wire, closing>>
<1>2. ASSUME NEW w \in Callers, NEW g \in FrameOK, NEW r \in SessionOK, Walks(w, g, r)
      PROVE  StateOK'
  <2>1. Announces(w) => frame[w].cur \in Sessions
    BY <1>1, NoneIsNothing DEF Announces, FrameOK, FrameType
  <2>2. wire' \in [Connections -> [metadata : Sessions \cup {None},
                                   fragment : Sessions \cup {None}]]
    BY <1>1, <1>2, <2>1 DEF Walks, Announces
  <2> QED BY <1>1, <1>2, <2>2 DEF StateOK, Walks
<1>3. ASSUME NEW s \in Sessions, NEW r \in SessionOK, Works(s, r)
      PROVE  StateOK'
  <2>1. wire' \in [Connections -> [metadata : Sessions \cup {None},
                                   fragment : Sessions \cup {None}]]
    <3>1. CASE wire' = wire
      BY <1>1, <3>1
    <3>2. CASE Reaches(s)
      BY <1>1, <3>2 DEF Reaches
    <3> QED BY <1>3, <3>1, <3>2 DEF Works
  <2> QED BY <1>1, <1>3, <2>1 DEF StateOK, Works
<1>4. ASSUME NEW w \in Workers, NEW c \in Connections, NEW s \in Sessions,
             StartInsert(w, c, s)
      PROVE  StateOK'
  <2>1. Frame("run", s, FALSE) \in FrameOK /\ NewSession(c) \in SessionOK
    BY NewFrames, NewSessions
  <2>2. /\ frame' = [frame EXCEPT ![w] = Frame("run", s, FALSE)]
        /\ ses' = [ses EXCEPT ![s] = NewSession(c)]
        /\ table' = [table EXCEPT ![c] = s]
        /\ Kept
    BY <1>4 DEF StartInsert, Becomes, links
  <2> QED BY <1>1, <2>1, <2>2 DEF StateOK
<1>5. ASSUME NEW w \in Callers, StartErases(w)
      PROVE  StateOK'
  <2> DEFINE s == frame[w].cur
             c == ses[s].conn
             f == [frame[w] EXCEPT !.at = "release"]
             d == [Frame("test", table[c], TRUE) EXCEPT !.later = s]
  <2>1. f \in FrameOK
    <3>1. frame[w] \in FrameOK /\ frame[w].at = "erase"
      BY <1>1, <1>5 DEF StartErases
    <3> QED BY <3>1 DEF FrameOK, FrameType, Points, Stopping
  <2>2. table[c] \in Sessions \ {s} => d \in FrameOK
    BY <1>5, ErasesFrame, NewFrames
  <2>3. /\ table' = [table EXCEPT ![c] = None]
        /\ Kept /\ ses' = ses
        /\ \/ table[c] \in Sessions \ {s} /\ frame' = [frame EXCEPT ![w] = d]
           \/ frame' = [frame EXCEPT ![w] = f]
    BY <1>5, ErasesFrame
  <2> HIDE DEF f, d
  <2>4. frame' \in [Callers -> FrameOK]
    BY <1>1, <2>1, <2>2, <2>3
  <2> QED BY <1>1, <2>3, <2>4 DEF StateOK
<1>6. ASSUME NEW w \in Callers, Release(w)
      PROVE  StateOK'
  <2>1. NewSession(None) \in SessionOK
    BY NewSessions
  <2>2. frame' \in [Callers -> FrameOK]
    <3> DEFINE s == frame[w].cur
               l == frame[w].later
    <3>1. s \in Sessions
      BY <1>6, ReleasesFrame
    <3>2. Idle \in FrameOK /\ Frame("test", s, TRUE) \in FrameOK
      BY <3>1, NewFrames
    <3>3. l \in Sessions => Frame("release", l, FALSE) \in FrameOK
      BY NewFrames
    <3>4. \/ l \in Sessions /\ frame' = [frame EXCEPT ![w] = Frame("release", l, FALSE)]
          \/ frame' = [frame EXCEPT ![w] = Idle]
          \/ frame' = [frame EXCEPT ![w] = Frame("test", s, TRUE)]
      BY <1>6, ReleasesFrame
    <3> QED BY <1>1, <3>2, <3>3, <3>4
  <2>3. /\ Kept /\ table' = table
        /\ ses' = ses \/ ses' = [ses EXCEPT ![frame[w].cur] = NewSession(None)]
    BY <1>6, ReleasesFrame
  <2>4. ses' \in [Sessions -> SessionOK]
    BY <1>1, <2>1, <2>3
  <2> QED BY <1>1, <2>2, <2>3, <2>4 DEF StateOK
<1>7. ASSUME NEW w \in Callers, NEW c \in Connections, Takes(w, c)
      PROVE  StateOK'
  <2>1. Frame("test", table[c], FALSE) \in FrameOK
    BY <1>7, TakesFrame, NewFrames
  <2>2. /\ frame' = [frame EXCEPT ![w] = Frame("test", table[c], FALSE)]
        /\ table' = [table EXCEPT ![c] = None]
        /\ Kept /\ ses' = ses
    BY <1>7, TakesFrame
  <2> QED BY <1>1, <2>1, <2>2 DEF StateOK
<1>8. ASSUME NEW c \in Connections, FindsNone(c)
      PROVE  StateOK'
  <2>1. Idle \in FrameOK
    BY NoneIsNothing DEF Frame, Idle, FrameOK, FrameType, Points, Stopping
  <2> QED BY <1>1, <1>8, <2>1 DEF FindsNone, StateOK
<1>9. ASSUME NEW c \in Connections, ReactorReads(c)
      PROVE  StateOK'
  <2> DEFINE f == [Idle EXCEPT !.at = "remove", !.on = c]
  <2>1. f \in FrameOK
    BY NoneIsNothing DEF Frame, Idle, FrameOK, FrameType, Points, Stopping
  <2>2. frame' = [frame EXCEPT ![Reactor] = f] /\ Kept /\ table' = table /\ ses' = ses
    BY <1>9 DEF ReactorReads, links
  <2> HIDE DEF f
  <2> QED BY <1>1, <2>1, <2>2 DEF StateOK
<1>10. ASSUME NEW c \in Connections, ReactorRemoves(c)
      PROVE  StateOK'
  <2> DEFINE f == [frame[Reactor] EXCEPT !.at = "closed"]
  <2>1. f \in FrameOK
    <3>1. frame[Reactor] \in FrameOK /\ frame[Reactor].at = "remove"
      BY <1>1, <1>10 DEF ReactorRemoves, Callers
    <3> QED BY <3>1 DEF FrameOK, FrameType, Points, Stopping
  <2>2. /\ frame' = [frame EXCEPT ![Reactor] = f]
        /\ removed' = [removed EXCEPT ![c] = TRUE]
        /\ connected' = [connected EXCEPT ![c] = FALSE]
        /\ UNCHANGED <<table, ses, wire, closing>>
    BY <1>1, <1>10 DEF ReactorRemoves, Goes, Callers
  <2> HIDE DEF f
  <2> QED BY <1>1, <2>1, <2>2 DEF StateOK
<1>11. ASSUME NEW c \in Connections, ConnectionFails(c)
      PROVE  StateOK'
  BY <1>1, <1>11 DEF ConnectionFails, StateOK
<1>12. CASE Destroy \/ UNCHANGED vars
  BY <1>1, <1>12 DEF Destroy, vars, links, StateOK
<1> QED
  BY <1>2, <1>3, <1>4, <1>5, <1>6, <1>7, <1>8, <1>9, <1>10, <1>11, <1>12 DEF Steps

LEMMA RolesStep ==
    ASSUME IInv, Steps
    PROVE  Roles'
<1> USE DEF IInv
<1>1. frame \in [Callers -> FrameOK] /\ Roles /\ Reactor \in Callers
  BY DEF StateOK, Callers
<1> DEFINE Right(w, f) ==
             /\ f.at \in {"remove", "closed"} => w = Reactor
             /\ f.at \in Starting => w \in Workers
<1>2. ASSUME NEW w \in Callers, NEW f, Right(w, f), frame' = [frame EXCEPT ![w] = f]
      PROVE  Roles'
  BY <1>1, <1>2 DEF Roles
<1>3. ASSUME NEW w \in Callers, NEW g \in FrameOK, NEW r \in SessionOK, Walks(w, g, r)
      PROVE  Roles'
  BY <1>1, <1>2, <1>3 DEF Walks, Roles
<1>4. ASSUME NEW w \in Workers, NEW c \in Connections, NEW s \in Sessions,
             StartInsert(w, c, s)
      PROVE  Roles'
  BY <1>2, <1>4 DEF StartInsert, Frame, Starting, Callers
<1>5. ASSUME NEW w \in Callers, StartErases(w)
      PROVE  Roles'
  <2> DEFINE s == frame[w].cur
             c == ses[s].conn
             f == [frame[w] EXCEPT !.at = "release"]
             d == [Frame("test", table[c], TRUE) EXCEPT !.later = s]
  <2>1. Right(w, d)
    BY DEF Frame, Starting
  <2>2. Right(w, f)
    BY <1>1 DEF FrameOK, FrameType, Starting
  <2>3. frame' = [frame EXCEPT ![w] = d] \/ frame' = [frame EXCEPT ![w] = f]
    BY <1>5, ErasesFrame
  <2> HIDE DEF f, d, Right
  <2> QED BY <1>2, <2>1, <2>2, <2>3
<1>6. ASSUME NEW w \in Callers, Release(w)
      PROVE  Roles'
  <2> DEFINE s == frame[w].cur
             l == frame[w].later
  <2>1. /\ Right(w, Idle) /\ Right(w, Frame("release", l, FALSE))
        /\ Right(w, Frame("test", s, TRUE))
    BY DEF Frame, Idle, Starting
  <2> HIDE DEF Right
  <2> QED BY <1>2, <1>6, <2>1, ReleasesFrame
<1>7. ASSUME NEW w \in Callers, NEW c \in Connections, Takes(w, c)
      PROVE  Roles'
  <2>1. Right(w, Frame("test", table[c], FALSE))
    BY DEF Frame, Starting
  <2> HIDE DEF Right
  <2> QED BY <1>2, <1>7, <2>1, TakesFrame
<1>8. ASSUME NEW c \in Connections, FindsNone(c) \/ ReactorReads(c) \/ ReactorRemoves(c)
      PROVE  Roles'
  <2>1. \E f : Right(Reactor, f) /\ frame' = [frame EXCEPT ![Reactor] = f]
    <3>1. Right(Reactor, Idle) /\ Right(Reactor, [Idle EXCEPT !.at = "remove", !.on = c])
      BY DEF Frame, Idle, Starting
    <3>2. Right(Reactor, [frame[Reactor] EXCEPT !.at = "closed"])
      BY <1>1 DEF FrameOK, FrameType, Starting
    <3>3. ReactorRemoves(c) =>
             frame' = [frame EXCEPT ![Reactor] = [frame[Reactor] EXCEPT !.at = "closed"]]
      BY <1>1 DEF ReactorRemoves, Goes
    <3> HIDE DEF Right
    <3> QED BY <1>8, <3>1, <3>2, <3>3 DEF FindsNone, ReactorReads
  <2> QED BY <1>1, <1>2, <2>1
<1>9. CASE Destroy \/ UNCHANGED vars \/ \E c \in Connections : ConnectionFails(c)
  BY <1>1, <1>9 DEF Destroy, vars, ConnectionFails, Roles
<1>10. CASE \E s \in Sessions : \E r \in SessionOK : Works(s, r)
  BY <1>1, <1>10 DEF Works, Roles
<1> QED
  BY <1>3, <1>4, <1>5, <1>6, <1>7, <1>8, <1>9, <1>10 DEF Steps

(* What everybody holds and what is registered stays the same.             *)
Stays ==
    /\ table' = table
    /\ \A s \in Sessions : ses'[s].conn = ses[s].conn
    /\ \A w \in Callers : /\ frame'[w].cur = frame[w].cur
                          /\ frame'[w].later = frame[w].later
                          /\ frame'[w].dying = frame[w].dying

LEMMA MostStay ==
    ASSUME IInv,
           \/ \E w \in Callers : \E g \in FrameOK : \E r \in SessionOK : Walks(w, g, r)
           \/ \E s \in Sessions : \E r \in SessionOK : Works(s, r)
           \/ \E c \in Connections : FindsNone(c) \/ ReactorReads(c) \/ ReactorRemoves(c)
           \/ \E c \in Connections : ConnectionFails(c)
           \/ Destroy \/ UNCHANGED vars
    PROVE  Stays
<1>1. /\ frame \in [Callers -> FrameOK] /\ ses \in [Sessions -> SessionOK]
      /\ Reactor \in Callers
  BY DEF IInv, StateOK, Callers
<1>2. ASSUME NEW w \in Callers, NEW g \in FrameOK, NEW r \in SessionOK, Walks(w, g, r)
      PROVE  Stays
  BY <1>1, <1>2 DEF Walks, Stays
<1>3. ASSUME NEW s \in Sessions, NEW r \in SessionOK, Works(s, r)
      PROVE  Stays
  BY <1>1, <1>3 DEF Works, Stays
<1>4. ASSUME NEW c \in Connections, FindsNone(c)
      PROVE  Stays
  <2>1. frame[Reactor].cur = None /\ frame[Reactor].later = None /\ frame[Reactor].dying = FALSE
    BY <1>1, <1>4 DEF FindsNone, FrameOK, FrameType, Stopping
  <2> QED BY <1>1, <1>4, <2>1 DEF FindsNone, Stays, Idle, Frame
<1>5. ASSUME NEW c \in Connections, ReactorReads(c)
      PROVE  Stays
  BY <1>1, <1>5 DEF ReactorReads, Stays, Idle, Frame
<1>6. ASSUME NEW c \in Connections, ReactorRemoves(c)
      PROVE  Stays
  BY <1>1, <1>6 DEF ReactorRemoves, Goes, Stays
<1>7. CASE Destroy \/ UNCHANGED vars \/ \E c \in Connections : ConnectionFails(c)
  BY <1>1, <1>7 DEF Destroy, vars, links, ConnectionFails, Stays
<1> QED
  BY <1>2, <1>3, <1>4, <1>5, <1>6, <1>7

LEMMA StepsAre ==
    ASSUME IInv, Steps
    PROVE  \/ Stays
           \/ \E w \in Workers : \E c \in Connections : \E s \in Sessions : StartInsert(w, c, s)
           \/ \E w \in Callers : StartErases(w) \/ Release(w)
           \/ \E w \in Callers : \E c \in Connections : Takes(w, c)
BY MostStay DEF Steps

LEMMA InsertFrame ==
    ASSUME StateOK, NEW w \in Workers, NEW c \in Connections, NEW s \in Sessions,
           StartInsert(w, c, s)
    PROVE  /\ frame[w] = Idle /\ ~closing /\ table[c] = None
           /\ ~Registered(s) /\ \A v \in Callers : ~Holds(v, s)
           /\ frame' = [frame EXCEPT ![w] = Frame("run", s, FALSE)]
           /\ table' = [table EXCEPT ![c] = s]
           /\ ses' = [ses EXCEPT ![s] = NewSession(c)]
           /\ UNCHANGED <<connected, removed, wire, closing>>
BY DEF StartInsert, HasStream, Referenced, Holders, Holds, Becomes, links

LEMMA NamedStep ==
    ASSUME IInv, Steps
    PROVE  Named'
<1>1. /\ StateOK /\ Named /\ Dying /\ Passed
      /\ table \in [Connections -> Sessions \cup {None}]
      /\ ses \in [Sessions -> SessionOK] /\ frame \in [Callers -> FrameOK]
      /\ \A w \in Callers : frame[w].cur \in Sessions \cup {None}
                            /\ frame[w].later \in Sessions \cup {None}
  BY DEF IInv, StateOK, FrameOK, FrameType
<1>2. CASE Stays
  BY <1>1, <1>2, NoneIsNothing DEF Stays, Named, Holds
<1>3. ASSUME NEW w \in Workers, NEW c \in Connections, NEW s \in Sessions,
             StartInsert(w, c, s)
      PROVE  Named'
  <2>1. w \in Callers /\ NewSession(c).conn = c /\ c # None
    BY NoneIsNothing DEF Callers, NewSession
  <2>2. ~Registered(s) /\ \A v \in Callers : ~Holds(v, s)
    BY <1>3, InsertFrame DEF IInv
  <2>3. /\ frame' = [frame EXCEPT ![w] = Frame("run", s, FALSE)]
        /\ table' = [table EXCEPT ![c] = s]
        /\ ses' = [ses EXCEPT ![s] = NewSession(c)]
    BY <1>3 DEF StartInsert, Becomes
  <2>4. ASSUME NEW d \in Connections, table'[d] # None
        PROVE  ses'[table'[d]].conn = d
    BY <1>1, <2>1, <2>2, <2>3, <2>4 DEF Named, Registered
  <2>5. ASSUME NEW v \in Callers, NEW x \in Sessions, Holds(v, x)'
        PROVE  ses'[x].conn # None
    <3>1. CASE v = w
      BY <1>1, <2>1, <2>3, <2>5, <3>1, NoneIsNothing DEF Holds, Frame
    <3>2. CASE v # w
      BY <1>1, <2>2, <2>3, <2>5, <3>2 DEF Holds, Named
    <3> QED BY <3>1, <3>2
  <2> QED BY <2>4, <2>5 DEF Named
<1>4. ASSUME NEW w \in Callers, StartErases(w)
      PROVE  Named'
  <2> DEFINE s == frame[w].cur
             c == ses[s].conn
             f == [frame[w] EXCEPT !.at = "release"]
             d == [Frame("test", table[c], TRUE) EXCEPT !.later = s]
  <2>1. /\ s \in Sessions /\ c \in Connections /\ table' = [table EXCEPT ![c] = None]
        /\ ses' = ses /\ frame[w].later = None
        /\ \/ table[c] \in Sessions \ {s} /\ frame' = [frame EXCEPT ![w] = d]
           \/ frame' = [frame EXCEPT ![w] = f]
    BY <1>1, <1>4, ErasesFrame
  <2>2. /\ f.cur = s /\ f.later = frame[w].later
        /\ d.cur = table[c] /\ d.later = s
    BY <1>1 DEF Frame, FrameOK, FrameType
  <2> HIDE DEF f, d
  <2>3. c # None /\ (table[c] \in Sessions => ses[table[c]].conn # None)
    BY <1>1, <2>1, NoneIsNothing DEF Named
  <2>4. ASSUME NEW v \in Callers, NEW x \in Sessions, Holds(v, x)'
        PROVE  ses'[x].conn # None
    BY <1>1, <2>1, <2>2, <2>3, <2>4 DEF Holds, Named
  <2>5. ASSUME NEW e \in Connections, table'[e] # None
        PROVE  ses'[table'[e]].conn = e
    BY <1>1, <2>1, <2>5 DEF Named
  <2> QED BY <2>4, <2>5 DEF Named
<1>5. ASSUME NEW w \in Callers, Release(w)
      PROVE  Named'
  <2> DEFINE s == frame[w].cur
             l == frame[w].later
  <2>1. s \in Sessions /\ s # None /\ table' = table
    BY <1>1, <1>5, ReleasesFrame, NoneIsNothing
  <2>2. \A v \in Callers : \A x \in Sessions :
           Holds(v, x)' => Holds(v, x) /\ (v = w /\ frame[w].dying => x # s)
    BY <1>1, <1>5, ReleasesFrame, NoneIsNothing DEF Holds, Frame, Idle
  <2>3. \A x \in Sessions : ses'[x].conn = ses[x].conn \/ (x = s /\ frame[w].dying)
    BY <1>1, <1>5, ReleasesFrame
  <2> QED BY <1>1, <2>1, <2>2, <2>3 DEF Named, Dying, Registered
<1>6. ASSUME NEW w \in Callers, NEW c \in Connections, Takes(w, c)
      PROVE  Named'
  <2>1. /\ table[c] \in Sessions /\ table' = [table EXCEPT ![c] = None] /\ ses' = ses
        /\ frame' = [frame EXCEPT ![w] = Frame("test", table[c], FALSE)]
    BY <1>1, <1>6, TakesFrame
  <2>2. ASSUME NEW v \in Callers, NEW x \in Sessions, Holds(v, x)'
        PROVE  ses'[x].conn # None
    BY <1>1, <2>1, <2>2, NoneIsNothing DEF Holds, Frame, Named
  <2>3. ASSUME NEW e \in Connections, table'[e] # None
        PROVE  ses'[table'[e]].conn = e
    BY <1>1, <2>1, <2>3 DEF Named
  <2> QED BY <2>2, <2>3 DEF Named
<1> QED
  BY <1>2, <1>3, <1>4, <1>5, <1>6, StepsAre

LEMMA DyingStep ==
    ASSUME IInv, Steps
    PROVE  Dying'
<1>1. /\ StateOK /\ Named /\ Dying /\ Passed
      /\ table \in [Connections -> Sessions \cup {None}]
      /\ ses \in [Sessions -> SessionOK] /\ frame \in [Callers -> FrameOK]
      /\ \A w \in Callers : /\ frame[w].cur \in Sessions \cup {None}
                            /\ frame[w].later \in Sessions \cup {None}
                            /\ frame[w].dying => frame[w].cur # None
  BY DEF IInv, StateOK, FrameOK, FrameType, Stopping
<1>2. CASE Stays
  BY <1>1, <1>2 DEF Stays, Dying, Registered, Holds
<1>3. ASSUME NEW w \in Workers, NEW c \in Connections, NEW s \in Sessions,
             StartInsert(w, c, s)
      PROVE  Dying'
  <2>1. w \in Callers /\ ~Registered(s) /\ \A v \in Callers : ~Holds(v, s)
    BY <1>3, InsertFrame DEF IInv, Callers
  <2>2. /\ frame' = [frame EXCEPT ![w] = Frame("run", s, FALSE)]
        /\ table' = [table EXCEPT ![c] = s]
    BY <1>3 DEF StartInsert
  <2>3. /\ \A v \in Callers \ {w} : frame'[v] = frame[v]
        /\ frame'[w].cur = s /\ frame'[w].later = None /\ ~frame'[w].dying
    BY <1>1, <2>1, <2>2 DEF Frame
  <2>4. ASSUME NEW v \in Callers, frame'[v].dying
        PROVE  /\ ~Registered(frame[v].cur)'
               /\ \A u \in Callers \ {v} : ~Holds(u, frame[v].cur)'
    <3>1. v # w /\ frame[v].dying /\ frame[v].cur \in Sessions /\ frame[v].cur # s
          /\ frame[v].cur # None
      BY <1>1, <2>1, <2>3, <2>4 DEF Holds
    <3>2. ~Registered(frame[v].cur) /\ \A u \in Callers \ {v} : ~Holds(u, frame[v].cur)
      BY <1>1, <3>1 DEF Dying
    <3> QED BY <1>1, <2>2, <2>3, <3>1, <3>2 DEF Registered, Holds
  <2> QED BY <2>4 DEF Dying
<1>4. ASSUME NEW w \in Callers, StartErases(w)
      PROVE  Dying'
  <2> DEFINE s == frame[w].cur
             c == ses[s].conn
             f == [frame[w] EXCEPT !.at = "release"]
             d == [Frame("test", table[c], TRUE) EXCEPT !.later = s]
  <2>1. /\ s \in Sessions /\ c \in Connections /\ table' = [table EXCEPT ![c] = None]
        /\ ses' = ses /\ frame[w].later = None /\ ~frame[w].dying
        /\ \/ /\ table[c] \in Sessions \ {s} /\ frame' = [frame EXCEPT ![w] = d]
              /\ \A v \in Callers : ~Holds(v, table[c])
           \/ frame' = [frame EXCEPT ![w] = f]
    BY <1>1, <1>4, ErasesFrame
  <2>2. /\ f.cur = s /\ f.later = frame[w].later /\ f.dying = frame[w].dying
        /\ d.cur = table[c] /\ d.later = s
    BY <1>1 DEF Frame, FrameOK, FrameType
  <2> HIDE DEF f, d
  <2>3. \A x \in Sessions : Registered(x)' => Registered(x) /\ x # table[c]
    <3> SUFFICES ASSUME NEW x \in Sessions, NEW e \in Connections, table'[e] = x
                 PROVE  table[e] = x /\ x # table[c]
      BY DEF Registered
    <3>1. e # c /\ table[e] = x /\ x # None
      BY <1>1, <2>1, NoneIsNothing
    <3>2. ses[x].conn = e /\ (table[c] = x => ses[x].conn = c)
      BY <1>1, <2>1, <3>1 DEF Named
    <3> QED BY <3>1, <3>2
  <2>4. ASSUME NEW v \in Callers, v # w, frame'[v].dying
        PROVE  /\ ~Registered(frame[v].cur)'
               /\ \A u \in Callers \ {v} : ~Holds(u, frame[v].cur)'
    <3>1. frame'[v] = frame[v] /\ frame[v].cur \in Sessions
      BY <1>1, <2>1, <2>4 DEF Holds
    <3>2. ~Registered(frame[v].cur) /\ \A u \in Callers \ {v} : ~Holds(u, frame[v].cur)
      BY <1>1, <2>4, <3>1 DEF Dying
    <3>3. frame[v].cur # table[c]
      BY <2>1, <3>2 DEF Registered
    <3>4. ~Holds(w, frame[v].cur)'
      <4>1. frame[v].cur # s /\ frame[v].cur # None
        BY <2>1, <2>4, <3>1, <3>2, NoneIsNothing DEF Holds
      <4>2. frame'[w] = d \/ frame'[w] = f
        BY <1>1, <2>1
      <4> QED BY <2>1, <2>2, <3>1, <3>3, <4>1, <4>2 DEF Holds
    <3>5. frame'[v].cur = frame[v].cur /\ \A u \in Callers \ {w} : frame'[u] = frame[u]
      BY <1>1, <2>1, <3>1
    <3> QED BY <2>3, <3>1, <3>2, <3>4, <3>5 DEF Holds, Registered
  <2>5. ASSUME frame'[w].dying
        PROVE  /\ ~Registered(frame[w].cur)'
               /\ \A u \in Callers \ {w} : ~Holds(u, frame[w].cur)'
    <3>1. /\ frame' = [frame EXCEPT ![w] = d] /\ table[c] \in Sessions
          /\ \A v \in Callers : ~Holds(v, table[c])
      BY <1>1, <2>1, <2>2, <2>5
    <3>2. frame'[w].cur = table[c] /\ \A u \in Callers \ {w} : frame'[u] = frame[u]
      BY <1>1, <2>2, <3>1
    <3> QED BY <2>3, <3>1, <3>2 DEF Holds, Registered
  <2> QED BY <2>4, <2>5 DEF Dying
<1>5. ASSUME NEW w \in Callers, Release(w)
      PROVE  Dying'
  <2> DEFINE s == frame[w].cur
             l == frame[w].later
  <2>1. s \in Sessions /\ s # None /\ table' = table
    BY <1>1, <1>5, ReleasesFrame, NoneIsNothing
  <2>2. \A v \in Callers \ {w} : frame'[v] = frame[v]
    BY <1>1, <1>5, ReleasesFrame
  <2>3. /\ frame'[w].cur \in {s, l, None} /\ frame'[w].later = None
        /\ frame'[w].dying => Last(w) /\ frame'[w].cur = s
    BY <1>1, <1>5, ReleasesFrame DEF Frame, Idle
  <2>4. ASSUME NEW v \in Callers, v # w, frame'[v].dying
        PROVE  /\ ~Registered(frame[v].cur)'
               /\ \A u \in Callers \ {v} : ~Holds(u, frame[v].cur)'
    <3>1. ~Registered(frame[v].cur) /\ (\A u \in Callers \ {v} : ~Holds(u, frame[v].cur))
          /\ frame[v].cur # None
      BY <1>1, <2>2, <2>4 DEF Dying
    <3> QED BY <2>1, <2>2, <2>3, <2>4, <3>1 DEF Holds, Registered
  <2>5. ASSUME frame'[w].dying
        PROVE  /\ ~Registered(frame[w].cur)'
               /\ \A u \in Callers \ {w} : ~Holds(u, frame[w].cur)'
    <3>1. ~Registered(s) /\ \A u \in Callers \ {w} : ~Holds(u, s)
      BY <2>3, <2>5 DEF Last, Here, Holders, Holds
    <3> QED BY <2>1, <2>2, <2>3, <2>5, <3>1 DEF Holds, Registered
  <2> QED BY <2>4, <2>5 DEF Dying
<1>6. ASSUME NEW w \in Callers, NEW c \in Connections, Takes(w, c)
      PROVE  Dying'
  <2>1. /\ table[c] \in Sessions /\ table' = [table EXCEPT ![c] = None]
        /\ frame' = [frame EXCEPT ![w] = Frame("test", table[c], FALSE)]
    BY <1>1, <1>6, TakesFrame
  <2>2. /\ \A v \in Callers \ {w} : frame'[v] = frame[v]
        /\ frame'[w].cur = table[c] /\ frame'[w].later = None /\ ~frame'[w].dying
    BY <1>1, <2>1 DEF Frame
  <2>3. ASSUME NEW v \in Callers, frame'[v].dying
        PROVE  /\ ~Registered(frame[v].cur)'
               /\ \A u \in Callers \ {v} : ~Holds(u, frame[v].cur)'
    <3>1. /\ v # w /\ ~Registered(frame[v].cur) /\ frame[v].cur # None
          /\ \A u \in Callers \ {v} : ~Holds(u, frame[v].cur)
      BY <1>1, <2>2, <2>3 DEF Dying
    <3>2. frame[v].cur # table[c] /\ frame'[v] = frame[v]
      BY <1>6, <2>2, <3>1 DEF Registered
    <3>3. ~Registered(frame[v].cur)'
      BY <1>1, <2>1, <3>1, <3>2 DEF Registered
    <3> QED BY <2>2, <3>1, <3>2, <3>3 DEF Holds
  <2> QED BY <2>3 DEF Dying
<1> QED
  BY <1>2, <1>3, <1>4, <1>5, <1>6, StepsAre

LEMMA PassedStep ==
    ASSUME IInv, Steps
    PROVE  Passed'
<1>1. /\ StateOK /\ Named /\ Dying /\ Passed
      /\ ses \in [Sessions -> SessionOK] /\ frame \in [Callers -> FrameOK]
      /\ \A w \in Callers : /\ frame[w].cur \in Sessions \cup {None}
                            /\ frame[w].dying => frame[w].cur \in Sessions
  BY DEF IInv, StateOK, FrameOK, FrameType, Stopping
(* A caller whose frame stays, and whose session keeps its handles.        *)
<1> DEFINE Same(v) ==
             /\ frame'[v] = frame[v]
             /\ frame[v].dying =>
                   /\ ses'[frame[v].cur].readerHandle = ses[frame[v].cur].readerHandle
                   /\ ses'[frame[v].cur].senderHandle = ses[frame[v].cur].senderHandle
           Joins(v) ==
             frame'[v].dying =>
                /\ frame'[v].at \in {"joinSender", "release"}
                      => ses'[frame'[v].cur].readerHandle # "joinable"
                /\ frame'[v].at = "release" => ses'[frame'[v].cur].senderHandle # "joinable"
<1>2. \A v \in Callers : Same(v) => Joins(v)
  BY <1>1 DEF Passed
<1>3. ASSUME \A v \in Callers : Same(v) \/ Joins(v)
      PROVE  Passed'
  BY <1>2, <1>3 DEF Passed
<1>4. \A v, w \in Callers : frame[v].dying /\ v # w => ~Holds(w, frame[v].cur)
  BY <1>1 DEF Dying
<1>5. ASSUME NEW w \in Callers, NEW g \in FrameOK, NEW r \in SessionOK, Walks(w, g, r)
      PROVE  Passed'
  <2>1. frame[w].cur \in Sessions
    BY <1>1, <1>5 DEF Walks, FrameOK, FrameType, Starting, Stopping
  <2>2. ASSUME NEW v \in Callers, v # w
        PROVE  Same(v)
    BY <1>1, <1>4, <1>5, <2>1, <2>2 DEF Walks, Holds
  <2>3. Joins(w)
    BY <1>1, <1>5, <2>1 DEF Walks
  <2> QED BY <1>3, <2>2, <2>3
<1>6. ASSUME NEW s \in Sessions, NEW r \in SessionOK, Works(s, r)
      PROVE  Passed'
  <2>1. \A v \in Callers : Same(v)
    BY <1>1, <1>6 DEF Works
  <2> QED BY <1>3, <2>1
<1>7. ASSUME NEW w \in Workers, NEW c \in Connections, NEW s \in Sessions,
             StartInsert(w, c, s)
      PROVE  Passed'
  <2>1. w \in Callers /\ \A v \in Callers : ~Holds(v, s)
    BY <1>7, InsertFrame DEF IInv, Callers
  <2>2. /\ frame' = [frame EXCEPT ![w] = Frame("run", s, FALSE)]
        /\ ses' = [ses EXCEPT ![s] = NewSession(c)]
    BY <1>7 DEF StartInsert, Becomes
  <2>3. ASSUME NEW v \in Callers, v # w
        PROVE  Same(v)
    BY <1>1, <2>1, <2>2, <2>3 DEF Holds
  <2>4. Joins(w)
    BY <1>1, <2>1, <2>2 DEF Frame
  <2> QED BY <1>3, <2>3, <2>4
<1>8. ASSUME NEW w \in Callers, StartErases(w)
      PROVE  Passed'
  <2> DEFINE s == frame[w].cur
             c == ses[s].conn
             f == [frame[w] EXCEPT !.at = "release"]
             d == [Frame("test", table[c], TRUE) EXCEPT !.later = s]
  <2>1. /\ ses' = ses /\ ~frame[w].dying
        /\ frame' = [frame EXCEPT ![w] = d] \/ frame' = [frame EXCEPT ![w] = f]
    BY <1>1, <1>8, ErasesFrame
  <2>2. f.dying = frame[w].dying /\ d.at = "test"
    BY <1>1 DEF Frame, FrameOK, FrameType
  <2> HIDE DEF f, d
  <2>3. Joins(w) /\ \A v \in Callers \ {w} : Same(v)
    BY <1>1, <2>1, <2>2
  <2> QED BY <1>3, <2>3
<1>9. ASSUME NEW w \in Callers, Release(w)
      PROVE  Passed'
  <2> DEFINE s == frame[w].cur
             l == frame[w].later
  <2>1. s \in Sessions
    BY <1>1, <1>9, ReleasesFrame
  <2>2. ASSUME NEW v \in Callers, v # w
        PROVE  Same(v)
    <3>1. frame'[v] = frame[v] /\ (ses' = ses \/ ses' = [ses EXCEPT ![s] = NewSession(None)])
      BY <1>1, <1>9, <2>2, ReleasesFrame
    <3> QED BY <1>1, <1>4, <2>1, <2>2, <3>1 DEF Holds
  <2>3. frame'[w].dying => frame'[w].at = "test"
    BY <1>1, <1>9, ReleasesFrame DEF Frame, Idle
  <2>4. Joins(w)
    BY <2>3
  <2> QED BY <1>3, <2>2, <2>4
<1>10. ASSUME NEW w \in Callers, NEW c \in Connections, Takes(w, c)
       PROVE  Passed'
  <2>1. frame' = [frame EXCEPT ![w] = Frame("test", table[c], FALSE)] /\ ses' = ses
    BY <1>1, <1>10, TakesFrame
  <2>2. Joins(w) /\ \A v \in Callers \ {w} : Same(v)
    BY <1>1, <2>1 DEF Frame
  <2> QED BY <1>3, <2>2
<1>11. ASSUME NEW c \in Connections, FindsNone(c) \/ ReactorReads(c) \/ ReactorRemoves(c)
       PROVE  Passed'
  <2>1. frame[Reactor].at \in {"idle", "remove", "closed"} /\ Reactor \in Callers
    BY <1>11 DEF FindsNone, ReactorReads, ReactorRemoves, Idle, Frame, Callers
  <2>2. frame[Reactor].dying = FALSE
    BY <1>1, <2>1 DEF FrameOK, FrameType, Stopping
  <2>3. /\ ses' = ses /\ frame'[Reactor].dying = FALSE
        /\ \A v \in Callers \ {Reactor} : frame'[v] = frame[v]
    <3>1. CASE FindsNone(c)
      BY <1>1, <2>1, <3>1 DEF FindsNone, Idle, Frame
    <3>2. CASE ReactorReads(c)
      BY <1>1, <2>1, <3>2 DEF ReactorReads, Idle, Frame
    <3>3. CASE ReactorRemoves(c)
      BY <1>1, <2>1, <2>2, <3>3 DEF ReactorRemoves, Goes, FrameOK, FrameType
    <3> QED BY <1>11, <3>1, <3>2, <3>3
  <2>4. Joins(Reactor) /\ \A v \in Callers \ {Reactor} : Same(v)
    BY <2>3
  <2> QED BY <1>3, <2>4
<1>12. CASE Destroy \/ UNCHANGED vars \/ \E c \in Connections : ConnectionFails(c)
  <2>1. frame' = frame /\ ses' = ses
    BY <1>12 DEF Destroy, vars, links, ConnectionFails
  <2> QED BY <1>3, <2>1
<1> QED
  BY <1>5, <1>6, <1>7, <1>8, <1>9, <1>10, <1>11, <1>12 DEF Steps

LEMMA LeavingStep ==
    ASSUME IInv, Steps
    PROVE  Leaving'
<1>1. /\ StateOK /\ Roles /\ Named /\ Passed
      /\ table \in [Connections -> Sessions \cup {None}]
      /\ removed \in [Connections -> BOOLEAN] /\ connected \in [Connections -> BOOLEAN]
      /\ ses \in [Sessions -> SessionOK] /\ frame \in [Callers -> FrameOK]
      /\ Reactor \in Callers
      /\ \A w \in Callers : frame[w].at \in {"remove", "closed"} => w = Reactor
  BY DEF IInv, StateOK, Roles, Callers
<1>2. /\ \A c \in Connections : removed[c] => ~connected[c]
      /\ frame[Reactor].at = "closed" => removed[frame[Reactor].on]
  BY DEF IInv, Leaving
<1> DEFINE Goodbye(c) ==
             \/ frame[Reactor].at = "closed" /\ frame[Reactor].on = c
             \/ \E w \in Callers : frame[w].cur = table[c] /\ frame[w].at \in Undelivered
<1>3. \A c \in Connections : removed[c] /\ table[c] # None => Goodbye(c)
  BY DEF IInv, Leaving
<1> HIDE DEF Goodbye
<1>4. \A w \in Callers : frame[w].at \in {"idle", "remove", "closed"} => frame[w].cur = None
  BY <1>1 DEF FrameOK, FrameType
(* Caller w, who is not about to fail with a stream that is left, moves on. *)
<1> DEFINE Moved(w, c) ==
             /\ \A v \in Callers \ {w} : frame'[v] = frame[v]
             /\ ~(frame[w].at = "closed" /\ frame[w].on = c)
             /\ ~(frame[w].cur = table[c] /\ frame[w].at \in Undelivered)
<1>5. ASSUME NEW w \in Callers, NEW c \in Connections, Moved(w, c), table'[c] = table[c],
             Goodbye(c)
      PROVE  Goodbye(c)'
  <2>1. CASE frame[Reactor].at = "closed" /\ frame[Reactor].on = c
    BY <1>1, <1>5, <2>1 DEF Goodbye
  <2>2. CASE \E v \in Callers : frame[v].cur = table[c] /\ frame[v].at \in Undelivered
    BY <1>1, <1>5, <2>2 DEF Goodbye
  <2> QED BY <1>5, <2>1, <2>2 DEF Goodbye
<1> DEFINE Unlinked ==
             /\ UNCHANGED <<connected, removed>>
             /\ frame'[Reactor].at = "closed" => frame'[Reactor] = frame[Reactor]
<1>6. ASSUME Unlinked,
             \A c \in Connections : removed[c] /\ table'[c] # None => Goodbye(c)'
      PROVE  Leaving'
  BY <1>2, <1>6 DEF Leaving, Goodbye
<1>7. ASSUME NEW w \in Callers, NEW g \in FrameOK, NEW r \in SessionOK, Walks(w, g, r)
      PROVE  Leaving'
  <2>1. /\ frame[w].cur \in Sessions /\ frame[w].at \notin {"idle", "remove", "closed"}
        /\ ses[frame[w].cur].conn \in Connections
    BY <1>1, <1>7, NoneIsNothing
       DEF Walks, FrameOK, FrameType, Starting, Stopping, Named, Holds, SessionOK, SessionType
  <2>2. Unlinked /\ table' = table
    BY <1>1, <1>7 DEF Walks
  <2>3. ASSUME NEW c \in Connections, removed[c], table[c] # None
        PROVE  Goodbye(c)'
    <3>1. CASE frame[w].cur = table[c] /\ frame[w].at \in Undelivered
      <4>1. ses[frame[w].cur].conn = c /\ ~connected[c]
        BY <1>1, <1>2, <2>3, <3>1 DEF Named
      <4>2. frame'[w].cur = table'[c] /\ frame'[w].at \in Undelivered
        BY <1>1, <1>7, <2>2, <3>1, <4>1 DEF Walks
      <4> QED BY <4>2 DEF Goodbye
    <3>2. CASE ~(frame[w].cur = table[c] /\ frame[w].at \in Undelivered)
      <4>1. Moved(w, c)
        BY <1>1, <1>7, <2>1, <3>2 DEF Walks
      <4> QED BY <1>3, <1>5, <2>2, <2>3, <4>1
    <3> QED BY <3>1, <3>2
  <2> QED BY <1>6, <2>2, <2>3
<1>8. CASE \/ \E s \in Sessions : \E r \in SessionOK : Works(s, r)
           \/ Destroy \/ UNCHANGED vars
  <2>1. UNCHANGED <<connected, removed, table, frame>>
    BY <1>8 DEF Works, Destroy, vars, links
  <2> QED BY <1>2, <1>3, <2>1 DEF Leaving, Goodbye
<1>9. ASSUME NEW c \in Connections, ConnectionFails(c)
      PROVE  Leaving'
  <2>1. UNCHANGED <<removed, table, frame>> /\ connected' = [connected EXCEPT ![c] = FALSE]
    BY <1>9 DEF ConnectionFails
  <2> QED BY <1>1, <1>2, <1>3, <2>1 DEF Leaving, Goodbye
<1>10. ASSUME NEW w \in Workers, NEW c \in Connections, NEW s \in Sessions,
              StartInsert(w, c, s)
       PROVE  Leaving'
  <2>1. w \in Callers /\ w # Reactor /\ frame[w] = Idle /\ Idle.at = "idle"
    BY <1>10, InsertFrame, ReactorIsNoWorker DEF IInv, Callers, Idle, Frame
  <2>2. /\ frame' = [frame EXCEPT ![w] = Frame("run", s, FALSE)]
        /\ table' = [table EXCEPT ![c] = s]
        /\ UNCHANGED <<connected, removed>>
    BY <1>10 DEF StartInsert, links
  <2>3. Unlinked
    BY <1>1, <2>1, <2>2
  <2>4. ASSUME NEW e \in Connections, removed[e], table'[e] # None
        PROVE  Goodbye(e)'
    <3>1. CASE e = c
      <4>1. frame'[w].cur = table'[e] /\ frame'[w].at \in Undelivered
        BY <1>1, <2>1, <2>2, <3>1 DEF Frame, Undelivered, Starting
      <4> QED BY <2>1, <4>1 DEF Goodbye
    <3>2. CASE e # c
      <4>1. table'[e] = table[e]
        BY <1>1, <2>2, <3>2
      <4>2. Moved(w, e)
        BY <1>1, <2>1, <2>2 DEF Undelivered, Starting
      <4> QED BY <1>3, <1>5, <2>1, <2>4, <4>1, <4>2
    <3> QED BY <3>1, <3>2
  <2> QED BY <1>6, <2>3, <2>4
<1>11. ASSUME NEW w \in Callers, StartErases(w)
       PROVE  Leaving'
  <2> DEFINE s == frame[w].cur
             c == ses[s].conn
             f == [frame[w] EXCEPT !.at = "release"]
             d == [Frame("test", table[c], TRUE) EXCEPT !.later = s]
  <2>1. /\ s \in Sessions /\ c \in Connections /\ table' = [table EXCEPT ![c] = None]
        /\ frame[w].at = "erase" /\ UNCHANGED <<connected, removed>>
        /\ frame' = [frame EXCEPT ![w] = d] \/ frame' = [frame EXCEPT ![w] = f]
    BY <1>1, <1>11, ErasesFrame
  <2>2. f.at = "release" /\ d.at = "test"
    BY <1>1 DEF Frame, FrameOK, FrameType
  <2> HIDE DEF f, d
  <2>3. Unlinked /\ \A v \in Callers \ {w} : frame'[v] = frame[v]
    BY <1>1, <2>1, <2>2
  <2>4. ASSUME NEW e \in Connections, removed[e], table'[e] # None
        PROVE  Goodbye(e)'
    <3>1. e # c /\ table'[e] = table[e]
      BY <1>1, <2>1, <2>4
    <3>2. s # table[e]
      BY <1>1, <2>1, <2>4, <3>1 DEF Named
    <3>3. Moved(w, e)
      BY <2>1, <2>3, <3>2
    <3> QED BY <1>3, <1>5, <2>4, <3>1, <3>3
  <2> QED BY <1>6, <2>3, <2>4
<1>12. ASSUME NEW w \in Callers, Release(w)
       PROVE  Leaving'
  <2> DEFINE s == frame[w].cur
             l == frame[w].later
  <2>1. /\ frame[w].at = "release" /\ UNCHANGED <<connected, removed, table>>
        /\ \/ frame' = [frame EXCEPT ![w] = Frame("release", l, FALSE)]
           \/ frame' = [frame EXCEPT ![w] = Idle]
           \/ frame' = [frame EXCEPT ![w] = Frame("test", s, TRUE)]
    BY <1>1, <1>12, ReleasesFrame
  <2>2. Unlinked /\ \A v \in Callers \ {w} : frame'[v] = frame[v]
    BY <1>1, <2>1 DEF Frame, Idle
  <2>3. \A c \in Connections : Moved(w, c)
    BY <2>1, <2>2 DEF Undelivered, Starting
  <2> QED BY <1>3, <1>5, <1>6, <2>1, <2>2, <2>3
<1>13. ASSUME NEW w \in Callers, NEW c \in Connections, Takes(w, c)
       PROVE  Leaving'
  <2>1. /\ frame' = [frame EXCEPT ![w] = Frame("test", table[c], FALSE)]
        /\ table' = [table EXCEPT ![c] = None]
        /\ UNCHANGED <<connected, removed>> /\ frame[w].at \in {"idle", "closed"}
    BY <1>1, <1>13, TakesFrame
  <2>2. frame[w].at = "closed" => frame[w].on = c
    BY <1>13 DEF Takes, Idle, Frame
  <2>3. Unlinked
    BY <1>1, <2>1 DEF Frame
  <2>4. ASSUME NEW e \in Connections, removed[e], table'[e] # None
        PROVE  Goodbye(e)'
    <3>1. e # c /\ table'[e] = table[e]
      BY <1>1, <2>1, <2>4
    <3>2. Moved(w, e)
      BY <1>1, <2>1, <2>2, <3>1 DEF Undelivered, Starting
    <3> QED BY <1>3, <1>5, <2>4, <3>1, <3>2
  <2> QED BY <1>6, <2>3, <2>4
<1>14. ASSUME NEW c \in Connections, FindsNone(c)
       PROVE  Leaving'
  <2>1. Unlinked /\ table' = table /\ \A v \in Callers \ {Reactor} : frame'[v] = frame[v]
    BY <1>1, <1>14 DEF FindsNone, Idle, Frame
  <2>2. \A e \in Connections : table[e] # None => Moved(Reactor, e)
    BY <1>14, <2>1 DEF FindsNone, Undelivered, Starting
  <2> QED BY <1>1, <1>3, <1>5, <1>6, <2>1, <2>2
<1>15. ASSUME NEW c \in Connections, ReactorReads(c)
       PROVE  Leaving'
  <2>1. frame' = [frame EXCEPT ![Reactor] = [Idle EXCEPT !.at = "remove", !.on = c]]
    BY <1>15 DEF ReactorReads
  <2>2. /\ Unlinked /\ table' = table /\ frame[Reactor].at = "idle"
        /\ \A v \in Callers \ {Reactor} : frame'[v] = frame[v]
    BY <1>1, <1>15, <2>1 DEF ReactorReads, links, Idle, Frame
  <2>3. \A e \in Connections : Moved(Reactor, e)
    BY <2>2 DEF Undelivered, Starting
  <2> QED BY <1>1, <1>3, <1>5, <1>6, <2>2, <2>3
<1>16. ASSUME NEW c \in Connections, ReactorRemoves(c)
       PROVE  Leaving'
  <2>1. /\ frame[Reactor].at = "remove" /\ frame[Reactor].on = c /\ table' = table
        /\ removed' = [removed EXCEPT ![c] = TRUE]
        /\ connected' = [connected EXCEPT ![c] = FALSE]
    BY <1>16 DEF ReactorRemoves
  <2>2. /\ frame'[Reactor].at = "closed" /\ frame'[Reactor].on = c
        /\ \A v \in Callers \ {Reactor} : frame'[v] = frame[v]
    BY <1>1, <1>16 DEF ReactorRemoves, Goes, FrameOK, FrameType
  <2>3. \A e \in Connections : Moved(Reactor, e)
    BY <2>1, <2>2 DEF Undelivered, Starting
  <2>4. ASSUME NEW e \in Connections, removed'[e], table'[e] # None
        PROVE  Goodbye(e)'
    <3>1. CASE e = c
      BY <2>2, <3>1 DEF Goodbye
    <3>2. CASE e # c
      BY <1>1, <1>3, <1>5, <2>1, <2>3, <2>4, <3>2
    <3> QED BY <3>1, <3>2
  <2> QED BY <1>1, <1>2, <2>1, <2>2, <2>4 DEF Leaving, Goodbye
<1> QED
  BY <1>7, <1>8, <1>9, <1>10, <1>11, <1>12, <1>13, <1>14, <1>15, <1>16 DEF Steps

-----------------------------------------------------------------------------
(* The invariant holds initially and in every step.                        *)
LEMMA Start ==
    ASSUME Init
    PROVE  IInv
<1>1. NewSession(None) \in SessionOK /\ Idle \in FrameOK /\ Idle.at = "idle"
      /\ Idle.cur = None /\ Idle.later = None /\ Idle.dying = FALSE
  BY NewSessions, NoneIsNothing DEF Frame, Idle, FrameOK, FrameType, Points, Stopping
<1>2. StateOK
  BY <1>1 DEF Init, StateOK
<1>3. \A w \in Callers : frame[w] = Idle
  BY DEF Init
<1>4. Roles /\ Dying /\ Passed
  BY <1>1, <1>3 DEF Roles, Dying, Passed, Starting
<1>5. Named
  BY <1>1, <1>3, NoneIsNothing DEF Init, Named, Holds
<1>6. Leaving
  BY <1>1, <1>3 DEF Init, Leaving, Callers
<1> QED
  BY <1>2, <1>4, <1>5, <1>6 DEF IInv

LEMMA Step ==
    ASSUME IInv, [Next]_vars
    PROVE  IInv'
<1>1. Steps
  BY NextSteps DEF IInv
<1> QED
  BY <1>1, StateStep, RolesStep, NamedStep, DyingStep, PassedStep, LeavingStep DEF IInv

LEMMA Invariant == SafeSpec => []IInv
<1>1. IInv /\ [Next]_vars => IInv'
  BY Step
<1> QED
  BY Start, <1>1, PTL DEF SafeSpec

(* Sessions, frames and connections hold what each point of a function     *)
(* needs: who executes something has the session it executes it on, and    *)
(* that session has a connection.                                          *)
THEOREM TypeCorrect == SafeSpec => []TypeOK
<1>1. IInv => TypeOK
  <2> SUFFICES ASSUME IInv PROVE TypeOK
    OBVIOUS
  <2>1. StateOK /\ Named
    BY DEF IInv
  <2>2. ses \in [Sessions -> SessionType] /\ frame \in [Callers -> FrameType]
    BY <2>1 DEF StateOK, SessionOK, FrameOK
  <2>3. \A w \in Callers : frame[w].cur = None <=> frame[w].at \in {"idle", "remove", "closed"}
    BY <2>1 DEF StateOK, FrameOK
  <2>4. ASSUME NEW w \in Callers, NEW s \in {frame[w].cur, frame[w].later} \ {None}
        PROVE  ses[s].conn \in Connections
    <3>1. s \in Sessions /\ Holds(w, s)
      BY <2>2 DEF FrameType, Holds
    <3>2. ses[s].conn # None
      BY <2>1, <3>1 DEF Named
    <3> QED BY <2>2, <3>1, <3>2 DEF SessionType
  <2> QED BY <2>1, <2>2, <2>3, <2>4 DEF TypeOK, StateOK
<1> QED
  BY <1>1, Invariant, PTL

(* Whoever drops the last reference to a session, its threads have ended   *)
(* and its handles are joined or were never used (~MediaStreamSession).    *)
THEOREM SessionsEndJoined == SafeSpec => []NoThreadOutlivesSession
<1>1. IInv => NoThreadOutlivesSession
  <2> SUFFICES ASSUME IInv, NEW w \in Callers, frame[w].at = "release", frame[w].dying
               PROVE  /\ ~Alive(Here(w))
                      /\ ses[Here(w)].readerHandle # "joinable"
                      /\ ses[Here(w)].senderHandle # "joinable"
    BY DEF NoThreadOutlivesSession
  <2>1. ses[Here(w)].readerHandle # "joinable" /\ ses[Here(w)].senderHandle # "joinable"
    BY DEF IInv, Passed, Here
  <2>2. ses[Here(w)] \in SessionOK
    BY DEF IInv, StateOK, Here, FrameOK, FrameType
  <2> QED BY <2>1, <2>2 DEF Alive, SessionOK, SessionType
<1> QED
  BY <1>1, Invariant, PTL

(* A connection that is removed, with nothing being executed for it, has   *)
(* no stream, in whatever order GetStream, StopStream and                  *)
(* connection_closed() are executed.                                       *)
THEOREM ClosedConnectionsAreClean == SafeSpec => []ClosedConnectionHasNoStream
<1>1. IInv => ClosedConnectionHasNoStream
  <2> SUFFICES ASSUME IInv, NEW c \in Connections, removed[c], frame[Reactor].on # c,
                      \A w \in Callers : frame[w].cur # None => ses[frame[w].cur].conn # c,
                      table[c] # None
               PROVE  FALSE
    BY DEF ClosedConnectionHasNoStream
  <2>1. PICK w \in Callers : frame[w].cur = table[c]
    BY DEF IInv, Leaving
  <2> QED BY <2>1 DEF IInv, Named
<1> QED
  BY <1>1, Invariant, PTL

-----------------------------------------------------------------------------
(* A session whose threads run is in the table or held by a caller.        *)
LEMMA AttendedStep ==
    ASSUME IInv, NoOrphanStream, Steps
    PROVE  NoOrphanStream'
<1>1. /\ StateOK /\ Named /\ Dying /\ Passed
      /\ table \in [Connections -> Sessions \cup {None}]
      /\ ses \in [Sessions -> SessionOK] /\ frame \in [Callers -> FrameOK]
  BY DEF IInv, StateOK
<1>2. SUFFICES ASSUME NEW s \in Sessions, Alive(s)'
               PROVE  Registered(s)' \/ \E w \in Callers : Holds(w, s)'
  BY DEF NoOrphanStream, Holders, Holds
<1>3. Alive(s) => Registered(s) \/ \E w \in Callers : Holds(w, s)
  BY DEF NoOrphanStream, Holders, Holds
<1>4. ASSUME NEW w \in Callers, NEW g \in FrameOK, NEW r \in SessionOK, Walks(w, g, r)
      PROVE  Registered(s)' \/ \E v \in Callers : Holds(v, s)'
  <2>1. Stays
    BY <1>4, MostStay
  <2>2. Alive(s) \/ s = frame[w].cur
    BY <1>1, <1>2, <1>4 DEF Walks, Alive
  <2>3. Registered(s) \/ \E v \in Callers : Holds(v, s)
    BY <1>3, <2>2 DEF Holds
  <2> QED BY <2>1, <2>3 DEF Stays, Registered, Holds
<1>5. ASSUME NEW t \in Sessions, NEW r \in SessionOK, Works(t, r)
      PROVE  Registered(s)' \/ \E v \in Callers : Holds(v, s)'
  <2>1. Stays
    BY <1>5, MostStay
  <2>2. Alive(s)
    BY <1>1, <1>2, <1>5 DEF Works, Alive
  <2> QED BY <1>3, <2>1, <2>2 DEF Stays, Registered, Holds
<1>6. ASSUME NEW w \in Workers, NEW c \in Connections, NEW t \in Sessions, StartInsert(w, c, t)
      PROVE  Registered(s)' \/ \E v \in Callers : Holds(v, s)'
  <2>1. /\ w \in Callers /\ frame[w] = Idle /\ table[c] = None
        /\ frame' = [frame EXCEPT ![w] = Frame("run", t, FALSE)]
        /\ table' = [table EXCEPT ![c] = t]
        /\ ses' = [ses EXCEPT ![t] = NewSession(c)]
    <3>1. w \in Callers
      BY DEF Callers
    <3> QED BY <1>6, <3>1 DEF StartInsert, HasStream, Becomes
  <2>2. Idle.cur = None /\ Idle.later = None
    BY DEF Idle, Frame
  <2>3. CASE s = t
    BY <1>1, <2>1, <2>3 DEF Registered
  <2>4. CASE s # t
    <3>1. Registered(s) \/ \E v \in Callers : Holds(v, s)
      BY <1>1, <1>2, <1>3, <2>1, <2>4 DEF Alive
    <3>2. Registered(s) => Registered(s)'
      BY <1>1, <2>1, NoneIsNothing DEF Registered
    <3>3. \A v \in Callers : Holds(v, s) => Holds(v, s)'
      BY <1>1, <2>1, <2>2, NoneIsNothing DEF Holds
    <3> QED BY <3>1, <3>2, <3>3
  <2> QED BY <2>3, <2>4
<1>7. ASSUME NEW w \in Callers, StartErases(w)
      PROVE  Registered(s)' \/ \E v \in Callers : Holds(v, s)'
  <2> DEFINE t == frame[w].cur
             c == ses[t].conn
             f == [frame[w] EXCEPT !.at = "release"]
             d == [Frame("test", table[c], TRUE) EXCEPT !.later = t]
  <2>1. /\ t \in Sessions /\ c \in Connections /\ frame[w].later = None
        /\ table' = [table EXCEPT ![c] = None] /\ ses' = ses
    BY <1>1, <1>7, ErasesFrame
  <2>2. /\ f.cur = t /\ f.later = None
        /\ d.cur = table[c] /\ d.later = t
    BY <1>1, <2>1 DEF Frame, FrameOK, FrameType
  <2>3. \/ frame' = [frame EXCEPT ![w] = d]
        \/ /\ frame' = [frame EXCEPT ![w] = f]
           /\ table[c] = None \/ \E v \in Callers : Holds(v, table[c])
    BY <1>1, <1>7 DEF StartErases, Here, Goes, Holders, Holds
  <2> HIDE DEF f, d
  <2>4. \A v \in Callers : Holds(v, s) => Holds(v, s)'
    BY <1>1, <2>1, <2>2, <2>3, NoneIsNothing DEF Holds
  <2>5. CASE \E v \in Callers : Holds(v, s)
    BY <2>4, <2>5
  <2>6. CASE ~\E v \in Callers : Holds(v, s)
    <3>1. Registered(s)
      BY <1>2, <1>3, <2>1, <2>6 DEF Alive
    <3>2. CASE table[c] = s
      <4>1. frame' = [frame EXCEPT ![w] = d]
        BY <2>3, <2>6, <3>2, NoneIsNothing
      <4> QED BY <1>1, <2>2, <3>2, <4>1 DEF Holds
    <3>3. CASE table[c] # s
      BY <1>1, <2>1, <3>1, <3>3 DEF Registered
    <3> QED BY <3>2, <3>3
  <2> QED BY <2>5, <2>6
<1>8. ASSUME NEW w \in Callers, Release(w)
      PROVE  Registered(s)' \/ \E v \in Callers : Holds(v, s)'
  <2> DEFINE t == frame[w].cur
             l == frame[w].later
  <2>1. t \in Sessions /\ table' = table /\ \A v \in Callers \ {w} : frame'[v] = frame[v]
    BY <1>1, <1>8, ReleasesFrame
  <2>2. NewSession(None).reader = "none" /\ NewSession(None).sender = "none"
    BY DEF NewSession
  <2>3. CASE frame[w].dying
    <3>1. /\ ses' = [ses EXCEPT ![t] = NewSession(None)]
          /\ \/ frame' = [frame EXCEPT ![w] = Frame("release", l, FALSE)]
             \/ l = None /\ frame' = [frame EXCEPT ![w] = Idle]
      BY <1>1, <1>8, <2>3, ReleasesFrame
    <3>2. s # t /\ Alive(s)
      BY <1>1, <1>2, <2>1, <2>2, <3>1 DEF Alive
    <3>3. Holds(w, s) => s = l /\ l # None
      BY <3>2, NoneIsNothing DEF Holds
    <3>4. Holds(w, s) => Holds(w, s)'
      BY <1>1, <3>1, <3>3 DEF Holds, Frame
    <3> QED BY <1>3, <2>1, <3>2, <3>4 DEF Holds, Registered
  <2>4. CASE ~frame[w].dying
    <3>1. /\ l = None /\ ses' = ses
          /\ \/ Last(w) /\ frame' = [frame EXCEPT ![w] = Frame("test", t, TRUE)]
             \/ ~Last(w) /\ frame' = [frame EXCEPT ![w] = Idle]
      BY <1>1, <1>8, <2>4, ReleasesFrame DEF Release, Here
    <3>2. Alive(s)
      BY <1>2, <3>1 DEF Alive
    <3>3. CASE Last(w) /\ frame' = [frame EXCEPT ![w] = Frame("test", t, TRUE)]
      <4>1. Holds(w, s) => Holds(w, s)'
        BY <1>1, <3>1, <3>3, NoneIsNothing DEF Holds, Frame
      <4> QED BY <1>3, <2>1, <3>2, <4>1 DEF Holds, Registered
    <3>4. CASE ~Last(w)
      <4>1. Registered(t) \/ \E v \in Callers \ {w} : Holds(v, t)
        <5>1. w \in Holders(t)
          BY DEF Holders
        <5> QED BY <3>4, <5>1 DEF Last, Here, Holders, Holds
      <4>2. Holds(w, s) => s = t
        BY <3>1, NoneIsNothing DEF Holds
      <4> QED BY <1>3, <2>1, <3>2, <4>1, <4>2 DEF Holds, Registered
    <3> QED BY <3>1, <3>3, <3>4
  <2> QED BY <2>3, <2>4
<1>9. ASSUME NEW w \in Callers, NEW c \in Connections, Takes(w, c)
      PROVE  Registered(s)' \/ \E v \in Callers : Holds(v, s)'
  <2>1. /\ table[c] \in Sessions /\ frame[w].cur = None /\ frame[w].later = None
        /\ frame' = [frame EXCEPT ![w] = Frame("test", table[c], FALSE)]
        /\ table' = [table EXCEPT ![c] = None] /\ ses' = ses
    BY <1>1, <1>9, TakesFrame
  <2>2. Registered(s) \/ \E v \in Callers : Holds(v, s)
    BY <1>2, <1>3, <2>1 DEF Alive
  <2>3. \A v \in Callers : Holds(v, s) => Holds(v, s)'
    BY <1>1, <2>1, NoneIsNothing DEF Holds
  <2>4. CASE table[c] = s
    <3>1. Holds(w, s)'
      BY <1>1, <2>1, <2>4 DEF Holds, Frame
    <3> QED BY <3>1
  <2>5. CASE table[c] # s
    BY <1>1, <2>1, <2>2, <2>3, <2>5 DEF Registered
  <2> QED BY <2>4, <2>5
<1>10. ASSUME Stays, ses' = ses
       PROVE  Registered(s)' \/ \E v \in Callers : Holds(v, s)'
  <2>1. Alive(s)
    BY <1>2, <1>10 DEF Alive
  <2> QED BY <1>3, <1>10, <2>1 DEF Stays, Registered, Holds
<1>11. ASSUME \/ \E c \in Connections : FindsNone(c) \/ ReactorReads(c) \/ ReactorRemoves(c)
              \/ \E c \in Connections : ConnectionFails(c)
              \/ Destroy \/ UNCHANGED vars
       PROVE  Registered(s)' \/ \E v \in Callers : Holds(v, s)'
  <2>1. Stays
    BY <1>11, MostStay
  <2>2. ses' = ses
    BY <1>11 DEF FindsNone, ReactorReads, ReactorRemoves, ConnectionFails, Destroy, vars
  <2> QED BY <1>10, <2>1, <2>2
<1> QED
  BY <1>4, <1>5, <1>6, <1>7, <1>8, <1>9, <1>11 DEF Steps

(* No stream runs on that neither StopStream nor the end of its connection *)
(* can find, unless a caller has it that will join its threads.            *)
THEOREM StreamsAreAttended == SafeSpec => []NoOrphanStream
<1>1. Init => NoOrphanStream
  BY DEF Init, NoOrphanStream, Alive, NewSession
<1>2. IInv /\ NoOrphanStream /\ [Next]_vars => NoOrphanStream'
  <2> SUFFICES ASSUME IInv, NoOrphanStream, [Next]_vars PROVE NoOrphanStream'
    OBVIOUS
  <2>1. Steps
    BY NextSteps DEF IInv
  <2> QED BY <2>1, AttendedStep
<1> QED
  BY <1>1, <1>2, Invariant, PTL DEF SafeSpec
=============================================================================
