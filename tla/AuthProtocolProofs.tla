------------------------ MODULE AuthProtocolProofs -------------------------
(***************************************************************************)
(* Proofs about AuthProtocol for any number of connections, addresses,     *)
(* names and workers and any queue and pipeline limits.                    *)
(***************************************************************************)
EXTENDS AuthProtocol, FiniteSetTheorems, TLAPS

-----------------------------------------------------------------------------
(* Frames.                                                                 *)
LEMMA IdleFrame == Idle \in FrameType /\ FrameOK(Idle) /\ Idle.at = "idle"
BY DEF Idle, FrameType, FrameOK, Points

LEMMA FrameFields ==
    ASSUME NEW w \in Workers, frame[w] \in FrameType,
           NEW p \in Points, NEW n \in Names \cup {None},
           NEW s \in Settings \cup {None}, NEW b \in Clients \cup {None}
    PROVE  /\ Frame(p, w, n, s, b) \in FrameType
           /\ Frame(p, w, n, s, b).at = p /\ Frame(p, w, n, s, b).req = frame[w].req
           /\ Frame(p, w, n, s, b).name = n /\ Frame(p, w, n, s, b).setting = s
           /\ Frame(p, w, n, s, b).by = b
BY DEF Frame, FrameType

LEMMA FrameMade ==
    ASSUME NEW w \in Workers, frame[w] \in FrameType, frame[w].req \in Request,
           NEW p \in Points \ {"idle", "start"}, NEW n \in Names,
           NEW s \in Settings \cup {None}, NEW b \in Clients,
           p \in {"record", "reply", "insert"} => s \in Settings,
           p = "reserve" => frame[w].req.type = "RegisterSection1",
           p = "record" => frame[w].req.type \in Section1Types
    PROVE  LET f == Frame(p, w, n, s, b)
           IN  f \in FrameType /\ FrameOK(f) /\ f.req = frame[w].req
BY FrameFields DEF FrameOK

LEMMA FrameMoves ==
    ASSUME NEW f \in FrameType, NEW p \in Points
    PROVE  /\ [f EXCEPT !.at = p] \in FrameType
           /\ [f EXCEPT !.at = p].at = p /\ [f EXCEPT !.at = p].req = f.req
           /\ [f EXCEPT !.at = p].name = f.name /\ [f EXCEPT !.at = p].setting = f.setting
           /\ [f EXCEPT !.at = p].by = f.by
BY DEF FrameType

LEMMA FrameTypes ==
    ASSUME TypeOK, NEW w \in Workers
    PROVE  /\ frame[w] \in FrameType /\ FrameOK(frame[w])
           /\ frame[w].at \in Points
           /\ frame[w].at # "idle" =>
                 /\ frame[w].req \in Request /\ Client(w) \in Clients
                 /\ Here(w) \in Addresses
BY DEF TypeOK, FrameType, FrameOK, Request, Made, Client, Here

(* What TypeOK says of the frames, kept by a step that replaces one.       *)
FramesOK ==
    /\ frame \in [Workers -> FrameType]
    /\ \A w \in Workers : FrameOK(frame[w]) /\ (frame[w].at # "idle" => Made(Client(w)))

LEMMA FrameStep ==
    ASSUME TypeOK, NEW w \in Workers, NEW f \in FrameType, FrameOK(f), Becomes(w, f),
           f.at # "idle" => f.req = frame[w].req /\ frame[w].at # "idle",
           link' = link
    PROVE  FramesOK'
<1>1. frame' \in [Workers -> FrameType] /\ frame'[w] = f
  BY DEF TypeOK, Becomes
<1>2. \A v \in Workers \ {w} : frame'[v] = frame[v]
  BY DEF TypeOK, Becomes
<1>3. \A c \in Clients : Made(c)' <=> Made(c)
  BY DEF Made
<1>4. \A v \in Workers : frame'[v].at # "idle" => Made(Client(v))'
  BY <1>1, <1>2 DEF TypeOK, Client, Made
<1>5. \A v \in Workers : FrameOK(frame'[v])
  BY <1>1, <1>2 DEF TypeOK
<1> QED  BY <1>1, <1>4, <1>5 DEF FramesOK

LEMMA IdleStep ==
    ASSUME TypeOK, NEW w \in Workers, Becomes(w, Idle), link' = link
    PROVE  FramesOK'
BY IdleFrame, FrameStep

-----------------------------------------------------------------------------
(* Type correctness.                                                       *)
LEMMA ReactorTypeStep ==
    ASSUME TypeOK, ReactorStep
    PROVE  TypeOK'
<1>1. ASSUME NEW c \in Clients, NEW a \in Addresses, Accept(c, a) PROVE TypeOK'
  <2>1. /\ link' = [link EXCEPT ![c] = [state |-> "open", address |-> a]]
        /\ UNCHANGED <<known, queue, frame, reactor, session, authenticated, pending, users>>
    BY <1>1 DEF Accept, storeVars
  <2>2. link' \in [Clients -> [state : {"unborn", "open", "closed"},
                               address : Addresses \cup {None}]]
    BY <2>1 DEF TypeOK
  <2>3. \A d \in Clients : /\ Made(d) => Made(d)'
                           /\ Made(d)' => link'[d].address \in Addresses
    BY <2>1 DEF TypeOK, Made
  <2>4. \A i \in 1..Len(queue) : queue[i].from \in Clients
    BY DEF TypeOK, Request
  <2>5. \A w \in Workers : frame[w].at # "idle" => Client(w) \in Clients
    BY FrameTypes
  <2>6. \A w \in Workers : frame[w].at # "idle" => Made(Client(w))'
    BY <2>1, <2>3, <2>5 DEF TypeOK, Client, Made
  <2>7. \A i \in 1..Len(queue) : Made(queue[i].from)'
    BY <2>1, <2>3, <2>4 DEF TypeOK, Made
  <2> QED  BY <2>1, <2>2, <2>3, <2>6, <2>7 DEF TypeOK, Made, Client
<1>2. ASSUME NEW r \in Request, Post(r) PROVE TypeOK'
  <2>1. /\ queue' = Append(queue, r) /\ Len(queue) < QueueLimit /\ Made(r.from)
        /\ UNCHANGED <<link, known, frame, reactor, session, authenticated, pending, users>>
    BY <1>2 DEF Post, reactorVars, storeVars, Made
  <2>2. queue' \in Seq(Request) /\ Len(queue') = Len(queue) + 1
    BY <2>1 DEF TypeOK
  <2>3. Len(queue') <= QueueLimit
    BY <2>1, <2>2, Limits DEF TypeOK
  <2>4. \A i \in 1..Len(queue') : queue'[i] = IF i = Len(queue) + 1 THEN r ELSE queue[i]
    BY <2>1, <2>2 DEF TypeOK
  <2>5. \A i \in 1..Len(queue') : Made(queue'[i].from)
    BY <2>1, <2>2, <2>4 DEF TypeOK
  <2> QED  BY <2>1, <2>2, <2>3, <2>5 DEF TypeOK, Made, Client
<1>3. ASSUME NEW c \in Clients, Receive(c) PROVE TypeOK'
  <2>1. ASSUME NEW n \in Names, NEW t \in Section1Types,
               Section1(c, t, n)
        PROVE  TypeOK'
    BY <1>2, <2>1 DEF Section1, Request, Section1Types, Section2Types
  <2>2. ASSUME NEW s \in {known[c], None}, NEW t \in Section2Types,
               Section2(c, t, s)
        PROVE  TypeOK'
    <3>1. s \in Settings \cup {None}
      BY DEF TypeOK
    <3> QED  BY <1>2, <2>2, <3>1 DEF Section2, Request, Section1Types, Section2Types
  <2> QED  BY <1>3, <2>1, <2>2 DEF Receive
<1>4. ASSUME NEW c \in Clients, Close(c) PROVE TypeOK'
  <2> DEFINE a == link[c].address
  <2>1. /\ link' = [link EXCEPT ![c].state = "closed"] /\ link[c].state = "open"
        /\ reactor' = CancelledName(session[a])
        /\ session' = [session EXCEPT ![a] = NoSession]
        /\ authenticated' = [authenticated EXCEPT ![a] = None]
        /\ UNCHANGED <<known, queue, frame, pending, users>>
    BY <1>4 DEF Close, Forgotten
  <2>2. a \in Addresses
    BY <2>1 DEF TypeOK, Made
  <2>3. reactor' \in Names \cup {None}
    BY <2>1, <2>2 DEF TypeOK, CancelledName, Session, NoSession
  <2>4. link' \in [Clients -> [state : {"unborn", "open", "closed"},
                               address : Addresses \cup {None}]]
    BY <2>1 DEF TypeOK
  <2>5. \A d \in Clients : (Made(d)' <=> Made(d)) /\ link'[d].address = link[d].address
    BY <2>1 DEF TypeOK, Made
  <2>6. \A i \in 1..Len(queue) : queue[i].from \in Clients
    BY DEF TypeOK, Request
  <2>7. \A w \in Workers : frame[w].at # "idle" => Made(Client(w))'
    BY <2>1, <2>5, FrameTypes DEF TypeOK, Client, Made
  <2>8. \A i \in 1..Len(queue) : Made(queue[i].from)'
    BY <2>1, <2>5, <2>6 DEF TypeOK, Made
  <2>9. session' \in [Addresses -> Session \cup {NoSession}]
    BY <2>1 DEF TypeOK
  <2>10. authenticated' \in [Addresses -> Clients \cup {None}]
    BY <2>1 DEF TypeOK
  <2> HIDE DEF a
  <2> QED  BY <2>1, <2>3, <2>4, <2>5, <2>7, <2>8, <2>9, <2>10 DEF TypeOK, Made, Client
<1>5. CASE CancelRegistration
  <2>1. pending' \in [Names -> Settings \cup {None}] /\ reactor' = None
    BY <1>5 DEF CancelRegistration, TypeOK
  <2> QED  BY <1>5, <2>1 DEF CancelRegistration, TypeOK, Made, Client
<1> QED  BY <1>1, <1>3, <1>4, <1>5 DEF ReactorStep

LEMMA TakeTypeStep ==
    ASSUME TypeOK, NEW w \in Workers, Take(w)
    PROVE  TypeOK'
<1> DEFINE new == [Idle EXCEPT !.at = "start", !.req = Head(queue)]
<1>1. /\ queue # <<>> /\ queue' = Tail(queue) /\ frame' = [frame EXCEPT ![w] = new]
      /\ UNCHANGED <<link, known, reactor, session, authenticated, pending, users>>
  BY DEF Take, Becomes, reactorVars, storeVars
<1>2. Head(queue) = queue[1] /\ 1 \in 1..Len(queue)
  BY <1>1 DEF TypeOK
<1>3. Head(queue) \in Request /\ Made(Head(queue).from)
  BY <1>2 DEF TypeOK
<1>4. new \in FrameType /\ FrameOK(new) /\ new.req = Head(queue)
  BY <1>3 DEF Idle, FrameType, FrameOK, Points
<1> HIDE DEF new
<1>5. frame' \in [Workers -> FrameType] /\ frame'[w] = new
  BY <1>1, <1>4 DEF TypeOK
<1>6. \A v \in Workers \ {w} : frame'[v] = frame[v]
  BY <1>1 DEF TypeOK
<1>7. \A v \in Workers : FrameOK(frame'[v]) /\ (frame'[v].at # "idle" => Made(Client(v))')
  BY <1>1, <1>3, <1>4, <1>5, <1>6 DEF TypeOK, Client, Made
<1>8. /\ queue' \in Seq(Request) /\ Len(queue') = Len(queue) - 1 /\ Len(queue') <= QueueLimit
      /\ \A i \in 1..Len(queue') : queue'[i] = queue[i + 1]
  BY <1>1, Limits DEF TypeOK
<1>9. \A i \in 1..Len(queue') : i + 1 \in 1..Len(queue)
  BY <1>8 DEF TypeOK
<1>10. \A i \in 1..Len(queue') : Made(queue[i].from)'
  BY <1>1, <1>8, <1>9 DEF TypeOK, Made
<1> QED  BY <1>1, <1>5, <1>7, <1>8, <1>10 DEF TypeOK, Made

LEMMA WorkerTypeStep ==
    ASSUME TypeOK, NEW w \in Workers, WorkerStep(w)
    PROVE  TypeOK'
<1> USE DEF reactorVars, storeVars
<1>1. /\ frame[w] \in FrameType /\ FrameOK(frame[w])
      /\ frame[w].at # "idle" =>
            frame[w].req \in Request /\ Client(w) \in Clients /\ Here(w) \in Addresses
  BY FrameTypes
<1>2. ASSUME FramesOK', UNCHANGED <<link, known, queue, reactor, storeVars>> PROVE TypeOK'
  BY <1>2 DEF FramesOK, TypeOK, Made
<1>3. ASSUME Becomes(w, Idle), UNCHANGED <<link, known, queue, reactor, storeVars>> PROVE TypeOK'
  BY <1>2, <1>3, IdleStep
<1>4. CASE Take(w)  BY <1>4, TakeTypeStep
<1>5. ASSUME NEW f \in FrameType, FrameOK(f), Becomes(w, f), f.req = frame[w].req,
             frame[w].at # "idle", link' = link
      PROVE  FramesOK'
  BY <1>5, FrameStep
<1>6. CASE BeginRegistration(w)
  <2> DEFINE n == frame[w].req.name
             new == Frame("reserve", w, n, None, Client(w))
  <2>1. /\ frame[w].at = "start" /\ frame[w].req.type = "RegisterSection1"
        /\ Becomes(w, IF users[n] = NoUser THEN new ELSE Idle)
        /\ UNCHANGED <<link, known, queue, reactor, storeVars>>
    BY <1>6 DEF BeginRegistration, Executes
  <2>2. n \in Names
    BY <1>1, <2>1 DEF Request, Section1Types, Section2Types
  <2>3. new \in FrameType /\ FrameOK(new) /\ new.req = frame[w].req
    BY <1>1, <2>1, <2>2, FrameMade DEF Points
  <2> HIDE DEF new
  <2>4. CASE users[n] = NoUser
    BY <1>2, <1>5, <2>1, <2>3, <2>4
  <2>5. CASE users[n] # NoUser
    BY <1>3, <2>1, <2>5
  <2> QED  BY <2>4, <2>5
<1>7. CASE Reserve(w)
  <2> DEFINE n == frame[w].name
             s == <<Client(w), n>>
             new == Frame("record", w, n, s, Client(w))
  <2>1. /\ frame[w].at = "reserve" /\ pending' = [pending EXCEPT ![n] = s] /\ Becomes(w, new)
        /\ UNCHANGED <<link, known, queue, reactor, session, authenticated, users>>
    BY <1>7 DEF Reserve
  <2>2. n \in Names /\ Client(w) \in Clients /\ frame[w].req.type = "RegisterSection1"
    BY <1>1, <2>1 DEF FrameOK
  <2>3. s \in Settings
    BY <2>2 DEF Settings
  <2>4. new \in FrameType /\ FrameOK(new) /\ new.req = frame[w].req
    BY <1>1, <2>1, <2>2, <2>3, FrameMade DEF Points, Section1Types
  <2>5. pending' \in [Names -> Settings \cup {None}]
    BY <2>1, <2>3 DEF TypeOK
  <2> HIDE DEF new, s
  <2>6. FramesOK'
    BY <1>5, <2>1, <2>4
  <2> QED  BY <2>1, <2>5, <2>6 DEF FramesOK, TypeOK, Made
<1>8. CASE ReserveRefused(w)  BY <1>3, <1>8 DEF ReserveRefused
<1>9. CASE BeginLogin(w)
  <2> DEFINE n == frame[w].req.name
             new == Frame("record", w, n, users[n].setting, Client(w))
  <2>1. /\ frame[w].at = "start" /\ frame[w].req.type = "LoginSection1"
        /\ Becomes(w, IF users[n] = NoUser THEN Idle ELSE new)
        /\ UNCHANGED <<link, known, queue, reactor, storeVars>>
    BY <1>9 DEF BeginLogin, Executes
  <2>2. n \in Names
    BY <1>1, <2>1 DEF Request, Section1Types, Section2Types
  <2>3. CASE users[n] = NoUser
    BY <1>3, <2>1, <2>3
  <2>4. CASE users[n] # NoUser
    <3>1. users[n].setting \in Settings
      BY <2>2, <2>4 DEF TypeOK
    <3>2. new \in FrameType /\ FrameOK(new) /\ new.req = frame[w].req
      BY <1>1, <2>1, <2>2, <3>1, FrameMade DEF Points, Section1Types
    <3> HIDE DEF new
    <3> QED  BY <1>2, <1>5, <2>1, <2>4, <3>2
  <2> QED  BY <2>3, <2>4
<1>10. CASE Record(w)
  <2> DEFINE new == [frame[w] EXCEPT !.at = "reply"]
             s == [operation |-> OperationOf(frame[w].req.type), name |-> frame[w].name,
                   by |-> Client(w)]
  <2>1. /\ frame[w].at = "record" /\ session' = [session EXCEPT ![Here(w)] = s]
        /\ Becomes(w, new)
        /\ UNCHANGED <<link, known, queue, reactor, authenticated, pending, users>>
    BY <1>10 DEF Record
  <2>2. new \in FrameType /\ FrameOK(new) /\ new.req = frame[w].req
    BY <1>1, <2>1, FrameMoves DEF FrameOK, Points
  <2>3. s \in Session
    BY <1>1, <2>1 DEF Session, Operations, OperationOf, FrameOK
  <2>4. session' \in [Addresses -> Session \cup {NoSession}]
    BY <2>1, <2>3 DEF TypeOK
  <2> HIDE DEF new, s
  <2>5. FramesOK'
    BY <1>5, <2>1, <2>2
  <2> QED  BY <2>1, <2>4, <2>5 DEF FramesOK, TypeOK, Made
<1>11. CASE Reply(w)
  <2>1. /\ frame[w].at = "reply" /\ known' = [known EXCEPT ![Client(w)] = frame[w].setting]
        /\ Becomes(w, Idle)
        /\ UNCHANGED <<link, queue, reactor, session, authenticated, pending, users>>
    BY <1>11 DEF Reply
  <2>2. frame[w].setting \in Settings
    BY <1>1, <2>1 DEF FrameOK
  <2>3. known' \in [Clients -> Settings \cup {None}]
    BY <2>1, <2>2 DEF TypeOK
  <2>4. FramesOK'
    BY <2>1, IdleStep
  <2> QED  BY <2>1, <2>3, <2>4 DEF FramesOK, TypeOK, Made
<1>12. CASE Claim(w)
  <2> DEFINE s == session[Here(w)]
             p == IF OperationOf(frame[w].req.type) = "Register" THEN "complete" ELSE "compare"
             new == Frame(p, w, s.name, None, s.by)
  <2>1. /\ frame[w].at = "start" /\ s.operation = OperationOf(frame[w].req.type)
        /\ session' = [session EXCEPT ![Here(w)] = NoSession]
        /\ Becomes(w, new)
        /\ UNCHANGED <<link, known, queue, reactor, authenticated, pending, users>>
    BY <1>12 DEF Claim, Matches, Executes
  <2>2. s.operation # "none"
    BY <2>1 DEF OperationOf
  <2>3. s.name \in Names /\ s.by \in Clients
    BY <1>1, <2>1, <2>2 DEF TypeOK, Session, NoSession
  <2>4. p \in {"complete", "compare"}
    OBVIOUS
  <2> HIDE DEF p
  <2>5. new \in FrameType /\ FrameOK(new) /\ new.req = frame[w].req
    BY <1>1, <2>1, <2>3, <2>4, FrameMade DEF Points
  <2>6. session' \in [Addresses -> Session \cup {NoSession}]
    BY <2>1 DEF TypeOK
  <2> HIDE DEF new
  <2>7. FramesOK'
    BY <1>5, <2>1, <2>5
  <2> QED  BY <2>1, <2>6, <2>7 DEF FramesOK, TypeOK, Made
<1>13. CASE StageMismatch(w)  BY <1>3, <1>13 DEF StageMismatch
<1>14. CASE CompletionRefused(w)  BY <1>3, <1>14 DEF CompletionRefused
<1>15. CASE CompleteRegistration(w)
  <2> DEFINE n == frame[w].name
             new == Frame("insert", w, n, pending[n], frame[w].by)
  <2>1. /\ frame[w].at = "complete" /\ pending[n] # None
        /\ pending' = [pending EXCEPT ![n] = None] /\ Becomes(w, new)
        /\ UNCHANGED <<link, known, queue, reactor, session, authenticated, users>>
    BY <1>15 DEF CompleteRegistration
  <2>2. n \in Names /\ frame[w].by \in Clients
    BY <1>1, <2>1 DEF FrameOK
  <2>3. pending[n] \in Settings
    BY <2>1, <2>2 DEF TypeOK
  <2>4. new \in FrameType /\ FrameOK(new) /\ new.req = frame[w].req
    BY <1>1, <2>1, <2>2, <2>3, FrameMade DEF Points
  <2>5. pending' \in [Names -> Settings \cup {None}]
    BY <2>1 DEF TypeOK
  <2> HIDE DEF new
  <2>6. FramesOK'
    BY <1>5, <2>1, <2>4
  <2> QED  BY <2>1, <2>5, <2>6 DEF FramesOK, TypeOK, Made
<1>16. CASE Insert(w)
  <2> DEFINE u == [setting |-> frame[w].setting, digest |-> frame[w].req.salt,
                   own |-> frame[w].by = Client(w) /\ Client(w) \in Polite]
  <2>1. /\ frame[w].at = "insert"
        /\ users' = [users EXCEPT ![frame[w].name] = Inserted(@, u)]
        /\ Becomes(w, Idle)
        /\ UNCHANGED <<link, known, queue, reactor, session, authenticated, pending>>
    BY <1>16 DEF Insert
  <2>2. u \in UserType /\ u.setting \in Settings
    BY <1>1, <2>1 DEF FrameOK, Request, UserType
  <2> HIDE DEF u
  <2>3. \A n \in Names : users'[n] = users[n] \/ users'[n] = u
    BY <2>1 DEF TypeOK, Inserted
  <2>4. users' \in [Names -> UserType]
    BY <2>1, <2>2 DEF TypeOK, Inserted
  <2>5. FramesOK'
    BY <2>1, IdleStep
  <2> QED  BY <2>1, <2>2, <2>3, <2>4, <2>5 DEF FramesOK, TypeOK, Made
<1>17. CASE FinishLogin(w)
  <2> DEFINE new == [frame[w] EXCEPT !.at = "admit"]
  <2>1. /\ frame[w].at = "compare" /\ Becomes(w, IF Correct(w) THEN new ELSE Idle)
        /\ UNCHANGED <<link, known, queue, reactor, storeVars>>
    BY <1>17 DEF FinishLogin
  <2>2. new \in FrameType /\ FrameOK(new) /\ new.req = frame[w].req
    BY <1>1, <2>1, FrameMoves DEF FrameOK, Points
  <2> HIDE DEF new
  <2>3. CASE Correct(w)  BY <1>2, <1>5, <2>1, <2>2, <2>3
  <2>4. CASE ~Correct(w)  BY <1>3, <2>1, <2>4
  <2> QED  BY <2>3, <2>4
<1>18. CASE Admit(w)
  <2>1. /\ frame[w].at = "admit"
        /\ authenticated' = [authenticated EXCEPT ![Here(w)] = Client(w)]
        /\ Becomes(w, Idle)
        /\ UNCHANGED <<link, known, queue, reactor, session, pending, users>>
    BY <1>18 DEF Admit
  <2>2. authenticated' \in [Addresses -> Clients \cup {None}]
    BY <1>1, <2>1 DEF TypeOK
  <2>3. FramesOK'
    BY <2>1, IdleStep
  <2> QED  BY <2>1, <2>2, <2>3 DEF FramesOK, TypeOK, Made
<1>19. CASE RepositoryThrows(w)  BY <1>3, <1>19 DEF RepositoryThrows
<1> QED
  BY <1>4, <1>6, <1>7, <1>8, <1>9, <1>10, <1>11, <1>12, <1>13, <1>14, <1>15, <1>16, <1>17,
     <1>18, <1>19 DEF WorkerStep

(* The type invariant: maps hold what their types say, every worker that   *)
(* is past a point of its handler has what that point needs, and requests  *)
(* come from connections that were made.                                   *)
THEOREM TypeCorrect == Spec => []TypeOK
<1>1. Init => TypeOK
  BY IdleFrame, Limits
  DEF Init, TypeOK, Made, NoUser, UserType, NoSession
<1>2. TypeOK /\ UNCHANGED vars => TypeOK'
  BY DEF TypeOK, vars, Made, Client
<1>3. TypeOK /\ [Next]_vars => TypeOK'
  BY <1>2, ReactorTypeStep, WorkerTypeStep DEF Next
<1> QED  BY <1>1, <1>3, PTL DEF Spec

-----------------------------------------------------------------------------
(* A user record never changes: only Insert writes to the repository, and  *)
(* it leaves a record that is there alone.                                 *)
THEOREM UserRecordsAreKept == Spec => UsersAreKept
<1>1. ASSUME NEW w \in Workers, Insert(w), TypeOK, NEW n \in Names, users[n] # NoUser
      PROVE  users'[n] = users[n]
  BY <1>1 DEF Insert, Inserted, TypeOK
<1>2. ASSUME NEW w \in Workers, WorkerStep(w), ~Insert(w) PROVE users' = users
  BY <1>2 DEF WorkerStep, Take, BeginRegistration, Reserve, ReserveRefused, BeginLogin,
              Record, Reply, Claim, StageMismatch, CompletionRefused, CompleteRegistration,
              FinishLogin, Admit, RepositoryThrows, storeVars
<1>3. ReactorStep => users' = users
  BY DEF ReactorStep, Receive, Section1, Section2, Post, Close, Accept, CancelRegistration,
         storeVars
<1>4. TypeOK /\ [Next]_vars =>
         [\A n \in Names : users[n] # NoUser => users'[n] = users[n]]_vars
  BY <1>1, <1>2, <1>3 DEF Next, vars
<1> QED  BY <1>4, TypeCorrect, PTL DEF Spec, UsersAreKept

-----------------------------------------------------------------------------
(* A registration and its holder. Holders(n) as three predicates, of which *)
(* at most one holds, of at most one address or worker; whoever holds the  *)
(* name has its entry in pending_registrations_.                           *)
InSession(a, n) == session[a].operation = "Register" /\ session[a].name = n
InWorker(w, n) ==
    /\ frame[w].name = n
    /\ \/ frame[w].at = "complete"
       \/ frame[w].at = "record" /\ frame[w].req.type = "RegisterSection1"

HolderInv ==
    \A n \in Names :
        /\ \A a, b \in Addresses : InSession(a, n) /\ InSession(b, n) => a = b
        /\ \A v, w \in Workers : InWorker(v, n) /\ InWorker(w, n) => v = w
        /\ \A a \in Addresses, w \in Workers : ~(InSession(a, n) /\ InWorker(w, n))
        /\ \A a \in Addresses : ~(InSession(a, n) /\ reactor = n)
        /\ \A w \in Workers : ~(InWorker(w, n) /\ reactor = n)
        /\ \A a \in Addresses : InSession(a, n) => pending[n] # None
        /\ \A w \in Workers : InWorker(w, n) => pending[n] # None
        /\ reactor = n => pending[n] # None

LEMMA HolderInvIsEnough == TypeOK /\ HolderInv => OneHolder
<1> SUFFICES ASSUME TypeOK, HolderInv, NEW n \in Names
             PROVE  /\ \A g, h \in Holders(n) : g = h
                    /\ Holders(n) # {} => pending[n] # None
  BY DEF OneHolder
<1>1. n # None
  BY NoneIsNothing
<1>2. \A h \in Holders(n) :
         \/ \E a \in Addresses : InSession(a, n) /\ h = <<"session", a>>
         \/ \E w \in Workers : InWorker(w, n) /\ h = <<"worker", w>>
         \/ reactor = n /\ h = <<"reactor", n>>
  BY <1>1 DEF Holders, CancelledName, InSession, InWorker, Executes
<1>3. \A g, h \in Holders(n) : g = h
  BY <1>2 DEF HolderInv
<1>4. Holders(n) # {} => pending[n] # None
  BY <1>2 DEF HolderInv
<1> QED  BY <1>3, <1>4

(* A worker that moves to a point where it holds nothing.                  *)
LEMMA ReleaseStep ==
    ASSUME TypeOK, HolderInv, NEW w \in Workers, NEW f, Becomes(w, f),
           f.at # "complete",
           f.at = "record" => f.req.type # "RegisterSection1",
           UNCHANGED <<session, reactor, pending>>
    PROVE  HolderInv'
<1>1. frame'[w] = f /\ \A v \in Workers \ {w} : frame'[v] = frame[v]
  BY DEF TypeOK, Becomes
<1>2. \A v \in Workers, n \in Names : InWorker(v, n)' => InWorker(v, n)
  BY <1>1 DEF InWorker
<1>3. \A a \in Addresses, n \in Names : InSession(a, n)' <=> InSession(a, n)
  BY DEF InSession
<1> QED  BY <1>2, <1>3 DEF HolderInv

LEMMA HolderReactorStep ==
    ASSUME TypeOK, HolderInv, ReactorStep
    PROVE  HolderInv'
<1>1. ASSUME UNCHANGED <<session, frame, reactor, pending>> PROVE HolderInv'
  BY <1>1 DEF HolderInv, InSession, InWorker
<1>2. ASSUME NEW c \in Clients, Close(c) PROVE HolderInv'
  <2>0. PICK a \in Addresses : a = link[c].address
    BY <1>2 DEF Close, TypeOK, Made
  <2>1. /\ reactor' = CancelledName(session[a])
        /\ session' = [session EXCEPT ![a] = NoSession]
        /\ UNCHANGED <<frame, pending>>
    BY <1>2, <2>0 DEF Close, Forgotten
  <2>2. \A n \in Names : reactor' = n => InSession(a, n)
    BY <2>1, NoneIsNothing DEF CancelledName, InSession
  <2>3. \A n \in Names : ~InSession(a, n)'
    BY <2>1 DEF InSession, NoSession, TypeOK
  <2>4. \A b \in Addresses \ {a}, n \in Names : InSession(b, n)' <=> InSession(b, n)
    BY <2>1 DEF InSession, TypeOK
  <2>5. \A w \in Workers, n \in Names : InWorker(w, n)' <=> InWorker(w, n)
    BY <2>1 DEF InWorker
  <2> QED  BY <2>1, <2>2, <2>3, <2>4, <2>5 DEF HolderInv
<1>3. CASE CancelRegistration
  <2>1. /\ reactor # None /\ reactor' = None /\ pending' = [pending EXCEPT ![reactor] = None]
        /\ UNCHANGED <<frame, session>>
    BY <1>3 DEF CancelRegistration
  <2>2. \A n \in Names \ {reactor} : pending'[n] = pending[n]
    BY <2>1 DEF TypeOK
  <2>3. \A n \in Names : /\ \A a \in Addresses : InSession(a, n)' <=> InSession(a, n)
                         /\ \A w \in Workers : InWorker(w, n)' <=> InWorker(w, n)
    BY <2>1 DEF InSession, InWorker
  <2>4. \A n \in Names : reactor' # n
    BY <2>1, NoneIsNothing
  <2> QED  BY <2>2, <2>3, <2>4 DEF HolderInv
<1>4. CASE \E c \in Clients : Receive(c) \/ \E a \in Addresses : Accept(c, a)
  BY <1>1, <1>4 DEF Receive, Section1, Section2, Post, Accept, reactorVars, storeVars
<1> QED  BY <1>2, <1>3, <1>4 DEF ReactorStep

LEMMA HolderWorkerStep ==
    ASSUME TypeOK, HolderInv, NEW w \in Workers, WorkerStep(w)
    PROVE  HolderInv'
<1> USE DEF reactorVars, storeVars
<1>1. /\ frame[w] \in FrameType /\ FrameOK(frame[w])
      /\ frame[w].at # "idle" =>
            frame[w].req \in Request /\ Client(w) \in Clients /\ Here(w) \in Addresses
  BY FrameTypes
<1>2. ASSUME Becomes(w, Idle), UNCHANGED <<session, reactor, pending>> PROVE HolderInv'
  BY <1>2, IdleFrame, ReleaseStep
<1>3. CASE Take(w)
  <2> DEFINE new == [Idle EXCEPT !.at = "start", !.req = Head(queue)]
  <2>1. Becomes(w, new) /\ UNCHANGED <<session, reactor, pending>>
    BY <1>3 DEF Take
  <2>2. new.at = "start"
    BY DEF Idle
  <2> HIDE DEF new
  <2> QED  BY <2>1, <2>2, ReleaseStep
<1>4. CASE BeginRegistration(w)
  <2> DEFINE new == Frame("reserve", w, frame[w].req.name, None, Client(w))
  <2>1. /\ Becomes(w, new) \/ Becomes(w, Idle)
        /\ UNCHANGED <<session, reactor, pending>>
    BY <1>4 DEF BeginRegistration
  <2>2. new.at = "reserve"
    BY DEF Frame
  <2> HIDE DEF new
  <2> QED  BY <1>2, <2>1, <2>2, ReleaseStep
<1>5. CASE Reserve(w)
  <2> DEFINE n == frame[w].name
             s == <<Client(w), n>>
             new == Frame("record", w, n, s, Client(w))
  <2>1. /\ frame[w].at = "reserve" /\ pending[n] = None
        /\ pending' = [pending EXCEPT ![n] = s] /\ frame' = [frame EXCEPT ![w] = new]
        /\ UNCHANGED <<session, reactor>>
    BY <1>5 DEF Reserve, InProgress, Becomes
  <2>2. n \in Names /\ s # None
    BY <1>1, <2>1, NoneIsNothing DEF FrameOK, Settings
  <2>3. new.name = n
    BY DEF Frame
  <2> HIDE DEF new, s
  <2>4. frame'[w] = new /\ \A v \in Workers \ {w} : frame'[v] = frame[v]
    BY <2>1 DEF TypeOK
  <2>5. pending'[n] = s /\ \A m \in Names \ {n} : pending'[m] = pending[m]
    BY <2>1, <2>2 DEF TypeOK
  <2>6. \A v \in Workers, m \in Names : InWorker(v, m)' => (v = w /\ m = n) \/ InWorker(v, m)
    BY <2>3, <2>4 DEF InWorker
  <2>7. \A a \in Addresses, m \in Names : InSession(a, m)' <=> InSession(a, m)
    BY <2>1 DEF InSession
  <2> QED  BY <2>1, <2>2, <2>5, <2>6, <2>7 DEF HolderInv
<1>6. CASE ReserveRefused(w)  BY <1>2, <1>6 DEF ReserveRefused
<1>7. CASE BeginLogin(w)
  <2> DEFINE new == Frame("record", w, frame[w].req.name, users[frame[w].req.name].setting,
                          Client(w))
  <2>1. /\ Becomes(w, new) \/ Becomes(w, Idle)
        /\ frame[w].req.type = "LoginSection1"
        /\ UNCHANGED <<session, reactor, pending>>
    BY <1>7 DEF BeginLogin, Executes
  <2>2. new.at = "record" /\ new.req = frame[w].req
    BY DEF Frame
  <2> HIDE DEF new
  <2> QED  BY <1>2, <2>1, <2>2, ReleaseStep
<1>8. CASE Record(w)
  <2> DEFINE new == [frame[w] EXCEPT !.at = "reply"]
             s == [operation |-> OperationOf(frame[w].req.type), name |-> frame[w].name,
                   by |-> Client(w)]
  <2>0. frame[w].at = "record"
    BY <1>8 DEF Record
  <2>1. PICK a \in Addresses : a = Here(w)
    BY <1>1, <2>0
  <2>2. /\ frame' = [frame EXCEPT ![w] = new] /\ session' = [session EXCEPT ![a] = s]
        /\ UNCHANGED <<reactor, pending>>
    BY <1>8, <2>1 DEF Record, Becomes
  <2>3. new.at = "reply"
    BY <1>1 DEF FrameType
  <2> HIDE DEF new
  <2>4. frame'[w] = new /\ \A v \in Workers \ {w} : frame'[v] = frame[v]
    BY <2>2 DEF TypeOK
  <2>5. /\ \A m \in Names : ~InWorker(w, m)'
        /\ \A v \in Workers \ {w}, m \in Names : InWorker(v, m)' <=> InWorker(v, m)
    BY <2>3, <2>4 DEF InWorker
  <2>6. session'[a] = s /\ \A b \in Addresses \ {a} : session'[b] = session[b]
    BY <2>2 DEF TypeOK
  <2>7. frame[w].req.type \in Section1Types
    BY <1>1, <2>0 DEF FrameOK
  <2>8. s.operation = "Register" => frame[w].req.type = "RegisterSection1"
    BY <2>7 DEF OperationOf, Section1Types
  <2>9. s.name = frame[w].name
    OBVIOUS
  <2> HIDE DEF s
  <2>10. \A m \in Names : InSession(a, m)' => InWorker(w, m)
    BY <2>0, <2>6, <2>8, <2>9 DEF InSession, InWorker
  <2>11. \A b \in Addresses \ {a}, m \in Names : InSession(b, m)' <=> InSession(b, m)
    BY <2>6 DEF InSession
  <2> QED  BY <2>2, <2>5, <2>10, <2>11 DEF HolderInv
<1>9. CASE Reply(w)  BY <1>2, <1>9 DEF Reply
<1>10. CASE Claim(w)
  <2> DEFINE op == OperationOf(frame[w].req.type)
             p == IF op = "Register" THEN "complete" ELSE "compare"
  <2>0. frame[w].at = "start" /\ Matches(session[Here(w)], op)
    BY <1>10 DEF Claim, Executes
  <2>1. PICK a \in Addresses : a = Here(w)
    BY <1>1, <2>0
  <2> DEFINE new == Frame(p, w, session[a].name, None, session[a].by)
  <2>2. /\ session[a].operation = op
        /\ session' = [session EXCEPT ![a] = NoSession] /\ frame' = [frame EXCEPT ![w] = new]
        /\ UNCHANGED <<reactor, pending>>
    BY <1>10, <2>1 DEF Claim, Matches, Becomes
  <2>3. /\ new.at = p /\ new.name = session[a].name
        /\ p \in {"complete", "compare"} /\ (p = "complete" => op = "Register")
    BY DEF Frame
  <2> HIDE DEF new, op, p
  <2>4. frame'[w] = new /\ \A v \in Workers \ {w} : frame'[v] = frame[v]
    BY <2>2 DEF TypeOK
  <2>5. /\ \A m \in Names : InWorker(w, m)' => InSession(a, m)
        /\ \A v \in Workers \ {w}, m \in Names : InWorker(v, m)' <=> InWorker(v, m)
    BY <2>2, <2>3, <2>4 DEF InWorker, InSession
  <2>6. session'[a] = NoSession /\ \A b \in Addresses \ {a} : session'[b] = session[b]
    BY <2>2 DEF TypeOK
  <2>7. /\ \A m \in Names : ~InSession(a, m)'
        /\ \A b \in Addresses \ {a}, m \in Names : InSession(b, m)' <=> InSession(b, m)
    BY <2>6 DEF InSession, NoSession
  <2> QED  BY <2>2, <2>5, <2>7 DEF HolderInv
<1>11. CASE StageMismatch(w)  BY <1>2, <1>11 DEF StageMismatch
<1>12. CASE CompletionRefused(w)  BY <1>2, <1>12 DEF CompletionRefused
<1>13. CASE CompleteRegistration(w)
  <2> DEFINE new == Frame("insert", w, frame[w].name, pending[frame[w].name], frame[w].by)
  <2>0. frame[w].at = "complete"
    BY <1>13 DEF CompleteRegistration
  <2>1. PICK n \in Names : n = frame[w].name
    BY <1>1, <2>0 DEF FrameOK
  <2>2. /\ pending' = [pending EXCEPT ![n] = None] /\ frame' = [frame EXCEPT ![w] = new]
        /\ UNCHANGED <<session, reactor>>
    BY <1>13, <2>1 DEF CompleteRegistration, Becomes
  <2>3. new.at = "insert"
    BY DEF Frame
  <2> HIDE DEF new
  <2>4. frame'[w] = new /\ \A v \in Workers \ {w} : frame'[v] = frame[v]
    BY <2>2 DEF TypeOK
  <2>5. InWorker(w, n)
    BY <2>0, <2>1 DEF InWorker
  <2>6. /\ \A m \in Names : ~InWorker(w, m)'
        /\ \A v \in Workers \ {w}, m \in Names : InWorker(v, m)' <=> InWorker(v, m)
    BY <2>3, <2>4 DEF InWorker
  <2>7. \A a \in Addresses, m \in Names : InSession(a, m)' <=> InSession(a, m)
    BY <2>2 DEF InSession
  <2>8. \A m \in Names \ {n} : pending'[m] = pending[m]
    BY <2>2 DEF TypeOK
  <2> QED  BY <2>2, <2>5, <2>6, <2>7, <2>8 DEF HolderInv
<1>14. CASE Insert(w)  BY <1>2, <1>14 DEF Insert
<1>15. CASE FinishLogin(w)
  <2> DEFINE new == [frame[w] EXCEPT !.at = "admit"]
  <2>1. (Becomes(w, new) \/ Becomes(w, Idle)) /\ UNCHANGED <<session, reactor, pending>>
    BY <1>15 DEF FinishLogin
  <2>2. new.at = "admit"
    BY <1>1 DEF FrameType
  <2> HIDE DEF new
  <2> QED  BY <1>2, <2>1, <2>2, ReleaseStep
<1>16. CASE Admit(w)  BY <1>2, <1>16 DEF Admit
<1>17. CASE RepositoryThrows(w)  BY <1>2, <1>17 DEF RepositoryThrows
<1> QED
  BY <1>3, <1>4, <1>5, <1>6, <1>7, <1>8, <1>9, <1>10, <1>11, <1>12, <1>13, <1>14, <1>15,
     <1>16, <1>17 DEF WorkerStep

LEMMA HolderInvariant == Spec => []HolderInv
<1>1. Init => HolderInv
  BY NoneIsNothing DEF Init, HolderInv, InSession, InWorker, NoSession, Idle
<1>2. HolderInv /\ UNCHANGED vars => HolderInv'
  BY DEF HolderInv, InSession, InWorker, vars
<1>3. TypeOK /\ HolderInv /\ [Next]_vars => HolderInv'
  BY <1>2, HolderReactorStep, HolderWorkerStep DEF Next
<1> QED  BY <1>1, <1>3, TypeCorrect, PTL DEF Spec

(* Each registration in progress has at most one holder, and the holder's  *)
(* stage is still there when it finishes or cancels it.                    *)
THEOREM RegistrationHasOneHolder == Spec => []OneHolder
BY HolderInvIsEnough, HolderInvariant, TypeCorrect, PTL

-----------------------------------------------------------------------------
(* The digest a registration is stored with: an invariant about the client *)
(* that waits for its replies, its request, what it knows, its session and *)
(* the worker that serves it.                                              *)

(* A client that waits for its replies has one request, queued or served.  *)
OneRequest ==
    \A c \in Polite :
        /\ \A i, j \in Queued(c) : i = j
        /\ \A v, w \in Serving(c) : v = w
        /\ Queued(c) = {} \/ Serving(c) = {}

(* Its digest is made with the setting it received last.                   *)
Digests(r) ==
    r.from \in Polite /\ r.type \in Section2Types => r.salt \in {known[r.from], None}
Fresh ==
    /\ \A i \in 1..Len(queue) : Digests(queue[i])
    /\ \A w \in Workers : frame[w].at # "idle" => Digests(frame[w].req)

(* Workers between the two stages.                                         *)
Shape(f) ==
    /\ f.at \in {"reserve", "record", "reply"} => f.by = f.req.from
    /\ f.at \in {"record", "reply"} => f.req.type \in Section1Types
    /\ f.at \in {"record", "reply"} /\ f.req.type = "RegisterSection1" =>
          f.setting = <<f.by, f.name>>
    /\ f.at = "complete" => f.req.type \in Section2Types
Shapes == \A w \in Workers : Shape(frame[w])

(* A session is at the address of the connection that made it.             *)
Located ==
    \A a \in Addresses :
        session[a] # NoSession =>
            Made(session[a].by) /\ link[session[a].by].address = a

(* A name is reserved with the setting of the client whose session or       *)
(* worker holds it.                                                        *)
Reserved ==
    /\ \A a \in Addresses, n \in Names : InSession(a, n) => pending[n] = <<session[a].by, n>>
    /\ \A w \in Workers, n \in Names : InWorker(w, n) => pending[n] = <<frame[w].by, n>>

(* The session of such a client is the one its worker is replying about,    *)
(* or the client knows its setting ...                                     *)
Replied ==
    \A c \in Polite, a \in Addresses, n \in Names :
        InSession(a, n) /\ session[a].by = c =>
            \/ known[c] = <<c, n>>
            \/ \E w \in Serving(c) : frame[w].at = "reply" /\ frame[w].setting = <<c, n>>
Replying ==
    \A w \in Workers, a \in Addresses, n \in Names :
        frame[w].at = "reply" /\ Client(w) \in Polite /\ session[a].by = Client(w)
            /\ InSession(a, n) =>
                frame[w].setting = <<Client(w), n>>

(* ... as it does when its registration is completed.                      *)
Own(w) == frame[w].by = Client(w) /\ Client(w) \in Polite
Completing ==
    \A w \in Workers :
        /\ frame[w].at = "complete" /\ Own(w) => known[Client(w)] = <<Client(w), frame[w].name>>
        /\ frame[w].at = "insert" /\ Own(w) => frame[w].req.salt = frame[w].setting

DInv == OneRequest /\ Fresh /\ Shapes /\ Located /\ Reserved /\ Replied /\ Replying /\ Completing
        /\ DigestMatchesSetting

-----------------------------------------------------------------------------
(* What a step of a worker does to its frame and to the queue. A worker     *)
(* rests when it is done, and steps on when it leaves the maps alone.      *)
Others(w) == \A v \in Workers \ {w} : frame'[v] = frame[v]

Rests(w) ==
    /\ frame[w].at \notin {"idle", "reply"}
    /\ frame'[w] = Idle /\ Others(w)
    /\ UNCHANGED <<link, known, queue, reactor, session, pending>>

Steps(w) ==
    /\ frame[w].at \in {"start", "compare"}
    /\ frame'[w].at \in {"reserve", "record", "admit"} /\ frame'[w].req = frame[w].req
    /\ frame'[w].at = "record" => frame[w].req.type = "LoginSection1"
    /\ frame'[w].at \in {"reserve", "record"} => frame'[w].by = Client(w)
    /\ Others(w)
    /\ UNCHANGED <<link, known, queue, reactor, session, pending, users>>

LEMMA Replaced ==
    ASSUME TypeOK, NEW w \in Workers, NEW f, Becomes(w, f)
    PROVE  frame'[w] = f /\ Others(w)
BY DEF TypeOK, Becomes, Others

LEMMA WorkerKinds ==
    ASSUME TypeOK, NEW w \in Workers, WorkerStep(w)
    PROVE  \/ Take(w) \/ Rests(w) \/ Steps(w) \/ Reserve(w) \/ Record(w) \/ Reply(w)
           \/ Claim(w) \/ CompleteRegistration(w)
<1>1. frame[w] \in FrameType
  BY FrameTypes
<1>2. ASSUME frame[w].at \notin {"idle", "reply"}, Becomes(w, Idle),
             UNCHANGED <<link, known, queue, reactor, session, pending>>
      PROVE  Rests(w)
  BY <1>2, Replaced DEF Rests
<1>3. CASE BeginRegistration(w)
  <2> DEFINE new == Frame("reserve", w, frame[w].req.name, None, Client(w))
  <2>1. /\ frame[w].at = "start"
        /\ Becomes(w, new) \/ Becomes(w, Idle)
        /\ UNCHANGED <<link, known, queue, reactor, session, pending, users>>
    BY <1>3 DEF BeginRegistration, Executes, reactorVars, storeVars
  <2>2. new.at = "reserve" /\ new.req = frame[w].req /\ new.by = Client(w)
    BY DEF Frame
  <2> HIDE DEF new
  <2>3. CASE Becomes(w, new)
    BY <2>1, <2>2, <2>3, Replaced DEF Steps
  <2> QED  BY <1>2, <2>1, <2>3
<1>4. CASE BeginLogin(w)
  <2> DEFINE new == Frame("record", w, frame[w].req.name, users[frame[w].req.name].setting,
                          Client(w))
  <2>1. /\ frame[w].at = "start" /\ frame[w].req.type = "LoginSection1"
        /\ Becomes(w, new) \/ Becomes(w, Idle)
        /\ UNCHANGED <<link, known, queue, reactor, session, pending, users>>
    BY <1>4 DEF BeginLogin, Executes, reactorVars, storeVars
  <2>2. new.at = "record" /\ new.req = frame[w].req /\ new.by = Client(w)
    BY DEF Frame
  <2> HIDE DEF new
  <2>3. CASE Becomes(w, new)
    BY <2>1, <2>2, <2>3, Replaced DEF Steps
  <2> QED  BY <1>2, <2>1, <2>3
<1>5. CASE FinishLogin(w)
  <2> DEFINE new == [frame[w] EXCEPT !.at = "admit"]
  <2>1. /\ frame[w].at = "compare"
        /\ Becomes(w, new) \/ Becomes(w, Idle)
        /\ UNCHANGED <<link, known, queue, reactor, session, pending, users>>
    BY <1>5 DEF FinishLogin, reactorVars, storeVars
  <2>2. new.at = "admit" /\ new.req = frame[w].req
    BY <1>1 DEF FrameType
  <2> HIDE DEF new
  <2>3. CASE Becomes(w, new)
    BY <2>1, <2>2, <2>3, Replaced DEF Steps
  <2> QED  BY <1>2, <2>1, <2>3
<1>6. CASE ReserveRefused(w) \/ StageMismatch(w) \/ CompletionRefused(w)
           \/ Insert(w) \/ Admit(w) \/ RepositoryThrows(w)
  <2>1. /\ frame[w].at \notin {"idle", "reply"} /\ Becomes(w, Idle)
        /\ UNCHANGED <<link, known, queue, reactor, session, pending>>
    BY <1>6 DEF ReserveRefused, StageMismatch, CompletionRefused, Insert, Admit,
                RepositoryThrows, Executes, reactorVars, storeVars
  <2> QED  BY <1>2, <2>1
<1> QED  BY <1>3, <1>4, <1>5, <1>6 DEF WorkerStep

(* The steps that move data, with the frame they leave.                    *)
LEMMA ReserveMoves ==
    ASSUME TypeOK, NEW w \in Workers, Reserve(w)
    PROVE  LET n == frame[w].name
           IN  /\ frame[w].at = "reserve" /\ n \in Names
               /\ frame[w].req.type = "RegisterSection1"
               /\ pending[n] = None /\ pending' = [pending EXCEPT ![n] = <<Client(w), n>>]
               /\ frame'[w].at = "record" /\ frame'[w].req = frame[w].req
               /\ frame'[w].name = n /\ frame'[w].setting = <<Client(w), n>>
               /\ frame'[w].by = Client(w)
               /\ Others(w) /\ UNCHANGED <<link, known, queue, reactor, session, users>>
<1> DEFINE n == frame[w].name
           new == Frame("record", w, n, <<Client(w), n>>, Client(w))
<1>1. /\ frame[w].at = "reserve" /\ Becomes(w, new) /\ pending[n] = None
      /\ pending' = [pending EXCEPT ![n] = <<Client(w), n>>]
      /\ UNCHANGED <<link, known, queue, reactor, session, users>>
  BY DEF Reserve, InProgress, reactorVars
<1>2. n \in Names /\ frame[w].req.type = "RegisterSection1"
  BY <1>1, FrameTypes DEF FrameOK
<1>3. /\ new.at = "record" /\ new.req = frame[w].req /\ new.name = n
      /\ new.setting = <<Client(w), n>> /\ new.by = Client(w)
  BY DEF Frame
<1> HIDE DEF new
<1> QED  BY <1>1, <1>2, <1>3, Replaced

LEMMA RecordMoves ==
    ASSUME TypeOK, NEW w \in Workers, Record(w)
    PROVE  /\ frame[w].at = "record" /\ frame[w].req.type \in Section1Types
           /\ Here(w) \in Addresses /\ Client(w) \in Clients /\ frame[w].name \in Names
           /\ session' = [session EXCEPT ![Here(w)] =
                  [operation |-> OperationOf(frame[w].req.type), name |-> frame[w].name,
                   by |-> Client(w)]]
           /\ frame'[w].at = "reply" /\ frame'[w].req = frame[w].req
           /\ frame'[w].name = frame[w].name /\ frame'[w].setting = frame[w].setting
           /\ frame'[w].by = frame[w].by
           /\ Others(w) /\ UNCHANGED <<link, known, queue, reactor, pending, users>>
<1> DEFINE new == [frame[w] EXCEPT !.at = "reply"]
<1>1. /\ frame[w].at = "record" /\ Becomes(w, new)
      /\ session' = [session EXCEPT ![Here(w)] =
             [operation |-> OperationOf(frame[w].req.type), name |-> frame[w].name,
              by |-> Client(w)]]
      /\ UNCHANGED <<link, known, queue, reactor, pending, users>>
  BY DEF Record, reactorVars
<1>2. /\ frame[w].req.type \in Section1Types /\ frame[w].name \in Names
      /\ Here(w) \in Addresses /\ Client(w) \in Clients
  BY <1>1, FrameTypes DEF FrameOK
<1>3. /\ new.at = "reply" /\ new.req = frame[w].req /\ new.name = frame[w].name
      /\ new.setting = frame[w].setting /\ new.by = frame[w].by
  BY FrameTypes DEF FrameType
<1> HIDE DEF new
<1> QED  BY <1>1, <1>2, <1>3, Replaced

LEMMA ReplyMoves ==
    ASSUME TypeOK, NEW w \in Workers, Reply(w)
    PROVE  /\ frame[w].at = "reply" /\ Client(w) \in Clients
           /\ known' = [known EXCEPT ![Client(w)] = frame[w].setting]
           /\ frame'[w] = Idle
           /\ Others(w) /\ UNCHANGED <<link, queue, reactor, session, pending, users>>
BY FrameTypes, Replaced DEF Reply, reactorVars, storeVars

LEMMA ClaimMoves ==
    ASSUME TypeOK, NEW w \in Workers, Claim(w)
    PROVE  LET s == session[Here(w)]
           IN  /\ frame[w].at = "start" /\ frame[w].req.type \in Section2Types
               /\ Here(w) \in Addresses /\ Client(w) \in Clients
               /\ s.operation = OperationOf(frame[w].req.type)
               /\ session' = [session EXCEPT ![Here(w)] = NoSession]
               /\ frame'[w].at \in {"complete", "compare"} /\ frame'[w].req = frame[w].req
               /\ frame'[w].at = "complete" => s.operation = "Register"
               /\ frame'[w].name = s.name /\ frame'[w].by = s.by
               /\ Others(w) /\ UNCHANGED <<link, known, queue, reactor, pending, users>>
<1> DEFINE s == session[Here(w)]
           op == OperationOf(frame[w].req.type)
           p == IF op = "Register" THEN "complete" ELSE "compare"
           new == Frame(p, w, s.name, None, s.by)
<1>1. /\ frame[w].at = "start" /\ frame[w].req.type \in Section2Types
      /\ s.operation = op /\ Becomes(w, new)
      /\ session' = [session EXCEPT ![Here(w)] = NoSession]
      /\ UNCHANGED <<link, known, queue, reactor, pending, users>>
  BY DEF Claim, Executes, Matches, reactorVars
<1>2. Here(w) \in Addresses /\ Client(w) \in Clients
  BY <1>1, FrameTypes
<1>3. p \in {"complete", "compare"} /\ (p = "complete" => op = "Register")
  OBVIOUS
<1>4. /\ new.at = p /\ new.req = frame[w].req /\ new.name = s.name /\ new.by = s.by
  BY DEF Frame
<1> HIDE DEF new, op, p, s
<1>5. frame'[w] = new /\ Others(w)
  BY <1>1, Replaced
<1> QED  BY <1>1, <1>2, <1>3, <1>4, <1>5 DEF s, op

LEMMA CompleteMoves ==
    ASSUME TypeOK, NEW w \in Workers, CompleteRegistration(w)
    PROVE  LET n == frame[w].name
           IN  /\ frame[w].at = "complete" /\ frame[w].req.salt # None
               /\ n \in Names /\ pending' = [pending EXCEPT ![n] = None]
               /\ frame'[w].at = "insert" /\ frame'[w].req = frame[w].req
               /\ frame'[w].setting = pending[n] /\ frame'[w].by = frame[w].by
               /\ Others(w) /\ UNCHANGED <<link, known, queue, reactor, session, users>>
<1> DEFINE n == frame[w].name
           new == Frame("insert", w, n, pending[n], frame[w].by)
<1>1. /\ frame[w].at = "complete" /\ frame[w].req.salt # None /\ Becomes(w, new)
      /\ pending' = [pending EXCEPT ![n] = None]
      /\ UNCHANGED <<link, known, queue, reactor, session, users>>
  BY DEF CompleteRegistration, reactorVars
<1>2. n \in Names
  BY <1>1, FrameTypes DEF FrameOK
<1>3. /\ new.at = "insert" /\ new.req = frame[w].req /\ new.setting = pending[n]
      /\ new.by = frame[w].by
  BY DEF Frame
<1> HIDE DEF new
<1> QED  BY <1>1, <1>2, <1>3, Replaced

(* Every step of a worker but the first keeps its request or drops it.     *)
Keeps(w) ==
    /\ frame[w].at # "idle"
    /\ frame'[w] = Idle \/ frame'[w].req = frame[w].req
    /\ Others(w) /\ UNCHANGED <<link, queue>>

LEMMA WorkerKeeps ==
    ASSUME TypeOK, NEW w \in Workers, WorkerStep(w), ~Take(w)
    PROVE  Keeps(w)
BY WorkerKinds, ReserveMoves, RecordMoves, ReplyMoves, ClaimMoves, CompleteMoves
DEF Rests, Steps, Keeps

LEMMA TakeMoves ==
    ASSUME TypeOK, NEW w \in Workers, Take(w)
    PROVE  /\ frame[w].at = "idle" /\ Len(queue) \in Nat \ {0}
           /\ frame'[w].at = "start" /\ frame'[w].req = queue[1] /\ queue[1] \in Request
           /\ Len(queue') = Len(queue) - 1
           /\ \A i \in 1..Len(queue') : queue'[i] = queue[i + 1]
           /\ Others(w) /\ UNCHANGED <<link, known, reactor, session, pending, users>>
<1> DEFINE new == [Idle EXCEPT !.at = "start", !.req = Head(queue)]
<1>1. /\ frame[w].at = "idle" /\ queue # <<>> /\ Becomes(w, new) /\ queue' = Tail(queue)
      /\ UNCHANGED <<link, known, reactor, session, pending, users>>
  BY DEF Take, reactorVars, storeVars
<1>2. new.at = "start" /\ new.req = Head(queue)
  BY DEF Idle
<1> HIDE DEF new
<1>3. frame'[w] = new /\ Others(w)
  BY <1>1, Replaced
<1>4. /\ Len(queue) \in Nat \ {0} /\ Head(queue) = queue[1] /\ queue[1] \in Request
      /\ Len(queue') = Len(queue) - 1
      /\ \A i \in 1..Len(queue') : queue'[i] = queue[i + 1]
  BY <1>1 DEF TypeOK
<1> QED  BY <1>1, <1>2, <1>3, <1>4

LEMMA ReactorKinds ==
    ASSUME TypeOK, ReactorStep
    PROVE  \/ \E r \in Request : Post(r) /\ Digests(r)
           \/ \E c \in Clients, a \in Addresses : Accept(c, a)
           \/ \E c \in Clients : Close(c)
           \/ CancelRegistration
<1>1. ASSUME NEW c \in Clients, Receive(c)
      PROVE  \E r \in Request : Post(r) /\ Digests(r)
  <2>1. CASE \E n \in Names, t \in Section1Types : Section1(c, t, n)
    <3>1. PICK n \in Names, t \in Section1Types : Section1(c, t, n)
      BY <2>1
    <3> DEFINE r == [from |-> c, type |-> t, name |-> n, salt |-> None]
    <3>2. r \in Request /\ Digests(r)
      BY DEF Request, Digests, Section1Types, Section2Types
    <3> QED  BY <3>1, <3>2 DEF Section1
  <2>2. CASE \E s \in {known[c], None}, t \in Section2Types : Section2(c, t, s)
    <3>1. PICK s \in {known[c], None}, t \in Section2Types : Section2(c, t, s)
      BY <2>2
    <3> DEFINE r == [from |-> c, type |-> t, name |-> None, salt |-> s]
    <3>2. s \in Settings \cup {None}
      BY DEF TypeOK
    <3>3. r \in Request /\ Digests(r)
      BY <3>2 DEF Request, Digests
    <3> QED  BY <3>1, <3>3 DEF Section2
  <2> QED  BY <1>1, <2>1, <2>2 DEF Receive
<1> QED  BY <1>1 DEF ReactorStep

LEMMA PostMoves ==
    ASSUME TypeOK, NEW r \in Request, Post(r)
    PROVE  /\ Len(queue) \in Nat /\ Len(queue') = Len(queue) + 1
           /\ \A i \in 1..Len(queue) : queue'[i] = queue[i]
           /\ queue'[Len(queue) + 1] = r
           /\ r.from \in Clients
           /\ r.from \in Polite => Queued(r.from) = {} /\ Serving(r.from) = {}
           /\ UNCHANGED <<link, known, frame, reactor, session, authenticated, pending, users>>
<1>1. /\ queue' = Append(queue, r)
      /\ Cardinality(Queued(r.from)) + Cardinality(Serving(r.from)) < Window(r.from)
      /\ UNCHANGED <<link, known, frame, reactor, session, authenticated, pending, users>>
  BY DEF Post, reactorVars, storeVars
<1>2. /\ Len(queue) \in Nat /\ Len(queue') = Len(queue) + 1
      /\ \A i \in 1..Len(queue) : queue'[i] = queue[i]
      /\ queue'[Len(queue) + 1] = r
  BY <1>1 DEF TypeOK
<1>3. IsFiniteSet(Queued(r.from))
  <2>1. Queued(r.from) \subseteq 1..Len(queue)
    BY DEF Queued, TypeOK
  <2>2. IsFiniteSet(1..Len(queue))
    BY <1>2, FS_Interval
  <2> QED  BY <2>1, <2>2, FS_Subset
<1>4. IsFiniteSet(Serving(r.from))
  BY FiniteWorkers, FS_Subset DEF Serving
<1>5. Cardinality(Queued(r.from)) \in Nat /\ Cardinality(Serving(r.from)) \in Nat
  BY <1>3, <1>4, FS_CardinalityType
<1>6. ASSUME r.from \in Polite PROVE Queued(r.from) = {} /\ Serving(r.from) = {}
  <2>1. Cardinality(Queued(r.from)) = 0 /\ Cardinality(Serving(r.from)) = 0
    BY <1>1, <1>5, <1>6 DEF Window
  <2> QED  BY <1>3, <1>4, <2>1, FS_EmptySet
<1> QED  BY <1>1, <1>2, <1>6 DEF Request

-----------------------------------------------------------------------------
(* One request at a time.                                                  *)
LEMMA OneRequestStep ==
    ASSUME TypeOK, OneRequest, Next
    PROVE  OneRequest'
<1>1. ASSUME NEW w \in Workers, Keeps(w) PROVE OneRequest'
  <2>1. \A c : Queued(c)' = Queued(c)
    BY <1>1 DEF Keeps, Queued
  <2>2. \A c \in Polite : Serving(c)' \subseteq Serving(c)
    BY <1>1 DEF Keeps, Serving, Client, Others, Idle
  <2> QED  BY <2>1, <2>2 DEF OneRequest
<1>2. ASSUME NEW w \in Workers, Take(w) PROVE OneRequest'
  <2>1. SUFFICES ASSUME NEW c \in Polite
                 PROVE  /\ \A i, j \in Queued(c)' : i = j
                        /\ \A u, v \in Serving(c)' : u = v
                        /\ Queued(c)' = {} \/ Serving(c)' = {}
    BY DEF OneRequest
  <2>2. /\ frame[w].at = "idle" /\ Len(queue) \in Nat \ {0}
        /\ frame'[w].req = queue[1] /\ frame'[w].at = "start"
        /\ Len(queue') = Len(queue) - 1
        /\ \A i \in 1..Len(queue') : queue'[i] = queue[i + 1]
        /\ Others(w)
    BY <1>2, TakeMoves
  <2>3. queue \in Seq(Request) /\ queue' \in Seq(Request)
    BY <1>2 DEF TypeOK, Take
  <2>4. \A i \in Queued(c)' : i \in Nat /\ i + 1 \in Queued(c) /\ i + 1 # 1
    BY <2>2, <2>3 DEF Queued
  <2>5. \A i, j \in Queued(c) : i = j
    BY DEF OneRequest
  <2>6. \A i, j \in Queued(c)' : i = j
    <3>1. SUFFICES ASSUME NEW i \in Queued(c)', NEW j \in Queued(c)' PROVE i = j
      OBVIOUS
    <3>2. i + 1 = j + 1 /\ i \in Nat /\ j \in Nat
      BY <2>4, <2>5
    <3> QED  BY <3>2
  <2>7. CASE queue[1].from = c
    <3>1. 1 \in Queued(c)
      BY <2>2, <2>3, <2>7 DEF Queued
    <3>2. Queued(c)' = {}
      BY <2>4, <2>5, <3>1
    <3>3. Serving(c) = {}
      BY <3>1 DEF OneRequest
    <3>4. Serving(c)' \subseteq {w}
      BY <2>2, <3>3 DEF Serving, Client, Others
    <3> QED  BY <3>2, <3>4
  <2>8. CASE queue[1].from # c
    <3>1. Serving(c)' = Serving(c)
      BY <2>2, <2>8 DEF Serving, Client, Others
    <3>2. Queued(c) = {} => Queued(c)' = {}
      BY <2>4
    <3> QED  BY <2>6, <3>1, <3>2 DEF OneRequest
  <2> QED  BY <2>7, <2>8
<1>3. ASSUME NEW r \in Request, Post(r) PROVE OneRequest'
  <2>1. SUFFICES ASSUME NEW c \in Polite
                 PROVE  /\ \A i, j \in Queued(c)' : i = j
                        /\ \A u, v \in Serving(c)' : u = v
                        /\ Queued(c)' = {} \/ Serving(c)' = {}
    BY DEF OneRequest
  <2>2. /\ Len(queue) \in Nat /\ Len(queue') = Len(queue) + 1
        /\ \A i \in 1..Len(queue) : queue'[i] = queue[i]
        /\ queue'[Len(queue) + 1] = r
        /\ r.from \in Polite => Queued(r.from) = {} /\ Serving(r.from) = {}
        /\ frame' = frame
    BY <1>3, PostMoves
  <2>3. queue \in Seq(Request) /\ queue' \in Seq(Request)
    BY <1>3 DEF TypeOK, Post
  <2>4. Serving(c)' = Serving(c)
    BY <2>2 DEF Serving, Client
  <2>5. \A i \in Queued(c)' : i \in Queued(c) \/ (i = Len(queue) + 1 /\ r.from = c)
    BY <2>2, <2>3 DEF Queued
  <2>6. CASE r.from = c
    BY <2>2, <2>4, <2>5, <2>6
  <2>7. CASE r.from # c
    BY <2>4, <2>5, <2>7 DEF OneRequest
  <2> QED  BY <2>6, <2>7
<1>4. ASSUME UNCHANGED <<queue, frame>> PROVE OneRequest'
  BY <1>4 DEF OneRequest, Queued, Serving, Client
<1>5. CASE ReactorStep
  BY <1>3, <1>4, <1>5, ReactorKinds DEF Accept, Close, CancelRegistration
<1> QED  BY <1>1, <1>2, <1>5, WorkerKeeps DEF Next

-----------------------------------------------------------------------------
(* The digest a client sends is made with what it received last, and it     *)
(* receives nothing while that request is on its way.                      *)
LEMMA FreshStep ==
    ASSUME TypeOK, OneRequest, Fresh, Next
    PROVE  Fresh'
<1>0. queue \in Seq(Request)
  BY DEF TypeOK
<1>1. ASSUME NEW w \in Workers, Keeps(w), known' = known PROVE Fresh'
  <2>1. \A r : Digests(r)' <=> Digests(r)
    BY <1>1 DEF Digests
  <2> QED  BY <1>1, <2>1 DEF Keeps, Fresh, Others, Idle, Digests
<1>2. ASSUME NEW w \in Workers, Take(w) PROVE Fresh'
  <2>1. /\ frame[w].at = "idle" /\ Len(queue) \in Nat \ {0}
        /\ frame'[w].req = queue[1] /\ frame'[w].at = "start"
        /\ Len(queue') = Len(queue) - 1
        /\ \A i \in 1..Len(queue') : queue'[i] = queue[i + 1]
        /\ Others(w) /\ known' = known
    BY <1>2, TakeMoves
  <2>2. \A r : Digests(r)' <=> Digests(r)
    BY <2>1 DEF Digests
  <2>3. \A i \in 1..Len(queue') : i + 1 \in 1..Len(queue)
    BY <2>1
  <2>4. \A i \in 1..Len(queue') : Digests(queue'[i])
    BY <2>1, <2>3 DEF Fresh
  <2>5. Digests(frame'[w].req)
    BY <2>1 DEF Fresh
  <2>6. \A v \in Workers : frame'[v].at # "idle" => Digests(frame'[v].req)
    BY <2>1, <2>5 DEF Fresh, Others
  <2> QED  BY <2>2, <2>4, <2>6 DEF Fresh
<1>3. ASSUME NEW w \in Workers, Reply(w) PROVE Fresh'
  <2>1. /\ frame[w].at = "reply" /\ Client(w) \in Clients
        /\ known' = [known EXCEPT ![Client(w)] = frame[w].setting]
        /\ frame'[w] = Idle /\ Others(w) /\ queue' = queue
    BY <1>3, ReplyMoves
  <2>2. \A r \in Request : r.from # Client(w) => (Digests(r)' <=> Digests(r))
    BY <2>1 DEF Digests, TypeOK, Request
  <2>3. ASSUME NEW r \in Request, Digests(r), r.from = Client(w) => r.from \notin Polite
        PROVE  Digests(r)'
    BY <2>2, <2>3 DEF Digests
  <2>4. \A k \in 1..Len(queue) :
           queue[k] \in Request /\ (queue[k].from = Client(w) => queue[k].from \notin Polite)
    <3>1. SUFFICES ASSUME NEW k \in 1..Len(queue), queue[k].from = Client(w),
                          queue[k].from \in Polite
                   PROVE  FALSE
      BY <1>0
    <3>2. k \in Queued(Client(w)) /\ w \in Serving(Client(w))
      BY <1>0, <2>1, <3>1 DEF Queued, Serving
    <3> QED  BY <3>1, <3>2 DEF OneRequest
  <2>5. \A v \in Workers : frame'[v].at # "idle" =>
           /\ frame[v].at # "idle" /\ frame'[v] = frame[v] /\ frame[v].req \in Request
           /\ frame[v].req.from = Client(w) => frame[v].req.from \notin Polite
    <3>1. SUFFICES ASSUME NEW v \in Workers, frame'[v].at # "idle"
                   PROVE  /\ frame[v].at # "idle" /\ frame'[v] = frame[v]
                          /\ frame[v].req \in Request
                          /\ frame[v].req.from = Client(w) => frame[v].req.from \notin Polite
      OBVIOUS
    <3>2. v # w /\ frame'[v] = frame[v] /\ frame[v].req \in Request
      BY <2>1, <3>1, FrameTypes DEF Idle, Others
    <3>3. frame[v].req.from = Client(w) /\ Client(w) \in Polite =>
             v \in Serving(Client(w)) /\ w \in Serving(Client(w))
      BY <2>1, <3>1, <3>2 DEF Serving, Client
    <3> QED  BY <3>1, <3>2, <3>3 DEF OneRequest
  <2>6. \A k \in 1..Len(queue') : queue'[k] \in Request /\ Digests(queue[k])'
    <3>1. SUFFICES ASSUME NEW k \in 1..Len(queue)
                   PROVE  queue[k] \in Request /\ Digests(queue[k])'
      BY <2>1
    <3>2. PICK r \in Request : r = queue[k]
      BY <2>4
    <3>3. Digests(r)'
      BY <2>3, <2>4, <3>2 DEF Fresh
    <3> QED  BY <2>1, <3>2, <3>3
  <2>7. \A v \in Workers : frame'[v].at # "idle" => Digests(frame[v].req)'
    <3>1. SUFFICES ASSUME NEW v \in Workers, frame'[v].at # "idle"
                   PROVE  Digests(frame[v].req)'
      OBVIOUS
    <3>2. PICK r \in Request : r = frame[v].req
      BY <2>5, <3>1
    <3>3. Digests(r)'
      BY <2>3, <2>5, <3>1, <3>2 DEF Fresh
    <3>4. r = frame'[v].req
      BY <2>5, <3>1, <3>2
    <3> QED  BY <3>3, <3>4
  <2> QED  BY <2>6, <2>7 DEF Fresh
<1>4. ASSUME NEW r \in Request, Post(r), Digests(r) PROVE Fresh'
  <2>1. /\ Len(queue) \in Nat /\ Len(queue') = Len(queue) + 1
        /\ \A i \in 1..Len(queue) : queue'[i] = queue[i]
        /\ queue'[Len(queue) + 1] = r
        /\ known' = known /\ frame' = frame
    BY <1>4, PostMoves
  <2>2. \A q : Digests(q)' <=> Digests(q)
    BY <2>1 DEF Digests
  <2>3. \A i \in 1..Len(queue') : i \in 1..Len(queue) \/ i = Len(queue) + 1
    BY <2>1
  <2>4. \A i \in 1..Len(queue') : Digests(queue'[i])
    BY <1>4, <2>1, <2>3 DEF Fresh
  <2> QED  BY <2>1, <2>2, <2>4 DEF Fresh
<1>5. ASSUME UNCHANGED <<queue, frame, known>> PROVE Fresh'
  BY <1>5 DEF Fresh, Digests
<1>6. CASE ReactorStep
  BY <1>4, <1>5, <1>6, ReactorKinds DEF Accept, Close, CancelRegistration
<1>7. ASSUME NEW w \in Workers, WorkerStep(w) PROVE Fresh'
  <2>1. ~Reply(w) /\ ~Take(w) => known' = known
    BY <1>7, WorkerKinds, ReserveMoves, RecordMoves, ClaimMoves, CompleteMoves
    DEF Rests, Steps
  <2> QED  BY <1>1, <1>2, <1>3, <1>7, <2>1, WorkerKeeps
<1> QED  BY <1>6, <1>7 DEF Next

-----------------------------------------------------------------------------
LEMMA ShapesStep ==
    ASSUME TypeOK, Shapes, Next
    PROVE  Shapes'
<1>1. ASSUME NEW w \in Workers, WorkerStep(w) PROVE Shape(frame'[w]) /\ Others(w)
  <2>1. Shape(frame[w])
    BY DEF Shapes
  <2>2. Shape(Idle)
    BY DEF Shape, Idle
  <2>3. CASE Take(w)
    BY <2>3, TakeMoves DEF Shape
  <2>4. CASE Rests(w)
    BY <2>2, <2>4 DEF Rests
  <2>5. CASE Steps(w)
    BY <2>5 DEF Steps, Shape, Section1Types, Client
  <2>6. CASE Reserve(w)
    BY <2>6, ReserveMoves DEF Shape, Section1Types, Client
  <2>7. CASE Record(w)
    BY <2>1, <2>7, RecordMoves DEF Shape
  <2>8. CASE Reply(w)
    BY <2>2, <2>8, ReplyMoves
  <2>9. CASE Claim(w)
    BY <2>9, ClaimMoves DEF Shape
  <2>10. CASE CompleteRegistration(w)
    BY <2>10, CompleteMoves DEF Shape
  <2> QED
    BY <1>1, <2>3, <2>4, <2>5, <2>6, <2>7, <2>8, <2>9, <2>10, WorkerKinds,
       TakeMoves, ReserveMoves, RecordMoves, ReplyMoves, ClaimMoves, CompleteMoves
    DEF Rests, Steps
<1>2. ReactorStep => frame' = frame
  BY ReactorKinds, PostMoves DEF Accept, Close, CancelRegistration
<1> QED  BY <1>1, <1>2 DEF Next, Shapes, Others

LEMMA SessionFields ==
    ASSUME TypeOK, NEW a \in Addresses, session[a] # NoSession
    PROVE  session[a].by \in Clients /\ session[a].operation \in Operations
BY DEF TypeOK, Session

LEMMA LocatedStep ==
    ASSUME TypeOK, Located, Next
    PROVE  Located'
<1>1. ASSUME UNCHANGED <<link, session>> PROVE Located'
  BY <1>1 DEF Located, Made
<1>2. ASSUME NEW w \in Workers, Record(w) PROVE Located'
  <2> DEFINE s == [operation |-> OperationOf(frame[w].req.type), name |-> frame[w].name,
                   by |-> Client(w)]
  <2>1. /\ Here(w) \in Addresses /\ Client(w) \in Clients /\ frame[w].at = "record"
        /\ session' = [session EXCEPT ![Here(w)] = s]
        /\ UNCHANGED link
    BY <1>2, RecordMoves
  <2>2. Made(Client(w)) /\ s.by = Client(w) /\ link[Client(w)].address = Here(w)
    BY <2>1 DEF TypeOK, Here
  <2> HIDE DEF s
  <2>3. session'[Here(w)] = s /\ \A a \in Addresses \ {Here(w)} : session'[a] = session[a]
    BY <2>1 DEF TypeOK
  <2> QED  BY <2>1, <2>2, <2>3 DEF Located, Made
<1>3. ASSUME NEW w \in Workers, Claim(w) PROVE Located'
  <2>1. /\ session' = [session EXCEPT ![Here(w)] = NoSession] /\ UNCHANGED link
    BY <1>3, ClaimMoves
  <2> QED  BY <2>1 DEF Located, Made, TypeOK
<1>4. ASSUME NEW c \in Clients, NEW a \in Addresses, Accept(c, a) PROVE Located'
  <2>1. /\ link[c].state = "unborn" /\ link' = [link EXCEPT ![c] = [state |-> "open", address |-> a]]
        /\ session' = session
    BY <1>4 DEF Accept, storeVars
  <2>2. \A d \in Clients : Made(d) => Made(d)' /\ link'[d].address = link[d].address
    BY <2>1 DEF Made, TypeOK
  <2>3. \A b \in Addresses : session[b] # NoSession => session[b].by \in Clients
    BY SessionFields
  <2> QED  BY <2>1, <2>2, <2>3 DEF Located, Made
<1>5. ASSUME NEW c \in Clients, Close(c) PROVE Located'
  <2>1. /\ link' = [link EXCEPT ![c].state = "closed"]
        /\ session' = [session EXCEPT ![link[c].address] = NoSession]
    BY <1>5 DEF Close, Forgotten
  <2>2. \A d \in Clients : Made(d) => Made(d)' /\ link'[d].address = link[d].address
    BY <2>1 DEF Made, TypeOK
  <2>3. \A b \in Addresses : session'[b] # NoSession =>
           session'[b] = session[b] /\ session[b].by \in Clients
    BY <2>1, SessionFields DEF TypeOK
  <2> QED  BY <2>2, <2>3 DEF Located, Made
<1>6. CASE ReactorStep
  BY <1>1, <1>4, <1>5, <1>6, ReactorKinds, PostMoves DEF CancelRegistration
<1>7. ASSUME NEW w \in Workers, WorkerStep(w) PROVE Located'
  BY <1>1, <1>2, <1>3, <1>7, WorkerKinds, TakeMoves, ReserveMoves, ReplyMoves, CompleteMoves
  DEF Rests, Steps
<1> QED  BY <1>6, <1>7 DEF Next

(* The entry of a registration is the one its holder made: whoever else     *)
(* would replace or erase it would have to be a holder too.                *)
LEMMA ReservedStep ==
    ASSUME TypeOK, HolderInv, Shapes, Reserved, Next
    PROVE  Reserved'
<1>1. ASSUME UNCHANGED <<session, frame, pending>> PROVE Reserved'
  BY <1>1 DEF Reserved, InSession, InWorker
<1>2. ASSUME NEW w \in Workers, UNCHANGED <<session, pending>>, Others(w),
             \A n \in Names : ~InWorker(w, n)'
      PROVE  Reserved'
  <2>1. \A a \in Addresses, n \in Names : InSession(a, n)' <=> InSession(a, n)
    BY <1>2 DEF InSession
  <2>2. \A v \in Workers \ {w}, n \in Names : InWorker(v, n)' <=> InWorker(v, n)
    BY <1>2 DEF InWorker, Others
  <2>3. \A v \in Workers \ {w} : frame'[v] = frame[v]
    BY <1>2 DEF Others
  <2>4. \A a \in Addresses, n \in Names : InSession(a, n)' => pending'[n] = <<session'[a].by, n>>
    BY <1>2, <2>1 DEF Reserved
  <2>5. \A v \in Workers \ {w}, n \in Names : InWorker(v, n)' => pending'[n] = <<frame'[v].by, n>>
    BY <1>2, <2>2, <2>3 DEF Reserved
  <2> QED  BY <1>2, <2>4, <2>5 DEF Reserved
<1>3. ASSUME NEW w \in Workers, Reserve(w) PROVE Reserved'
  <2> DEFINE n == frame[w].name
  <2>1. /\ n \in Names /\ pending[n] = None
        /\ pending' = [pending EXCEPT ![n] = <<Client(w), n>>]
        /\ frame'[w].name = n /\ frame'[w].by = Client(w)
        /\ Others(w) /\ session' = session
    BY <1>3, ReserveMoves
  <2>2. pending'[n] = <<Client(w), n>> /\ \A m \in Names \ {n} : pending'[m] = pending[m]
    BY <2>1 DEF TypeOK
  <2>3. \A a \in Addresses : ~InSession(a, n)
    BY <2>1 DEF HolderInv
  <2>4. \A v \in Workers : ~InWorker(v, n)
    BY <2>1 DEF HolderInv
  <2>5. \A a \in Addresses, m \in Names : InSession(a, m)' <=> InSession(a, m)
    BY <2>1 DEF InSession
  <2>6. \A v \in Workers \ {w}, m \in Names : InWorker(v, m)' <=> InWorker(v, m)
    BY <2>1 DEF InWorker, Others
  <2>7. \A m \in Names : InWorker(w, m)' => m = n
    BY <2>1 DEF InWorker
  <2>8. \A a \in Addresses, m \in Names :
           InSession(a, m)' => pending'[m] = <<session'[a].by, m>>
    BY <2>1, <2>2, <2>3, <2>5 DEF Reserved
  <2>9. \A v \in Workers, m \in Names :
           InWorker(v, m)' => pending'[m] = <<frame'[v].by, m>>
    BY <2>1, <2>2, <2>4, <2>6, <2>7 DEF Reserved, Others
  <2> QED  BY <2>8, <2>9 DEF Reserved
<1>4. ASSUME NEW w \in Workers, Record(w) PROVE Reserved'
  <2> DEFINE s == [operation |-> OperationOf(frame[w].req.type), name |-> frame[w].name,
                   by |-> Client(w)]
  <2>0. PICK a \in Addresses : a = Here(w)
    BY <1>4, RecordMoves
  <2>1. /\ frame[w].at = "record" /\ frame[w].req.type \in Section1Types
        /\ session' = [session EXCEPT ![a] = s]
        /\ frame'[w].at = "reply" /\ Others(w) /\ pending' = pending
    BY <1>4, <2>0, RecordMoves
  <2>2. /\ s.operation = "Register" => frame[w].req.type = "RegisterSection1"
        /\ s.name = frame[w].name /\ s.by = Client(w) /\ frame[w].by = Client(w)
    BY <2>1 DEF OperationOf, Section1Types, Shapes, Shape, Client
  <2> HIDE DEF s
  <2>3. session'[a] = s /\ \A b \in Addresses \ {a} : session'[b] = session[b]
    BY <2>1 DEF TypeOK
  <2>4. \A m \in Names : InSession(a, m)' => InWorker(w, m) /\ session'[a].by = frame[w].by
    BY <2>1, <2>2, <2>3 DEF InSession, InWorker
  <2>5. \A b \in Addresses \ {a}, m \in Names : InSession(b, m)' <=> InSession(b, m)
    BY <2>3 DEF InSession
  <2>6. \A v \in Workers \ {w}, m \in Names : InWorker(v, m)' <=> InWorker(v, m)
    BY <2>1 DEF InWorker, Others
  <2>7. \A m \in Names : ~InWorker(w, m)'
    BY <2>1 DEF InWorker
  <2>8. \A b \in Addresses, m \in Names :
           InSession(b, m)' => pending'[m] = <<session'[b].by, m>>
    BY <2>1, <2>3, <2>4, <2>5 DEF Reserved
  <2>9. \A v \in Workers, m \in Names :
           InWorker(v, m)' => pending'[m] = <<frame'[v].by, m>>
    BY <2>1, <2>6, <2>7 DEF Reserved, Others
  <2> QED  BY <2>8, <2>9 DEF Reserved
<1>5. ASSUME NEW w \in Workers, Claim(w) PROVE Reserved'
  <2>0. PICK a \in Addresses : a = Here(w)
    BY <1>5, ClaimMoves
  <2>1. /\ session' = [session EXCEPT ![a] = NoSession]
        /\ frame'[w].at \in {"complete", "compare"}
        /\ frame'[w].at = "complete" => session[a].operation = "Register"
        /\ frame'[w].name = session[a].name /\ frame'[w].by = session[a].by
        /\ Others(w) /\ pending' = pending
    BY <1>5, <2>0, ClaimMoves
  <2>2. session'[a] = NoSession /\ \A b \in Addresses \ {a} : session'[b] = session[b]
    BY <2>1 DEF TypeOK
  <2>3. \A m \in Names : ~InSession(a, m)'
    BY <2>2 DEF InSession, NoSession
  <2>4. \A b \in Addresses \ {a}, m \in Names : InSession(b, m)' <=> InSession(b, m)
    BY <2>2 DEF InSession
  <2>5. \A m \in Names : InWorker(w, m)' => InSession(a, m)
    BY <2>1 DEF InWorker, InSession
  <2>6. \A v \in Workers \ {w}, m \in Names : InWorker(v, m)' <=> InWorker(v, m)
    BY <2>1 DEF InWorker, Others
  <2>7. \A b \in Addresses, m \in Names :
           InSession(b, m)' => pending'[m] = <<session'[b].by, m>>
    BY <2>1, <2>2, <2>3, <2>4 DEF Reserved
  <2>8. \A v \in Workers, m \in Names :
           InWorker(v, m)' => pending'[m] = <<frame'[v].by, m>>
    BY <2>1, <2>5, <2>6 DEF Reserved, Others
  <2> QED  BY <2>7, <2>8 DEF Reserved
<1>6. ASSUME NEW w \in Workers, CompleteRegistration(w) PROVE Reserved'
  <2>0. PICK n \in Names : n = frame[w].name
    BY <1>6, CompleteMoves
  <2>1. /\ frame[w].at = "complete" /\ pending' = [pending EXCEPT ![n] = None]
        /\ frame'[w].at = "insert" /\ Others(w) /\ session' = session
    BY <1>6, <2>0, CompleteMoves
  <2>2. \A m \in Names \ {n} : pending'[m] = pending[m]
    BY <2>1 DEF TypeOK
  <2>3. InWorker(w, n)
    BY <2>0, <2>1 DEF InWorker
  <2>4. /\ \A a \in Addresses : ~InSession(a, n)
        /\ \A v \in Workers \ {w} : ~InWorker(v, n)
    BY <2>3 DEF HolderInv
  <2>5. \A a \in Addresses, m \in Names : InSession(a, m)' <=> InSession(a, m)
    BY <2>1 DEF InSession
  <2>6. /\ \A m \in Names : ~InWorker(w, m)'
        /\ \A v \in Workers \ {w}, m \in Names : InWorker(v, m)' <=> InWorker(v, m)
    BY <2>1 DEF InWorker, Others
  <2>7. \A b \in Addresses, m \in Names :
           InSession(b, m)' => pending'[m] = <<session'[b].by, m>>
    BY <2>1, <2>2, <2>4, <2>5 DEF Reserved
  <2>8. \A v \in Workers, m \in Names :
           InWorker(v, m)' => pending'[m] = <<frame'[v].by, m>>
    BY <2>1, <2>2, <2>4, <2>6 DEF Reserved, Others
  <2> QED  BY <2>7, <2>8 DEF Reserved
<1>7. ASSUME NEW w \in Workers, Take(w) \/ Rests(w) \/ Steps(w) \/ Reply(w) PROVE Reserved'
  <2>1. Others(w) /\ UNCHANGED <<session, pending>>
    BY <1>7, TakeMoves, ReplyMoves DEF Rests, Steps
  <2>2. \/ frame'[w].at \in {"idle", "start", "reserve", "admit"}
        \/ frame'[w].at = "record" /\ frame'[w].req.type = "LoginSection1"
    BY <1>7, TakeMoves, ReplyMoves DEF Rests, Steps, Idle
  <2>3. \A n \in Names : ~InWorker(w, n)'
    BY <2>2 DEF InWorker
  <2> QED  BY <1>2, <2>1, <2>3
<1>8. ASSUME NEW c \in Clients, Close(c) PROVE Reserved'
  <2>1. session' = [session EXCEPT ![link[c].address] = NoSession] /\ UNCHANGED <<frame, pending>>
    BY <1>8 DEF Close, Forgotten
  <2>2. \A b \in Addresses, m \in Names :
           InSession(b, m)' => InSession(b, m) /\ session'[b] = session[b]
    BY <2>1 DEF InSession, NoSession, TypeOK
  <2>3. \A v \in Workers, m \in Names : InWorker(v, m)' <=> InWorker(v, m)
    BY <2>1 DEF InWorker
  <2> QED  BY <2>1, <2>2, <2>3 DEF Reserved
<1>9. CASE CancelRegistration
  <2>1. /\ pending' = [pending EXCEPT ![reactor] = None] /\ UNCHANGED <<frame, session>>
    BY <1>9 DEF CancelRegistration
  <2>2. \A m \in Names \ {reactor} : pending'[m] = pending[m]
    BY <2>1 DEF TypeOK
  <2>3. \A b \in Addresses, m \in Names : InSession(b, m)' => InSession(b, m) /\ m # reactor
    BY <2>1 DEF InSession, HolderInv
  <2>4. \A v \in Workers, m \in Names : InWorker(v, m)' => InWorker(v, m) /\ m # reactor
    BY <2>1 DEF InWorker, HolderInv
  <2> QED  BY <2>1, <2>2, <2>3, <2>4 DEF Reserved
<1>10. CASE ReactorStep
  BY <1>1, <1>8, <1>9, <1>10, ReactorKinds, PostMoves DEF Accept, storeVars
<1>11. ASSUME NEW w \in Workers, WorkerStep(w) PROVE Reserved'
  BY <1>3, <1>4, <1>5, <1>6, <1>7, <1>11, WorkerKinds
<1> QED  BY <1>10, <1>11 DEF Next

-----------------------------------------------------------------------------
(* Who is told of a registration.                                          *)
Pays(w, c, n) == w \in Serving(c) /\ frame[w].at = "reply" /\ frame[w].setting = <<c, n>>

LEMMA RepliedStep ==
    ASSUME TypeOK, OneRequest, Shapes, Located, Replied, Replying, Next
    PROVE  Replied'
<1>1. ASSUME NEW w \in Workers, frame[w].at # "reply", Others(w), known' = known,
             \A a \in Addresses : session'[a] \in {session[a], NoSession}
      PROVE  Replied'
  <2>1. SUFFICES ASSUME NEW c \in Polite, NEW a \in Addresses, NEW n \in Names,
                        InSession(a, n)', session'[a].by = c
                 PROVE  known'[c] = <<c, n>> \/ \E v \in Workers : Pays(v, c, n)'
    BY DEF Replied, Pays, Serving
  <2>2. InSession(a, n) /\ session[a].by = c
    BY <1>1, <2>1 DEF InSession, NoSession
  <2>3. CASE known[c] = <<c, n>>
    BY <1>1, <2>3
  <2>4. ASSUME NEW v \in Serving(c), frame[v].at = "reply", frame[v].setting = <<c, n>>
        PROVE  \E u \in Workers : Pays(u, c, n)'
    <3>1. v \in Workers /\ v # w /\ frame'[v] = frame[v] /\ Client(v) = c
      BY <1>1, <2>4 DEF Serving, Others
    <3>2. Pays(v, c, n)'
      BY <2>4, <3>1 DEF Pays, Serving, Client
    <3> QED  BY <3>1, <3>2
  <2> QED  BY <2>2, <2>3, <2>4 DEF Replied
<1>2. ASSUME NEW w \in Workers, Record(w) PROVE Replied'
  <2> DEFINE s == [operation |-> OperationOf(frame[w].req.type), name |-> frame[w].name,
                   by |-> Client(w)]
  <2>0. PICK h \in Addresses : h = Here(w)
    BY <1>2, RecordMoves
  <2>1. /\ frame[w].at = "record" /\ frame[w].req.type \in Section1Types
        /\ session' = [session EXCEPT ![h] = s]
        /\ frame'[w].at = "reply" /\ frame'[w].req = frame[w].req
        /\ frame'[w].setting = frame[w].setting
        /\ Others(w) /\ known' = known
    BY <1>2, <2>0, RecordMoves
  <2>2. /\ s.operation = "Register" => frame[w].req.type = "RegisterSection1"
        /\ s.name = frame[w].name /\ s.by = Client(w)
        /\ frame[w].req.type = "RegisterSection1" =>
              frame[w].setting = <<Client(w), frame[w].name>>
    BY <2>1 DEF OperationOf, Section1Types, Shapes, Shape, Client
  <2> HIDE DEF s
  <2>3. session'[h] = s /\ \A b \in Addresses \ {h} : session'[b] = session[b]
    BY <2>1 DEF TypeOK
  <2>4. SUFFICES ASSUME NEW c \in Polite, NEW a \in Addresses, NEW n \in Names,
                        InSession(a, n)', session'[a].by = c
                 PROVE  known'[c] = <<c, n>> \/ \E v \in Workers : Pays(v, c, n)'
    BY DEF Replied, Pays, Serving
  <2>5. CASE a = h
    <3>1. c = Client(w) /\ s.operation = "Register" /\ n = frame[w].name
      BY <2>2, <2>3, <2>4, <2>5 DEF InSession
    <3>2. Pays(w, c, n)'
      BY <2>1, <2>2, <3>1 DEF Pays, Serving, Client
    <3> QED  BY <3>2
  <2>6. CASE a # h
    <3>1. InSession(a, n) /\ session[a].by = c
      BY <2>3, <2>4, <2>6 DEF InSession
    <3>2. ASSUME NEW v \in Serving(c), frame[v].at = "reply", frame[v].setting = <<c, n>>
          PROVE  Pays(v, c, n)' /\ v \in Workers
      <4>1. v \in Workers /\ v # w /\ frame'[v] = frame[v] /\ Client(v) = c
        BY <2>1, <3>2 DEF Serving, Others
      <4> QED  BY <3>2, <4>1 DEF Pays, Serving, Client
    <3> QED  BY <2>1, <3>1, <3>2 DEF Replied
  <2> QED  BY <2>5, <2>6
<1>3. ASSUME NEW w \in Workers, Reply(w) PROVE Replied'
  <2>1. /\ frame[w].at = "reply" /\ Client(w) \in Clients
        /\ known' = [known EXCEPT ![Client(w)] = frame[w].setting]
        /\ Others(w) /\ session' = session
    BY <1>3, ReplyMoves
  <2>2. SUFFICES ASSUME NEW c \in Polite, NEW a \in Addresses, NEW n \in Names,
                        InSession(a, n)', session'[a].by = c
                 PROVE  known'[c] = <<c, n>> \/ \E v \in Workers : Pays(v, c, n)'
    BY DEF Replied, Pays, Serving
  <2>3. InSession(a, n) /\ session[a].by = c
    BY <2>1, <2>2 DEF InSession
  <2>4. CASE c = Client(w)
    <3>1. frame[w].setting = <<c, n>>
      BY <2>1, <2>3, <2>4 DEF Replying
    <3>2. known'[c] = frame[w].setting
      BY <2>1, <2>4 DEF TypeOK
    <3> QED  BY <3>1, <3>2
  <2>5. CASE c # Client(w)
    <3>1. known'[c] = known[c]
      BY <2>1, <2>5 DEF TypeOK
    <3>2. ASSUME NEW v \in Serving(c), frame[v].at = "reply", frame[v].setting = <<c, n>>
          PROVE  Pays(v, c, n)' /\ v \in Workers
      <4>1. v \in Workers /\ v # w /\ frame'[v] = frame[v] /\ Client(v) = c
        BY <2>1, <2>5, <3>2 DEF Serving, Others
      <4> QED  BY <3>2, <4>1 DEF Pays, Serving, Client
    <3> QED  BY <2>3, <3>1, <3>2 DEF Replied
  <2> QED  BY <2>4, <2>5
<1>4. ASSUME UNCHANGED <<frame, known>>,
             \A a \in Addresses : session'[a] \in {session[a], NoSession}
      PROVE  Replied'
  <2>1. \A a \in Addresses, n \in Names : InSession(a, n)' => InSession(a, n) /\ session'[a] = session[a]
    BY <1>4 DEF InSession, NoSession
  <2> QED  BY <1>4, <2>1 DEF Replied, Serving, Client
<1>5. ASSUME NEW c \in Clients, Close(c)
      PROVE  /\ UNCHANGED <<frame, known>>
             /\ \A a \in Addresses : session'[a] \in {session[a], NoSession}
  BY <1>5 DEF Close, Forgotten, TypeOK
<1>6. CASE ReactorStep
  BY <1>4, <1>5, <1>6, ReactorKinds, PostMoves DEF Accept, CancelRegistration, storeVars
<1>7. ASSUME NEW w \in Workers, Claim(w) PROVE Replied'
  <2>1. /\ frame[w].at = "start" /\ session' = [session EXCEPT ![Here(w)] = NoSession]
        /\ Others(w) /\ known' = known
    BY <1>7, ClaimMoves
  <2>2. \A a \in Addresses : session'[a] \in {session[a], NoSession}
    BY <2>1 DEF TypeOK
  <2> QED  BY <1>1, <2>1, <2>2
<1>8. ASSUME NEW w \in Workers,
             Take(w) \/ Rests(w) \/ Steps(w) \/ Reserve(w) \/ CompleteRegistration(w)
      PROVE  Replied'
  <2>1. frame[w].at # "reply" /\ Others(w) /\ known' = known /\ session' = session
    BY <1>8, TakeMoves, ReserveMoves, CompleteMoves DEF Rests, Steps
  <2> QED  BY <1>1, <2>1
<1>9. ASSUME NEW w \in Workers, WorkerStep(w) PROVE Replied'
  BY <1>2, <1>3, <1>7, <1>8, <1>9, WorkerKinds
<1> QED  BY <1>6, <1>9 DEF Next

LEMMA ReplyingStep ==
    ASSUME TypeOK, OneRequest, Shapes, Located, Replying, Next
    PROVE  Replying'
<1>1. ASSUME \A w \in Workers : frame'[w].at = "reply" => frame'[w] = frame[w],
             \A a \in Addresses : session'[a] \in {session[a], NoSession}
      PROVE  Replying'
  <2>1. \A a \in Addresses, n \in Names :
           InSession(a, n)' => InSession(a, n) /\ session'[a] = session[a]
    BY <1>1 DEF InSession, NoSession
  <2> QED  BY <1>1, <2>1 DEF Replying, Client
<1>2. ASSUME NEW w \in Workers, Record(w) PROVE Replying'
  <2> DEFINE s == [operation |-> OperationOf(frame[w].req.type), name |-> frame[w].name,
                   by |-> Client(w)]
  <2>0. PICK h \in Addresses : h = Here(w)
    BY <1>2, RecordMoves
  <2>1. /\ frame[w].at = "record" /\ frame[w].req.type \in Section1Types
        /\ session' = [session EXCEPT ![h] = s]
        /\ frame'[w].at = "reply" /\ frame'[w].req = frame[w].req
        /\ frame'[w].setting = frame[w].setting
        /\ Others(w)
    BY <1>2, <2>0, RecordMoves
  <2>2. /\ s.operation = "Register" => frame[w].req.type = "RegisterSection1"
        /\ s.name = frame[w].name /\ s.by = Client(w)
        /\ frame[w].req.type = "RegisterSection1" =>
              frame[w].setting = <<Client(w), frame[w].name>>
    BY <2>1 DEF OperationOf, Section1Types, Shapes, Shape, Client
  <2> HIDE DEF s
  <2>3. session'[h] = s /\ \A b \in Addresses \ {h} : session'[b] = session[b]
    BY <2>1 DEF TypeOK
  <2>4. SUFFICES ASSUME NEW v \in Workers, NEW a \in Addresses, NEW n \in Names,
                        frame'[v].at = "reply", frame'[v].req.from \in Polite,
                        session'[a].by = frame'[v].req.from, InSession(a, n)'
                 PROVE  frame'[v].setting = <<frame'[v].req.from, n>>
    BY DEF Replying, Client
  <2>5. CASE a = h /\ v = w
    BY <2>1, <2>2, <2>3, <2>4, <2>5 DEF InSession, Client
  <2>6. CASE a = h /\ v # w
    <3>1. /\ frame'[v] = frame[v] /\ Client(v) \in Polite /\ Client(v) = Client(w)
          /\ frame[v].at = "reply"
      BY <2>1, <2>2, <2>3, <2>4, <2>6 DEF Client, Others
    <3>2. v \in Serving(Client(w)) /\ w \in Serving(Client(w))
      BY <2>1, <3>1 DEF Serving
    <3> QED  BY <2>6, <3>1, <3>2 DEF OneRequest
  <2>7. CASE a # h /\ v = w
    <3>1. session[a].by = Client(w) /\ session[a] # NoSession
      BY <2>1, <2>3, <2>4, <2>7 DEF Client, InSession, NoSession
    <3>2. a = h
      BY <2>0, <3>1 DEF Located, Here
    <3> QED  BY <2>7, <3>2
  <2>8. CASE a # h /\ v # w
    <3>1. frame'[v] = frame[v] /\ session'[a] = session[a]
      BY <2>1, <2>3, <2>8 DEF Others
    <3> QED  BY <2>4, <3>1 DEF Replying, InSession, Client
  <2> QED  BY <2>5, <2>6, <2>7, <2>8
<1>3. ASSUME NEW c \in Clients, Close(c)
      PROVE  /\ frame' = frame
             /\ \A a \in Addresses : session'[a] \in {session[a], NoSession}
  BY <1>3 DEF Close, Forgotten, TypeOK
<1>4. CASE ReactorStep
  BY <1>1, <1>3, <1>4, ReactorKinds, PostMoves DEF Accept, CancelRegistration, storeVars
<1>5. ASSUME NEW w \in Workers, Claim(w) PROVE Replying'
  <2>1. /\ session' = [session EXCEPT ![Here(w)] = NoSession]
        /\ Others(w) /\ frame'[w].at # "reply"
    BY <1>5, ClaimMoves
  <2>2. \A a \in Addresses : session'[a] \in {session[a], NoSession}
    BY <2>1 DEF TypeOK
  <2> QED  BY <1>1, <2>1, <2>2 DEF Others
<1>6. ASSUME NEW w \in Workers, Take(w) \/ Rests(w) \/ Steps(w) \/ Reserve(w) \/ Reply(w)
                                \/ CompleteRegistration(w)
      PROVE  Replying'
  <2>1. Others(w) /\ session' = session /\ frame'[w].at # "reply"
    BY <1>6, TakeMoves, ReserveMoves, ReplyMoves, CompleteMoves DEF Rests, Steps, Idle
  <2> QED  BY <1>1, <2>1 DEF Others
<1>7. ASSUME NEW w \in Workers, WorkerStep(w) PROVE Replying'
  BY <1>2, <1>5, <1>6, <1>7, WorkerKinds
<1> QED  BY <1>4, <1>7 DEF Next

(* A registration completed by the client that began it.                   *)
LEMMA CompletingStep ==
    ASSUME TypeOK, OneRequest, Fresh, Shapes, Reserved, Replied, Completing, Next
    PROVE  Completing'
<1> DEFINE Done(w) ==
        /\ frame[w].at = "complete" /\ Own(w) => known[Client(w)] = <<Client(w), frame[w].name>>
        /\ frame[w].at = "insert" /\ Own(w) => frame[w].req.salt = frame[w].setting
<1>1. ASSUME NEW v \in Workers, frame'[v] = frame[v], known' = known PROVE Done(v)'
  BY <1>1 DEF Completing, Own, Client
<1>2. ASSUME NEW v \in Workers, frame'[v].at \notin {"complete", "insert"} PROVE Done(v)'
  BY <1>2
<1>3. ASSUME NEW w \in Workers, Claim(w) PROVE Done(w)'
  <2>0. PICK a \in Addresses : a = Here(w)
    BY <1>3, ClaimMoves
  <2>1. /\ frame[w].at = "start" /\ session[a].name = frame'[w].name
        /\ session[a].by = frame'[w].by
        /\ frame'[w].at \in {"complete", "compare"} /\ frame'[w].req = frame[w].req
        /\ frame'[w].at = "complete" => session[a].operation = "Register"
        /\ known' = known
    BY <1>3, <2>0, ClaimMoves
  <2>2. ASSUME frame'[w].at = "complete", Own(w)'
        PROVE  known'[Client(w)'] = <<Client(w)', frame'[w].name>>
    <3>1. Client(w)' = Client(w) /\ Client(w) \in Polite /\ session[a].by = Client(w)
      BY <2>1, <2>2 DEF Own, Client
    <3>2. session[a].name \in Names
      BY <2>1, <2>2 DEF TypeOK, Session, NoSession
    <3>3. InSession(a, session[a].name)
      BY <2>1, <2>2 DEF InSession
    <3>4. w \in Serving(Client(w))
      BY <2>1 DEF Serving
    <3>5. ~\E v \in Serving(Client(w)) : frame[v].at = "reply"
      BY <2>1, <3>1, <3>4 DEF OneRequest
    <3>6. known[Client(w)] = <<Client(w), session[a].name>>
      BY <3>1, <3>2, <3>3, <3>5 DEF Replied
    <3> QED  BY <2>1, <3>1, <3>6
  <2> QED  BY <2>1, <2>2
<1>4. ASSUME NEW w \in Workers, CompleteRegistration(w) PROVE Done(w)'
  <2>0. PICK n \in Names : n = frame[w].name
    BY <1>4, CompleteMoves
  <2>1. /\ frame[w].at = "complete" /\ frame[w].req.salt # None
        /\ frame'[w].at = "insert" /\ frame'[w].req = frame[w].req
        /\ frame'[w].setting = pending[n] /\ frame'[w].by = frame[w].by
    BY <1>4, <2>0, CompleteMoves
  <2>2. ASSUME Own(w)' PROVE frame'[w].req.salt = frame'[w].setting
    <3>1. Own(w) /\ frame[w].req.from = Client(w)
      BY <2>1, <2>2 DEF Own, Client
    <3>2. known[Client(w)] = <<Client(w), n>>
      BY <2>0, <2>1, <3>1 DEF Completing
    <3>3. pending[n] = <<Client(w), n>>
      BY <2>0, <2>1, <3>1 DEF Reserved, InWorker, Own
    <3>4. frame[w].req.salt \in {known[Client(w)], None}
      <4>1. Digests(frame[w].req) /\ frame[w].req.type \in Section2Types
        BY <2>1 DEF Fresh, Shapes, Shape
      <4> QED  BY <3>1, <4>1 DEF Digests, Own
    <3> QED  BY <2>1, <3>2, <3>3, <3>4
  <2> QED  BY <2>1, <2>2
<1>5. ASSUME NEW w \in Workers, Reply(w), NEW v \in Workers PROVE Done(v)'
  <2>1. /\ frame[w].at = "reply" /\ Client(w) \in Clients
        /\ known' = [known EXCEPT ![Client(w)] = frame[w].setting]
        /\ frame'[w].at = "idle" /\ Others(w)
    BY <1>5, ReplyMoves DEF Idle
  <2>2. CASE v = w
    BY <1>2, <2>1, <2>2
  <2>3. CASE v # w
    <3>1. frame'[v] = frame[v] /\ Client(v)' = Client(v) /\ (Own(v)' <=> Own(v))
      BY <2>1, <2>3 DEF Others, Client, Own
    <3>2. ASSUME frame[v].at = "complete", Own(v)
          PROVE  known'[Client(v)] = known[Client(v)]
      <4>1. Client(v) # Client(w)
        BY <2>1, <2>3, <3>2 DEF OneRequest, Serving, Own
      <4> QED  BY <2>1, <4>1 DEF TypeOK
    <3> QED  BY <3>1, <3>2 DEF Completing
  <2> QED  BY <2>2, <2>3
<1>6. ASSUME NEW w \in Workers, NEW v \in Workers,
             Take(w) \/ Rests(w) \/ Steps(w) \/ Reserve(w) \/ Record(w)
      PROVE  Done(v)'
  <2>1. Others(w) /\ known' = known /\ frame'[w].at \notin {"complete", "insert"}
    BY <1>6, TakeMoves, ReserveMoves, RecordMoves DEF Rests, Steps, Idle
  <2> HIDE DEF Done
  <2> QED  BY <1>1, <1>2, <2>1 DEF Others
<1>7. ASSUME NEW w \in Workers, NEW v \in Workers, Claim(w) \/ CompleteRegistration(w)
      PROVE  Done(v)'
  <2>1. Others(w) /\ known' = known
    BY <1>7, ClaimMoves, CompleteMoves
  <2> HIDE DEF Done
  <2> QED  BY <1>1, <1>3, <1>4, <1>7, <2>1 DEF Others
<1>8. ASSUME ReactorStep, NEW v \in Workers PROVE Done(v)'
  <2>1. frame' = frame /\ known' = known
    BY <1>8, ReactorKinds, PostMoves DEF Accept, Close, CancelRegistration, storeVars
  <2> HIDE DEF Done
  <2> QED  BY <1>1, <2>1
<1>9. \A v \in Workers : Done(v)'
  <2> HIDE DEF Done
  <2> QED  BY <1>5, <1>6, <1>7, <1>8, WorkerKinds DEF Next
<1> QED  BY <1>9 DEF Completing

LEMMA DigestStep ==
    ASSUME TypeOK, Completing, DigestMatchesSetting, Next
    PROVE  DigestMatchesSetting'
<1>1. ASSUME users' = users PROVE DigestMatchesSetting'
  BY <1>1 DEF DigestMatchesSetting
<1>2. ASSUME NEW w \in Workers, Insert(w) PROVE DigestMatchesSetting'
  <2> DEFINE n == frame[w].name
             new == [setting |-> frame[w].setting, digest |-> frame[w].req.salt,
                     own |-> frame[w].by = Client(w) /\ Client(w) \in Polite]
  <2>1. /\ frame[w].at = "insert"
        /\ users' = [users EXCEPT ![n] = Inserted(@, new)]
    BY <1>2 DEF Insert
  <2>2. new.own => new.digest = new.setting
    BY <2>1 DEF Completing, Own
  <2> HIDE DEF new
  <2>3. \A m \in Names : users'[m] \in {users[m], new}
    BY <2>1 DEF TypeOK, Inserted
  <2> QED  BY <2>2, <2>3 DEF DigestMatchesSetting
<1>3. ASSUME NEW w \in Workers, WorkerStep(w), ~Insert(w) PROVE users' = users
  BY <1>3 DEF WorkerStep, Take, BeginRegistration, Reserve, ReserveRefused, BeginLogin,
              Record, Reply, Claim, StageMismatch, CompletionRefused, CompleteRegistration,
              FinishLogin, Admit, RepositoryThrows, storeVars
<1>4. ReactorStep => users' = users
  BY DEF ReactorStep, Receive, Section1, Section2, Post, Close, Accept, CancelRegistration,
         storeVars
<1> QED  BY <1>1, <1>2, <1>3, <1>4 DEF Next

(* A client that waits for each reply and completes the registration it     *)
(* began is stored with the setting that its digest was made with: whatever *)
(* the others pipeline, close or register meanwhile, the entry it reserved, *)
(* the setting it was told and the digest it sent belong together.          *)
THEOREM DigestsMatch == Spec => []DigestMatchesSetting
<1>1. Init => DInv
  <2> SUFFICES ASSUME Init PROVE DInv
    OBVIOUS
  <2>1. queue = <<>> /\ \A w \in Workers : frame[w] = Idle
    BY DEF Init
  <2>2. Idle.at = "idle"
    BY DEF Idle
  <2>3. OneRequest /\ Fresh /\ Shapes /\ Completing /\ Replying
    BY <2>1, <2>2 DEF OneRequest, Fresh, Shapes, Shape, Completing, Replying, Queued, Serving
  <2>4. \A a \in Addresses : session[a] = NoSession /\ session[a].operation = "none"
    BY DEF Init, NoSession
  <2>5. Located /\ Replied /\ Reserved
    BY <2>1, <2>2, <2>4 DEF Located, Replied, Reserved, InSession, InWorker
  <2>6. DigestMatchesSetting
    BY DEF Init, NoUser, DigestMatchesSetting
  <2> QED  BY <2>3, <2>5, <2>6 DEF DInv
<1>2. DInv /\ UNCHANGED vars => DInv'
  <2> SUFFICES ASSUME DInv, UNCHANGED vars PROVE DInv'
    OBVIOUS
  <2>1. UNCHANGED <<link, known, queue, frame, session, pending, users>>
    BY DEF vars
  <2>2. \A c : Queued(c)' = Queued(c) /\ Serving(c)' = Serving(c)
    BY <2>1 DEF Queued, Serving, Client
  <2>3. OneRequest' /\ Fresh' /\ Shapes'
    BY <2>1, <2>2 DEF DInv, OneRequest, Fresh, Digests, Shapes
  <2>4. Located' /\ Reserved' /\ Replied'
    BY <2>1, <2>2 DEF DInv, Located, Made, Reserved, Replied, InSession, InWorker
  <2>5. Replying' /\ Completing' /\ DigestMatchesSetting'
    BY <2>1 DEF DInv, Replying, Completing, Own, DigestMatchesSetting, InSession, Client
  <2> QED  BY <2>3, <2>4, <2>5 DEF DInv
<1>3. TypeOK /\ HolderInv /\ DInv /\ [Next]_vars => DInv'
  BY <1>2, OneRequestStep, FreshStep, ShapesStep, LocatedStep, ReservedStep, RepliedStep,
     ReplyingStep, CompletingStep, DigestStep
  DEF DInv
<1>4. DInv => DigestMatchesSetting
  BY DEF DInv
<1> QED  BY <1>1, <1>3, <1>4, TypeCorrect, HolderInvariant, PTL DEF Spec
=============================================================================
