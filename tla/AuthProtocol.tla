--------------------------- MODULE AuthProtocol ----------------------------
(***************************************************************************)
(* smart_home::AuthProtocolHandler over AuthService and a UserRepository:  *)
(* two-stage registration and login, executed by the workers of TcpServer  *)
(* while its reactor thread accepts and removes connections.  Each         *)
(* critical section and each repository call is a step of its own.         *)
(*                                                                         *)
(* A TcpConnection is named by its client and lives at an address, the key *)
(* of pending_ and authenticated_; an address is used again once nothing   *)
(* refers to the connection that was there.  User names are valid ones; a  *)
(* digest is the salt it was made with.  The queue is the service that     *)
(* ThreadPool implements (TaskService).                                    *)
(***************************************************************************)
EXTENDS Naturals, Sequences, FiniteSets

CONSTANTS
    Clients,     \* TCP connections, each made once
    Addresses,   \* where TcpConnection objects can be
    Names,       \* user names
    Workers,     \* threads of the pool
    QueueLimit,  \* max_tasks
    Pipeline,    \* requests a client sends before it waits for replies
    Polite,      \* the clients that wait for each reply, as the Qt client does
    None         \* no name, no address, no salt, no user

ASSUME Limits == QueueLimit \in Nat \ {0} /\ Pipeline \in Nat \ {0}
ASSUME FiniteWorkers == IsFiniteSet(Workers)

(* generate_setting(): a salt no other Section1 was given.                 *)
Settings == Clients \X Names

ASSUME NoneIsNothing == None \notin Clients \cup Addresses \cup Names \cup Settings

VARIABLES
    link,           \* of each client: its connection and address
    known,          \* the salt each client received last
    queue,          \* requests posted to the pool
    frame,          \* what each worker is executing
    reactor,        \* the name close_handler is about to cancel, or None
    session,        \* pending_: what Section1 left for an address
    authenticated,  \* authenticated_: the client that logged in, or None
    pending,        \* pending_registrations_: name -> setting
    users           \* the user repository

vars == <<link, known, queue, frame, reactor, session, authenticated, pending, users>>
reactorVars == <<link, reactor>>
storeVars == <<session, authenticated, pending, users>>

Operations == {"Register", "Login"}
Section1Types == {"RegisterSection1", "LoginSection1"}
Section2Types == {"RegisterSection2", "LoginSection2"}
OperationOf(t) == IF t \in {"RegisterSection1", "RegisterSection2"} THEN "Register" ELSE "Login"

(* The text of a Section1 is a name. That of a Section2 is a digest: the   *)
(* salt it was made with, or None when it is empty, too long or wrong.     *)
Request ==
    [from : Clients, type : Section1Types, name : Names, salt : {None}]
    \cup [from : Clients, type : Section2Types, name : {None}, salt : Settings \cup {None}]

(* by is not in the code: it records whose Section1 made the entry.        *)
NoSession == [operation |-> "none", name |-> None, by |-> None]
Session == [operation : Operations, name : Names, by : Clients]

NoUser == [setting |-> None, digest |-> None, own |-> FALSE]
NoRequest == [from |-> None, type |-> "none", name |-> None, salt |-> None]
Idle == [at |-> "idle", req |-> NoRequest, name |-> None, setting |-> None, by |-> None]

Frame(at, w, name, setting, by) ==
    [at |-> at, req |-> frame[w].req, name |-> name, setting |-> setting, by |-> by]

Client(w) == frame[w].req.from
Here(w) == link[Client(w)].address
Executes(w, at, types) == frame[w].at = at /\ frame[w].req.type \in types
Becomes(w, f) == frame' = [frame EXCEPT ![w] = f]

(* shared_ptr: connections_, tasks and handlers keep a connection alive.   *)
Queued(c) == {i \in DOMAIN queue : queue[i].from = c}
Serving(c) == {w \in Workers : frame[w].at # "idle" /\ Client(w) = c}
Window(c) == IF c \in Polite THEN 1 ELSE Pipeline
Alive(c) == link[c].state = "open" \/ Queued(c) # {} \/ Serving(c) # {}

Init ==
    /\ link = [c \in Clients |-> [state |-> "unborn", address |-> None]]
    /\ known = [c \in Clients |-> None]
    /\ queue = <<>>
    /\ frame = [w \in Workers |-> Idle]
    /\ reactor = None
    /\ session = [a \in Addresses |-> NoSession]
    /\ authenticated = [a \in Addresses |-> None]
    /\ pending = [n \in Names |-> None]
    /\ users = [n \in Names |-> NoUser]

-----------------------------------------------------------------------------
(* The reactor thread. accept_ready(): new puts the connection somewhere.  *)
Accept(c, a) ==
    /\ reactor = None
    /\ link[c].state = "unborn"
    /\ \A d \in Clients : link[d].address = a => ~Alive(d)
    /\ link' = [link EXCEPT ![c] = [state |-> "open", address |-> a]]
    /\ UNCHANGED <<known, queue, frame, reactor, storeVars>>

(* connection_ready(): a packet becomes a task. When the queue is full the *)
(* client is told so and nothing changes.                                  *)
Post(r) ==
    /\ reactor = None
    /\ link[r.from].state = "open"
    /\ Cardinality(Queued(r.from)) + Cardinality(Serving(r.from)) < Window(r.from)
    /\ Len(queue) < QueueLimit
    /\ queue' = Append(queue, r)
    /\ UNCHANGED <<known, frame, reactorVars, storeVars>>

Section1(c, t, n) == Post([from |-> c, type |-> t, name |-> n, salt |-> None])
Section2(c, t, s) == Post([from |-> c, type |-> t, name |-> None, salt |-> s])

Receive(c) ==
    \/ \E n \in Names, t \in Section1Types : Section1(c, t, n)
    \/ \E s \in {known[c], None}, t \in Section2Types : Section2(c, t, s)

(* remove_connection() and the first half of connection_closed().          *)
ForgottenBug(s) == s                            \* pending_.erase forgotten
Forgotten(s) == NoSession

CancelledName(s) == IF s.operation = "Register" THEN s.name ELSE None

Close(c) ==
    LET a == link[c].address
    IN  /\ reactor = None
        /\ link[c].state = "open"
        /\ link' = [link EXCEPT ![c].state = "closed"]
        /\ reactor' = CancelledName(session[a])
        /\ session' = [session EXCEPT ![a] = Forgotten(@)]
        /\ authenticated' = [authenticated EXCEPT ![a] = None]
        /\ UNCHANGED <<known, queue, frame, pending, users>>

(* cancel_registration(), after the handler's mutex is released.           *)
CancelRegistration ==
    /\ reactor # None
    /\ pending' = [pending EXCEPT ![reactor] = None]
    /\ reactor' = None
    /\ UNCHANGED <<link, known, queue, frame, session, authenticated, users>>

-----------------------------------------------------------------------------
(* A worker takes the next task.                                           *)
Take(w) ==
    /\ frame[w].at = "idle"
    /\ queue # <<>>
    /\ Becomes(w, [Idle EXCEPT !.at = "start", !.req = Head(queue)])
    /\ queue' = Tail(queue)
    /\ UNCHANGED <<known, reactorVars, storeVars>>

(* begin_registration(): users_.find() comes before mutex_ is taken.       *)
BeginRegistration(w) ==
    LET n == frame[w].req.name
    IN  /\ Executes(w, "start", {"RegisterSection1"})
        /\ Becomes(w, IF users[n] = NoUser THEN Frame("reserve", w, n, None, Client(w)) ELSE Idle)
        /\ UNCHANGED <<known, queue, reactorVars, storeVars>>

InProgressBug(n) == FALSE                       \* the test of the map dropped
InProgress(n) == pending[n] # None

Reserve(w) ==
    LET n == frame[w].name
        s == <<Client(w), n>>
    IN  /\ frame[w].at = "reserve"
        /\ ~InProgress(n)
        /\ pending' = [pending EXCEPT ![n] = s]
        /\ Becomes(w, Frame("record", w, n, s, Client(w)))
        /\ UNCHANGED <<known, queue, reactorVars, session, authenticated, users>>

ReserveRefused(w) ==
    /\ frame[w].at = "reserve"
    /\ InProgress(frame[w].name)
    /\ Becomes(w, Idle)
    /\ UNCHANGED <<known, queue, reactorVars, storeVars>>

(* begin_login(): the stored setting, or an error.                         *)
BeginLogin(w) ==
    LET n == frame[w].req.name
    IN  /\ Executes(w, "start", {"LoginSection1"})
        /\ Becomes(w, IF users[n] = NoUser THEN Idle
                      ELSE Frame("record", w, n, users[n].setting, Client(w)))
        /\ UNCHANGED <<known, queue, reactorVars, storeVars>>

(* begin(): pending_[connection.get()] = session, whatever was there ...   *)
Record(w) ==
    /\ frame[w].at = "record"
    /\ session' = [session EXCEPT ![Here(w)] =
            [operation |-> OperationOf(frame[w].req.type), name |-> frame[w].name,
             by |-> Client(w)]]
    /\ Becomes(w, [frame[w] EXCEPT !.at = "reply"])
    /\ UNCHANGED <<known, queue, reactorVars, authenticated, pending, users>>

(* ... and the setting is sent to the client.                              *)
Reply(w) ==
    /\ frame[w].at = "reply"
    /\ known' = [known EXCEPT ![Client(w)] = frame[w].setting]
    /\ Becomes(w, Idle)
    /\ UNCHANGED <<queue, reactorVars, storeVars>>

(* finish(): the session of the address is taken if it has the operation.  *)
MatchesBug(s, op) == TRUE                       \* the end() test dropped
Matches(s, op) == s.operation = op

Claim(w) ==
    LET s == session[Here(w)]
        op == OperationOf(frame[w].req.type)
    IN  /\ Executes(w, "start", Section2Types)
        /\ Matches(s, op)
        /\ session' = [session EXCEPT ![Here(w)] = NoSession]
        /\ Becomes(w, Frame(IF op = "Register" THEN "complete" ELSE "compare",
                            w, s.name, None, s.by))
        /\ UNCHANGED <<known, queue, reactorVars, authenticated, pending, users>>

StageMismatch(w) ==
    /\ Executes(w, "start", Section2Types)
    /\ ~Matches(session[Here(w)], OperationOf(frame[w].req.type))
    /\ Becomes(w, Idle)
    /\ UNCHANGED <<known, queue, reactorVars, storeVars>>

(* finish_registration() refuses a digest that is unusable, which leaves   *)
(* the name reserved, and a registration that was not started.             *)
CompletionRefused(w) ==
    /\ frame[w].at = "complete"
    /\ frame[w].req.salt = None \/ pending[frame[w].name] = None
    /\ Becomes(w, Idle)
    /\ UNCHANGED <<known, queue, reactorVars, storeVars>>

CompleteRegistration(w) ==
    LET n == frame[w].name
    IN  /\ frame[w].at = "complete"
        /\ frame[w].req.salt # None
        /\ pending[n] # None
        /\ pending' = [pending EXCEPT ![n] = None]
        /\ Becomes(w, Frame("insert", w, n, pending[n], frame[w].by))
        /\ UNCHANGED <<known, queue, reactorVars, session, authenticated, users>>

(* users_.insert(): false, and nothing stored, for a name that exists.     *)
InsertedBug(old, new) == new                    \* users_[name] = user
Inserted(old, new) == IF old = NoUser THEN new ELSE old

Insert(w) ==
    /\ frame[w].at = "insert"
    /\ users' = [users EXCEPT ![frame[w].name] =
            Inserted(@, [setting |-> frame[w].setting, digest |-> frame[w].req.salt,
                         own |-> frame[w].by = Client(w) /\ Client(w) \in Polite])]
    /\ Becomes(w, Idle)
    /\ UNCHANGED <<known, queue, reactorVars, session, authenticated, pending>>

(* finish_login(): find and compare, then authenticated_ is set.           *)
Correct(w) == users[frame[w].name] # NoUser /\ users[frame[w].name].digest = frame[w].req.salt

FinishLogin(w) ==
    /\ frame[w].at = "compare"
    /\ Becomes(w, IF Correct(w) THEN [frame[w] EXCEPT !.at = "admit"] ELSE Idle)
    /\ UNCHANGED <<known, queue, reactorVars, storeVars>>

Admit(w) ==
    /\ frame[w].at = "admit"
    /\ authenticated' = [authenticated EXCEPT ![Here(w)] = Client(w)]
    /\ Becomes(w, Idle)
    /\ UNCHANGED <<known, queue, reactorVars, session, pending, users>>

(* find() and insert() of MysqlUserRepository throw: the task is dropped.  *)
RepositoryThrows(w) ==
    /\ \/ Executes(w, "start", Section1Types)
       \/ frame[w].at \in {"insert", "compare"}
    /\ Becomes(w, Idle)
    /\ UNCHANGED <<known, queue, reactorVars, storeVars>>

-----------------------------------------------------------------------------
ReactorStep ==
    \/ \E c \in Clients : Receive(c) \/ Close(c) \/ \E a \in Addresses : Accept(c, a)
    \/ CancelRegistration

WorkerStep(w) ==
    \/ Take(w)
    \/ BeginRegistration(w) \/ Reserve(w) \/ ReserveRefused(w) \/ BeginLogin(w)
    \/ Record(w) \/ Reply(w)
    \/ Claim(w) \/ StageMismatch(w) \/ CompletionRefused(w) \/ CompleteRegistration(w)
    \/ Insert(w) \/ FinishLogin(w) \/ Admit(w)
    \/ RepositoryThrows(w)

Next == ReactorStep \/ \E w \in Workers : WorkerStep(w)

Spec == Init /\ [][Next]_vars

-----------------------------------------------------------------------------
Points == {"idle", "start", "reserve", "record", "reply", "complete", "insert",
           "compare", "admit"}

FrameType == [at : Points, req : Request \cup {NoRequest}, name : Names \cup {None},
              setting : Settings \cup {None}, by : Clients \cup {None}]
UserType == [setting : Settings \cup {None}, digest : Settings \cup {None}, own : BOOLEAN]

(* What a worker that is past a point of its handler has in its frame.     *)
FrameOK(f) ==
    /\ f.at # "idle" => f.req \in Request
    /\ f.at \notin {"idle", "start"} => f.name \in Names /\ f.by \in Clients
    /\ f.at \in {"record", "reply", "insert"} => f.setting \in Settings
    /\ f.at = "reserve" => f.req.type = "RegisterSection1"
    /\ f.at = "record" => f.req.type \in Section1Types

(* Requests come from connections that have been made.                     *)
Made(c) == link[c].state # "unborn"

TypeOK ==
    /\ link \in [Clients -> [state : {"unborn", "open", "closed"},
                             address : Addresses \cup {None}]]
    /\ \A c \in Clients : Made(c) => link[c].address \in Addresses
    /\ known \in [Clients -> Settings \cup {None}]
    /\ queue \in Seq(Request) /\ Len(queue) <= QueueLimit
    /\ \A i \in 1..Len(queue) : Made(queue[i].from)
    /\ frame \in [Workers -> FrameType]
    /\ \A w \in Workers : FrameOK(frame[w]) /\ (frame[w].at # "idle" => Made(Client(w)))
    /\ reactor \in Names \cup {None}
    /\ session \in [Addresses -> Session \cup {NoSession}]
    /\ authenticated \in [Addresses -> Clients \cup {None}]
    /\ pending \in [Names -> Settings \cup {None}]
    /\ users \in [Names -> UserType]
    /\ \A n \in Names : users[n] # NoUser => users[n].setting \in Settings

(* Who may still complete or cancel the registration of a name: a session, *)
(* a worker between Section1 and its session or between a session and      *)
(* finish_registration(), and the reactor on its way to cancel.            *)
Holders(n) ==
    {<<"session", a>> : a \in {b \in Addresses : CancelledName(session[b]) = n}}
    \cup {<<"worker", w>> : w \in {v \in Workers : frame[v].name = n /\
            (frame[v].at = "complete" \/ Executes(v, "record", {"RegisterSection1"}))}}
    \cup {<<"reactor", a>> : a \in {b \in {reactor} : b = n}}

(* A registration in progress has at most one holder, and whoever holds    *)
(* one has its entry in pending_registrations_: nobody completes or        *)
(* cancels the registration another client began, and the handler never    *)
(* hears that a registration it held "was not started".                    *)
OneHolder ==
    \A n \in Names :
        /\ \A g, h \in Holders(n) : g = h
        /\ Holders(n) # {} => pending[n] # None

(* A user record never changes once it is there, although begin looks for  *)
(* the user before it takes the lock.                                      *)
UsersAreKept ==
    [][\A n \in Names : users[n] # NoUser => users'[n] = users[n]]_vars

(* A client that begins and completes a registration, waiting for each     *)
(* reply, is stored with the setting its digest was made with and can log  *)
(* in, whatever the clients that do not wait have sent meanwhile.          *)
DigestMatchesSetting ==
    \A n \in Names : users[n].own => users[n].digest = users[n].setting

(* A session or a login belongs to the connection that made it             *)
(* (README.md:73-75).                                                      *)
SessionStaysWithConnection ==
    \A c \in Clients : link[c].state = "open" =>
        /\ session[link[c].address].by \in {c, None}
        /\ authenticated[link[c].address] \in {c, None}

(* Once every client has gone and every task is done, no registration is   *)
(* left in progress (README.md:74).                                        *)
DisconnectCleansUp ==
    (\A c \in Clients : ~Alive(c)) /\ reactor = None => \A n \in Names : pending[n] = None
=============================================================================
