-------------------------- MODULE ClientLoginProofs --------------------------
(***************************************************************************)
(* Proofs about ClientLogin: the client's idea of its connection agrees    *)
(* with the session the server keeps for it. What the slots do to the      *)
(* connection is first reduced to a few kinds of effects on the process;   *)
(* the invariant, about the one message of an operation that is on its way,*)
(* is then proved over those kinds.                                        *)
(***************************************************************************)
EXTENDS ClientLogin, TLAPS

(* What the variables may hold.                                            *)
Operations == {"none", "Login", "Register"}
Clients == [operation : Operations, authenticated : BOOLEAN, password : Anything]
Dialogs == [action : Operations, connected : BOOLEAN, busy : BOOLEAN, login : Anything,
            register : Anything, auto : BOOLEAN, timer : BOOLEAN]
Boxes == {"none", "registered", "authenticated"}
Windows == [form : Anything, auto : BOOLEAN, timer : BOOLEAN, box : Boxes,
            cameras : BOOLEAN]
Settings == [form : Anything, auto : BOOLEAN]
Sessions == [open : BOOLEAN, stage : [operation : Operations, form : Anything],
             user : Anything \cup {Nobody}, refused : BOOLEAN]

(* Only the camera list and the plain Error belong to no stage.            *)
Requests ==
    {m \in [operation : {"Login", "Register", "Cameras"}, stage : 0..2, form : Anything] :
        m.stage = 0 <=> m.operation = "Cameras"}
Replies ==
    {m \in [operation : {"Login", "Register", "Cameras", "Error"}, stage : 0..2, ok : BOOLEAN] :
        /\ m.stage = 0 <=> m.operation \in {"Cameras", "Error"}
        /\ m.operation = "Error" => m.ok = FALSE}

Processes == [socket : {"unconnected", "connecting", "connected"}, client : Clients,
              dialog : Dialogs, window : Windows, shown : {"dialog", "window"},
              saved : Settings, up : Seq(Requests)]

StateOK == Process \in Processes /\ down \in Seq(Replies) /\ server \in Sessions

(* The places in a queue that hold a message of the two stages.            *)
Carried(q) == {i \in 1..Len(q) : q[i].stage # 0}

(* There is no more than one such message on the way, up or down.          *)
OneAtATime ==
    /\ \A i, j \in Carried(up) : i = j
    /\ \A i, j \in Carried(down) : i = j
    /\ Carried(up) = {} \/ Carried(down) = {}

(* It belongs to the operation the client has in progress, and carries its *)
(* form; a second stage, and the answer that asks for it, find that stage  *)
(* at the server.                                                          *)
Asking ==
    \A i \in Carried(up) :
        /\ up[i].operation = client.operation
        /\ up[i].stage = 1 => up[i].form = client.password
        /\ up[i].stage = 2 =>
              server.stage = [operation |-> up[i].operation, form |-> up[i].form]
Answering ==
    \A i \in Carried(down) :
        /\ down[i].operation = client.operation
        /\ down[i].ok /\ down[i].stage = 1 =>
              server.stage = [operation |-> client.operation, form |-> client.password]
        /\ down[i].ok /\ down[i].stage = 2 /\ down[i].operation = "Login" =>
              server.user # Nobody

(* An operation in progress has its message on the way, or was refused.    *)
Waiting ==
    client.operation # "none" =>
        server.refused \/ Carried(up) # {} \/ Carried(down) # {}

LoggedIn == client.authenticated => server.user # Nobody

Live == socket = "connected" /\ server.open
Linked == OneAtATime /\ Asking /\ Answering /\ Waiting /\ LoggedIn
Unlinked == socket # "connected" => client = NoClient

IInv == StateOK /\ Unlinked /\ (Live => Linked)

-----------------------------------------------------------------------------
(* What a function of the client does to the connection: nothing, it dials, *)
(* asks for the cameras, or begins an operation.                           *)
Same(p, q) == q.socket = p.socket /\ q.client = p.client /\ q.up = p.up

Dials(p, q) ==
    /\ p.socket = "unconnected" /\ q.socket = "connecting"
    /\ q.client = p.client /\ q.up = p.up

Lists(p, q) ==
    /\ p.socket = "connected" /\ q.socket = "connected"
    /\ p.client.authenticated /\ q.client = p.client
    /\ q.up = Append(p.up, GetCameras)

Opens(p, q) ==
    /\ p.socket = "connected" /\ q.socket = "connected"
    /\ p.client.operation = "none"
    /\ \E o \in {"Login", "Register"}, f \in Anything :
          /\ q.client = [p.client EXCEPT !.operation = o, !.password = f]
          /\ q.up = Append(p.up, Ask(o, 1, f))

Calls(p, q) == Same(p, q) \/ Dials(p, q) \/ Lists(p, q) \/ Opens(p, q)

(* The messages that the functions send are requests.                      *)
LEMMA Messages ==
    /\ GetCameras \in Requests
    /\ \A o \in {"Login", "Register"}, s \in {1, 2}, f \in Anything : Ask(o, s, f) \in Requests
  BY DEF GetCameras, Ask, Requests, Anything

(* A function that leaves the connection alone may come before any other.  *)
LEMMA SameFirst ==
    ASSUME NEW p, NEW r, NEW q, Same(p, r), Calls(r, q)
    PROVE  Calls(p, q)
  BY DEF Same, Calls, Dials, Lists, Opens

(* protocolError() touches the dialog only.                                *)
LEMMA ProtocolErrorCall ==
    ASSUME NEW p \in Processes
    PROVE  ProtocolError(p) \in Processes /\ Same(p, ProtocolError(p))
  BY DEF ProtocolError, ShowsError, Processes, Dialogs, Operations, Same

(* requestCameras()                                                        *)
LEMMA RequestCamerasCall ==
    ASSUME NEW p \in Processes
    PROVE  /\ RequestCameras(p) \in Processes /\ Calls(p, RequestCameras(p))
           /\ Same(p, RequestCameras(p)) \/ Lists(p, RequestCameras(p))
  <1> DEFINE q == [p EXCEPT !.up = Append(@, GetCameras)]
  <1>1. RequestCameras(p) = IF p.client.authenticated /\ p.socket = "connected"
                            THEN q ELSE ProtocolError(p)
    BY DEF RequestCameras, SendAuthenticatedPacket, SendPacket
  <1>2. q \in Processes
    BY Messages DEF Processes
  <1>3. p.client.authenticated /\ p.socket = "connected" => Lists(p, q)
    BY DEF Processes, Lists
  <1>4. QED
    BY <1>1, <1>2, <1>3, ProtocolErrorCall DEF Calls

(* login() and registerUser()                                              *)
LEMMA OperatesCall ==
    ASSUME NEW p \in Processes, NEW o \in {"Login", "Register"}, NEW f \in Anything,
           p.socket = "connected"
    PROVE  Operates(p, o, f) \in Processes /\ Calls(p, Operates(p, o, f))
  <1> DEFINE c == [p.client EXCEPT !.operation = o, !.password = f]
             q == [p EXCEPT !.client = c, !.up = Append(p.up, Ask(o, 1, f))]
  <1>1. CASE p.client.operation # "none"
    BY <1>1, ProtocolErrorCall DEF Operates, Calls
  <1>2. CASE p.client.operation = "none"
    <2>1. p.client \in Clients /\ c \in Clients
      BY DEF Processes, Clients, Operations
    <2>2. [p EXCEPT !.client.operation = o, !.client.password = f] = [p EXCEPT !.client = c]
      BY <2>1 DEF Processes, Clients
    <2>3. Operates(p, o, f) = q
      BY <1>2, <2>2 DEF Operates, SendPacket, Processes
    <2>4. q \in Processes
      <3>1. Append(p.up, Ask(o, 1, f)) \in Seq(Requests)
        BY Messages DEF Processes
      <3>2. QED
        BY <2>1, <3>1 DEF Processes
    <2>5. Opens(p, q)
      BY <1>2 DEF Opens, Processes
    <2>6. QED
      BY <2>3, <2>4, <2>5 DEF Calls
  <1>3. QED
    BY <1>1, <1>2

LEMMA RegisterUserCall ==
    ASSUME NEW p \in Processes, NEW f \in Anything
    PROVE  RegisterUser(p, f) \in Processes /\ Calls(p, RegisterUser(p, f))
  BY ProtocolErrorCall, OperatesCall DEF RegisterUser, Calls

LEMMA LoginCall ==
    ASSUME NEW p \in Processes, NEW f \in Anything
    PROVE  Login(p, f) \in Processes /\ Calls(p, Login(p, f))
  BY ProtocolErrorCall, OperatesCall DEF Login, Calls, Same

LEMMA ConnectToServerCall ==
    ASSUME NEW p \in Processes
    PROVE  ConnectToServer(p) \in Processes /\ Calls(p, ConnectToServer(p))
  BY DEF ConnectToServer, Calls, Same, Dials, Processes

(* resumePendingAction(): what the dialog waits to do.                     *)
LEMMA ResumePendingActionCall ==
    ASSUME NEW p \in Processes
    PROVE  ResumePendingAction(p) \in Processes /\ Calls(p, ResumePendingAction(p))
  <1>1. p.dialog.login \in Anything /\ p.dialog.register \in Anything
    BY DEF Processes, Dialogs
  <1>2. QED
    BY <1>1, LoginCall, RegisterUserCall DEF ResumePendingAction, Calls, Same

(* beginLogin() and beginRegistration()                                    *)
LEMMA BeginsCall ==
    ASSUME NEW p \in Processes, NEW a \in {"Login", "Register"}, NEW f
    PROVE  Begins(p, a, f) \in Processes /\ Calls(p, Begins(p, a, f))
  <1> DEFINE q == [p EXCEPT !.dialog.action = a, !.dialog.busy = TRUE]
  <1>1. q \in Processes /\ Same(p, q)
    BY DEF Processes, Dialogs, Operations, Same
  <1>2. Begins(p, a, f) \in {p, ResumePendingAction(q), ConnectToServer(q)}
    BY DEF Begins
  <1> HIDE DEF q
  <1>3. Calls(p, p)
    BY DEF Calls, Same
  <1>4. QED
    BY <1>1, <1>2, <1>3, ResumePendingActionCall, ConnectToServerCall, SameFirst

LEMMA BeginLoginCall ==
    ASSUME NEW p \in Processes
    PROVE  BeginLogin(p) \in Processes /\ Calls(p, BeginLogin(p))
  <1> DEFINE q == [p EXCEPT !.dialog.timer = @ /\ p.dialog.busy]
  <1>1. q \in Processes /\ Same(p, q)
    BY DEF Processes, Dialogs, Same
  <1>2. BeginLogin(p) = Begins(q, "Login", p.dialog.login)
    BY DEF BeginLogin
  <1> HIDE DEF q
  <1>3. QED
    BY <1>1, <1>2, BeginsCall, SameFirst

(* The box for automatic login is cleared.                                 *)
LEMMA UncheckedCall ==
    ASSUME NEW p \in Processes
    PROVE  Unchecked(p) \in Processes /\ Same(p, Unchecked(p))
  <1> DEFINE d == [p.dialog EXCEPT !.auto = FALSE, !.timer = FALSE]
  <1>1. d \in Dialogs
    BY DEF Processes, Dialogs
  <1>2. DialogSaves(d) \in Settings
    BY <1>1 DEF DialogSaves, Settings, Dialogs, Anything
  <1> HIDE DEF d
  <1>3. Unchecked(p) = [p EXCEPT !.dialog = d, !.saved = DialogSaves(d)]
    BY DEF Unchecked, d
  <1>4. QED
    BY <1>1, <1>2, <1>3 DEF Processes, Same

-----------------------------------------------------------------------------
(* An event of the user or of a timer, and every slot that it runs.        *)
Acts == DialogStep \/ WindowStep

(* The variables of the client form a record of its type.                  *)
LEMMA ProcessTyped ==
    ASSUME NEW p \in Processes, Becomes(p)
    PROVE  Process' = p
  <1>1. p = [socket |-> p.socket, client |-> p.client, dialog |-> p.dialog,
             window |-> p.window, shown |-> p.shown, saved |-> p.saved, up |-> p.up]
    BY DEF Processes
  <1>2. QED
    BY <1>1 DEF Becomes, Process

LEMMA EventStep ==
    ASSUME StateOK, NEW p, Event(p), p \in Processes, Calls(Process, p)
    PROVE  StateOK' /\ Calls(Process, Process') /\ UNCHANGED <<down, server>>
  <1>1. Becomes(p) /\ UNCHANGED <<down, server>>
    BY DEF Event
  <1>2. QED
    BY <1>1, ProcessTyped DEF StateOK

(* Changes of the forms alone.                                             *)
LEMMA FormChanges ==
    ASSUME StateOK
    PROVE  /\ \A f \in Anything :
                 /\ [Process EXCEPT !.dialog.login = f] \in Processes
                 /\ [Process EXCEPT !.dialog.register = f] \in Processes
                 /\ \A a \in BOOLEAN :
                       [Process EXCEPT !.window.form = f, !.window.auto = a] \in Processes
           /\ [Process EXCEPT !.dialog.auto = TRUE] \in Processes
           /\ [Process EXCEPT !.dialog.timer = FALSE] \in Processes
           /\ [Process EXCEPT !.window.timer = FALSE] \in Processes
           /\ [Process EXCEPT !.window.box = "none"] \in Processes
           /\ \A s \in Settings : [Process EXCEPT !.saved = s] \in Processes
  BY DEF StateOK, Processes, Dialogs, Windows, Boxes

LEMMA FormChangesAreSame ==
    ASSUME StateOK
    PROVE  /\ \A f :
                 /\ Same(Process, [Process EXCEPT !.dialog.login = f])
                 /\ Same(Process, [Process EXCEPT !.dialog.register = f])
                 /\ \A a : Same(Process, [Process EXCEPT !.window.form = f, !.window.auto = a])
           /\ Same(Process, [Process EXCEPT !.dialog.auto = TRUE])
           /\ Same(Process, [Process EXCEPT !.dialog.timer = FALSE])
           /\ Same(Process, [Process EXCEPT !.window.timer = FALSE])
           /\ Same(Process, [Process EXCEPT !.window.box = "none"])
           /\ \A s : Same(Process, [Process EXCEPT !.saved = s])
  BY DEF Same, Process

LEMMA FormsTyped ==
    ASSUME StateOK
    PROVE  /\ window.form \in Anything /\ dialog.login \in Anything
           /\ saved \in Settings /\ WindowSaves(window) \in Settings
  BY DEF StateOK, Processes, Process, Dialogs, Windows, Settings, WindowSaves

LEMMA DialogSteps ==
    ASSUME StateOK, DialogStep
    PROVE  StateOK' /\ Calls(Process, Process') /\ UNCHANGED <<down, server>>
  <1>0. Process \in Processes /\ Same(Process, Process)
    BY DEF StateOK, Same
  <1>1. CASE TypeLogin
    <2>1. PICK f \in Anything :
             LET p == [Process EXCEPT !.dialog.login = f]
             IN  Event(IF dialog.timer THEN Unchecked(p) ELSE p)
      BY <1>1 DEF TypeLogin
    <2> DEFINE p == [Process EXCEPT !.dialog.login = f]
    <2>2. p \in Processes /\ Same(Process, p)
      BY FormChanges, FormChangesAreSame
    <2>3. Event(p) \/ Event(Unchecked(p))
      BY <2>1
    <2> HIDE DEF p
    <2>4. Calls(p, p) /\ Calls(p, Unchecked(p)) /\ Unchecked(p) \in Processes
      BY <2>2, UncheckedCall DEF Calls, Same
    <2>5. QED
      BY <2>2, <2>3, <2>4, SameFirst, EventStep
  <1>2. CASE TypeRegistration
    BY <1>2, FormChanges, FormChangesAreSame, EventStep DEF TypeRegistration, Calls
  <1>3. CASE ToggleAutoLogin
    <2>1. Event(Unchecked(Process)) \/ Event([Process EXCEPT !.dialog.auto = TRUE])
      BY <1>3 DEF ToggleAutoLogin
    <2>2. QED
      BY <1>0, <2>1, FormChanges, FormChangesAreSame, UncheckedCall, EventStep DEF Calls
  <1>4. CASE ShowRegistrationPage
    BY <1>4, FormChanges, FormChangesAreSame, EventStep DEF ShowRegistrationPage, Calls
  <1>5. CASE ClickLogin
    BY <1>0, <1>5, BeginLoginCall, EventStep DEF ClickLogin
  <1>6. CASE ClickRegister
    BY <1>0, <1>6, BeginsCall, EventStep DEF ClickRegister, BeginRegistration
  <1>7. CASE AutoLogin
    <2> DEFINE p == [Process EXCEPT !.dialog.timer = FALSE]
    <2>1. p \in Processes /\ Same(Process, p)
      BY FormChanges, FormChangesAreSame
    <2>2. Event(p) \/ Event(BeginLogin(p))
      BY <1>7 DEF AutoLogin
    <2> HIDE DEF p
    <2>3. Calls(p, p) /\ Calls(p, BeginLogin(p)) /\ BeginLogin(p) \in Processes
      BY <2>1, BeginLoginCall DEF Calls, Same
    <2>4. QED
      BY <2>1, <2>2, <2>3, SameFirst, EventStep
  <1>8. QED
    BY <1>1, <1>2, <1>3, <1>4, <1>5, <1>6, <1>7 DEF DialogStep

LEMMA WindowSteps ==
    ASSUME StateOK, WindowStep
    PROVE  StateOK' /\ Calls(Process, Process') /\ UNCHANGED <<down, server>>
  <1> DEFINE p == SettingsSaved
  <1>0. /\ Process \in Processes /\ Same(Process, Process)
        /\ p \in Processes /\ Same(Process, p)
    BY FormChanges, FormChangesAreSame, FormsTyped DEF StateOK, Same, SettingsSaved
  <1> HIDE DEF p
  <1>1. CASE Type
    BY <1>1, FormChanges, FormChangesAreSame, EventStep DEF Type, Calls
  <1>2. CASE ClickConnect
    <2>1. Event(ConnectToServer(p))
      BY <1>2 DEF ClickConnect, p
    <2>2. QED
      BY <1>0, <2>1, ConnectToServerCall, SameFirst, EventStep
  <1>3. CASE ClickRegisterUser
    <2>1. Event(RegisterUser(p, window.form))
      BY <1>3 DEF ClickRegisterUser, p
    <2>2. QED
      BY <1>0, <2>1, FormsTyped, RegisterUserCall, SameFirst, EventStep
  <1>4. CASE ClickLoginUser
    <2>1. Event(Login(p, window.form))
      BY <1>4 DEF ClickLoginUser, p
    <2>2. QED
      BY <1>0, <2>1, FormsTyped, LoginCall, SameFirst, EventStep
  <1>5. CASE Refresh
    BY <1>0, <1>5, RequestCamerasCall, EventStep DEF Refresh
  <1>6. CASE SaveCamera
    <2>1. Event(RequestCameras(p))
      BY <1>6 DEF SaveCamera, p
    <2>2. QED
      BY <1>0, <2>1, RequestCamerasCall, SameFirst, EventStep
  <1>7. CASE UseChannel
    <2>1. PICK s \in {saved, WindowSaves(window)} :
             Event(RequestCameras([Process EXCEPT !.saved = s]))
      BY <1>7 DEF UseChannel
    <2> DEFINE q == [Process EXCEPT !.saved = s]
    <2>2. q \in Processes /\ Same(Process, q)
      BY FormChanges, FormChangesAreSame, FormsTyped
    <2>3. Event(RequestCameras(q))
      BY <2>1
    <2> HIDE DEF q
    <2>4. QED
      BY <2>2, <2>3, RequestCamerasCall, SameFirst, EventStep
  <1>8. CASE FirstTimer
    <2> DEFINE q == [Process EXCEPT !.window.timer = FALSE]
    <2>1. q \in Processes /\ Same(Process, q)
      BY FormChanges, FormChangesAreSame
    <2>2. Event(RequestCameras(q))
      BY <1>8 DEF FirstTimer
    <2> HIDE DEF q
    <2>3. QED
      BY <2>1, <2>2, RequestCamerasCall, SameFirst, EventStep
  <1>9. CASE CloseBox
    <2> DEFINE q == [Process EXCEPT !.window.box = "none"]
    <2>1. q \in Processes /\ Same(Process, q)
      BY FormChanges, FormChangesAreSame
    <2>2. Event(Login(q, window.form)) \/ Event(RequestCameras(q))
      BY <1>9 DEF CloseBox
    <2> HIDE DEF q
    <2>3. QED
      BY <2>1, <2>2, FormsTyped, LoginCall, RequestCamerasCall, SameFirst, EventStep
  <1>10. QED
    BY <1>1, <1>2, <1>3, <1>4, <1>5, <1>6, <1>7, <1>8, <1>9 DEF WindowStep

-----------------------------------------------------------------------------
(* What reading a message does to the client: the message ends the         *)
(* operation, is none of its business, or asks for the digest.             *)
Ended == [client EXCEPT !.operation = "none", !.password = Blank]

Fails(m) ==
    /\ m.stage # 0 /\ m.ok = FALSE
    /\ client' = Ended /\ up' = up

Ignores(m) ==
    /\ m.stage = 0 \/ (m.stage = 1 /\ m.operation # client.operation)
    /\ client' = client /\ up' = up

Digests(m) ==
    /\ m.stage = 1 /\ m.ok /\ m.operation = client.operation
    /\ client' = client /\ up' = Append(up, Ask(m.operation, 2, client.password))

Registers(m) ==
    /\ m.stage = 2
    /\ client' = Ended /\ up' = up

Enters(m) ==
    /\ m.stage = 2 /\ m.ok /\ m.operation = "Login"
    /\ client' = [operation |-> "none", authenticated |-> TRUE, password |-> Blank]
    /\ up' \in {up, Append(up, GetCameras)}

Reads(m) == Fails(m) \/ Ignores(m) \/ Digests(m) \/ Registers(m) \/ Enters(m)

(* authenticated(), in the dialog and in the window.                       *)
LEMMA AuthenticatedCall ==
    ASSUME NEW p \in Processes, p.socket = "connected"
    PROVE  LET q == Authenticated(p)
               c == [operation |-> "none", authenticated |-> TRUE, password |-> Blank]
           IN  /\ q \in Processes /\ q.socket = "connected" /\ q.client = c
               /\ q.up \in {p.up, Append(p.up, GetCameras)}
  <1> DEFINE c == [operation |-> "none", authenticated |-> TRUE, password |-> Blank]
             d == [p.dialog EXCEPT !.action = "none", !.busy = FALSE]
             q == [p EXCEPT !.client = c, !.dialog = d, !.saved = DialogSaves(d)]
             b == [q EXCEPT !.window.box = "authenticated"]
             w == [q EXCEPT !.shown = "window", !.window = NewWindow(q.saved)]
  <1>1. c \in Clients /\ d \in Dialogs
    BY DEF Clients, Operations, Anything, Processes, Dialogs
  <1>2. DialogSaves(d) \in Settings
    BY <1>1 DEF DialogSaves, Settings, Dialogs, Anything
  <1>3. /\ q \in Processes
        /\ q.socket = p.socket /\ q.client = c /\ q.up = p.up
    <2> HIDE DEF c, d
    <2>1. QED
      BY <1>1, <1>2 DEF Processes
  <1>4. Authenticated(p) \in {b, RequestCameras(w)}
    BY DEF Authenticated
  <1> HIDE DEF q
  <1>5. /\ b \in Processes /\ b.socket = q.socket /\ b.client = q.client /\ b.up = q.up
    BY <1>3 DEF Processes, Windows, Boxes
  <1>6. NewWindow(q.saved) \in Windows
    BY <1>3 DEF NewWindow, NoWindow, Processes, Settings, Windows, Boxes
  <1>7. /\ w \in Processes /\ w.socket = q.socket /\ w.client = q.client /\ w.up = q.up
    BY <1>3, <1>6 DEF Processes
  <1> HIDE DEF b, w
  <1>8. /\ RequestCameras(w) \in Processes
        /\ Same(w, RequestCameras(w)) \/ Lists(w, RequestCameras(w))
    BY <1>7, RequestCamerasCall
  <1>9. QED
    BY <1>3, <1>4, <1>5, <1>7, <1>8 DEF Same, Lists

(* The answers that end an operation otherwise.                            *)
LEMMA HandlesErrorCall ==
    ASSUME NEW p \in Processes, NEW m
    PROVE  LET q == HandlesError(p, m)
               c == [p.client EXCEPT !.operation = "none", !.password = Blank]
           IN  /\ q \in Processes /\ q.socket = p.socket /\ q.up = p.up
               /\ q.client = IF m.stage # 0 THEN c ELSE p.client
  <1> DEFINE c == [p.client EXCEPT !.operation = "none", !.password = Blank]
             r == [p EXCEPT !.client = c]
  <1>1. c \in Clients
    BY DEF Clients, Operations, Anything, Processes
  <1>2. [p EXCEPT !.client.operation = "none", !.client.password = Blank] = r
    BY DEF Processes, Clients
  <1>3. r \in Processes /\ r.socket = p.socket /\ r.up = p.up /\ r.client = c
    BY <1>1 DEF Processes
  <1>4. HandlesError(p, m) = ProtocolError(IF m.stage # 0 THEN r ELSE p)
    BY <1>2 DEF HandlesError, EndsOperation
  <1> HIDE DEF r
  <1>5. QED
    BY <1>3, <1>4, ProtocolErrorCall DEF Same

LEMMA RegistrationFinishedCall ==
    ASSUME NEW p \in Processes
    PROVE  LET q == RegistrationFinished(p)
               c == [p.client EXCEPT !.operation = "none", !.password = Blank]
           IN  q \in Processes /\ q.socket = p.socket /\ q.up = p.up /\ q.client = c
  <1> DEFINE c == [p.client EXCEPT !.operation = "none", !.password = Blank]
             d == [p.dialog EXCEPT !.action = "none", !.busy = FALSE,
                                   !.login = p.dialog.register, !.register = Blank]
             b == IF p.shown = "window" THEN "registered" ELSE p.window.box
             w == [p.window EXCEPT !.box = b]
  <1>1. c \in Clients /\ d \in Dialogs
    BY DEF Clients, Operations, Anything, Processes, Dialogs
  <1>2. w \in Windows
    BY DEF Processes, Windows, Boxes
  <1>3. RegistrationFinished(p) = [p EXCEPT !.client = c, !.dialog = d, !.window = w]
    BY DEF RegistrationFinished, Processes
  <1> HIDE DEF c, d, w
  <1>4. QED
    BY <1>1, <1>2, <1>3 DEF Processes, c

LEMMA SendsDigestCall ==
    ASSUME NEW p \in Processes, p.socket = "connected",
           p.client.operation \in {"Login", "Register"}
    PROVE  LET q == SendsDigest(p)
           IN  /\ q \in Processes /\ q.socket = "connected" /\ q.client = p.client
               /\ q.up = Append(p.up, Ask(p.client.operation, 2, p.client.password))
  <1> DEFINE u == Append(p.up, Ask(p.client.operation, 2, p.client.password))
  <1>1. p.client.password \in Anything
    BY DEF Processes, Clients
  <1>2. u \in Seq(Requests)
    BY <1>1, Messages DEF Processes
  <1>3. SendsDigest(p) = [p EXCEPT !.up = u]
    BY DEF SendsDigest, SendPacket
  <1> HIDE DEF u
  <1>4. QED
    BY <1>2, <1>3 DEF Processes, u

LEMMA ReadStep ==
    ASSUME StateOK, ReadAvailable
    PROVE  /\ StateOK' /\ down # <<>> /\ down' = Tail(down) /\ server' = server
           /\ socket = "connected" /\ socket' = "connected"
           /\ Head(down) \in Replies /\ Reads(Head(down))
  <1> DEFINE m == Head(down)
             p == Process
             q == Dispatch(p, m)
             c == [p.client EXCEPT !.operation = "none", !.password = Blank]
  <1>1. /\ down # <<>> /\ down' = Tail(down) /\ server' = server
        /\ socket = "connected" /\ Becomes(q)
    BY DEF ReadAvailable
  <1>2. /\ m \in Replies /\ Tail(down) \in Seq(Replies)
        /\ p \in Processes
    BY <1>1 DEF StateOK
  <1>3. p.socket = "connected" /\ p.client = client /\ p.up = up
    BY <1>1 DEF Process
  <1>4. c = Ended
    BY <1>3 DEF Ended
  <1>5. q \in Processes /\ q.socket = "connected"
        /\ \/ m.stage # 0 /\ m.ok = FALSE /\ q.client = c /\ q.up = up
           \/ /\ m.stage = 0 \/ (m.stage = 1 /\ m.operation # client.operation)
              /\ q.client = client /\ q.up = up
           \/ /\ m.stage = 1 /\ m.ok /\ m.operation = client.operation
              /\ q.client = client
              /\ q.up = Append(up, Ask(m.operation, 2, client.password))
           \/ m.stage = 2 /\ q.client = c /\ q.up = up
           \/ /\ m.stage = 2 /\ m.ok /\ m.operation = "Login"
              /\ q.client = [operation |-> "none", authenticated |-> TRUE, password |-> Blank]
              /\ q.up \in {up, Append(up, GetCameras)}
    <2> HIDE DEF m, p
    <2>0. m.ok \in BOOLEAN /\ m.stage \in 0..2
      BY <1>2 DEF Replies
    <2>1. CASE m.ok = FALSE
      <3>1. q = HandlesError(p, m)
        BY <2>1 DEF Dispatch
      <3> HIDE DEF q
      <3>2. QED
        BY <1>2, <1>3, <2>0, <2>1, <3>1, HandlesErrorCall
    <2>2. CASE m.ok = TRUE /\ m.operation = "Cameras"
      <3>1. q = ShowsCameras(p) /\ m.stage = 0
        BY <1>2, <2>2 DEF Dispatch, Replies
      <3>2. ShowsCameras(p) \in Processes /\ Same(p, ShowsCameras(p))
        BY <1>2 DEF ShowsCameras, Same, Processes, Windows
      <3> HIDE DEF q
      <3>3. QED
        BY <1>3, <3>1, <3>2 DEF Same
    <2>3. CASE m.ok = TRUE /\ m.operation # "Cameras" /\ m.stage = 1
      <3>1. CASE m.operation = client.operation
        <4>1. q = SendsDigest(p)
          BY <1>3, <2>3, <3>1 DEF Dispatch
        <4>2. m.operation \in {"Login", "Register"}
          BY <1>2, <2>3 DEF Replies
        <4> HIDE DEF q
        <4>3. QED
          BY <1>2, <1>3, <2>3, <3>1, <4>1, <4>2, SendsDigestCall
      <3>2. CASE m.operation # client.operation
        <4>1. q = p
          BY <1>3, <2>3, <3>2 DEF Dispatch
        <4> HIDE DEF q
        <4>2. QED
          BY <1>2, <1>3, <2>3, <3>2, <4>1
      <3>3. QED
        BY <3>1, <3>2
    <2>4. CASE m.ok = TRUE /\ m.operation # "Cameras" /\ m.stage # 1
      <3>1. m.stage = 2 /\ m.operation \in {"Login", "Register"}
        BY <1>2, <2>0, <2>4 DEF Replies
      <3>2. q = IF m.operation = "Register" THEN RegistrationFinished(p) ELSE Authenticated(p)
        BY <2>4 DEF Dispatch
      <3> HIDE DEF q
      <3>3. QED
        BY <1>2, <1>3, <2>4, <3>1, <3>2, RegistrationFinishedCall, AuthenticatedCall
    <2>5. QED
      BY <2>0, <2>1, <2>2, <2>3, <2>4
  <1> HIDE DEF m, p, q, c
  <1>6. /\ Process' = q
        /\ client' = q.client /\ up' = q.up /\ socket' = q.socket
    BY <1>1, <1>5, ProcessTyped DEF Becomes
  <1>7. StateOK'
    BY <1>1, <1>2, <1>5, <1>6 DEF StateOK
  <1>8. Reads(m)
    BY <1>4, <1>5, <1>6 DEF Reads, Fails, Ignores, Digests, Registers, Enters
  <1>9. QED
    BY <1>1, <1>2, <1>5, <1>6, <1>7, <1>8 DEF m

-----------------------------------------------------------------------------
(* The places of the stage messages in a queue that takes one or gives one. *)
LEMMA CarriedAppend ==
    ASSUME NEW S, NEW q \in Seq(S), NEW m
    PROVE  /\ m.stage = 0 => Carried(Append(q, m)) = Carried(q)
           /\ m.stage # 0 => Carried(Append(q, m)) = Carried(q) \cup {Len(q) + 1}
           /\ Append(q, m)[Len(q) + 1] = m
  <1>1. /\ Len(q) \in Nat /\ Len(Append(q, m)) = Len(q) + 1
        /\ \A i \in 1..Len(q) : Append(q, m)[i] = q[i]
        /\ Append(q, m)[Len(q) + 1] = m
    OBVIOUS
  <1>2. QED
    BY <1>1 DEF Carried

LEMMA CarriedOthers ==
    ASSUME NEW S, NEW q \in Seq(S), NEW m, m.stage = 0
    PROVE  /\ Carried(Append(q, m)) = Carried(q)
           /\ \A i \in Carried(Append(q, m)) : Append(q, m)[i] = q[i]
  <1>1. Carried(Append(q, m)) = Carried(q)
    BY CarriedAppend
  <1>2. ASSUME NEW i \in Carried(q) PROVE Append(q, m)[i] = q[i]
    BY <1>2 DEF Carried
  <1>3. QED
    BY <1>1, <1>2

LEMMA CarriedTail ==
    ASSUME NEW S, NEW q \in Seq(S), q # <<>>
    PROVE  /\ \A i \in Carried(Tail(q)) : i + 1 \in Carried(q) /\ i + 1 # 1 /\ Tail(q)[i] = q[i + 1]
           /\ \A i \in Carried(q) : i = 1 \/ i - 1 \in Carried(Tail(q))
           /\ 1 \in Carried(q) <=> Head(q).stage # 0
  <1>1. /\ Len(q) \in Nat \ {0} /\ Len(Tail(q)) = Len(q) - 1 /\ Head(q) = q[1]
        /\ \A i \in 1..Len(q) - 1 : Tail(q)[i] = q[i + 1]
    OBVIOUS
  <1>2. QED
    BY <1>1 DEF Carried

LEMMA Carriers ==
    ASSUME StateOK
    PROVE  /\ up \in Seq(Requests) /\ down \in Seq(Replies)
           /\ client \in Clients /\ server \in Sessions
           /\ \A i \in Carried(up) :
                 /\ up[i] \in Requests /\ up[i].stage \in {1, 2}
                 /\ up[i].operation \in {"Login", "Register"}
           /\ \A i \in Carried(down) :
                 /\ down[i] \in Replies /\ down[i].stage \in {1, 2}
                 /\ down[i].operation \in {"Login", "Register"}
  <1>1. /\ up \in Seq(Requests) /\ down \in Seq(Replies)
        /\ client \in Clients /\ server \in Sessions
    BY DEF StateOK, Process, Processes
  <1>2. \A i \in Carried(up) : up[i] \in Requests /\ up[i].stage # 0
    BY <1>1 DEF Carried
  <1>3. \A i \in Carried(down) : down[i] \in Replies /\ down[i].stage # 0
    BY <1>1 DEF Carried
  <1>4. QED
    BY <1>1, <1>2, <1>3 DEF Requests, Replies

(* Without an operation in progress nothing is on its way.                 *)
LEMMA NothingCarried ==
    ASSUME StateOK, Linked, client.operation = "none"
    PROVE  Carried(up) = {} /\ Carried(down) = {}
  BY Carriers DEF Linked, Asking, Answering

-----------------------------------------------------------------------------
(* Whatever leaves the stage messages and what they are about as they are. *)
LEMMA SameMessages ==
    ASSUME Linked, UNCHANGED <<client, server>>,
           Carried(up') = Carried(up), \A i \in Carried(up') : up'[i] = up[i],
           Carried(down') = Carried(down), \A i \in Carried(down') : down'[i] = down[i]
    PROVE  Linked'
  <1>1. OneAtATime' /\ Waiting' /\ LoggedIn'
    BY DEF Linked, OneAtATime, Waiting, LoggedIn
  <1>2. Asking'
    BY DEF Linked, Asking
  <1>3. Answering'
    BY DEF Linked, Answering
  <1>4. QED
    BY <1>1, <1>2, <1>3 DEF Linked

(* Functions that the slots call, on a connection that stays open.         *)
LEMMA CallsLinked ==
    ASSUME StateOK, StateOK', Linked, Live, Live', Calls(Process, Process'),
           UNCHANGED <<down, server>>
    PROVE  Linked'
  <1>0. /\ Process.socket = socket /\ Process.client = client /\ Process.up = up
        /\ Process'.socket = socket' /\ Process'.client = client' /\ Process'.up = up'
    BY DEF Process
  <1>1. CASE Same(Process, Process')
    <2>1. UNCHANGED <<client, up, down, server>>
      BY <1>0, <1>1 DEF Same
    <2>2. QED
      BY <2>1 DEF Linked, OneAtATime, Asking, Answering, Waiting, LoggedIn
  <1>2. CASE Lists(Process, Process')
    <2>1. client' = client /\ up' = Append(up, GetCameras) /\ UNCHANGED <<down, server>>
      BY <1>0, <1>2 DEF Lists
    <2>2. up \in Seq(Requests) /\ GetCameras.stage = 0
      BY Carriers DEF GetCameras, Ask
    <2>3. Carried(up') = Carried(up) /\ \A i \in Carried(up') : up'[i] = up[i]
      <3> DEFINE m == GetCameras
      <3> HIDE DEF m
      <3>1. up' = Append(up, m) /\ m.stage = 0
        BY <2>1, <2>2 DEF m
      <3>2. QED
        BY <2>2, <3>1, CarriedOthers
    <2>4. QED
      BY <2>1, <2>3, SameMessages
  <1>3. CASE Opens(Process, Process')
    <2>1. PICK o \in {"Login", "Register"}, f \in Anything :
             /\ client.operation = "none"
             /\ client' = [client EXCEPT !.operation = o, !.password = f]
             /\ up' = Append(up, Ask(o, 1, f))
      BY <1>0, <1>3 DEF Opens
    <2>2. Carried(up) = {} /\ Carried(down) = {}
      BY <2>1, NothingCarried
    <2>3. /\ Ask(o, 1, f).stage = 1 /\ Ask(o, 1, f).operation = o /\ Ask(o, 1, f).form = f
      BY DEF Ask
    <2>4. /\ Carried(up') = {Len(up) + 1} /\ up'[Len(up) + 1] = Ask(o, 1, f)
      BY <2>1, <2>2, <2>3, Carriers, CarriedAppend
    <2>5. /\ client'.operation = o /\ client'.password = f
          /\ client'.authenticated = client.authenticated
      BY <2>1, Carriers DEF Clients
    <2>6. OneAtATime' /\ Answering' /\ Waiting'
      BY <2>2, <2>4 DEF OneAtATime, Answering, Waiting
    <2>7. Asking'
      BY <2>3, <2>4, <2>5 DEF Asking
    <2>8. LoggedIn'
      BY <2>5 DEF Linked, LoggedIn
    <2>9. QED
      BY <2>6, <2>7, <2>8 DEF Linked
  <1>4. QED
    BY <1>0, <1>1, <1>2, <1>3 DEF Calls, Dials, Live

(* A connection that has come up, with nothing on it.                      *)
LEMMA ConnectedStep ==
    ASSUME IInv, Connected
    PROVE  IInv'
  <1> DEFINE p == [Process EXCEPT !.socket = "connected", !.client.authenticated = FALSE,
                                  !.dialog.connected = TRUE, !.up = <<>>]
             q == IF shown = "dialog" THEN ResumePendingAction(p)
                  ELSE IF window.auto /\ window.form # Blank THEN Login(p, window.form)
                  ELSE p
  <1>1. Becomes(q) /\ server' = NewSession /\ down' = <<>> /\ socket = "connecting"
    BY DEF Connected
  <1>2. client = NoClient /\ Process.client = client
    BY <1>1 DEF IInv, Unlinked, Process
  <1>3. /\ p \in Processes /\ p.socket = "connected" /\ p.up = <<>>
        /\ p.client = [client EXCEPT !.authenticated = FALSE]
    <2> DEFINE c == [client EXCEPT !.authenticated = FALSE]
               d == [dialog EXCEPT !.connected = TRUE]
    <2>1. Process \in Processes /\ Process.dialog = dialog
      BY DEF IInv, StateOK, Process
    <2>2. client \in Clients /\ dialog \in Dialogs
      BY <1>2, <2>1 DEF Processes
    <2>3. c \in Clients /\ d \in Dialogs
      BY <2>2 DEF Clients, Dialogs
    <2>4. p = [Process EXCEPT !.socket = "connected", !.client = c, !.dialog = d, !.up = <<>>]
      BY <1>2, <2>1 DEF Processes
    <2>5. <<>> \in Seq(Requests)
      OBVIOUS
    <2> HIDE DEF c, d, p
    <2>6. QED
      BY <2>1, <2>3, <2>4, <2>5 DEF Processes, c
  <1>4. p.client.operation = "none" /\ p.client.authenticated = FALSE
    BY <1>2, <1>3 DEF NoClient
  <1> HIDE DEF p
  <1>5. q \in Processes /\ Calls(p, q)
    BY <1>3, FormsTyped, ResumePendingActionCall, LoginCall DEF IInv, Calls, Same
  <1> HIDE DEF q
  <1>6. Process' = q /\ socket' = q.socket /\ client' = q.client /\ up' = q.up
    BY <1>1, <1>5, ProcessTyped DEF Becomes
  <1>7. socket' = "connected"
    BY <1>3, <1>5, <1>6 DEF Calls, Same, Dials, Lists, Opens
  <1>8. StateOK'
    <2>1. NewSession \in Sessions /\ <<>> \in Seq(Replies)
      BY DEF NewSession, NoStage, Sessions, Operations, Anything
    <2>2. QED
      BY <1>1, <1>5, <1>6, <2>1 DEF StateOK
  <1>9. Linked'
    <2>1. Carried(down') = {}
      BY <1>1 DEF Carried
    <2>2. CASE Same(p, q)
      <3>1. client' = p.client /\ up' = <<>>
        BY <1>3, <1>4, <1>6, <2>2 DEF Same
      <3>2. Carried(up') = {}
        BY <3>1 DEF Carried
      <3>3. QED
        BY <1>4, <2>1, <3>1, <3>2
        DEF Linked, OneAtATime, Asking, Answering, Waiting, LoggedIn
    <2>3. CASE Opens(p, q)
      <3>1. PICK o \in {"Login", "Register"}, f \in Anything :
               /\ client' = [p.client EXCEPT !.operation = o, !.password = f]
               /\ up' = Append(<<>>, Ask(o, 1, f))
        BY <1>3, <1>6, <2>3 DEF Opens
      <3>2. /\ client'.operation = o /\ client'.password = f
            /\ client'.authenticated = FALSE
        BY <1>4, <3>1 DEF NoClient
      <3>3. /\ Ask(o, 1, f).stage = 1 /\ Ask(o, 1, f).operation = o
            /\ Ask(o, 1, f).form = f
        BY DEF Ask
      <3>4. up' = <<Ask(o, 1, f)>>
        BY <3>1
      <3>5. Carried(up') = {1} /\ up'[1] = Ask(o, 1, f)
        BY <3>3, <3>4 DEF Carried
      <3>6. OneAtATime' /\ Answering' /\ Waiting' /\ LoggedIn'
        BY <2>1, <3>2, <3>5 DEF OneAtATime, Answering, Waiting, LoggedIn
      <3>7. Asking'
        BY <3>2, <3>3, <3>5 DEF Asking
      <3>8. QED
        BY <3>6, <3>7 DEF Linked
    <2>4. QED
      BY <1>3, <1>4, <1>5, <2>2, <2>3 DEF Calls, Dials, Lists
  <1>10. QED
    BY <1>7, <1>8, <1>9 DEF IInv, Unlinked

-----------------------------------------------------------------------------
(* A message that is taken from a queue. One of no stage leaves those that *)
(* are on their way where they were, one place nearer; one of a stage was  *)
(* the only one.                                                           *)
LEMMA TakesDown ==
    ASSUME StateOK, OneAtATime, down # <<>>, down' = Tail(down)
    PROVE  /\ Head(down).stage = 0 =>
                 /\ \A i \in Carried(down') : i + 1 \in Carried(down) /\ down'[i] = down[i + 1]
                 /\ \A i, j \in Carried(down') : i = j
                 /\ Carried(down') = {} <=> Carried(down) = {}
           /\ Head(down).stage # 0 =>
                 1 \in Carried(down) /\ Carried(down') = {} /\ Carried(up) = {}
  <1>0. down \in Seq(Replies)
    BY Carriers
  <1>1. /\ \A i \in Carried(down') : i + 1 \in Carried(down) /\ i + 1 # 1 /\ down'[i] = down[i + 1]
        /\ \A i \in Carried(down) : i = 1 \/ i - 1 \in Carried(down')
        /\ 1 \in Carried(down) <=> Head(down).stage # 0
    BY <1>0, CarriedTail
  <1>2. Carried(down') \subseteq Nat
    BY <1>0 DEF Carried
  <1>3. CASE Head(down).stage = 0
    <2>1. \A i, j \in Carried(down') : i = j
      <3>1. SUFFICES ASSUME NEW i \in Carried(down'), NEW j \in Carried(down') PROVE i = j
        OBVIOUS
      <3>2. i + 1 = j + 1
        BY <1>1 DEF OneAtATime
      <3>3. QED
        BY <1>2, <3>2
    <2>2. Carried(down') = {} <=> Carried(down) = {}
      BY <1>1, <1>3
    <2>3. QED
      BY <1>1, <1>3, <2>1, <2>2
  <1>4. CASE Head(down).stage # 0
    <2>1. 1 \in Carried(down)
      BY <1>1, <1>4
    <2>2. Carried(down') = {}
      <3>1. \A i \in Carried(down') : i + 1 = 1 /\ i + 1 # 1
        BY <1>1, <2>1 DEF OneAtATime
      <3>2. QED
        BY <3>1
    <2>3. QED
      BY <1>4, <2>1, <2>2 DEF OneAtATime
  <1>5. QED
    BY <1>3, <1>4

LEMMA TakesUp ==
    ASSUME StateOK, OneAtATime, up # <<>>, up' = Tail(up)
    PROVE  /\ Head(up).stage = 0 =>
                 /\ \A i \in Carried(up') : i + 1 \in Carried(up) /\ up'[i] = up[i + 1]
                 /\ \A i, j \in Carried(up') : i = j
                 /\ Carried(up') = {} <=> Carried(up) = {}
           /\ Head(up).stage # 0 =>
                 1 \in Carried(up) /\ Carried(up') = {} /\ Carried(down) = {}
  <1>0. up \in Seq(Requests)
    BY Carriers
  <1>1. /\ \A i \in Carried(up') : i + 1 \in Carried(up) /\ i + 1 # 1 /\ up'[i] = up[i + 1]
        /\ \A i \in Carried(up) : i = 1 \/ i - 1 \in Carried(up')
        /\ 1 \in Carried(up) <=> Head(up).stage # 0
    BY <1>0, CarriedTail
  <1>2. Carried(up') \subseteq Nat
    BY <1>0 DEF Carried
  <1>3. CASE Head(up).stage = 0
    <2>1. \A i, j \in Carried(up') : i = j
      <3>1. SUFFICES ASSUME NEW i \in Carried(up'), NEW j \in Carried(up') PROVE i = j
        OBVIOUS
      <3>2. i + 1 = j + 1
        BY <1>1 DEF OneAtATime
      <3>3. QED
        BY <1>2, <3>2
    <2>2. Carried(up') = {} <=> Carried(up) = {}
      BY <1>1, <1>3
    <2>3. QED
      BY <1>1, <1>3, <2>1, <2>2
  <1>4. CASE Head(up).stage # 0
    <2>1. 1 \in Carried(up)
      BY <1>1, <1>4
    <2>2. Carried(up') = {}
      <3>1. \A i \in Carried(up') : i + 1 = 1 /\ i + 1 # 1
        BY <1>1, <2>1 DEF OneAtATime
      <3>2. QED
        BY <3>1
    <2>3. QED
      BY <1>4, <2>1, <2>2 DEF OneAtATime
  <1>5. QED
    BY <1>3, <1>4

(* dispatch() of an answer that the server gave on this connection.        *)
LEMMA ReadLinked ==
    ASSUME StateOK, Linked, down # <<>>, down' = Tail(down), server' = server,
           Reads(Head(down))
    PROVE  Linked'
  <1> DEFINE m == Head(down)
  <1>0. m = down[1] /\ client \in Clients /\ OneAtATime
    BY Carriers DEF Linked
  <1>1. CASE m.stage = 0
    <2>1. client' = client /\ up' = up
      BY <1>1 DEF Reads, Fails, Ignores, Digests, Registers, Enters
    <2>2. /\ \A i \in Carried(down') : i + 1 \in Carried(down) /\ down'[i] = down[i + 1]
          /\ \A i, j \in Carried(down') : i = j
          /\ Carried(down') = {} <=> Carried(down) = {}
      BY <1>0, <1>1, TakesDown
    <2>3. OneAtATime' /\ Waiting' /\ LoggedIn'
      BY <2>1, <2>2 DEF Linked, OneAtATime, Waiting, LoggedIn
    <2>4. Asking'
      BY <2>1 DEF Linked, Asking
    <2>5. Answering'
      <3>1. SUFFICES ASSUME NEW i \in Carried(down')
                     PROVE  /\ down'[i].operation = client.operation
                            /\ down'[i].ok /\ down'[i].stage = 1 =>
                                  server.stage = [operation |-> client.operation,
                                                  form |-> client.password]
                            /\ down'[i].ok /\ down'[i].stage = 2
                                /\ down'[i].operation = "Login" => server.user # Nobody
        BY <2>1 DEF Answering
      <3>2. i + 1 \in Carried(down) /\ down'[i] = down[i + 1]
        BY <2>2
      <3>3. QED
        BY <3>2 DEF Linked, Answering
    <2>6. QED
      BY <2>3, <2>4, <2>5 DEF Linked
  <1>2. CASE m.stage # 0
    <2>1. 1 \in Carried(down) /\ Carried(down') = {} /\ Carried(up) = {}
      BY <1>0, <1>2, TakesDown
    <2>2. /\ m.operation = client.operation
          /\ m.ok /\ m.stage = 1 =>
                server.stage = [operation |-> client.operation, form |-> client.password]
          /\ m.ok /\ m.stage = 2 /\ m.operation = "Login" => server.user # Nobody
      BY <1>0, <2>1 DEF Linked, Answering
    <2>3. CASE client' = Ended /\ up' = up
      <3>1. client'.operation = "none" /\ client'.authenticated = client.authenticated
        BY <1>0, <2>3 DEF Ended, Clients
      <3>2. QED
        BY <2>1, <2>3, <3>1
        DEF Linked, OneAtATime, Asking, Answering, Waiting, LoggedIn
    <2>4. CASE Digests(m)
      <3> DEFINE a == Ask(m.operation, 2, client.password)
      <3>1. /\ client' = client /\ up' = Append(up, a)
            /\ server.stage = [operation |-> m.operation, form |-> client.password]
        BY <2>2, <2>4 DEF Digests
      <3>2. a.stage = 2 /\ a.operation = m.operation /\ a.form = client.password
        BY DEF Ask
      <3> HIDE DEF a, m
      <3>3. Carried(up') = {Len(up) + 1} /\ up'[Len(up) + 1] = a
        BY <2>1, <3>1, <3>2, Carriers, CarriedAppend
      <3>4. OneAtATime' /\ Answering' /\ Waiting' /\ LoggedIn'
        BY <2>1, <3>1, <3>3 DEF Linked, OneAtATime, Answering, Waiting, LoggedIn
      <3>5. Asking'
        BY <2>2, <3>1, <3>2, <3>3 DEF Asking
      <3>6. QED
        BY <3>4, <3>5 DEF Linked
    <2>5. CASE Enters(m)
      <3>1. client'.operation = "none" /\ server.user # Nobody
        BY <2>2, <2>5 DEF Enters
      <3>2. up' = up \/ up' = Append(up, GetCameras)
        BY <2>5 DEF Enters
      <3>3. Carried(up') = {}
        <4> DEFINE g == GetCameras
        <4>1. g.stage = 0
          BY DEF GetCameras, Ask
        <4> HIDE DEF g
        <4>2. up \in Seq(Requests) /\ (up' = up \/ up' = Append(up, g))
          BY <3>2, Carriers DEF g
        <4>3. QED
          BY <2>1, <4>1, <4>2, CarriedOthers
      <3>4. QED
        BY <2>1, <3>1, <3>3
        DEF Linked, OneAtATime, Asking, Answering, Waiting, LoggedIn
    <2>6. QED
      BY <1>2, <2>2, <2>3, <2>4, <2>5 DEF Reads, Fails, Ignores, Registers, Digests
  <1>3. QED
    BY <1>1, <1>2

-----------------------------------------------------------------------------
(* The server takes a request and gives an answer.                         *)
Gives(a) ==
    /\ up # <<>> /\ up' = Tail(up) /\ down' = Append(down, a)
    /\ UNCHANGED <<socket, client, dialog, window, shown, saved>>

(* A request of no stage, or one that the full queue turned away.          *)
LEMMA PlainAnswer ==
    ASSUME StateOK, Linked, NEW a, a.stage = 0, Gives(a),
           server'.stage = server.stage, server'.user = server.user,
           server.refused \/ Head(up).stage # 0 => server'.refused
    PROVE  Linked'
  <1>0. up # <<>> /\ up' = Tail(up) /\ client' = client /\ down' = Append(down, a)
    BY DEF Gives
  <1>1. Carried(down') = Carried(down) /\ \A i \in Carried(down') : down'[i] = down[i]
    <2>1. down \in Seq(Replies)
      BY Carriers
    <2>2. /\ Carried(Append(down, a)) = Carried(down)
          /\ \A i \in Carried(Append(down, a)) : Append(down, a)[i] = down[i]
      BY <2>1, CarriedOthers
    <2>3. QED
      BY <1>0, <2>2
  <1>2. CASE Head(up).stage = 0
    <2>1. /\ \A i \in Carried(up') : i + 1 \in Carried(up) /\ up'[i] = up[i + 1]
          /\ \A i, j \in Carried(up') : i = j
          /\ Carried(up') = {} <=> Carried(up) = {}
      BY <1>0, <1>2, TakesUp DEF Linked
    <2>2. OneAtATime' /\ Waiting' /\ LoggedIn'
      BY <1>0, <1>1, <2>1 DEF Linked, OneAtATime, Waiting, LoggedIn
    <2>3. Asking'
      <3>1. SUFFICES ASSUME NEW i \in Carried(up')
                     PROVE  /\ up'[i].operation = client.operation
                            /\ up'[i].stage = 1 => up'[i].form = client.password
                            /\ up'[i].stage = 2 =>
                                  server.stage = [operation |-> up'[i].operation,
                                                  form |-> up'[i].form]
        BY <1>0 DEF Asking
      <3>2. i + 1 \in Carried(up) /\ up'[i] = up[i + 1]
        BY <2>1
      <3>3. QED
        BY <3>2 DEF Linked, Asking
    <2>4. Answering'
      <3>1. SUFFICES ASSUME NEW i \in Carried(down')
                     PROVE  /\ down'[i].operation = client.operation
                            /\ down'[i].ok /\ down'[i].stage = 1 =>
                                  server.stage = [operation |-> client.operation,
                                                  form |-> client.password]
                            /\ down'[i].ok /\ down'[i].stage = 2
                                /\ down'[i].operation = "Login" => server.user # Nobody
        BY <1>0 DEF Answering
      <3>2. i \in Carried(down) /\ down'[i] = down[i]
        BY <1>1
      <3>3. QED
        BY <3>2 DEF Linked, Answering
    <2>5. QED
      BY <2>2, <2>3, <2>4 DEF Linked
  <1>3. CASE Head(up).stage # 0
    <2>1. Carried(up') = {} /\ Carried(down) = {}
      BY <1>0, <1>3, TakesUp DEF Linked
    <2>2. QED
      BY <1>0, <1>1, <1>3, <2>1
      DEF Linked, OneAtATime, Asking, Answering, Waiting, LoggedIn
  <1>4. QED
    BY <1>2, <1>3

(* The answer of a stage takes the place of its request.                   *)
LEMMA StageAnswer ==
    ASSUME StateOK, Linked, NEW a, a.stage # 0, Gives(a), Head(up).stage # 0,
           a.operation = Head(up).operation,
           a.ok /\ a.stage = 1 =>
               /\ Head(up).stage = 1
               /\ server'.stage = [operation |-> Head(up).operation, form |-> Head(up).form],
           a.ok /\ a.stage = 2 /\ a.operation = "Login" => server'.user # Nobody,
           server.user # Nobody => server'.user # Nobody
    PROVE  Linked'
  <1>0. /\ up # <<>> /\ up' = Tail(up) /\ client' = client /\ down' = Append(down, a)
        /\ Head(up) = up[1] /\ down \in Seq(Replies)
    BY Carriers DEF Gives
  <1>1. 1 \in Carried(up) /\ Carried(up') = {} /\ Carried(down) = {}
    BY <1>0, TakesUp DEF Linked
  <1>2. Carried(down') = {Len(down) + 1} /\ down'[Len(down) + 1] = a
    BY <1>0, <1>1, CarriedAppend
  <1>3. /\ Head(up).operation = client.operation
        /\ Head(up).stage = 1 => Head(up).form = client.password
    BY <1>0, <1>1 DEF Linked, Asking
  <1>4. OneAtATime' /\ Waiting' /\ LoggedIn' /\ Asking'
    BY <1>0, <1>1, <1>2 DEF Linked, OneAtATime, Waiting, LoggedIn, Asking
  <1>5. Answering'
    BY <1>0, <1>2, <1>3 DEF Answering
  <1>6. QED
    BY <1>4, <1>5 DEF Linked

LEMMA GivesTyped ==
    ASSUME StateOK, NEW a \in Replies, Gives(a), server' \in Sessions
    PROVE  StateOK'
  <1>1. Process \in Processes /\ Process.up = up /\ down \in Seq(Replies)
    BY DEF StateOK, Process
  <1>2. Tail(up) \in Seq(Requests)
    BY <1>1 DEF Processes, Gives
  <1> DEFINE p == [Process EXCEPT !.up = Tail(up)]
  <1>3. p \in Processes
    BY <1>1, <1>2 DEF Processes
  <1>4. Becomes(p)
    BY DEF Becomes, Process, Gives
  <1>5. Append(down, a) \in Seq(Replies)
    BY <1>1
  <1>6. QED
    BY <1>3, <1>4, <1>5, ProcessTyped DEF StateOK, Gives

LEMMA AskedRequest ==
    ASSUME StateOK, Asked
    PROVE  /\ up # <<>> /\ Request = Head(up) /\ Request \in Requests
           /\ server.open /\ server \in Sessions
  BY Carriers DEF Asked, Request

(* What begin() and finish() do, and the other answers.                    *)
LEMMA ServerStep ==
    ASSUME StateOK, Live => Linked, ServerAnswers
    PROVE  /\ StateOK' /\ (Live' => Linked')
           /\ UNCHANGED <<socket, client>>
  <1>1. CASE BeginsStage
    <2> DEFINE m == Request
               s == [server EXCEPT !.stage = [operation |-> m.operation, form |-> m.form]]
    <2>1. /\ up # <<>> /\ m = Head(up) /\ m \in Requests /\ m.stage = 1
          /\ server.open /\ server \in Sessions
      BY <1>1, AskedRequest DEF BeginsStage
    <2>2. PICK ok \in BOOLEAN : Answers(Answer(m, ok), IF ok THEN s ELSE server)
      BY <1>1 DEF BeginsStage
    <2> DEFINE a == Answer(m, ok)
    <2>3. a.operation = m.operation /\ a.stage = m.stage /\ a.ok = ok
      BY DEF Answer
    <2>4. a \in Replies
      BY <2>1 DEF Answer, Replies, Requests
    <2>5. s \in Sessions /\ s.user = server.user
          /\ s.stage = [operation |-> m.operation, form |-> m.form]
      BY <2>1 DEF Sessions, Requests, Operations
    <2>6. Gives(a) /\ server' = IF ok THEN s ELSE server
      BY <2>1, <2>2 DEF Answers, Gives
    <2> HIDE DEF m, s, a
    <2>7. StateOK'
      BY <2>1, <2>4, <2>5, <2>6, GivesTyped
    <2>8. Live' => Live
      BY <2>1, <2>6 DEF Gives, Live
    <2>9. Linked => Linked'
      BY <2>1, <2>3, <2>5, <2>6, StageAnswer
    <2>10. QED
      BY <2>6, <2>7, <2>8, <2>9 DEF Gives
  <1>2. CASE FinishesStage
    <2> DEFINE m == Request
               u == IF m.operation = "Login" THEN server.stage.form ELSE server.user
               s == [server EXCEPT !.stage = NoStage, !.user = u]
               r == [server EXCEPT !.stage = NoStage]
    <2>1. /\ up # <<>> /\ m = Head(up) /\ m \in Requests /\ m.stage = 2
          /\ server.open /\ server \in Sessions
      BY <1>2, AskedRequest DEF FinishesStage
    <2>2. \/ Answers(Answer(m, TRUE), s)
          \/ Answers(Answer(m, FALSE), server) \/ Answers(Answer(m, FALSE), r)
      BY <1>2 DEF FinishesStage
    <2>3. server.stage.form \in Anything /\ u \in Anything \cup {Nobody}
      BY <2>1 DEF Sessions
    <2>4. m.operation = "Login" => u # Nobody
      BY <2>3, BlankIsNoForm DEF Anything
    <2>5. server.user # Nobody => u # Nobody
      BY <2>4
    <2> HIDE DEF u
    <2>6. s \in Sessions /\ s.user = u /\ r \in Sessions /\ r.user = server.user
      BY <2>1, <2>3 DEF Sessions, NoStage, Operations, Anything
    <2>7. \E ok \in BOOLEAN :
             /\ Answers(Answer(m, ok), server')
             /\ server' \in Sessions
             /\ server'.user = IF ok THEN u ELSE server.user
      BY <2>1, <2>2, <2>6 DEF Answers
    <2>8. PICK ok \in BOOLEAN :
             /\ Answers(Answer(m, ok), server')
             /\ server' \in Sessions
             /\ server'.user = IF ok THEN u ELSE server.user
      BY <2>7
    <2> DEFINE a == Answer(m, ok)
    <2>9. a.operation = m.operation /\ a.stage = 2 /\ a.ok = ok
      BY <2>1 DEF Answer
    <2>10. a \in Replies
      BY <2>1 DEF Answer, Replies, Requests
    <2>11. Gives(a)
      BY <2>1, <2>8 DEF Answers, Gives
    <2> HIDE DEF m, s, r, a
    <2>12. StateOK'
      BY <2>8, <2>10, <2>11, GivesTyped
    <2>13. Live' => Live
      BY <2>1, <2>11 DEF Gives, Live
    <2>14. Linked => Linked'
      BY <2>1, <2>4, <2>5, <2>8, <2>9, <2>11, StageAnswer
    <2>15. QED
      BY <2>11, <2>12, <2>13, <2>14 DEF Gives
  <1>3. CASE ListsCameras \/ IsFull
    <2> DEFINE s == [server EXCEPT !.refused = @ \/ Head(up).stage # 0]
    <2>1. /\ up # <<>> /\ Request = Head(up) /\ Head(up) \in Requests
          /\ server.open /\ server \in Sessions
      BY <1>3, AskedRequest DEF ListsCameras, IsFull
    <2>2. s \in Sessions /\ s.stage = server.stage /\ s.user = server.user
          /\ (server.refused \/ Head(up).stage # 0 => s.refused)
      BY <2>1 DEF Sessions
    <2>3. GetCameras.stage = 0
      BY DEF GetCameras, Ask
    <2>4. \E a \in Replies :
             /\ a.stage = 0
             /\ \/ Answers(a, server) /\ Head(up).stage = 0
                \/ Answers(a, s)
      <3>1. /\ PlainError \in Replies /\ PlainError.stage = 0
            /\ Answer(GetCameras, TRUE) \in Replies /\ Answer(GetCameras, TRUE).stage = 0
        BY DEF PlainError, Answer, GetCameras, Ask, Replies
      <3>2. CASE ListsCameras
        BY <2>1, <2>3, <3>1, <3>2 DEF ListsCameras
      <3>3. CASE IsFull
        BY <2>1, <3>1, <3>3 DEF IsFull
      <3>4. QED
        BY <1>3, <3>2, <3>3
    <2>5. PICK a \in Replies :
             /\ a.stage = 0
             /\ \/ Answers(a, server) /\ Head(up).stage = 0
                \/ Answers(a, s)
      BY <2>4
    <2> HIDE DEF s
    <2>6. /\ Gives(a) /\ server' \in Sessions
          /\ server'.stage = server.stage /\ server'.user = server.user
          /\ (server.refused \/ Head(up).stage # 0 => server'.refused)
      BY <2>1, <2>2, <2>5 DEF Answers, Gives
    <2>7. StateOK'
      BY <2>5, <2>6, GivesTyped
    <2>8. Live' => Live
      BY <2>1, <2>6 DEF Gives, Live
    <2>9. Linked => Linked'
      BY <2>5, <2>6, PlainAnswer
    <2>10. QED
      BY <2>6, <2>7, <2>8, <2>9 DEF Gives
  <1>4. QED
    BY <1>1, <1>2, <1>3 DEF ServerAnswers

-----------------------------------------------------------------------------
(* The client starts with its settings and without a connection.           *)
LEMMA FreshClient ==
    ASSUME NEW s \in Settings
    PROVE  /\ NoClient \in Clients /\ NewDialog(s) \in Dialogs
           /\ NoWindow \in Windows
  <1>1. NoClient \in Clients /\ NoWindow \in Windows
    BY DEF NoClient, Clients, Operations, Anything, NoWindow, Windows, Boxes
  <1>2. NewDialog(s) \in Dialogs
    <2>1. s.form \in Anything /\ s.auto \in BOOLEAN /\ (s.auto /\ s.form # Blank) \in BOOLEAN
      BY DEF Settings
    <2>2. QED
      BY <2>1 DEF NewDialog, Dialogs, Operations, Anything
  <1>3. QED
    BY <1>1, <1>2

LEMMA ClosedSession ==
    LET s == [NewSession EXCEPT !.open = FALSE]
    IN  s \in Sessions /\ s.open = FALSE /\ <<>> \in Seq(Replies)
  <1>1. NewSession \in Sessions
    BY DEF NewSession, NoStage, Sessions, Operations, Anything
  <1> DEFINE s == [NewSession EXCEPT !.open = FALSE]
  <1>2. s \in Sessions /\ s.open = FALSE
    BY <1>1 DEF Sessions
  <1>3. <<>> \in Seq(Replies)
    OBVIOUS
  <1> HIDE DEF s
  <1>4. QED
    BY <1>2, <1>3 DEF s

LEMMA FreshProcess ==
    ASSUME NEW s \in Settings
    PROVE  [socket |-> "unconnected", client |-> NoClient, dialog |-> NewDialog(s),
            window |-> NoWindow, shown |-> "dialog", saved |-> s, up |-> <<>>] \in Processes
  <1>1. <<>> \in Seq(Requests)
    OBVIOUS
  <1>2. QED
    BY <1>1, FreshClient DEF Processes

LEMMA Start == Init => IInv
  <1>1. SUFFICES ASSUME Init PROVE IInv
    OBVIOUS
  <1>2. saved \in Settings
    BY <1>1 DEF Init, Settings, Anything
  <1>3. StateOK
    <2>1. Process \in Processes
      BY <1>1, <1>2, FreshProcess DEF Init, Process
    <2>2. server \in Sessions /\ down \in Seq(Replies)
      BY <1>1, ClosedSession DEF Init
    <2>3. QED
      BY <2>1, <2>2 DEF StateOK
  <1>4. QED
    BY <1>1, <1>3 DEF Init, IInv, Unlinked, Live

LEMMA RestartStep ==
    ASSUME IInv, Restart
    PROVE  IInv'
  <1>1. PICK s \in {saved, WindowSaves(window)} :
           /\ saved' = s
           /\ socket' = "unconnected" /\ client' = NoClient
           /\ dialog' = NewDialog(s) /\ window' = NoWindow /\ shown' = "dialog"
           /\ up' = <<>> /\ down' = <<>>
           /\ server' = [NewSession EXCEPT !.open = FALSE]
    BY DEF Restart
  <1>2. s \in Settings
    BY <1>1, FormsTyped DEF IInv
  <1>3. Process' \in Processes
    BY <1>1, <1>2, FreshProcess DEF Process
  <1>4. server' \in Sessions /\ server'.open = FALSE /\ down' \in Seq(Replies)
    BY <1>1, ClosedSession
  <1>5. QED
    BY <1>1, <1>3, <1>4 DEF IInv, StateOK, Unlinked, Live

LEMMA Step == IInv /\ [Next]_vars => IInv'
  <1>1. SUFFICES ASSUME IInv, [Next]_vars PROVE IInv'
    OBVIOUS
  <1>2. CASE DialogStep \/ WindowStep
    <2>1. StateOK' /\ Calls(Process, Process') /\ UNCHANGED <<down, server>>
      BY <1>1, <1>2, DialogSteps, WindowSteps DEF IInv
    <2>2. /\ Live' => Live
          /\ socket' # "connected" => socket # "connected" /\ client' = client
      BY <2>1 DEF Calls, Same, Dials, Lists, Opens, Process, Live
    <2>3. QED
      BY <1>1, <2>1, <2>2, CallsLinked DEF IInv, Unlinked
  <1>3. CASE Restart
    BY <1>1, <1>3, RestartStep
  <1>4. CASE Connected
    BY <1>1, <1>4, ConnectedStep
  <1>5. CASE ConnectFails
    <2> DEFINE p == [Process EXCEPT !.socket = "unconnected"]
    <2>1. p \in Processes
      BY <1>1 DEF IInv, StateOK, Processes
    <2>2. p.client = client /\ p.socket = "unconnected"
      BY <2>1 DEF Processes, Process
    <2>3. Becomes(ProtocolError(p)) /\ UNCHANGED <<down, server>> /\ socket = "connecting"
      BY <1>5 DEF ConnectFails
    <2> HIDE DEF p
    <2>4. Process' \in Processes /\ client' = client /\ socket' = "unconnected"
      BY <2>1, <2>2, <2>3, ProtocolErrorCall, ProcessTyped DEF Becomes, Same
    <2>5. QED
      BY <1>1, <2>3, <2>4 DEF IInv, StateOK, Unlinked, Live
  <1>6. CASE Disconnected
    <2> DEFINE e == ProtocolError(Process)
               p == [e EXCEPT !.socket = "unconnected", !.client = NoClient,
                              !.dialog.connected = FALSE, !.up = <<>>]
    <2>1. e \in Processes
      BY <1>1, ProtocolErrorCall DEF IInv, StateOK
    <2>2. Becomes(p) /\ down' = <<>> /\ server' = server
      BY <1>6 DEF Disconnected
    <2> HIDE DEF e
    <2>3. NoClient \in Clients
      BY DEF NoClient, Clients, Operations, Anything
    <2>4. p \in Processes /\ p.client = NoClient /\ p.socket = "unconnected"
      <3> DEFINE d == [e.dialog EXCEPT !.connected = FALSE]
      <3>1. d \in Dialogs
        BY <2>1 DEF Processes, Dialogs
      <3>2. p = [e EXCEPT !.socket = "unconnected", !.client = NoClient, !.dialog = d,
                          !.up = <<>>]
        BY <2>1 DEF Processes
      <3>3. <<>> \in Seq(Requests)
        OBVIOUS
      <3> HIDE DEF d, p
      <3>4. QED
        BY <2>1, <2>3, <3>1, <3>2, <3>3 DEF Processes
    <2> HIDE DEF p
    <2>5. Process' \in Processes /\ client' = NoClient /\ socket' = "unconnected"
      BY <2>2, <2>4, ProcessTyped DEF Becomes
    <2>6. QED
      BY <1>1, <2>2, <2>5 DEF IInv, StateOK, Unlinked, Live
  <1>7. CASE ReadAvailable
    <2>1. Live' => Live
      BY <1>1, <1>7, ReadStep DEF IInv, Live
    <2>2. QED
      BY <1>1, <1>7, <2>1, ReadStep, ReadLinked DEF IInv, Unlinked
  <1>8. CASE ServerAnswers
    BY <1>1, <1>8, ServerStep DEF IInv, Unlinked
  <1>9. CASE CloseConnection
    <2>1. /\ server' = [NewSession EXCEPT !.open = FALSE]
          /\ UNCHANGED <<socket, client, dialog, window, shown, saved, up, down>>
      BY <1>9 DEF CloseConnection
    <2>2. server' \in Sessions /\ server'.open = FALSE
      BY <2>1, ClosedSession
    <2>3. QED
      BY <1>1, <2>1, <2>2 DEF IInv, StateOK, Unlinked, Live, Process
  <1>10. CASE UNCHANGED vars
    BY <1>1, <1>10 DEF vars, IInv, StateOK, Unlinked, Live, Linked, OneAtATime, Asking,
       Answering, Waiting, LoggedIn, Process
  <1>11. QED
    BY <1>1, <1>2, <1>3, <1>4, <1>5, <1>6, <1>7, <1>8, <1>9, <1>10 DEF Next, SocketStep

-----------------------------------------------------------------------------
(* LoginDialog, MainWindow and ProtocolClient keep their fields, the        *)
(* settings and the messages within their types, through every slot, every  *)
(* nested event loop and every restart.                                     *)
THEOREM TypeCorrect == Spec => []StateOK
  <1>1. IInv => StateOK
    BY DEF IInv
  <1>2. QED
    BY <1>1, Start, Step, PTL DEF Spec

(* While the connection is open, ProtocolClient is right about it: it takes *)
(* itself for authenticated only if the server does, an operation it has in *)
(* progress has its message under way or was refused, and a digest meets    *)
(* the stage, and the form, it was made for. For any forms and any number   *)
(* of requests under way.                                                   *)
THEOREM ClientAgrees == Spec => []AgreesWithServer
  <1>1. IInv => AgreesWithServer
    <2>1. SUFFICES ASSUME IInv PROVE AgreesWithServer
      OBVIOUS
    <2>2. socket # "connected" => client = NoClient
      BY <2>1 DEF IInv, Unlinked
    <2>3. ASSUME Live
          PROVE  /\ client.authenticated => server.user # Nobody
                 /\ client.operation # "none" =>
                       \/ server.refused
                       \/ \E i \in 1..Len(up) : up[i].operation = client.operation
                       \/ \E i \in 1..Len(down) : down[i].operation = client.operation
                 /\ \A i \in 1..Len(up) :
                       up[i].stage = 2 =>
                          server.stage = [operation |-> up[i].operation, form |-> up[i].form]
      <3>1. Linked
        BY <2>1, <2>3 DEF IInv
      <3>2. client.authenticated => server.user # Nobody
        BY <3>1 DEF Linked, LoggedIn
      <3>3. client.operation # "none" =>
               \/ server.refused
               \/ \E i \in 1..Len(up) : up[i].operation = client.operation
               \/ \E i \in 1..Len(down) : down[i].operation = client.operation
        BY <3>1 DEF Linked, Waiting, Asking, Answering, Carried
      <3>4. \A i \in 1..Len(up) :
               up[i].stage = 2 =>
                  server.stage = [operation |-> up[i].operation, form |-> up[i].form]
        BY <3>1 DEF Linked, Asking, Carried
      <3>5. QED
        BY <3>2, <3>3, <3>4
    <2>4. QED
      BY <2>2, <2>3 DEF AgreesWithServer, Live
  <1>2. QED
    BY <1>1, Start, Step, PTL DEF Spec
=============================================================================
