----------------------------- MODULE ClientLogin -----------------------------
(***************************************************************************)
(* The Qt client from its start to its exit: LoginDialog, which connects   *)
(* and registers or logs in, MainWindow, which takes over the connection,  *)
(* ProtocolClient, which both use, the settings in client.ini, and the     *)
(* session that the server keeps for the connection.                       *)
(*                                                                         *)
(* The client is one thread: a step is one event with everything its slots *)
(* do. A message box runs an event loop within a slot, and while it is     *)
(* open no readyRead() is emitted. What is typed into a form is one value, *)
(* Blank if something is missing; a digest is known by the form it was     *)
(* made from. The server may refuse a request, answer it with a plain      *)
(* Error (its queue is full), or close the connection.                     *)
(***************************************************************************)
EXTENDS Naturals, Sequences

CONSTANTS
    Forms,       \* user names with a password
    Blank,       \* an incomplete form
    Nobody,      \* no user
    UnderWay     \* requests of the main window not yet answered

ASSUME BlankIsNoForm == Blank \notin Forms /\ Nobody \notin Forms \cup {Blank}
ASSUME SomeRequest == UnderWay \in Nat \ {0}

VARIABLES
    socket,      \* state of the QTcpSocket
    client,      \* ProtocolClient: authOperation_, authenticated_, pendingPassword_
    dialog,      \* LoginDialog
    window,      \* MainWindow
    shown,       \* which of the two has the client: "dialog" or "window"
    saved,       \* client.ini
    up, down,    \* messages to and from the server
    server       \* what the server keeps for the connection

vars == <<socket, client, dialog, window, shown, saved, up, down, server>>

Anything == Forms \cup {Blank}

(* Requests and answers: the two stages of Login and Register (0: none),    *)
(* the plain Error, and the camera list, which stands for all that is       *)
(* asked of the server by a user who is logged in.                         *)
Ask(operation, stage, form) == [operation |-> operation, stage |-> stage, form |-> form]
Answer(m, ok) == [operation |-> m.operation, stage |-> m.stage, ok |-> ok]
GetCameras == Ask("Cameras", 0, Blank)
PlainError == [operation |-> "Error", stage |-> 0, ok |-> FALSE]

NoClient == [operation |-> "none", authenticated |-> FALSE, password |-> Blank]
NoStage == [operation |-> "none", form |-> Blank]
NewSession == [open |-> TRUE, stage |-> NoStage, user |-> Nobody, refused |-> FALSE]
NoWindow == [form |-> Blank, auto |-> FALSE, timer |-> FALSE, box |-> "none", cameras |-> FALSE]

(* loadSettings(); an automatic login waits for a timer.                   *)
NewDialog(ini) ==
    [action |-> "none", connected |-> FALSE, busy |-> FALSE, login |-> ini.form,
     register |-> Blank, auto |-> ini.auto, timer |-> ini.auto /\ ini.form # Blank]
NewWindow(ini) ==
    [NoWindow EXCEPT !.form = ini.form, !.auto = ini.auto, !.timer = TRUE]

(* saveSettings() of the dialog leaves the password out unless it is to     *)
(* log in automatically; that of the window does not.                      *)
DialogSaves(d) == [form |-> IF d.auto THEN d.login ELSE Blank, auto |-> d.auto]
WindowSaves(w) == [form |-> w.form, auto |-> w.auto]

Init ==
    /\ saved = [form |-> Blank, auto |-> FALSE]
    /\ socket = "unconnected" /\ client = NoClient
    /\ dialog = NewDialog(saved) /\ window = NoWindow /\ shown = "dialog"
    /\ up = <<>> /\ down = <<>> /\ server = [NewSession EXCEPT !.open = FALSE]

-----------------------------------------------------------------------------
(* The process: what the functions that slots call make of it.             *)
Process == [socket |-> socket, client |-> client, dialog |-> dialog,
            window |-> window, shown |-> shown, saved |-> saved, up |-> up]

Becomes(p) ==
    /\ socket' = p.socket /\ client' = p.client /\ up' = p.up
    /\ dialog' = p.dialog /\ window' = p.window /\ shown' = p.shown
    /\ saved' = p.saved

(* protocolError(): handleAuthenticationError(); the window only logs it.  *)
ShowsErrorBug(d) ==                               \* not before a connection
    IF d.action = "none" /\ ~d.busy THEN d ELSE IF ~d.connected THEN d
    ELSE [d EXCEPT !.action = "none", !.busy = FALSE]
ShowsError(d) ==
    IF d.action = "none" /\ ~d.busy THEN d
    ELSE [d EXCEPT !.action = "none", !.busy = FALSE]
ProtocolError(p) == [p EXCEPT !.dialog = ShowsError(@)]

SendPacket(p, m) ==
    IF p.socket = "connected" THEN [p EXCEPT !.up = Append(@, m)] ELSE ProtocolError(p)

SendAuthenticatedPacket(p, m) ==
    IF p.client.authenticated THEN SendPacket(p, m) ELSE ProtocolError(p)

Operates(p, operation, form) ==
    IF p.client.operation # "none" THEN ProtocolError(p)
    ELSE SendPacket([p EXCEPT !.client.operation = operation, !.client.password = form],
                    Ask(operation, 1, form))

RegisterUser(p, form) ==
    IF p.socket # "connected" THEN ProtocolError(p) ELSE Operates(p, "Register", form)

Login(p, form) ==
    IF p.socket # "connected" THEN ProtocolError(p)
    ELSE IF p.client.authenticated THEN p
    ELSE Operates(p, "Login", form)

ConnectToServer(p) ==
    IF p.socket = "unconnected" THEN [p EXCEPT !.socket = "connecting"] ELSE p

RequestCameras(p) == SendAuthenticatedPacket(p, GetCameras)

ResumePendingAction(p) ==
    IF p.shown # "dialog" \/ ~p.dialog.connected THEN p
    ELSE IF p.dialog.action = "Login" THEN Login(p, p.dialog.login)
    ELSE IF p.dialog.action = "Register" THEN RegisterUser(p, p.dialog.register)
    ELSE p

(* beginLogin() and beginRegistration()                                    *)
Begins(p, action, form) ==
    LET q == [p EXCEPT !.dialog.action = action, !.dialog.busy = TRUE]
    IN  IF p.dialog.busy \/ form = Blank THEN p
        ELSE IF p.dialog.connected THEN ResumePendingAction(q) ELSE ConnectToServer(q)

BeginLogin(p) ==
    Begins([p EXCEPT !.dialog.timer = @ /\ p.dialog.busy], "Login", p.dialog.login)
BeginRegistration(p) == Begins(p, "Register", p.dialog.register)

(* The box for automatic login is cleared.                                 *)
Unchecked(p) ==
    LET d == [p.dialog EXCEPT !.auto = FALSE, !.timer = FALSE]
    IN  [p EXCEPT !.dialog = d, !.saved = DialogSaves(d)]

-----------------------------------------------------------------------------
(* dispatch()                                                              *)
EndsOperationBug(m) == m.stage = 1                \* the second stage is forgotten
EndsOperation(m) == m.stage # 0

HandlesError(p, m) ==
    ProtocolError(IF EndsOperation(m)
                  THEN [p EXCEPT !.client.operation = "none", !.client.password = Blank]
                  ELSE p)

(* The first stage succeeded: the digest is sent.                          *)
SendsDigest(p) ==
    SendPacket(p, Ask(p.client.operation, 2, p.client.password))

(* The slots of the dialog stay connected after it is closed; the window    *)
(* shows a message box, and goes on when it is closed.                      *)
RegistrationFinished(p) ==
    LET c == [p.client EXCEPT !.operation = "none", !.password = Blank]
        d == [p.dialog EXCEPT !.action = "none", !.busy = FALSE,
                              !.login = p.dialog.register, !.register = Blank]
    IN  [p EXCEPT !.client = c, !.dialog = d,
                  !.window.box = IF p.shown = "window" THEN "registered" ELSE @]

Authenticated(p) ==
    LET c == [operation |-> "none", authenticated |-> TRUE, password |-> Blank]
        d == [p.dialog EXCEPT !.action = "none", !.busy = FALSE]
        q == [p EXCEPT !.client = c, !.dialog = d, !.saved = DialogSaves(d)]
    IN  IF p.shown = "window" THEN [q EXCEPT !.window.box = "authenticated"]
        ELSE RequestCameras([q EXCEPT !.shown = "window", !.window = NewWindow(q.saved)])

ShowsCameras(p) == [p EXCEPT !.window.cameras = p.shown = "window"]

Dispatch(p, m) ==
    IF ~m.ok THEN HandlesError(p, m)
    ELSE IF m.operation = "Cameras" THEN ShowsCameras(p)
    ELSE IF m.stage = 1 THEN IF m.operation = p.client.operation THEN SendsDigest(p) ELSE p
    ELSE IF m.operation = "Register" THEN RegistrationFinished(p) ELSE Authenticated(p)

ReadAvailable ==
    /\ socket = "connected" /\ down # <<>> /\ window.box = "none"
    /\ Becomes(Dispatch(Process, Head(down)))
    /\ down' = Tail(down)
    /\ UNCHANGED server

-----------------------------------------------------------------------------
(* The socket.                                                             *)
Connected ==
    LET p == [Process EXCEPT !.socket = "connected", !.client.authenticated = FALSE,
                             !.dialog.connected = TRUE, !.up = <<>>]
    IN  /\ socket = "connecting"
        /\ Becomes(IF shown = "dialog" THEN ResumePendingAction(p)
                   ELSE IF window.auto /\ window.form # Blank THEN Login(p, window.form)
                   ELSE p)
        /\ server' = NewSession /\ down' = <<>>

ConnectFails ==
    /\ socket = "connecting"
    /\ Becomes(ProtocolError([Process EXCEPT !.socket = "unconnected"]))
    /\ UNCHANGED <<down, server>>

(* socketError() and disconnected(); what was not read is lost.            *)
Disconnected ==
    LET p == [ProtocolError(Process) EXCEPT !.socket = "unconnected", !.client = NoClient,
                                            !.dialog.connected = FALSE, !.up = <<>>]
    IN  /\ socket = "connected" /\ ~server.open
        /\ Becomes(p)
        /\ down' = <<>>
        /\ UNCHANGED server

-----------------------------------------------------------------------------
(* The server: AuthProtocolHandler, and the camera list for a user who is  *)
(* logged in.                                                              *)
Asked == server.open /\ up # <<>>
Request == Head(up)
Answers(answer, session) ==
    /\ down' = Append(down, answer) /\ up' = Tail(up)
    /\ server' = session
    /\ UNCHANGED <<socket, client, dialog, window, shown, saved>>

BeginsStage ==
    /\ Asked /\ Request.stage = 1
    /\ \/ Answers(Answer(Request, TRUE),
                  [server EXCEPT !.stage = [operation |-> Request.operation,
                                            form |-> Request.form]])
       \/ Answers(Answer(Request, FALSE), server)

FinishesStage ==
    LET fits == server.stage.operation = Request.operation
        user == IF Request.operation = "Login" THEN server.stage.form ELSE server.user
    IN  /\ Asked /\ Request.stage = 2
        /\ \/ fits /\ Answers(Answer(Request, TRUE),
                               [server EXCEPT !.stage = NoStage, !.user = user])
           \/ Answers(Answer(Request, FALSE),
                      IF fits THEN [server EXCEPT !.stage = NoStage] ELSE server)

ListsCameras ==
    /\ Asked /\ Request = GetCameras
    /\ Answers(IF server.user = Nobody THEN PlainError ELSE Answer(Request, TRUE), server)

(* "server task queue is full"; refused is not in the code.                *)
IsFull == Asked /\ Answers(PlainError, [server EXCEPT !.refused = @ \/ Request.stage # 0])

CloseConnection ==
    /\ server.open
    /\ server' = [NewSession EXCEPT !.open = FALSE]
    /\ UNCHANGED <<socket, client, dialog, window, shown, saved, up, down>>

ServerAnswers == BeginsStage \/ FinishesStage \/ ListsCameras \/ IsFull

-----------------------------------------------------------------------------
(* What happens to the dialog. Its fields are disabled while it is busy,    *)
(* the box for automatic login is not.                                     *)
Event(p) == Becomes(p) /\ UNCHANGED <<down, server>>
InDialog == shown = "dialog"

TypeLogin ==
    /\ InDialog /\ ~dialog.busy
    /\ \E f \in Anything :
          LET p == [Process EXCEPT !.dialog.login = f]
          IN  Event(IF dialog.timer THEN Unchecked(p) ELSE p)
TypeRegistration ==
    /\ InDialog /\ ~dialog.busy
    /\ \E f \in Anything : Event([Process EXCEPT !.dialog.register = f])
ToggleAutoLogin ==
    /\ InDialog
    /\ Event(IF dialog.auto THEN Unchecked(Process) ELSE [Process EXCEPT !.dialog.auto = TRUE])
ShowRegistrationPage ==
    /\ InDialog /\ Event([Process EXCEPT !.dialog.timer = FALSE])
ClickLogin == InDialog /\ Event(BeginLogin(Process))
ClickRegister == InDialog /\ Event(BeginRegistration(Process))
AutoLogin ==
    LET p == [Process EXCEPT !.dialog.timer = FALSE]
    IN  /\ InDialog /\ dialog.timer
        /\ Event(IF dialog.auto /\ dialog.login # Blank THEN BeginLogin(p) ELSE p)

DialogStep == TypeLogin \/ TypeRegistration \/ ToggleAutoLogin \/ ShowRegistrationPage
              \/ ClickLogin \/ ClickRegister \/ AutoLogin

(* What happens to the window. The timer asks for the cameras once.        *)
InWindow == shown = "window" /\ window.box = "none"
MayAsk == Len(up) + Len(down) < UnderWay
SettingsSaved == [Process EXCEPT !.saved = WindowSaves(window)]

Type ==
    /\ InWindow
    /\ \E f \in Anything, a \in BOOLEAN :
          Event([Process EXCEPT !.window.form = f, !.window.auto = a])
ClickConnect ==
    /\ InWindow
    /\ Event(ConnectToServer(SettingsSaved))
ClickRegisterUser == InWindow /\ MayAsk /\ Event(RegisterUser(SettingsSaved, window.form))
ClickLoginUser == InWindow /\ MayAsk /\ Event(Login(SettingsSaved, window.form))
Refresh == InWindow /\ MayAsk /\ Event(RequestCameras(Process))
SaveCamera ==
    /\ InWindow /\ MayAsk
    /\ Event(RequestCameras(SettingsSaved))

(* The buttons for a channel that is selected in the list; playRecording()  *)
(* saves the settings.                                                     *)
UseChannel ==
    /\ InWindow /\ MayAsk /\ window.cameras
    /\ \E s \in {saved, WindowSaves(window)} :
          Event(RequestCameras([Process EXCEPT !.saved = s]))

FirstTimer ==
    /\ shown = "window" /\ window.timer
    /\ Event(RequestCameras([Process EXCEPT !.window.timer = FALSE]))
CloseBox ==
    LET p == [Process EXCEPT !.window.box = "none"]
    IN  /\ window.box # "none"
        /\ Event(IF window.box = "registered" THEN Login(p, window.form) ELSE RequestCameras(p))

WindowStep == Type \/ ClickConnect \/ ClickRegisterUser \/ ClickLoginUser
              \/ Refresh \/ SaveCamera \/ UseChannel \/ FirstTimer \/ CloseBox

(* The process ends, with or without ~MainWindow(), and is started again.   *)
Restart ==
    LET ini == IF shown = "window" THEN {saved, WindowSaves(window)} ELSE {saved}
    IN  \E s \in ini :
            /\ saved' = s
            /\ socket' = "unconnected" /\ client' = NoClient
            /\ dialog' = NewDialog(s) /\ window' = NoWindow /\ shown' = "dialog"
            /\ up' = <<>> /\ down' = <<>>
            /\ server' = [NewSession EXCEPT !.open = FALSE]

SocketStep == Connected \/ ConnectFails \/ Disconnected

Next == DialogStep \/ WindowStep \/ Restart \/ SocketStep \/ ReadAvailable
        \/ ServerAnswers \/ CloseConnection

(* A connection comes up or fails, a server answers or closes, and what     *)
(* arrives is read; users and timers may do nothing.                       *)
Spec ==
    /\ Init /\ [][Next]_vars
    /\ WF_vars(Connected \/ ConnectFails) /\ WF_vars(Disconnected)
    /\ WF_vars(ServerAnswers) /\ WF_vars(ReadAvailable)

-----------------------------------------------------------------------------
(* As long as the connection is open, the client is right about it: it      *)
(* takes itself for authenticated only if the server does; an operation is  *)
(* in progress only if its next message is under way or was refused, never  *)
(* on a new connection; and a digest meets the stage it was made for.       *)
AgreesWithServer ==
    /\ socket # "connected" => client = NoClient
    /\ socket = "connected" /\ server.open =>
          /\ client.authenticated => server.user # Nobody
          /\ client.operation # "none" =>
                \/ server.refused
                \/ \E i \in 1..Len(up) : up[i].operation = client.operation
                \/ \E i \in 1..Len(down) : down[i].operation = client.operation
          /\ \A i \in 1..Len(up) :
                up[i].stage = 2 =>
                    server.stage = [operation |-> up[i].operation, form |-> up[i].form]

(* Every attempt to register or to log in ends and the dialog can be used   *)
(* again, or the window is shown: a failed connection, a lost one and every *)
(* answer of the server get there.                                         *)
AttemptsEnd == dialog.busy ~> ~dialog.busy

(* What the code does not do. An operation that was refused with a plain    *)
(* Error ends, so that the next one is not turned away as still running.    *)
RefusedEnds == (client.operation # "none") ~> (client.operation = "none")

(* The settings a login leaves behind are those it was made with.          *)
SavesWhatWasUsed ==
    [][server.user # Nobody /\ ~client.authenticated /\ client.authenticated'
        => saved'.form \in {Blank, server.user}]_vars
=============================================================================
