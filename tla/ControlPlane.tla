----------------------------- MODULE ControlPlane -----------------------------
(***************************************************************************)
(* The server's control interface: JSON-RPC over TCP, WebSocket and HTTP   *)
(* (snapserver-rs/src/jsonrpc.rs, control.rs, http.rs, auth.rs), the       *)
(* command queue and the dispatcher (snapcast-server/src/command.rs), and  *)
(* the application at the other end of the event channel, which turns      *)
(* events into notifications (snapserver-rs/src/main.rs, notify.rs) and    *)
(* saves the snapshots that come with them.                                *)
(*                                                                         *)
(* The state is a value for every object: for a client all it is           *)
(* configured with, None when the server does not know it; for a setting   *)
(* one of the properties of groups and streams.  What a method does to     *)
(* groups and routings is in ServerState and SessionServer; here sessions  *)
(* appear as what they do to the state, to the event channel and to the    *)
(* channel their settings come through.  All notifications go through one  *)
(* broadcast channel, and a connection sees them in the order they were    *)
(* sent, less those it was too slow for; told is what they said last.      *)
(***************************************************************************)
EXTENDS Integers, Sequences, FiniteSets

CONSTANTS
    Conn,        \* control connections
    Kind,        \* [Conn -> {"tcp", "ws", "http"}]
    Client, Setting, Value, Default,
    Method,      \* the methods they call
    Enabled,     \* whether authentication is required
    Task,        \* the application's event task
    None,
    CommandMax, EventMax, SettingsMax,  \* the sizes of the channels
    MaxRequests, \* bound on the requests received
    MaxSteps,    \* bound on what clients do
    MaxRestarts  \* bound on the ends of the server

Object == Client \cup Setting
State == [Object -> Value \cup {None}]

ASSUME ControlAssumption ==
    /\ Kind \in [Conn -> {"tcp", "ws", "http"}]
    /\ Client \cap Setting = {} /\ Default \in Value /\ None \notin Value
    /\ None \notin State \cup {[type |-> "updated"]} \cup [type: {"client"}, object: Client]
    /\ Enabled \in BOOLEAN /\ Task \notin Conn
    /\ {CommandMax, EventMax, SettingsMax} \subseteq Nat \ {0}
    /\ {MaxRequests, MaxSteps, MaxRestarts} \subseteq Nat

VARIABLES
    value,       \* shared_state
    commands,    \* the command channel
    dispatcher,  \* the settings update the dispatcher is sending, or None
    events,      \* the event channel
    session,     \* of each client: where it stands and the event it is sending
    settings,    \* the updates in the channel of its settings
    conn,        \* the control connections
    task,        \* the event task: the event in hand and how far it is
    told,        \* what the last notification said of each object
    saved,       \* the last snapshot the application got
    requests, steps, restarts,
    dropped,     \* history: an event found the channel full
    setters      \* history: the connections that have set each object

clientVars == <<session, settings, steps>>
ghostVars  == <<requests, restarts, dropped, setters>>
vars == <<value, commands, dispatcher, events, clientVars, conn, task, told, saved, ghostVars>>

-----------------------------------------------------------------------------
(* The methods, by what they do.                                             *)

Sets    == {"Client.SetVolume", "Client.SetLatency", "Client.SetName", "Group.SetMute",
            "Group.SetStream", "Group.SetName", "Stream.SetProperty"}
Quiet   == {"Server.DeleteClient", "Stream.Control"}
Updates == {"Group.SetClients", "Stream.RemoveStream"}
Queries == {"Server.GetStatus", "Client.GetStatus", "Group.GetStatus"}
Tokens  == {"Server.GetToken", "Server.Authenticate"}

Changes == Sets \cup Updates \cup {"Server.DeleteClient"}
Pushes  == {"Client.SetVolume", "Client.SetLatency"}   \* sent on to the session
OfClient(method) == method \in Pushes \cup {"Client.SetName", "Server.DeleteClient"}

Request == [method: Method, object: Object \cup {None}, value: Value, token: BOOLEAN]

\* require_str: a method that asks for an object is answered at once without it.
Malformed(r) ==
    /\ r.object = None
    /\ r.method \in Sets \cup Quiet \cup Updates
         \cup {"Client.GetStatus", "Group.GetStatus", "Stream.AddStream", "Server.Authenticate"}

\* Of the requests that differ in what is not looked at, one is enough.
Requests == [c \in Conn |-> {r \in Request :
    /\ r.object # None => (OfClient(r.method) <=> r.object \in Client)
    /\ r.method \notin Changes => r.value = Default /\ r.object = CHOOSE o \in Setting : TRUE
    /\ r.token => Enabled /\ (Kind[c] = "http" \/ r.method = "Server.Authenticate")}]

-----------------------------------------------------------------------------
(* The dispatcher.                                                           *)

\* What a command does to the state; those who name nothing known change nothing.
Effect(state, c) ==
    [state EXCEPT ![c.object] =
        IF @ = None \/ c.method = "Server.DeleteClient" THEN None ELSE c.value]

\* try_send: events that find the channel full are dropped.
Offer(list) ==
    LET all == events \o list
    IN  /\ events' = IF Len(all) <= EventMax THEN all ELSE SubSeq(all, 1, EventMax)
        /\ dropped' = (dropped \/ Len(all) > EventMax)

StateChanged(state) == [type |-> "state", state |-> state]
Changed(c) == [type |-> "changed", object |-> c.object, value |-> c.value]

\* The event that tells of a command.
Event(c) ==
    IF c.method \in Sets THEN Changed(c)
    ELSE [type |-> IF c.method = "Stream.Control" THEN "control" ELSE "updated"]

\* Mutation of Snapshot: a mutation that forgot to report itself.
SnapshotForgets(c, state) ==
    IF c.method \in {"Stream.SetProperty", "Stream.Control", "Group.SetName"} THEN <<>>
    ELSE <<StateChanged(state)>>

\* Two commands make no snapshot.
Snapshot(c, state) ==
    IF c.method \in {"Stream.SetProperty", "Stream.Control"} THEN <<>>
    ELSE <<StateChanged(state)>>

\* A volume is pushed to whoever has the name, a latency only to a known client.
Pushed(c) == c.method = "Client.SetVolume" \/ (c.method = "Client.SetLatency" /\ value[c.object] # None)

Dispatch ==
    /\ dispatcher = None /\ commands # <<>>
    /\ LET c == Head(commands)
       IN  /\ c.method \in Changes \cup {"Stream.Control"}
           /\ value' = IF c.method \in Changes THEN Effect(value, c) ELSE value
           /\ IF Pushed(c)
              THEN dispatcher' = c /\ Offer(Snapshot(c, value'))
              ELSE UNCHANGED dispatcher /\ Offer(Snapshot(c, value') \o <<Event(c)>>)
    /\ commands' = Tail(commands)
    /\ UNCHANGED <<clientVars, conn, task, told, saved, requests, restarts, setters>>

\* push_settings: the session's channel has room, or there is no session.
Receives(c) == session[c].pc \in {"announcing", "serving", "reporting"}

Push ==
    /\ dispatcher # None
    /\ LET c == dispatcher.object
       IN  /\ Receives(c) => settings[c] < SettingsMax
           /\ settings' = IF Receives(c) THEN [settings EXCEPT ![c] = @ + 1] ELSE settings
    /\ Offer(<<Changed(dispatcher)>>)
    /\ dispatcher' = None
    /\ UNCHANGED <<value, commands, session, steps, conn, task, told, saved, requests,
                   restarts, setters>>

\* Mutation of Answer: the refusal of AddStream is not sent.
AnswerNoRefusal ==
    /\ dispatcher = None /\ commands # <<>>
    /\ LET c == Head(commands)
       IN  /\ c.method \in {"GetStatus", "Stream.AddStream"}
           /\ task' = IF c.from = Task THEN [task EXCEPT !.reply = value] ELSE task
           /\ conn' = IF c.method = "GetStatus" /\ c.from # Task /\ conn[c.from].pc = "waiting"
                      THEN [conn EXCEPT ![c.from].reply = value] ELSE conn
    /\ commands' = Tail(commands)
    /\ UNCHANGED <<value, dispatcher, events, clientVars, told, saved, ghostVars>>

\* GetStatus, and AddStream, which is refused.
Answer ==
    /\ dispatcher = None /\ commands # <<>>
    /\ LET c == Head(commands)
       IN  /\ c.method \in {"GetStatus", "Stream.AddStream"}
           /\ task' = IF c.from = Task THEN [task EXCEPT !.reply = value] ELSE task
           /\ conn' = IF c.from = Task \/ conn[c.from].pc # "waiting" THEN conn
                      ELSE IF c.method = "GetStatus"
                      THEN [conn EXCEPT ![c.from].reply = value]
                      ELSE [conn EXCEPT ![c.from].pc = "responding"]
    /\ commands' = Tail(commands)
    /\ UNCHANGED <<value, dispatcher, events, clientVars, told, saved, ghostVars>>

-----------------------------------------------------------------------------
(* The streaming sessions, as far as they meet the control plane.            *)

Idle == [pc |-> "off", event |-> None]
Sending(pc, event) == [pc |-> pc, event |-> event]

Step(c, s) ==
    /\ steps < MaxSteps /\ steps' = steps + 1
    /\ session' = [session EXCEPT ![c] = s]

Arrive(c) ==
    /\ session[c].pc = "off"
    /\ value' = [value EXCEPT ![c] = IF @ = None THEN Default ELSE @]
    /\ settings' = [settings EXCEPT ![c] = 0]
    /\ Step(c, Sending("announcing", [type |-> "client", object |-> c]))
    /\ UNCHANGED <<commands, dispatcher, events, conn, task, told, saved, ghostVars>>

\* ClientInfo: the state changes, and then its event awaits room.
Report(c, v) ==
    /\ session[c].pc = "serving"
    /\ value' = [value EXCEPT ![c] = IF @ = None THEN None ELSE v]
    /\ Step(c, Sending("reporting", [type |-> "changed", object |-> c, value |-> v]))
    /\ UNCHANGED <<commands, dispatcher, events, settings, conn, task, told, saved, ghostVars>>

Leave(c) ==
    /\ session[c].pc = "serving"
    /\ settings' = [settings EXCEPT ![c] = 0]
    /\ Step(c, Sending("leaving", [type |-> "client", object |-> c]))
    /\ UNCHANGED <<value, commands, dispatcher, events, conn, task, told, saved, ghostVars>>

\* The session's event finds room.
Post(c) ==
    /\ session[c].event # None /\ Len(events) < EventMax
    /\ events' = Append(events, session[c].event)
    /\ session' = [session EXCEPT ![c] =
            [pc |-> IF @.pc = "leaving" THEN "off" ELSE "serving", event |-> None]]
    /\ UNCHANGED <<value, commands, dispatcher, settings, steps, conn, task, told, saved,
                   ghostVars>>

TakeSettings(c) ==
    /\ session[c].pc = "serving" /\ settings[c] > 0
    /\ settings' = [settings EXCEPT ![c] = @ - 1]
    /\ UNCHANGED <<value, commands, dispatcher, events, session, steps, conn, task, told,
                   saved, ghostVars>>

-----------------------------------------------------------------------------
(* The application: main's event task, and the saving of snapshots.          *)

NoEvent == [event |-> None, asked |-> FALSE, reply |-> None]

TakeEvent ==
    /\ task.event = None /\ events # <<>>
    /\ events' = Tail(events)
    /\ LET e == Head(events)
       IN  /\ saved' = IF e.type = "state" THEN e.state ELSE saved
           /\ told' = IF e.type = "changed" THEN [told EXCEPT ![e.object] = e.value] ELSE told
           /\ task' = IF e.type \in {"client", "updated"} THEN [NoEvent EXCEPT !.event = e]
                      ELSE task
    /\ UNCHANGED <<value, commands, dispatcher, clientVars, conn, ghostVars>>

GetStatus(from) == [method |-> "GetStatus", object |-> None, value |-> Default, from |-> from]

\* get_full_status asks the dispatcher.
AskStatus ==
    /\ task.event # None /\ ~task.asked /\ Len(commands) < CommandMax
    /\ commands' = Append(commands, GetStatus(Task))
    /\ task' = [task EXCEPT !.asked = TRUE]
    /\ UNCHANGED <<value, dispatcher, events, clientVars, conn, told, saved, ghostVars>>

\* Client.OnConnect and OnDisconnect tell of one client, Server.OnUpdate of everything.
TellStatus ==
    /\ task.reply # None
    /\ told' = IF task.event.type = "updated" THEN task.reply
               ELSE [told EXCEPT ![task.event.object] = task.reply[task.event.object]]
    /\ task' = NoEvent
    /\ UNCHANGED <<value, commands, dispatcher, events, clientVars, conn, saved, ghostVars>>

-----------------------------------------------------------------------------
(* The control connections.                                                  *)

NewConn == [pc |-> "idle", request |-> None, authenticated |-> ~Enabled, reply |-> None]

\* The gate: TCP and WebSocket remember that they were authenticated, and let two
\* methods through before; every HTTP request carries its own token.
Admits(c, r) ==
    \/ ~Enabled
    \/ IF Kind[c] = "http" THEN r.token
       ELSE conn[c].authenticated \/ r.method \in Tokens

\* Mutation of FirstStep: the WebSocket has no gate.
FirstStepUngated(c, r) ==
    IF (Kind[c] # "ws" /\ ~Admits(c, r)) \/ Malformed(r) THEN "responding"
    ELSE CASE r.method \in Sets \cup Quiet \cup Updates \cup {"Stream.AddStream"} -> "sending"
           [] r.method \in Queries -> "asking"
           [] r.method \in Tokens \cup {"Server.GetRPCVersion"} -> "responding"
           [] OTHER -> IF Kind[c] = "ws" THEN "idle" ELSE "responding"

\* Where handle_request goes from here: a command, a status, or straight to the
\* response.  A WebSocket does not answer a method nobody knows.
FirstStep(c, r) ==
    IF ~Admits(c, r) \/ Malformed(r) THEN "responding"
    ELSE CASE r.method \in Sets \cup Quiet \cup Updates \cup {"Stream.AddStream"} -> "sending"
           [] r.method \in Queries -> "asking"
           [] r.method \in Tokens \cup {"Server.GetRPCVersion"} -> "responding"
           [] OTHER -> IF Kind[c] = "ws" THEN "idle" ELSE "responding"

Receive(c, r) ==
    /\ conn[c].pc = "idle" /\ requests < MaxRequests
    /\ requests' = requests + 1
    /\ LET accepted == Admits(c, r) /\ r.method = "Server.Authenticate" /\ r.token
           known == conn[c].authenticated \/ (accepted /\ Kind[c] # "http")
       IN  conn' = [conn EXCEPT ![c] =
                [@ EXCEPT !.pc = FirstStep(c, r), !.request = r, !.authenticated = known]]
    /\ UNCHANGED <<value, commands, dispatcher, events, clientVars, task, told, saved,
                   restarts, dropped, setters>>

\* Whether the request ends in a notification, and what comes after the command.
Notifies(r) == r.method \in Sets \cup Updates
Reporting(c, r) == IF Kind[c] = "http" /\ Notifies(r) THEN "notifying" ELSE "responding"

\* Mutation of SendCommand: the queue has no bound.
SendCommandUnbounded(c) ==
    /\ conn[c].pc = "sending"
    /\ LET r == conn[c].request
       IN  /\ commands' = Append(commands, [method |-> r.method, object |-> r.object,
                                            value |-> r.value, from |-> c])
           /\ conn' = [conn EXCEPT ![c].pc =
                CASE r.method \in Updates -> "asking"
                  [] r.method = "Stream.AddStream" -> "waiting"
                  [] OTHER -> Reporting(c, r)]
           /\ setters' = IF r.method \in Changes
                         THEN [setters EXCEPT ![r.object] = @ \cup {c}] ELSE setters
    /\ UNCHANGED <<value, dispatcher, events, clientVars, task, told, saved, requests,
                   restarts, dropped>>

SendCommand(c) ==
    /\ conn[c].pc = "sending" /\ Len(commands) < CommandMax
    /\ LET r == conn[c].request
       IN  /\ commands' = Append(commands, [method |-> r.method, object |-> r.object,
                                            value |-> r.value, from |-> c])
           /\ conn' = [conn EXCEPT ![c].pc =
                CASE r.method \in Updates -> "asking"
                  [] r.method = "Stream.AddStream" -> "waiting"
                  [] OTHER -> Reporting(c, r)]
           /\ setters' = IF r.method \in Changes
                         THEN [setters EXCEPT ![r.object] = @ \cup {c}] ELSE setters
    /\ UNCHANGED <<value, dispatcher, events, clientVars, task, told, saved, requests,
                   restarts, dropped>>

\* Mutation of AskServer: a query overtakes the commands in the queue.
AskServerFirst(c) ==
    /\ conn[c].pc = "asking" /\ Len(commands) < CommandMax
    /\ commands' = <<GetStatus(c)>> \o commands
    /\ conn' = [conn EXCEPT ![c].pc = "waiting"]
    /\ UNCHANGED <<value, dispatcher, events, clientVars, task, told, saved, ghostVars>>

AskServer(c) ==
    /\ conn[c].pc = "asking" /\ Len(commands) < CommandMax
    /\ commands' = Append(commands, GetStatus(c))
    /\ conn' = [conn EXCEPT ![c].pc = "waiting"]
    /\ UNCHANGED <<value, dispatcher, events, clientVars, task, told, saved, ghostVars>>

GotStatus(c) ==
    /\ conn[c].pc = "waiting" /\ conn[c].reply # None
    /\ conn' = [conn EXCEPT ![c].pc = Reporting(c, conn[c].request)]
    /\ UNCHANGED <<value, commands, dispatcher, events, clientVars, task, told, saved, ghostVars>>

\* The response is written: HTTP is done then, the others notify next.
Respond(c) ==
    /\ conn[c].pc = "responding"
    /\ conn' = [conn EXCEPT ![c] =
            IF Kind[c] # "http" /\ Admits(c, @.request) /\ ~Malformed(@.request)
                 /\ Notifies(@.request)
            THEN [@ EXCEPT !.pc = "notifying"]
            ELSE [@ EXCEPT !.pc = "idle", !.request = None, !.reply = None]]
    /\ UNCHANGED <<value, commands, dispatcher, events, clientVars, task, told, saved, ghostVars>>

\* The echo: of the value that was asked for, or of the status that was answered.
Notify(c) ==
    /\ conn[c].pc = "notifying"
    /\ LET r == conn[c].request
       IN  told' = IF r.method \in Updates THEN conn[c].reply
                   ELSE [told EXCEPT ![r.object] = r.value]
    /\ conn' = [conn EXCEPT ![c] =
            IF Kind[c] = "http" THEN [@ EXCEPT !.pc = "responding"]
            ELSE [@ EXCEPT !.pc = "idle", !.request = None, !.reply = None]]
    /\ UNCHANGED <<value, commands, dispatcher, events, clientVars, task, saved, ghostVars>>

\* The user goes.  An idle connection is closed, and the next one starts anew; a
\* WebSocket that cannot be written is closed before it notifies; the handler of
\* an HTTP request is dropped wherever it awaits, and its answer is lost.
HangUp(c) ==
    /\ \/ conn[c].pc = "idle" /\ Kind[c] # "http" /\ conn[c] # NewConn
       \/ conn[c].pc = "responding" /\ Kind[c] = "ws"
    /\ conn' = [conn EXCEPT ![c] = NewConn]
    /\ UNCHANGED <<value, commands, dispatcher, events, clientVars, task, told, saved, ghostVars>>

Abandon(c) ==
    /\ Kind[c] = "http" /\ conn[c].pc \in {"sending", "asking", "waiting"}
    /\ conn' = [conn EXCEPT ![c] = [NewConn EXCEPT !.pc = "gone"]]
    /\ UNCHANGED <<value, commands, dispatcher, events, clientVars, task, told, saved, ghostVars>>

-----------------------------------------------------------------------------
(* The specification.                                                        *)

\* Stop or a crash ends the process, and the application starts it again with
\* the snapshot it saved last as initial_state.
Restart ==
    /\ restarts < MaxRestarts /\ restarts' = restarts + 1
    /\ value' = saved
    /\ commands' = <<>> /\ dispatcher' = None /\ events' = <<>>
    /\ session' = [c \in Client |-> Idle] /\ settings' = [c \in Client |-> 0]
    /\ conn' = [c \in Conn |-> NewConn] /\ task' = NoEvent
    /\ told' = [o \in Object |-> None] /\ setters' = [o \in Object |-> {}]
    /\ UNCHANGED <<saved, steps, requests, dropped>>

FirstState == [o \in Object |-> IF o \in Client THEN None ELSE Default]

Init ==
    /\ value = FirstState /\ saved = FirstState
    /\ commands = <<>> /\ dispatcher = None /\ events = <<>>
    /\ session = [c \in Client |-> Idle] /\ settings = [c \in Client |-> 0]
    /\ conn = [c \in Conn |-> NewConn] /\ task = NoEvent
    /\ told = [o \in Object |-> None] /\ setters = [o \in Object |-> {}]
    /\ requests = 0 /\ steps = 0 /\ restarts = 0 /\ dropped = FALSE

DispatcherStep == Dispatch \/ Push \/ Answer
TaskStep == TakeEvent \/ AskStatus \/ TellStatus
ConnStep(c) == SendCommand(c) \/ AskServer(c) \/ GotStatus(c) \/ Respond(c) \/ Notify(c)

Next ==
    \/ DispatcherStep \/ TaskStep
    \/ \E c \in Client :
        \/ Arrive(c) \/ Leave(c) \/ Post(c) \/ TakeSettings(c)
        \/ \E v \in Value : Report(c, v)
    \/ \E c \in Conn :
        \/ ConnStep(c) \/ HangUp(c) \/ Abandon(c)
        \/ \E r \in Requests[c] : Receive(c, r)
    \/ Restart

Spec == Init /\ [][Next]_vars

\* All of these are tasks that run whenever they can.
Fairness ==
    /\ WF_vars(DispatcherStep) /\ WF_vars(TaskStep)
    /\ \A c \in Client : WF_vars(Post(c)) /\ WF_vars(TakeSettings(c))
    /\ \A c \in Conn : WF_vars(ConnStep(c))

FairSpec == Spec /\ Fairness

-----------------------------------------------------------------------------
(* Properties.                                                               *)

Command == [method: Changes \cup {"Stream.Control", "Stream.AddStream", "GetStatus"},
            object: Object \cup {None}, value: Value, from: Conn \cup {Task}]

TypeOK ==
    /\ value \in State /\ saved \in State /\ told \in State
    /\ commands \in Seq(Command) /\ Len(commands) <= CommandMax
    /\ dispatcher \in Command \cup {None}
    /\ Len(events) <= EventMax
    /\ settings \in [Client -> 0 .. SettingsMax]
    /\ conn \in [Conn -> [pc: {"idle", "sending", "asking", "waiting", "responding",
                               "notifying", "gone"},
                          request: Request \cup {None}, authenticated: BOOLEAN,
                          reply: State \cup {None}]]

\* With authentication on, a request gets past the gate only with a valid token:
\* its own, or one shown before on the same connection, and a token shown on a
\* connection that was closed since counts for nothing (run_tcp, handle_ws,
\* http_jsonrpc_handler).
GatedByToken ==
    \A c \in Conn :
        Enabled /\ conn[c].pc \in {"sending", "asking", "waiting", "notifying"} =>
            IF Kind[c] = "http" THEN conn[c].request.token ELSE conn[c].authenticated

\* Nothing that concerns the settings is under way.
Quiesced ==
    /\ commands = <<>> /\ dispatcher = None /\ events = <<>> /\ task = NoEvent
    /\ \A c \in Conn : conn[c].pc \in {"idle", "gone"}

\* When one connection sets and no event is lost, what was notified last is what
\* holds: neither the echo of a request nor the status fetched for an event that
\* came before it may have the last word (handle_request, main's event task).
LastTold ==
    Quiesced /\ ~dropped /\ Cardinality(UNION {setters[o] : o \in Object}) <= 1 =>
        \A s \in Setting : setters[s] # {} => told[s] = value[s]

\* What the application has saved when all is quiet holds every setting, so that
\* a restart brings it back: each mutation is followed by its snapshot, and
\* snapshots arrive in order (StateChanged in Dispatcher::dispatch).
SettingsSaved ==
    Quiesced /\ ~dropped /\ "Stream.SetProperty" \notin Method =>
        \A s \in Setting : saved[s] = value[s]

\* The control plane implements ControlService: queue, channels and tasks lose,
\* repeat and reorder no setting of one user, and no status is older than what
\* its asker had set.
Mine(c, d) == d.from = c /\ d.method \in Changes
\* What c has set, of a queue, in the order it was sent.
SetBy(c, q) ==
    LET set[n \in 0 .. Len(q)] ==
            IF n = 0 THEN <<>>
            ELSE IF Mine(c, q[n]) THEN Append(set[n - 1], q[n]) ELSE set[n - 1]
    IN  set[Len(q)]
OfConn(c) == SetBy(c, commands)
Operations == [method: Changes \cap Method, object: Object, value: Value, from: Conn]

Service == INSTANCE ControlService WITH
    User <- Conn, Operation <- Operations,
    pending <- [c \in Conn |-> OfConn(c)],
    answer <- [c \in Conn |-> conn[c].reply]

ServiceSpec == Service!Spec

\* Every request is answered, or its user is gone, as long as no session lets the
\* channel of its settings fill up: then the dispatcher waits for the session, the
\* session may wait for the event task, and the event task for the dispatcher.
RequestsAnswered ==
    [](\A c \in Client : settings[c] < SettingsMax) =>
        \A c \in Conn : []<>(conn[c].pc \in {"idle", "gone"})
=============================================================================
