----------------------------- MODULE SessionServer -----------------------------
(***************************************************************************)
(* The streaming sessions and the command dispatcher of snapcast-server    *)
(* (session.rs, command.rs).  Every accepted connection runs handle_client *)
(* in a task of its own; one dispatcher task handles the commands one at a *)
(* time; they meet in the shared state (ServerState) and in two maps from  *)
(* client id to channel, routing_senders and settings_senders, each behind *)
(* a lock of its own.  Between two critical sections any other task may    *)
(* run, so handle_client and a command are sequences of steps here.        *)
(*                                                                         *)
(* A session is one run of handle_client.  Several sessions may carry the  *)
(* same client id: a client whose connection broke without the server      *)
(* noticing connects again.                                                *)
(*                                                                         *)
(* Left out: the event channel to the embedder (its sends are taken to     *)
(* find room), Time replies, custom messages, and the bytes of a frame.    *)
(***************************************************************************)
EXTENDS ServerState, Sequences

CONSTANTS
    Session,            \* connections ever accepted
    None,               \* no session, no client
    SettingsCap,        \* capacity of a session's settings channel (16 in the code)
    SendAudioToMuted,   \* ServerConfig.send_audio_to_muted
    MaxCommands         \* bound on the commands the embedder issues

ASSUME SessionAssumption == /\ None \notin Session \cup ClientId
                            /\ SettingsCap \in Nat \ {0}
                            /\ SendAudioToMuted \in BOOLEAN
                            /\ MaxCommands \in Nat

VARIABLES
    pc,                 \* where handle_client stands, per session
    cid,                \* the client id of its Hello, until handle_client returns
    routing,            \* its initial_routing, then session_loop's routing
    watch,              \* its watch channel: newest value, and whether it is unseen
    settings,           \* its settings channel
    wire,               \* what its client was sent last
    view,               \* its client_settings, then the settings its client plays with
    routing_senders,    \* client id -> the session whose watch sender is registered
    settings_senders,   \* client id -> the session whose settings sender is registered
    job,                \* the command being dispatched
    issued,             \* commands issued so far
    missed,             \* history: sessions a routing change went past (see below)
    crossed             \* history: sessions a settings change went past (see below)

sessionVars == <<pc, cid, routing, watch, settings, wire, view>>
senderVars  == <<routing_senders, settings_senders>>
commandVars == <<job, issued>>
historyVars == <<missed, crossed>>
vars == <<stateVars, sessionVars, senderVars, commandVars, historyVars>>

-----------------------------------------------------------------------------
(* Data.                                                                     *)

SessionRouting == [stream_id: StreamId \cup {NoStream}, client_muted: BOOLEAN,
                   group_muted: BOOLEAN]

\* ServerSettings and ClientSettingsUpdate, without the constant buffer_ms.
ServerSettings == [percent: Percent, muted: BOOLEAN, latency: Latency]

\* build_routing, for a client in a group
RoutingOf(c) ==
    [stream_id    |-> StreamFor(c),
     client_muted |-> c \in DOMAIN clients /\ clients[c].config.muted,
     group_muted  |-> MutedFor(c)]

SettingsOf(c) == [percent |-> clients[c].config.percent,
                  muted   |-> clients[c].config.muted,
                  latency |-> clients[c].config.latency]

NoRouting  == [stream_id |-> NoStream, client_muted |-> FALSE, group_muted |-> FALSE]
NoSettings == [percent |-> FullVolume, muted |-> FALSE, latency |-> 0]

\* The stream of the last CodecHeader, and who wrote it.
NothingSent == [codec |-> NoStream, by |-> "nobody"]

Idle == [at |-> "idle", scope |-> "none", id |-> None, update |-> NoSettings, to |-> None]

Steps == {"new", "register", "publish", "greet", "loop",
          "close_settings", "close_routing", "close_state", "gone"}

\* The receivers of a session's settings and watch channels live from their creation
\* until session_loop, or a failed handshake, returns.
Receiving(s) == pc[s] \in {"register", "publish", "greet", "loop"}
Listening(s) == pc[s] \in {"greet", "loop"}

Goto(s, step) == pc' = [pc EXCEPT ![s] = step]

SameClient(s) == {t \in Session : cid[t] = cid[s] /\ Receiving(t)}

\* handle_client returns.
End(s) == Goto(s, "gone") /\ cid' = [cid EXCEPT ![s] = None]

\* session_loop returns, or handle_client before it: the connection, the receiving ends
\* of the channels and every local but the client id are dropped.
Drop(s) ==
    /\ routing' = [routing EXCEPT ![s] = NoRouting]
    /\ watch' = [watch EXCEPT ![s] = [value |-> NoRouting, unseen |-> FALSE]]
    /\ settings' = [settings EXCEPT ![s] = <<>>]
    /\ wire' = [wire EXCEPT ![s] = NothingSent]
    /\ view' = [view EXCEPT ![s] = NoSettings]
    /\ missed' = missed \ {s}
    /\ crossed' = crossed \ {s}

\* Mutation of HasRoom: one message too many.
HasRoomForOneMore(s) == Len(settings[s]) <= SettingsCap

\* The session's settings channel accepts a message.
HasRoom(s) == Len(settings[s]) < SettingsCap

\* Mutation of Announces: the default stream's header is taken for known from the handshake.
AnnouncesButDefault(old, new) ==
    new.stream_id # old.stream_id /\ new.stream_id \in StreamId \ {DefaultStream}

\* session_loop writes a CodecHeader: another stream, and codec_header_for finds one.
Announces(old, new) == new.stream_id # old.stream_id /\ new.stream_id \in StreamId

\* should_send_chunk.  A chunk of any stream may come out of the broadcast channel at
\* any moment of the loop; writing it or skipping it changes nothing a session keeps.
SendsChunk(s, stream) ==
    /\ pc[s] = "loop"
    /\ stream = routing[s].stream_id
    /\ SendAudioToMuted \/ ~ (routing[s].client_muted \/ routing[s].group_muted)

-----------------------------------------------------------------------------
(* handle_client: handshake.                                                 *)

\* No Hello, refused by the filter, or by the auth check: nothing was registered.
Refuse(s) ==
    /\ pc[s] = "new"
    /\ End(s)
    /\ Drop(s)
    /\ UNCHANGED <<stateVars, senderVars, commandVars>>

\* An accepted Hello; settings_senders.insert replaces an earlier session's sender.
Hello(s, c) ==
    /\ pc[s] = "new"
    /\ Goto(s, "register")
    /\ cid' = [cid EXCEPT ![s] = c]
    /\ settings_senders' = [settings_senders EXCEPT ![c] = s]
    /\ UNCHANGED <<stateVars, routing, watch, settings, wire, view,
                   routing_senders, commandVars, historyVars>>

\* The block under the state lock: register, and copy settings and routing out of it.
\* A client that had no group gets one without a push, and a client that was unknown
\* gets fresh settings: both go past every other session of that client.
RegisterClient(s) ==
    LET others == SameClient(s) \ {s}
        fresh  == cid[s] \notin DOMAIN clients
    IN  /\ pc[s] = "register"
        /\ Goto(s, "publish")
        /\ Register(cid[s]) /\ UNCHANGED cid
        /\ view' = [view EXCEPT ![s] = SettingsOf(cid[s])']
        /\ routing' = [routing EXCEPT ![s] = RoutingOf(cid[s])']
        /\ missed' = (IF Grouped(cid[s]) THEN missed ELSE missed \cup others) \ {s}
        /\ crossed' = LET passed == IF fresh THEN SameClient(s) ELSE {}
                      IN  IF settings[s] = <<>> THEN (crossed \cup passed) \ {s}
                                                ELSE crossed \cup passed
        /\ UNCHANGED <<watch, settings, wire, senderVars, commandVars>>

\* watch::channel(initial_routing) and routing_senders.insert
PublishRouting(s) ==
    /\ pc[s] = "publish"
    /\ Goto(s, "greet")
    /\ watch' = [watch EXCEPT ![s] = [value |-> routing[s], unseen |-> FALSE]]
    /\ routing_senders' = [routing_senders EXCEPT ![cid[s]] = s]
    /\ UNCHANGED <<stateVars, cid, routing, settings, wire, view,
                   settings_senders, commandVars, historyVars>>

\* The writes of ServerSettings and of the initial stream's CodecHeader, then
\* session_loop's first line, which takes the watch channel's value and leaves it
\* unseen.  Nothing shared is touched between the three.
StartLoop(s) ==
    /\ pc[s] = "greet"
    /\ Goto(s, "loop")
    /\ wire' = [wire EXCEPT ![s] = IF routing[s].stream_id \in StreamId
                                   THEN [codec |-> routing[s].stream_id, by |-> "handshake"]
                                   ELSE @]
    /\ routing' = [routing EXCEPT ![s] = watch[s].value]
    /\ UNCHANGED <<stateVars, cid, watch, settings, view,
                   senderVars, commandVars, historyVars>>

\* Either write fails: `?` leaves handle_client past its clean-up.
FailHandshake(s) ==
    /\ pc[s] = "greet"
    /\ End(s)
    /\ Drop(s)
    /\ UNCHANGED <<stateVars, senderVars, commandVars>>

-----------------------------------------------------------------------------
(* session_loop: one action per arm of the select!.                          *)

\* Mutation of SeeRouting: the routing is adopted only along with a new stream.
SeeRoutingOnSwitch(s) ==
    LET new == watch[s].value
    IN  /\ pc[s] = "loop"
        /\ watch[s].unseen
        /\ IF Announces(routing[s], new)
           THEN /\ wire' = [wire EXCEPT ![s] = [codec |-> new.stream_id, by |-> "loop"]]
                /\ routing' = [routing EXCEPT ![s] = new]
           ELSE UNCHANGED <<wire, routing>>
        /\ watch' = [watch EXCEPT ![s].unseen = FALSE]
        /\ UNCHANGED <<stateVars, pc, cid, settings, view,
                       senderVars, commandVars, historyVars>>

\* Mutation of SeeRouting: the value is borrowed and never marked as seen.
SeeRoutingUnmarked(s) ==
    /\ pc[s] = "loop"
    /\ watch[s].unseen
    /\ routing' = [routing EXCEPT ![s] = watch[s].value]
    /\ UNCHANGED <<stateVars, pc, cid, watch, settings, wire, view,
                   senderVars, commandVars, historyVars>>

\* routing_rx.changed(): a CodecHeader if the stream is another one and has a codec.
SeeRouting(s) ==
    LET new == watch[s].value
    IN  /\ pc[s] = "loop"
        /\ watch[s].unseen
        /\ wire' = [wire EXCEPT ![s] = IF Announces(routing[s], new)
                                       THEN [codec |-> new.stream_id, by |-> "loop"]
                                       ELSE @]
        /\ routing' = [routing EXCEPT ![s] = new]
        /\ watch' = [watch EXCEPT ![s].unseen = FALSE]
        /\ UNCHANGED <<stateVars, pc, cid, settings, view,
                       senderVars, commandVars, historyVars>>

\* The client moved its own volume: it plays with the new value already, and the
\* state follows.  Nothing is pushed: the mute goes past every session of the client,
\* the settings past its other sessions, and what is queued for this one is older.
ReadClientInfo(s, percent, muted) ==
    LET c      == cid[s]
        remute == c \in DOMAIN clients /\ clients[c].config.muted # muted
    IN  /\ pc[s] = "loop"
        /\ ChangeVolume(c, percent, muted)
        /\ view' = [view EXCEPT ![s].percent = percent, ![s].muted = muted]
        /\ missed' = missed \cup (IF remute THEN SameClient(s) ELSE {})
        /\ crossed' = crossed \cup (SameClient(s) \ {s}) \cup (IF settings[s] # <<>> THEN {s} ELSE {})
        /\ UNCHANGED <<pc, cid, routing, watch, settings, wire,
                       senderVars, commandVars>>

\* settings_rx.recv() and write_settings
ReceiveSettings(s) ==
    /\ pc[s] = "loop"
    /\ settings[s] # <<>>
    /\ view' = [view EXCEPT ![s] = Head(settings[s])]
    /\ settings' = [settings EXCEPT ![s] = Tail(@)]
    /\ UNCHANGED <<stateVars, pc, cid, routing, watch, wire,
                   senderVars, commandVars, historyVars>>

\* A read or a write fails, or the broadcast channel closed.
LeaveLoop(s) ==
    /\ pc[s] = "loop"
    /\ Goto(s, "close_settings")
    /\ Drop(s)
    /\ UNCHANGED <<stateVars, cid, senderVars, commandVars>>

-----------------------------------------------------------------------------
(* handle_client: clean-up, by client id.                                    *)

CloseSettings(s) ==
    /\ pc[s] = "close_settings"
    /\ Goto(s, "close_routing")
    /\ settings_senders' = [settings_senders EXCEPT ![cid[s]] = None]
    /\ UNCHANGED <<stateVars, cid, routing, watch, settings, wire, view,
                   routing_senders, commandVars, historyVars>>

CloseRouting(s) ==
    /\ pc[s] = "close_routing"
    /\ Goto(s, "close_state")
    /\ routing_senders' = [routing_senders EXCEPT ![cid[s]] = None]
    /\ UNCHANGED <<stateVars, cid, routing, watch, settings, wire, view,
                   settings_senders, commandVars, historyVars>>

\* Mutation of CloseState: the client is forgotten with its session.
CloseStateForgets(s) ==
    /\ pc[s] = "close_state"
    /\ End(s)
    /\ clients' = Restrict(clients, DOMAIN clients \ {cid[s]})
    /\ UNCHANGED <<groups, streams, spent, routing, watch, settings, wire, view,
                   senderVars, commandVars, historyVars>>

CloseState(s) ==
    /\ pc[s] = "close_state"
    /\ End(s)
    /\ Unregister(cid[s])
    /\ UNCHANGED <<routing, watch, settings, wire, view,
                   senderVars, commandVars, historyVars>>

-----------------------------------------------------------------------------
(* Dispatcher: the critical section of a command, then what it pushes.       *)

TakeCommand ==
    /\ job = Idle
    /\ issued < MaxCommands
    /\ issued' = issued + 1

\* The command goes on with a routing update of that scope, or is done ("none").
ThenRoute(scope, id) ==
    job' = [Idle EXCEPT !.at = IF scope = "none" THEN "idle" ELSE "routing",
                        !.scope = scope, !.id = IF scope = "none" THEN None ELSE id]

OthersUnchanged == UNCHANGED <<sessionVars, senderVars, historyVars>>

\* SetClientVolume pushes the settings even of a client it does not know.
DispatchClientVolume(c, percent, muted) ==
    /\ TakeCommand
    /\ SetClientVolume(c, percent, muted)
    /\ job' = [Idle EXCEPT !.at = "settings", !.scope = "client", !.id = c,
                  !.update = [percent |-> percent, muted |-> muted,
                              latency |-> GetOrCreate(c).latency]]
    /\ OthersUnchanged

\* SetClientLatency pushes the settings of a client it knows, and no routing.
DispatchClientLatency(c, latency) ==
    /\ TakeCommand
    /\ SetClientLatency(c, latency)
    /\ IF c \in DOMAIN clients
       THEN job' = [Idle EXCEPT !.at = "settings", !.id = c, !.update = SettingsOf(c)']
       ELSE UNCHANGED job
    /\ OthersUnchanged

\* SetClientName, SetGroupName, SetStreamMeta: nothing to push.
DispatchQuietCommand ==
    /\ TakeCommand
    /\ \/ \E c \in ClientId, name \in Name : SetClientName(c, name)
       \/ \E gid \in GroupId, name \in Name : SetGroupName(gid, name)
       \/ \E stream \in StreamId, meta \in Meta : SetStreamMeta(stream, meta)
    /\ UNCHANGED job /\ OthersUnchanged

DispatchGroupStream(gid, stream) ==
    TakeCommand /\ SetGroupStream(gid, stream) /\ ThenRoute("group", gid) /\ OthersUnchanged

DispatchGroupMute(gid, muted) ==
    TakeCommand /\ SetGroupMute(gid, muted) /\ ThenRoute("group", gid) /\ OthersUnchanged

DispatchGroupClients(gid, ids) ==
    TakeCommand /\ SetGroupClients(gid, ids) /\ ThenRoute("all", None) /\ OthersUnchanged

DispatchDeleteClient(c) ==
    TakeCommand /\ DeleteClient(c) /\ ThenRoute("all", None) /\ OthersUnchanged

DispatchRemoveStream(stream) ==
    TakeCommand /\ RemoveStream(stream) /\ ThenRoute("all", None) /\ OthersUnchanged

\* push_settings looks the sender up and releases the lock ...
LookUpSettings ==
    /\ job.at = "settings"
    /\ IF settings_senders[job.id] = None
       THEN ThenRoute(job.scope, job.id)
       ELSE job' = [job EXCEPT !.at = "send", !.to = settings_senders[job.id]]
    /\ UNCHANGED <<stateVars, sessionVars, senderVars, issued, historyVars>>

\* Mutation of SendSettings: the update is dropped when the channel is full (try_send).
TrySendSettings ==
    /\ job.at = "send"
    /\ settings' = IF Receiving(job.to) /\ HasRoom(job.to)
                   THEN [settings EXCEPT ![job.to] = Append(@, job.update)]
                   ELSE settings
    /\ ThenRoute(job.scope, job.id)
    /\ UNCHANGED <<stateVars, pc, cid, routing, watch, wire, view,
                   senderVars, issued, historyVars>>

\* Mutation of SendSettings: the receiver's end is not noticed.
SendSettingsToTheEnd ==
    /\ job.at = "send"
    /\ Receiving(job.to) /\ HasRoom(job.to)
    /\ settings' = [settings EXCEPT ![job.to] = Append(@, job.update)]
    /\ ThenRoute(job.scope, job.id)
    /\ UNCHANGED <<stateVars, pc, cid, routing, watch, wire, view,
                   senderVars, issued, historyVars>>

\* ... and awaits room in the channel, unless its receiver is gone.  What is sent may
\* no longer be, or never have been, what the state holds.
SendSettings ==
    LET current == job.id \in DOMAIN clients /\ job.update = SettingsOf(job.id)
    IN
    /\ job.at = "send"
    /\ \/ /\ Receiving(job.to)
          /\ HasRoom(job.to)
          /\ settings' = [settings EXCEPT ![job.to] = Append(@, job.update)]
          /\ crossed' = IF current THEN crossed \ {job.to} ELSE crossed \cup {job.to}
       \/ /\ ~ Receiving(job.to)
          /\ UNCHANGED <<settings, crossed>>
    /\ ThenRoute(job.scope, job.id)
    /\ UNCHANGED <<stateVars, pc, cid, routing, watch, wire, view,
                   senderVars, issued, missed>>

\* Mutation of Targets: SetGroupStream and SetGroupMute forget the routing update.
TargetsButGroups == CASE job.scope = "client" -> {job.id}
                      [] job.scope = "all"    -> ClientId
                      [] OTHER                -> {}

\* The clients a routing update still has to reach.
Targets == CASE job.scope = "client" -> {job.id}
             [] job.scope = "group"  -> MembersOf(job.id)
             [] job.scope = "all"    -> ClientId
             [] OTHER                -> {}

\* push_routing, push_routing_for_group, push_routing_all: under the state lock and the
\* senders' lock.  A session between its snapshot and its insert is not reached.
PushRouting ==
    LET listening == {c \in Targets : Grouped(c)}
        reached   == {s \in Session : /\ cid[s] \in listening /\ Listening(s)
                                      /\ routing_senders[cid[s]] = s}
        passed    == {s \in Session : cid[s] \in listening /\ pc[s] = "publish"}
    IN  /\ job.at = "routing"
        /\ watch' = [s \in Session |-> IF s \in reached
                                       THEN [value |-> RoutingOf(cid[s]), unseen |-> TRUE]
                                       ELSE watch[s]]
        /\ missed' = (missed \ reached) \cup passed
        /\ job' = Idle
        /\ UNCHANGED <<stateVars, pc, cid, routing, settings, wire, view,
                       senderVars, issued, crossed>>

-----------------------------------------------------------------------------
(* Specification.                                                            *)

Init ==
    /\ StateInit
    /\ pc = [s \in Session |-> "new"]
    /\ cid = [s \in Session |-> None]
    /\ routing = [s \in Session |-> NoRouting]
    /\ watch = [s \in Session |-> [value |-> NoRouting, unseen |-> FALSE]]
    /\ settings = [s \in Session |-> <<>>]
    /\ wire = [s \in Session |-> NothingSent]
    /\ view = [s \in Session |-> NoSettings]
    /\ routing_senders = [c \in ClientId |-> None]
    /\ settings_senders = [c \in ClientId |-> None]
    /\ job = Idle
    /\ issued = 0
    /\ missed = {}
    /\ crossed = {}

Handshake(s) ==
    \/ RegisterClient(s)
    \/ PublishRouting(s)
    \/ StartLoop(s)

CleanUp(s) == CloseSettings(s) \/ CloseRouting(s) \/ CloseState(s)

SessionStep(s) ==
    \/ Refuse(s)
    \/ \E c \in ClientId : Hello(s, c)
    \/ Handshake(s)
    \/ FailHandshake(s)
    \/ SeeRouting(s)
    \/ \E percent \in Percent, muted \in BOOLEAN : ReadClientInfo(s, percent, muted)
    \/ ReceiveSettings(s)
    \/ LeaveLoop(s)
    \/ CleanUp(s)

Dispatch ==
    \/ \E c \in ClientId :
          \/ \E percent \in Percent, muted \in BOOLEAN : DispatchClientVolume(c, percent, muted)
          \/ \E latency \in Latency : DispatchClientLatency(c, latency)
          \/ DispatchDeleteClient(c)
    \/ DispatchQuietCommand
    \/ \E gid \in GroupId :
          \/ \E stream \in StreamId \cup {NoStream} : DispatchGroupStream(gid, stream)
          \/ \E muted \in BOOLEAN : DispatchGroupMute(gid, muted)
          \/ \E ids \in SUBSET ClientId : DispatchGroupClients(gid, ids)
    \/ \E stream \in StreamId : DispatchRemoveStream(stream)

FinishCommand == LookUpSettings \/ SendSettings \/ PushRouting

Next == (\E s \in Session : SessionStep(s)) \/ Dispatch \/ FinishCommand

Spec == Init /\ [][Next]_vars

\* The dispatcher's task and every session's task run on, and each arm of the select!
\* that stays ready is taken (tokio picks among the ready arms at random).  That the
\* writes of a session return needs a client that reads its socket.
Fairness ==
    /\ WF_vars(FinishCommand)
    /\ \A s \in Session : /\ WF_vars(Handshake(s))
                          /\ WF_vars(SeeRouting(s))
                          /\ WF_vars(ReceiveSettings(s))
                          /\ WF_vars(CleanUp(s))

LiveSpec == Spec /\ Fairness

-----------------------------------------------------------------------------
(* Correctness.                                                              *)

Owns(s) == cid[s] # None /\ routing_senders[cid[s]] = s

OwnsSettings(s) == cid[s] # None /\ settings_senders[cid[s]] = s

TypeOK ==
    /\ StateTypeOK
    /\ pc \in [Session -> Steps]
    /\ cid \in [Session -> ClientId \cup {None}]
    /\ \A s \in Session : cid[s] = None => pc[s] \in {"new", "gone"}
    /\ routing \in [Session -> SessionRouting]
    /\ watch \in [Session -> [value: SessionRouting, unseen: BOOLEAN]]
    /\ settings \in [Session -> Seq(ServerSettings)]
    /\ \A s \in Session : Len(settings[s]) <= SettingsCap
    /\ wire \in [Session -> [codec: StreamId \cup {NoStream},
                             by: {"nobody", "handshake", "loop"}]]
    /\ view \in [Session -> ServerSettings]
    /\ routing_senders \in [ClientId -> Session \cup {None}]
    /\ settings_senders \in [ClientId -> Session \cup {None}]
    /\ job \in [at: {"idle", "settings", "send", "routing"},
                scope: {"none", "client", "group", "all"},
                id: ClientId \cup GroupId \cup {None},
                update: ServerSettings, to: Session \cup {None}]
    /\ issued \in 0 .. MaxCommands
    /\ missed \subseteq Session
    /\ crossed \subseteq Session

\* With no command in flight, the newest routing of a session whose sender is registered
\* is the one its client's group and mute call for, except where a change provably went
\* past it: a push between its snapshot and its insert, the client's own mute, or a
\* second session's registration (missed).  No order of pushes leaves an older value.
RoutingCurrent ==
    job.at = "idle" =>
       \A s \in Session : Listening(s) /\ Owns(s) /\ Grouped(cid[s]) /\ s \notin missed =>
          watch[s].value = RoutingOf(cid[s])

\* The same end to end: what such a session filters chunks with once its loop has seen
\* the newest value.
AudioFollowsAssignment ==
    job.at = "idle" =>
       \A s \in Session :
          /\ pc[s] = "loop" /\ ~ watch[s].unseen
          /\ Owns(s) /\ Grouped(cid[s]) /\ s \notin missed
          => routing[s] = RoutingOf(cid[s])

\* Once everything pushed was delivered, a client plays with the settings the server
\* stores and reports for it, except where a client-side change, a fresh registration or
\* a command for a client not known yet crossed a push (crossed).
SettingsCurrent ==
    job.at = "idle" =>
       \A s \in Session :
          /\ pc[s] = "loop" /\ settings[s] = <<>>
          /\ OwnsSettings(s) /\ cid[s] \in DOMAIN clients /\ s \notin crossed
          => view[s] = SettingsOf(cid[s])

\* From the first stream switch the loop announced on, a client gets chunks only of the
\* stream whose CodecHeader it got last: whatever was queued in the broadcast channel,
\* no chunk reaches a decoder set up for another stream.
SwitchedAudioMatchesCodec ==
    \A s \in Session, stream \in StreamId :
       wire[s].by = "loop" /\ SendsChunk(s, stream) => wire[s].codec = stream

\* Every command the dispatcher takes comes to its end: awaiting room in a session's
\* settings channel never wedges the dispatcher, whether the session is still in its
\* handshake, ends, or left its sender behind when the handshake failed.
CommandCompletes == (job.at # "idle") ~> (job.at = "idle")

\* Every routing pushed to a session is adopted by its loop, or the session ends.
RoutingHeard == \A s \in Session : watch[s].unseen ~> ~ watch[s].unseen
=============================================================================
