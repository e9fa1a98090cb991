----------------------------- MODULE ClientProcess -----------------------------
(***************************************************************************)
(* A client process and the server it wants to play: what its command line *)
(* makes of it, how it connects, is examined, let in or refused, tries     *)
(* again, and hands the volume on to its mixer                             *)
(* (snapclient-rs/src/main.rs, cli.rs and mixer.rs, snapcast-client/src    *)
(* lib.rs, controller.rs and connection/mod.rs), against the door of the   *)
(* server (snapcast-server/src/auth.rs, session.rs).                       *)
(*                                                                         *)
(* The server may crash, with its host or without, and come back with      *)
(* other users; one that is up answers a Hello within HELLO_TIMEOUT.  The  *)
(* audio and its clock are in ClientController, PlaybackStream and         *)
(* TimeSync.                                                               *)
(***************************************************************************)
EXTENDS Integers, Sequences

CONSTANTS
    Start,       \* what clients are started with: [scheme, host, login, mixer]
    Access,      \* how servers may be configured: [macs, users, roles]
    Volume,      \* [percent, muted], as the server's users set it
    Mac,         \* the client's
    Server,      \* the server's host
    ServiceName, \* "_snapcast._tcp"
    None,
    MaxDelay,    \* MAX_RECONNECT_DELAY_SECS (30 in the code)
    EventMax,    \* EVENT_CHANNEL_SIZE
    MaxCrashes, MaxVolumes  \* bounds on the crashes and the changes of volume

Modes == {"software", "hardware", "script", "none"}

ASSUME ProcessAssumption ==
    /\ \A s \in Start : /\ DOMAIN s = {"scheme", "host", "login", "mixer"}
                        /\ s.mixer \in Modes
    /\ \A a \in Access : DOMAIN a = {"macs", "users", "roles"}
    /\ Volume \subseteq [percent: Nat, muted: BOOLEAN]
    /\ MaxDelay \in Nat \ {0} /\ EventMax \in Nat \ {0}
    /\ MaxCrashes \in Nat /\ MaxVolumes \in Nat
    /\ None \notin {"401", "403"}

VARIABLES
    start,           \* how the process was started
    pc,              \* where Controller::run is, and then that the process is gone
    attempts, wait,  \* the attempts that failed, as far as they count; seconds to sleep
    reason,          \* why the last attempt failed
    server_settings, \* the last ServerSettings
    events,          \* the event channel
    volume_state,    \* VolumeState
    alsa,            \* the percentage the hardware control is set to
    stopping,        \* Ctrl-C was pressed: Stop is in the queue and two seconds run
    server,          \* whether it is up, its configuration, and the client's volume in it
    conn,            \* the connection: what is at its other end, and what it was examined by
    replies,         \* what the server wrote into it
    crashes, volumes,
    lost             \* history: the last event with a volume found the channel full

mixerVars  == <<events, volume_state, alsa, lost>>
clientVars == <<start, attempts, wait, reason, server_settings, stopping>>
vars == <<clientVars, pc, mixerVars, server, conn, replies, crashes, volumes>>

-----------------------------------------------------------------------------
(* The command line.                                                         *)

\* Without a URL the name of the service is the host, and no host is ever empty:
\* main does not get to ask mDNS for one.
Host(s) == IF s.host = None THEN ServiceName ELSE s.host

\* into_settings: only tcp; a process that was told otherwise ends at once.
Runs(s) == s.scheme = "tcp"

\* Credentials in a URL are sent as Basic.
Auth(s) == IF s.login = None THEN None ELSE [scheme |-> "Basic", param |-> s.login]

Hello == [mac |-> Mac, auth |-> Auth(start)]

-----------------------------------------------------------------------------
(* The server's door.                                                        *)

\* What holds of a name that a list has twice is what is said last.
LastNamed(list, name) ==
    list[CHOOSE i \in DOMAIN list : /\ list[i].name = name
                                    /\ \A j \in DOMAIN list : list[j].name = name => j <= i]
Names(list) == {list[i].name : i \in DOMAIN list}

\* StaticAuthValidator: a user whose role nobody knows may do nothing.
Permissions(access, user) ==
    IF user.role \in Names(access.roles) THEN LastNamed(access.roles, user.role).permissions
    ELSE {}

Validate(access, auth) ==
    IF \/ auth.scheme \notin {"Basic", "basic"}
       \/ auth.param.user \notin Names(access.users)
       \/ LastNamed(access.users, auth.param.user).password # auth.param.password
    THEN [code |-> "401", permissions |-> {}]
    ELSE [code |-> "ok", permissions |-> Permissions(access, LastNamed(access.users, auth.param.user))]

\* Mutation of ValidateAuth: whoever is known is let in.
ValidateAuthAnyone(access, hello) ==
    IF hello.auth = None THEN "401" ELSE Validate(access, hello.auth).code

ValidateAuth(access, hello) ==
    IF hello.auth = None THEN "401"
    ELSE LET result == Validate(access, hello.auth)
         IN  IF result.code = "ok" /\ "Streaming" \notin result.permissions THEN "403"
             ELSE result.code

\* ClientFilter::accept; None accepts everybody.
Filtered(access, hello) == access.macs # None /\ hello.mac \notin access.macs

-----------------------------------------------------------------------------
(* Events and the mixer.                                                     *)

Told(type, v) == [type |-> type, volume |-> v]

\* emit: try_send, and what finds the channel full is dropped.
Emit(list) ==
    LET all == events \o list
    IN  /\ events' = IF Len(all) <= EventMax THEN all ELSE SubSeq(all, 1, EventMax)
        /\ lost' = IF list[Len(list)].type = "volume" THEN Len(all) > EventMax ELSE lost

\* main's mode: a script is not supported and the software mixer takes its place.
Mode == IF start.mixer = "script" THEN "software" ELSE start.mixer

\* Mixer::set_volume of main's event task, where a volume becomes a byte.
ApplyEvent ==
    /\ pc # "exited" /\ events # <<>>
    /\ events' = Tail(events)
    /\ LET v    == Head(events).volume
           byte == v.percent % 256
       IN  IF Head(events).type # "volume" THEN UNCHANGED <<volume_state, alsa>>
           ELSE /\ volume_state' = IF Mode = "software"
                                   THEN [percent |-> byte, muted |-> v.muted] ELSE volume_state
                /\ alsa' = IF Mode = "hardware" THEN (IF v.muted THEN 0 ELSE byte) ELSE alsa
    /\ UNCHANGED <<clientVars, pc, lost, server, conn, replies, crashes, volumes>>

-----------------------------------------------------------------------------
(* Controller::run, session and send_hello.                                  *)

Least(a, b) == IF a < b THEN a ELSE b

\* Mutation of Fail: the attempts count and the delay with them.
FailForGood(why) ==
    /\ pc' = "waiting" /\ reason' = why
    /\ attempts' = attempts + 1 /\ wait' = attempts + 1
    /\ conn' = [conn EXCEPT !.end = "none"] /\ replies' = <<>>
    /\ Emit(<<Told("other", None)>>)
    /\ UNCHANGED <<start, server_settings, stopping, volume_state, alsa, server, crashes, volumes>>

\* session ends with an error: run tells it, cleans up and sleeps.  No success
\* ever starts the count again, and only as much of it counts as the delay shows.
Fail(why) ==
    /\ pc' = "waiting" /\ reason' = why
    /\ attempts' = Least(attempts + 1, MaxDelay) /\ wait' = attempts'
    /\ conn' = [conn EXCEPT !.end = "none"] /\ replies' = <<>>
    /\ Emit(<<Told("other", None)>>)
    /\ UNCHANGED <<start, server_settings, stopping, volume_state, alsa, server, crashes, volumes>>

Connects == Host(start) = Server /\ server.up

Connect ==
    /\ pc = "connecting" /\ Connects
    /\ pc' = "hello" /\ reason' = None
    /\ conn' = [end |-> "asked", access |-> server.access]
    /\ replies' = <<>>
    /\ Emit(<<Told("other", None)>>)
    /\ UNCHANGED <<start, attempts, wait, server_settings, stopping, volume_state, alsa,
                   server, crashes, volumes>>

ConnectFails ==
    /\ pc = "connecting" /\ ~Connects
    /\ Fail("unreachable")

Second ==
    /\ pc = "waiting"
    /\ IF wait > 0 THEN wait' = wait - 1 /\ UNCHANGED pc
       ELSE UNCHANGED wait /\ pc' = "connecting"
    /\ UNCHANGED <<start, attempts, reason, server_settings, stopping, mixerVars, server,
                   conn, replies, crashes, volumes>>

Reads(type) == replies # <<>> /\ Head(replies).type = type

\* Mutation of Settings: those of the handshake are kept to oneself.
SettingsQuiet ==
    /\ pc \in {"hello", "receiving"} /\ Reads("settings")
    /\ LET v == Head(replies).volume
       IN  /\ server_settings' = v
           /\ IF pc = "hello" THEN UNCHANGED <<events, lost>> ELSE Emit(<<Told("volume", v)>>)
    /\ pc' = "receiving" /\ replies' = Tail(replies)
    /\ UNCHANGED <<start, attempts, wait, reason, stopping, volume_state, alsa, server, conn,
                   crashes, volumes>>

\* ServerSettings end the handshake, or change what plays; they are told as such
\* and, in the loop, once more as a volume.
Settings ==
    /\ pc \in {"hello", "receiving"} /\ Reads("settings")
    /\ LET v == Head(replies).volume
       IN  /\ server_settings' = v
           /\ Emit(IF pc = "hello" THEN <<Told("volume", v)>>
                   ELSE <<Told("volume", v), Told("volume", v)>>)
    /\ pc' = "receiving" /\ replies' = Tail(replies)
    /\ UNCHANGED <<start, attempts, wait, reason, stopping, volume_state, alsa, server, conn,
                   crashes, volumes>>

\* Mutation of Rejected: a client that is refused gives up.
RejectedForGood ==
    /\ pc = "hello" /\ Reads("error")
    /\ pc' = "exited" /\ reason' = Head(replies).code
    /\ conn' = [conn EXCEPT !.end = "none"] /\ replies' = <<>>
    /\ Emit(<<Told("other", None)>>)
    /\ UNCHANGED <<start, attempts, wait, server_settings, stopping, volume_state, alsa,
                   server, crashes, volumes>>

Rejected ==
    /\ pc = "hello" /\ Reads("error")
    /\ Fail(Head(replies).code)

ReadFails ==
    /\ pc \in {"hello", "receiving"} /\ replies = <<>> /\ conn.end = "closed"
    /\ Fail("closed")

\* HELLO_TIMEOUT, or in the loop TCP, which gives up on what was sent.
TimesOut ==
    /\ pc \in {"hello", "receiving"} /\ replies = <<>> /\ conn.end = "silent"
    /\ Fail("timeout")

-----------------------------------------------------------------------------
(* The end of the process.                                                   *)

CtrlC ==
    /\ pc # "exited" /\ ~stopping /\ stopping' = TRUE
    /\ UNCHANGED <<start, pc, attempts, wait, reason, server_settings, mixerVars, server,
                   conn, replies, crashes, volumes>>

\* Stop is read in the loop alone; everywhere else two seconds end the process.
Exit ==
    /\ stopping /\ pc # "exited" /\ pc' = "exited"
    /\ conn' = [conn EXCEPT !.end = "none"] /\ replies' = <<>>
    /\ UNCHANGED <<clientVars, mixerVars, server, crashes, volumes>>

-----------------------------------------------------------------------------
(* The server.                                                               *)

\* handle_client up to the registration: a filtered client is left without a word,
\* a client that is not permitted gets an Error, any other the settings of its
\* session.
Examine ==
    /\ conn.end = "asked" /\ server.up
    /\ LET code == IF conn.access.users = None THEN "ok" ELSE ValidateAuth(conn.access, Hello)
       IN  IF Filtered(conn.access, Hello) \/ code # "ok"
           THEN /\ conn' = [conn EXCEPT !.end = "closed"]
                /\ replies' = IF Filtered(conn.access, Hello) THEN replies
                              ELSE Append(replies, [type |-> "error", code |-> code])
           ELSE /\ conn' = [conn EXCEPT !.end = "admitted"]
                /\ replies' = Append(replies, [type |-> "settings", volume |-> server.volume])
    /\ UNCHANGED <<clientVars, pc, mixerVars, server, crashes, volumes>>

\* Somebody sets the client's volume; a session in service is told.
SetVolume(v) ==
    /\ server.up /\ volumes < MaxVolumes /\ volumes' = volumes + 1
    /\ server' = [server EXCEPT !.volume = v]
    /\ replies' = IF conn.end = "admitted"
                  THEN Append(replies, [type |-> "settings", volume |-> v]) ELSE replies
    /\ UNCHANGED <<clientVars, pc, mixerVars, conn, crashes>>

\* The process is gone and its connections are closed, or the whole host is and
\* nothing is heard of it; what was written may be lost with it.
Crash ==
    /\ server.up /\ crashes < MaxCrashes /\ crashes' = crashes + 1
    /\ server' = [server EXCEPT !.up = FALSE]
    /\ IF conn.end \in {"asked", "admitted"}
       THEN \E end \in {"closed", "silent"} : conn' = [conn EXCEPT !.end = end]
       ELSE UNCHANGED conn
    /\ replies' \in {replies, <<>>}
    /\ UNCHANGED <<clientVars, pc, mixerVars, volumes>>

Restart(access) ==
    /\ ~server.up
    /\ server' = [server EXCEPT !.up = TRUE, !.access = access]
    /\ UNCHANGED <<clientVars, pc, mixerVars, conn, replies, crashes, volumes>>

-----------------------------------------------------------------------------
(* The specification.                                                        *)

Init ==
    /\ start \in Start
    /\ pc = IF Runs(start) THEN "connecting" ELSE "exited"
    /\ attempts = 0 /\ wait = 0 /\ reason = None
    /\ server_settings = None /\ stopping = FALSE
    /\ events = <<>> /\ lost = FALSE
    /\ volume_state = [percent |-> 100, muted |-> FALSE] /\ alsa = 100
    /\ \E access \in Access, v \in Volume :
        /\ server = [up |-> TRUE, access |-> access, volume |-> v]
        /\ conn = [end |-> "none", access |-> access]
    /\ replies = <<>> /\ crashes = 0 /\ volumes = 0

ClientStep ==
    \/ Connect \/ ConnectFails \/ Second
    \/ Settings \/ Rejected \/ ReadFails \/ TimesOut

Next ==
    \/ ClientStep \/ ApplyEvent
    \/ CtrlC \/ Exit
    \/ Examine \/ Crash
    \/ \E v \in Volume : SetVolume(v)
    \/ \E access \in Access : Restart(access)

Spec == Init /\ [][Next]_vars

\* Tasks run and time passes; nobody has to press a key or restart a server.
FairSpec == Spec /\ WF_vars(ClientStep) /\ WF_vars(ApplyEvent) /\ WF_vars(Examine)

-----------------------------------------------------------------------------
(* Properties.                                                               *)

Reply == [type: {"settings"}, volume: Volume] \cup [type: {"error"}, code: {"401", "403"}]

TypeOK ==
    /\ start \in Start
    /\ pc \in {"connecting", "hello", "receiving", "waiting", "exited"}
    /\ attempts \in 0 .. MaxDelay /\ wait \in 0 .. MaxDelay
    /\ reason \in {None, "401", "403", "unreachable", "closed", "timeout"}
    /\ server_settings \in Volume \cup {None}
    /\ events \in Seq([type: {"volume"}, volume: Volume] \cup {Told("other", None)})
    /\ Len(events) <= EventMax
    /\ volume_state \in [percent: 0 .. 255, muted: BOOLEAN] /\ alsa \in 0 .. 255
    /\ stopping \in BOOLEAN /\ lost \in BOOLEAN
    /\ server \in [up: BOOLEAN, access: Access, volume: Volume]
    /\ conn \in [end: {"none", "asked", "admitted", "closed", "silent"}, access: Access]
    /\ replies \in Seq(Reply)
    /\ crashes \in 0 .. MaxCrashes /\ volumes \in 0 .. MaxVolumes

\* Whom a configuration lets in: the filter accepts the client, and when users are
\* configured it comes with the name and the password of one of them, whose role
\* has the permission.
Entitled(access) ==
    /\ access.macs = None \/ Mac \in access.macs
    /\ access.users = None \/
        \E i \in DOMAIN access.users, j \in DOMAIN access.roles :
            /\ start.login = [user |-> access.users[i].name, password |-> access.users[i].password]
            /\ access.roles[j].name = access.users[i].role
            /\ "Streaming" \in access.roles[j].permissions

\* A client plays only from a server that lets it in by the configuration it was
\* started with, through crashes, and restarts with others; and one that is told
\* it may not was not to be let in (handle_client, validate_auth, send_hello).
JustlyTreated ==
    /\ pc = "receiving" => Entitled(conn.access)
    /\ reason \in {"401", "403"} => ~Entitled(conn.access)

\* When all is told and done, the client is as loud as the server has it, whenever
\* it was set: before the client came, in its handshake, while it was away, or
\* while it plays (send_hello, handle_message, main's event task, set_volume).
Loudness(v) == IF v.muted THEN 0 ELSE v.percent
MixerFollows ==
    /\ pc = "receiving" /\ conn.end = "admitted"
    /\ replies = <<>> /\ events = <<>> /\ ~lost /\ Mode # "none"
    => Loudness(volume_state) * alsa = 100 * Loudness(server.volume)

\* A client that may play from the server does so in the end, and for good, when
\* the server stays up: however often it failed before, was refused, or lost a
\* server in the middle of something (Controller::run).
Reconnects ==
    Runs(start) /\ Host(start) = Server
      /\ <>[](server.up /\ Entitled(server.access) /\ ~stopping)
    => <>[](pc = "receiving")
=============================================================================
