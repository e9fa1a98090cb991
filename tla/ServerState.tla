------------------------------ MODULE ServerState ------------------------------
(***************************************************************************)
(* The server's shared state: the clients it knows, the groups they listen *)
(* in and the streams it offers (snapcast-server/src/state.rs), with the   *)
(* change every command (command.rs), every registration, every            *)
(* client-side volume change and every clean-up (session.rs) makes to it.  *)
(*                                                                         *)
(* The code keeps one ServerState behind one tokio Mutex, and each of      *)
(* these changes happens inside one critical section: one action here is   *)
(* one critical section.                                                   *)
(*                                                                         *)
(* Abstractions.  groups is a function from group id to group instead of a *)
(* Vec, and a group's members are a set: the ids come from Uuid::new_v4    *)
(* and are distinct, and no operation reads a position.  Host name, MAC    *)
(* address, a group's display order and a stream's uri and status string   *)
(* only travel to the status listing and are left out.                     *)
(***************************************************************************)
EXTENDS Integers, Functions

CONSTANTS
    ClientId,       \* ids a Hello or a command can name
    GroupId,        \* ids generate_id() can still hand out (bound on groups ever made)
    StreamId,       \* names of the streams configured before serve()
    DefaultStream,  \* the first of them: where a new client's group listens
    NoStream,       \* a name no stream was configured with, among them the empty
                    \* one RemoveStream leaves on a group
    Name,           \* display names of clients and groups
    NoName,         \* String::new()
    Percent,        \* volume percentages
    FullVolume,     \* Volume::default().percent
    Latency,        \* latency offsets in ms
    Meta,           \* stream properties
    NoMeta          \* Default::default()

ASSUME StreamAssumption == DefaultStream \in StreamId /\ NoStream \notin StreamId
ASSUME DefaultsAssumption == /\ NoName \in Name
                             /\ FullVolume \in Percent /\ Percent \subseteq Nat /\ \A p \in Percent : p <= 65535
                             /\ 0 \in Latency /\ Latency \subseteq Int
                             /\ NoMeta \in Meta

VARIABLES
    clients,    \* ServerState.clients: client id -> record, for every client seen
    groups,     \* ServerState.groups: group id -> record
    streams,    \* ServerState.streams: stream id -> its properties
    spent       \* group ids generate_id() has handed out (never handed out again)

stateVars == <<clients, groups, streams, spent>>

-----------------------------------------------------------------------------
(* Data.                                                                     *)

ClientConfig == [name: Name, percent: Percent, muted: BOOLEAN, latency: Latency]

DefaultConfig == [name |-> NoName, percent |-> FullVolume, muted |-> FALSE, latency |-> 0]

Client == [connected: BOOLEAN, config: ClientConfig]

Group == [name: Name, stream_id: StreamId \cup {NoStream}, muted: BOOLEAN,
          clients: SUBSET ClientId]

\* Mutation of NewGroup: an evicted client is sent back to the default stream.
NewGroupOnDefault(stream, members) ==
    [name |-> NoName, stream_id |-> DefaultStream, muted |-> FALSE, clients |-> members]

\* What group_for_client and an eviction create.
NewGroup(stream, members) ==
    [name |-> NoName, stream_id |-> stream, muted |-> FALSE, clients |-> members]

Grouped(c) == \E g \in DOMAIN groups : c \in groups[g].clients

\* groups.iter().find(|g| g.clients.contains(c)), for a grouped client.
GroupOf(c) == CHOOSE g \in DOMAIN groups : c \in groups[g].clients

StreamFor(c) == groups[GroupOf(c)].stream_id

MutedFor(c) == groups[GroupOf(c)].muted

\* Mutation of MembersOf: the evicted clients are not looked up.
NoMembersOf(gid) == {}

\* groups.iter().find(|g| g.id == gid).map(|g| members), empty when there is none.
MembersOf(gid) == IF gid \in DOMAIN groups THEN groups[gid].clients ELSE {}

\* self.groups.retain(|g| !g.clients.is_empty())
WithoutEmpty(gs) == Restrict(gs, {g \in DOMAIN gs : gs[g].clients # {}})

\* The groups and their clients as GetStatus reports them: members that are
\* no known client are filtered out, a client in no group is not listed.
ToStatus ==
    [g \in DOMAIN groups |-> [groups[g] EXCEPT !.clients = @ \cap DOMAIN clients]]

-----------------------------------------------------------------------------
(* Critical sections of a session.                                           *)

\* get_or_create_client
GetOrCreate(c) == IF c \in DOMAIN clients THEN clients[c].config ELSE DefaultConfig

\* Mutation of GroupForClient: the new group's id is not a fresh one.
GroupForClientUnspent(c) ==
    /\ \E gid \in GroupId \ DOMAIN groups :
          groups' = IF Grouped(c) THEN groups
                    ELSE [g \in DOMAIN groups \cup {gid} |->
                            IF g = gid THEN NewGroup(DefaultStream, {c}) ELSE groups[g]]
    /\ UNCHANGED spent

\* group_for_client: the client's group, or a fresh one on the default stream.
GroupForClient(c) ==
    \/ /\ Grouped(c)
       /\ UNCHANGED <<groups, spent>>
    \/ /\ ~ Grouped(c)
       /\ \E gid \in GroupId \ spent :
             /\ groups' = [g \in DOMAIN groups \cup {gid} |->
                             IF g = gid THEN NewGroup(DefaultStream, {c}) ELSE groups[g]]
             /\ spent' = spent \cup {gid}

\* The block of handle_client that runs under the state lock after a Hello.
Register(c) ==
    /\ clients' = [x \in DOMAIN clients \cup {c} |->
                     IF x = c THEN [connected |-> TRUE, config |-> GetOrCreate(c)]
                              ELSE clients[x]]
    /\ GroupForClient(c)
    /\ UNCHANGED streams

\* The last block of handle_client's clean-up.
Unregister(c) ==
    /\ clients' = [x \in DOMAIN clients |->
                     IF x = c THEN [clients[x] EXCEPT !.connected = FALSE] ELSE clients[x]]
    /\ UNCHANGED <<groups, streams, spent>>

\* A client's own volume change (ClientInfo): the same assignment as the command's.
ChangeVolume(c, percent, muted) ==
    /\ clients' = [x \in DOMAIN clients |->
                     IF x = c THEN [clients[x] EXCEPT !.config.percent = percent,
                                                      !.config.muted = muted]
                              ELSE clients[x]]
    /\ UNCHANGED <<groups, streams, spent>>

-----------------------------------------------------------------------------
(* Critical sections of the command dispatcher.                              *)

SetClientVolume(c, percent, muted) == ChangeVolume(c, percent, muted)

SetClientLatency(c, latency) ==
    /\ clients' = [x \in DOMAIN clients |->
                     IF x = c THEN [clients[x] EXCEPT !.config.latency = latency]
                              ELSE clients[x]]
    /\ UNCHANGED <<groups, streams, spent>>

SetClientName(c, name) ==
    /\ clients' = [x \in DOMAIN clients |->
                     IF x = c THEN [clients[x] EXCEPT !.config.name = name] ELSE clients[x]]
    /\ UNCHANGED <<groups, streams, spent>>

\* The stream is not looked up: any name is stored.
SetGroupStream(gid, stream) ==
    /\ groups' = [g \in DOMAIN groups |->
                    IF g = gid THEN [groups[g] EXCEPT !.stream_id = stream] ELSE groups[g]]
    /\ UNCHANGED <<clients, streams, spent>>

SetGroupMute(gid, muted) ==
    /\ groups' = [g \in DOMAIN groups |->
                    IF g = gid THEN [groups[g] EXCEPT !.muted = muted] ELSE groups[g]]
    /\ UNCHANGED <<clients, streams, spent>>

SetGroupName(gid, name) ==
    /\ groups' = [g \in DOMAIN groups |->
                    IF g = gid THEN [groups[g] EXCEPT !.name = name] ELSE groups[g]]
    /\ UNCHANGED <<clients, streams, spent>>

\* Mutation of Moved: the clients that joined are not removed from their old groups.
MovedWithoutLeaving(gid, ids) ==
    [g \in DOMAIN groups |-> [groups[g] EXCEPT !.clients = IF g = gid THEN ids ELSE @]]

\* The existing groups after set_group_clients has evicted and moved: the target
\* holds exactly the listed clients, the others lose the ones that joined.
Moved(gid, ids) ==
    LET joined == ids \ MembersOf(gid)
    IN  [g \in DOMAIN groups |->
           [groups[g] EXCEPT !.clients = IF g = gid THEN ids ELSE @ \ joined]]

\* set_group_clients: each evicted client gets a group of its own on the target's
\* stream, the listed clients move to the target, empty groups go.  A gid that
\* names no group evicts nobody, and the listed clients only leave their groups.
SetGroupClients(gid, ids) ==
    LET evicted == MembersOf(gid) \ ids
        moved   == Moved(gid, ids)
    IN  /\ \E fresh \in Injection(evicted, GroupId \ spent) :
              /\ groups' = WithoutEmpty(
                    [g \in DOMAIN groups \cup Range(fresh) |->
                       IF g \in DOMAIN groups THEN moved[g]
                       ELSE NewGroup(groups[gid].stream_id, {c \in evicted : fresh[c] = g})])
              /\ spent' = spent \cup Range(fresh)
        /\ UNCHANGED <<clients, streams>>

\* remove_client_from_groups, then clients.remove
DeleteClient(c) ==
    /\ groups' = WithoutEmpty([g \in DOMAIN groups |-> [groups[g] EXCEPT !.clients = @ \ {c}]])
    /\ clients' = Restrict(clients, DOMAIN clients \ {c})
    /\ UNCHANGED <<streams, spent>>

SetStreamMeta(stream, meta) ==
    /\ streams' = [x \in DOMAIN streams |-> IF x = stream THEN meta ELSE streams[x]]
    /\ UNCHANGED <<clients, groups, spent>>

\* The stream's encoder and codec header stay; groups on it fall silent.
RemoveStream(stream) ==
    /\ streams' = Restrict(streams, DOMAIN streams \ {stream})
    /\ groups' = [g \in DOMAIN groups |->
                    IF groups[g].stream_id = stream
                    THEN [groups[g] EXCEPT !.stream_id = NoStream] ELSE groups[g]]
    /\ UNCHANGED <<clients, spent>>

-----------------------------------------------------------------------------
(* serve() with no initial_state, every configured stream registered.        *)

StateInit ==
    /\ clients = [c \in {} |-> DefaultConfig]
    /\ groups = [g \in {} |-> NewGroup(NoStream, {})]
    /\ streams = [x \in StreamId |-> NoMeta]
    /\ spent = {}

SessionSection ==
    \E c \in ClientId :
       \/ Register(c)
       \/ Unregister(c)
       \/ \E percent \in Percent, muted \in BOOLEAN : ChangeVolume(c, percent, muted)

ClientCommand ==
    \E c \in ClientId :
       \/ \E percent \in Percent, muted \in BOOLEAN : SetClientVolume(c, percent, muted)
       \/ \E latency \in Latency : SetClientLatency(c, latency)
       \/ \E name \in Name : SetClientName(c, name)
       \/ DeleteClient(c)

GroupCommand ==
    \E gid \in GroupId :
       \/ \E stream \in StreamId \cup {NoStream} : SetGroupStream(gid, stream)
       \/ \E muted \in BOOLEAN : SetGroupMute(gid, muted)
       \/ \E name \in Name : SetGroupName(gid, name)
       \/ \E ids \in SUBSET ClientId : SetGroupClients(gid, ids)

StreamCommand ==
    \E stream \in StreamId :
       \/ \E meta \in Meta : SetStreamMeta(stream, meta)
       \/ RemoveStream(stream)

StateNext == SessionSection \/ ClientCommand \/ GroupCommand \/ StreamCommand

StateSpec == StateInit /\ [][StateNext]_stateVars

-----------------------------------------------------------------------------
(* Correctness.                                                              *)

\* Every record has its type, and no two groups ever shared an id: a live group's
\* id is one generate_id has handed out.
StateTypeOK ==
    /\ DOMAIN clients \subseteq ClientId
    /\ clients \in [DOMAIN clients -> Client]
    /\ DOMAIN groups \subseteq spent
    /\ groups \in [DOMAIN groups -> Group]
    /\ DOMAIN streams \subseteq StreamId
    /\ streams \in [DOMAIN streams -> Meta]
    /\ spent \subseteq GroupId

\* A client listens in one group at most, whatever moves, evictions, deletions and
\* reconnections came before: build_routing takes the first group it finds, so a
\* second membership would leave the audio to the order of the Vec.
AtMostOneGroup ==
    \A g, h \in DOMAIN groups : g # h => groups[g].clients \cap groups[h].clients = {}

\* A group whose last member left is gone (remove_client_from_groups and
\* set_group_clients both end by dropping empty groups).
NoEmptyGroup == \A g \in DOMAIN groups : groups[g].clients # {}

\* The two together: the groups divide the clients, each into one piece that is not empty,
\* through every command, eviction, deletion and reconnection.
GroupsDivideClients == AtMostOneGroup /\ NoEmptyGroup

\* Every client the server knows listens in some group: the status listing, which
\* goes through the groups, then shows every known client.
EveryClientGrouped ==
    DOMAIN clients \subseteq UNION {ToStatus[g].clients : g \in DOMAIN groups}

\* A client drops out of the listing only when SetGroupClients is given a group that
\* is gone (or never was): no other command, eviction or reconnection loses one.
Misdirected == \E gid \in GroupId \ DOMAIN groups, ids \in SUBSET ClientId :
                  SetGroupClients(gid, ids)

LosesClientsOnlyWhenMisdirected ==
    [][EveryClientGrouped /\ ~ EveryClientGrouped' => Misdirected]_stateVars

\* Regrouping (SetGroupClients) never changes what a client outside the new list
\* listens to: evicted or not, it stays on its stream and is not muted by the move.
Undisturbed(c) == /\ Grouped(c)'
                  /\ StreamFor(c)' = StreamFor(c)
                  /\ MutedFor(c)' => MutedFor(c)

UnlistedKeepListening ==
    [][\A c \in ClientId : Grouped(c) /\ ~ Undisturbed(c) =>
          ~ \E gid \in GroupId, ids \in SUBSET (ClientId \ {c}) :
                SetGroupClients(gid, ids)]_stateVars
=============================================================================
