------------------------- MODULE SessionServer_proofs -------------------------
(* The grouping of clients is sound for any clients, groups and streams:       *)
(* StateInv, the conjunction of ServerState's type invariant, AtMostOneGroup    *)
(* and NoEmptyGroup, is inductive.  AtMostOneGroup needs the type invariant (a  *)
(* fresh id is not the id of a live group); the proof of every critical section *)
(* is a lemma, for the sessions run those sections between other steps.         *)
(*                                                                              *)
(* The sessions and the dispatcher implement ServerState: whatever their steps  *)
(* interleave to, each changes the state by one critical section or not at all. *)
(* What holds of the state then holds under the sessions.  On top of it: the    *)
(* types, the routing and the settings every session ends with, and the stream  *)
(* its client's decoder is set up for.  Each of these has an invariant per      *)
(* session and client, and a lemma for the steps of a session that leave the    *)
(* state alone, one for its blocks under the state lock, one for the section of *)
(* a command and one for its pushes.                                            *)
EXTENDS SessionServer, TLAPS

-----------------------------------------------------------------------------
(* The state and its critical sections (ServerState).                        *)

StateInv == StateTypeOK /\ AtMostOneGroup /\ NoEmptyGroup

\* A critical section that leaves the groups alone only has to keep the types.
LEMMA GroupsKept ==
    ASSUME StateInv, StateTypeOK', UNCHANGED groups
    PROVE  StateInv'
  BY DEF StateInv, AtMostOneGroup, NoEmptyGroup

\* A critical section that keeps every group's members cannot disturb the grouping.
LEMMA MembersKept ==
    ASSUME StateInv, StateTypeOK', DOMAIN groups' = DOMAIN groups,
           \A g \in DOMAIN groups : groups'[g].clients = groups[g].clients
    PROVE  StateInv'
  BY DEF StateInv, AtMostOneGroup, NoEmptyGroup

-----------------------------------------------------------------------------
(* Critical sections of the clients' map.                                    *)

LEMMA DefaultsAre == NoName \in Name /\ FullVolume \in Percent /\ 0 \in Latency /\ NoMeta \in Meta
  BY DefaultsAssumption, SMTT(60)

\* get_or_create_client finds or makes a well-formed configuration.
LEMMA ConfigType ==
    ASSUME StateTypeOK, NEW c \in ClientId
    PROVE  GetOrCreate(c) \in ClientConfig
  <1>1. DefaultConfig \in ClientConfig
    BY DefaultsAre DEF DefaultConfig, ClientConfig
  <1>2. ASSUME c \in DOMAIN clients PROVE clients[c].config \in ClientConfig
    BY <1>2 DEF StateTypeOK, Client
  <1>. QED
    BY <1>1, <1>2 DEF GetOrCreate

\* A client's volume, from the command or from the client itself.
LEMMA ChangeVolumeStep ==
    ASSUME StateInv, NEW c \in ClientId, NEW percent \in Percent, NEW muted \in BOOLEAN,
           ChangeVolume(c, percent, muted)
    PROVE  StateInv'
  <1>1. ASSUME NEW x \in DOMAIN clients, x = c
        PROVE  [clients[x] EXCEPT !.config.percent = percent, !.config.muted = muted] \in Client
    <2>1. PICK r \in Client : r = clients[x]
      BY <1>1 DEF StateInv, StateTypeOK
    <2>2. PICK k \in ClientConfig : k = r.config
      BY DEF Client
    <2>3. [k EXCEPT !.percent = percent, !.muted = muted] \in ClientConfig
      BY DEF ClientConfig
    <2>4. [r EXCEPT !.config.percent = percent, !.config.muted = muted]
            = [r EXCEPT !.config = [k EXCEPT !.percent = percent, !.muted = muted]]
      BY <2>2, <2>3 DEF Client, ClientConfig
    <2>. QED
      BY <2>1, <2>3, <2>4 DEF Client
  <1>2. StateTypeOK'
    BY <1>1 DEF StateInv, StateTypeOK, ChangeVolume
  <1>. QED
    BY <1>2, GroupsKept DEF ChangeVolume

\* The latency and name commands, and the clean-up of a session.
LEMMA ClientFieldStep ==
    ASSUME StateInv, NEW c \in ClientId,
           \/ \E latency \in Latency : SetClientLatency(c, latency)
           \/ \E name \in Name : SetClientName(c, name)
           \/ Unregister(c)
    PROVE  StateInv'
  <1>1. StateTypeOK'
    <2>1. CASE \E latency \in Latency : SetClientLatency(c, latency)
      BY <2>1 DEF StateInv, StateTypeOK, SetClientLatency, Client, ClientConfig
    <2>2. CASE \E name \in Name : SetClientName(c, name)
      BY <2>2 DEF StateInv, StateTypeOK, SetClientName, Client, ClientConfig
    <2>3. CASE Unregister(c)
      BY <2>3 DEF StateInv, StateTypeOK, Unregister, Client
    <2>. QED
      BY <2>1, <2>2, <2>3
  <1>2. UNCHANGED groups
    BY DEF SetClientLatency, SetClientName, Unregister
  <1>. QED
    BY <1>1, <1>2, GroupsKept

\* A stream's properties.
LEMMA SetStreamMetaStep ==
    ASSUME StateInv, NEW stream \in StreamId, NEW meta \in Meta, SetStreamMeta(stream, meta)
    PROVE  StateInv'
  <1>1. StateTypeOK'
    BY DEF StateInv, StateTypeOK, SetStreamMeta
  <1>. QED
    BY <1>1, GroupsKept DEF SetStreamMeta

-----------------------------------------------------------------------------
(* Critical sections of a group's own fields.                                *)

LEMMA GroupFieldStep ==
    ASSUME StateInv, NEW gid \in GroupId,
           \/ \E stream \in StreamId \cup {NoStream} : SetGroupStream(gid, stream)
           \/ \E muted \in BOOLEAN : SetGroupMute(gid, muted)
           \/ \E name \in Name : SetGroupName(gid, name)
    PROVE  StateInv'
  <1>1. CASE \E stream \in StreamId \cup {NoStream} : SetGroupStream(gid, stream)
    <2>1. StateTypeOK'
      BY <1>1 DEF StateInv, StateTypeOK, SetGroupStream, Group
    <2>2. /\ DOMAIN groups' = DOMAIN groups
          /\ \A g \in DOMAIN groups : groups'[g].clients = groups[g].clients
      BY <1>1 DEF StateInv, StateTypeOK, SetGroupStream, Group
    <2>. QED
      BY <2>1, <2>2, MembersKept
  <1>2. CASE \E muted \in BOOLEAN : SetGroupMute(gid, muted)
    <2>1. StateTypeOK'
      BY <1>2 DEF StateInv, StateTypeOK, SetGroupMute, Group
    <2>2. /\ DOMAIN groups' = DOMAIN groups
          /\ \A g \in DOMAIN groups : groups'[g].clients = groups[g].clients
      BY <1>2 DEF StateInv, StateTypeOK, SetGroupMute, Group
    <2>. QED
      BY <2>1, <2>2, MembersKept
  <1>3. CASE \E name \in Name : SetGroupName(gid, name)
    <2>1. StateTypeOK'
      BY <1>3 DEF StateInv, StateTypeOK, SetGroupName, Group
    <2>2. /\ DOMAIN groups' = DOMAIN groups
          /\ \A g \in DOMAIN groups : groups'[g].clients = groups[g].clients
      BY <1>3 DEF StateInv, StateTypeOK, SetGroupName, Group
    <2>. QED
      BY <2>1, <2>2, MembersKept
  <1>. QED
    BY <1>1, <1>2, <1>3

\* RemoveStream clears the stream id of groups, never their members.
LEMMA RemoveStreamStep ==
    ASSUME StateInv, NEW stream \in StreamId, RemoveStream(stream)
    PROVE  StateInv'
  <1>1. StateTypeOK'
    BY DEF StateInv, StateTypeOK, RemoveStream, Group, Restrict
  <1>2. /\ DOMAIN groups' = DOMAIN groups
        /\ \A g \in DOMAIN groups : groups'[g].clients = groups[g].clients
    BY DEF StateInv, StateTypeOK, RemoveStream, Group
  <1>. QED
    BY <1>1, <1>2, MembersKept

-----------------------------------------------------------------------------
(* Critical sections that regroup clients.                                   *)

\* Dropping the empty groups keeps the others as they are, and leaves no empty one.
LEMMA WithoutEmptyFacts ==
    ASSUME NEW gs
    PROVE  /\ DOMAIN WithoutEmpty(gs) \subseteq DOMAIN gs
           /\ \A g \in DOMAIN WithoutEmpty(gs) :
                 WithoutEmpty(gs)[g] = gs[g] /\ gs[g].clients # {}
  BY DEF WithoutEmpty, Restrict

\* A new group is well-formed and holds the members it was made with.
LEMMA NewGroupType ==
    ASSUME NEW stream \in StreamId \cup {NoStream}, NEW members \in SUBSET ClientId
    PROVE  /\ NewGroup(stream, members) \in Group
           /\ NewGroup(stream, members).clients = members
  <1>1. FALSE \in BOOLEAN /\ NoName \in Name
    BY DefaultsAre
  <1>. QED
    BY <1>1 DEF NewGroup, Group

\* A registration puts only a client that is in no group into a group of its own.
LEMMA RegisterStep ==
    ASSUME StateInv, NEW c \in ClientId, Register(c)
    PROVE  StateInv'
  <1>. DEFINE record == [connected |-> TRUE, config |-> GetOrCreate(c)]
  <1>1. record \in Client
    BY ConfigType DEF StateInv, Client
  <1>2. /\ DOMAIN clients' \subseteq ClientId
        /\ clients' \in [DOMAIN clients' -> Client]
    BY <1>1 DEF Register, StateInv, StateTypeOK
  <1>3. UNCHANGED streams
    BY DEF Register
  <1>4. CASE UNCHANGED <<groups, spent>>
    BY <1>2, <1>3, <1>4, GroupsKept DEF StateInv, StateTypeOK
  <1>5. ASSUME ~ Grouped(c), NEW gid \in GroupId \ spent,
               groups' = [g \in DOMAIN groups \cup {gid} |->
                            IF g = gid THEN NewGroup(DefaultStream, {c}) ELSE groups[g]],
               spent' = spent \cup {gid}
        PROVE  StateInv'
    <2>1. NewGroup(DefaultStream, {c}) \in Group /\ NewGroup(DefaultStream, {c}).clients = {c}
      BY NewGroupType, StreamAssumption
    <2>2. gid \notin DOMAIN groups
      BY DEF StateInv, StateTypeOK
    <2>3. StateTypeOK'
      <3>1. groups' \in [DOMAIN groups' -> Group]
        BY <1>5, <2>1 DEF StateInv, StateTypeOK
      <3>2. DOMAIN groups' \subseteq spent' /\ spent' \subseteq GroupId
        BY <1>5 DEF StateInv, StateTypeOK
      <3>. QED
        BY <1>2, <1>3, <3>1, <3>2 DEF StateInv, StateTypeOK
    <2>4. AtMostOneGroup'
      <3>1. /\ DOMAIN groups' = DOMAIN groups \cup {gid}
            /\ groups'[gid].clients = {c}
            /\ \A g \in DOMAIN groups : groups'[g] = groups[g] /\ c \notin groups[g].clients
        BY <1>5, <2>1, <2>2 DEF Grouped
      <3>. QED
        BY <3>1, <2>2 DEF StateInv, AtMostOneGroup
    <2>5. NoEmptyGroup'
      BY <1>5, <2>1 DEF StateInv, NoEmptyGroup
    <2>. QED
      BY <2>3, <2>4, <2>5 DEF StateInv
  <1>. QED
    BY <1>4, <1>5 DEF Register, GroupForClient

\* A deletion takes the client out of every group and drops what it empties.
LEMMA DeleteClientStep ==
    ASSUME StateInv, NEW c \in ClientId, DeleteClient(c)
    PROVE  StateInv'
  <1>. DEFINE left == [g \in DOMAIN groups |-> [groups[g] EXCEPT !.clients = @ \ {c}]]
  <1>1. /\ DOMAIN left = DOMAIN groups
        /\ \A g \in DOMAIN groups : left[g] \in Group /\ left[g].clients = groups[g].clients \ {c}
    BY DEF StateInv, StateTypeOK, Group
  <1>2. groups' = WithoutEmpty(left)
    BY DEF DeleteClient
  <1>. HIDE DEF left
  <1>3. /\ DOMAIN groups' \subseteq DOMAIN groups
        /\ \A g \in DOMAIN groups' :
              groups'[g] \in Group /\ groups'[g].clients = groups[g].clients \ {c}
                                   /\ groups'[g].clients # {}
    BY <1>1, <1>2, WithoutEmptyFacts
  <1>4. groups' \in [DOMAIN groups' -> Group]
    BY <1>2, <1>3 DEF WithoutEmpty, Restrict
  <1>5. StateTypeOK'
    BY <1>3, <1>4 DEF StateInv, StateTypeOK, DeleteClient, Restrict
  <1>6. AtMostOneGroup' /\ NoEmptyGroup'
    BY <1>3 DEF StateInv, AtMostOneGroup, NoEmptyGroup
  <1>. QED
    BY <1>5, <1>6 DEF StateInv

\* set_group_clients: the listed clients end up in the target only, each evicted one in
\* a group of its own; the other groups only lose members.
LEMMA SetGroupClientsStep ==
    ASSUME StateInv, NEW gid \in GroupId, NEW ids \in SUBSET ClientId,
           SetGroupClients(gid, ids)
    PROVE  StateInv'
  <1>. DEFINE evicted == MembersOf(gid) \ ids
              joined  == ids \ MembersOf(gid)
              moved   == Moved(gid, ids)
  <1>1. PICK fresh \in Injection(evicted, GroupId \ spent) :
           /\ groups' = WithoutEmpty(
                [g \in DOMAIN groups \cup Range(fresh) |->
                   IF g \in DOMAIN groups THEN moved[g]
                   ELSE NewGroup(groups[gid].stream_id, {c \in evicted : fresh[c] = g})])
           /\ spent' = spent \cup Range(fresh)
    BY DEF SetGroupClients
  <1>. DEFINE before == [g \in DOMAIN groups \cup Range(fresh) |->
                           IF g \in DOMAIN groups THEN moved[g]
                           ELSE NewGroup(groups[gid].stream_id, {c \in evicted : fresh[c] = g})]
  <1>2. /\ fresh \in [evicted -> GroupId \ spent]
        /\ \A a, b \in evicted : fresh[a] = fresh[b] => a = b
    BY DEF Injection, IsInjective
  <1>3. /\ Range(fresh) \subseteq GroupId \ spent
        /\ \A g \in Range(fresh) : g \notin DOMAIN groups /\ \E e \in evicted : fresh[e] = g
    BY <1>2 DEF Range, StateInv, StateTypeOK
  <1>4. ASSUME evicted # {}
        PROVE  gid \in DOMAIN groups /\ groups[gid] \in Group /\ evicted \subseteq groups[gid].clients
    BY <1>4 DEF MembersOf, StateInv, StateTypeOK
  <1>5. evicted \subseteq ClientId
    BY <1>4 DEF Group
  <1>6. \A g \in DOMAIN groups :
           /\ before[g] \in Group
           /\ before[g].clients = IF g = gid THEN ids ELSE groups[g].clients \ joined
    BY DEF Moved, StateInv, StateTypeOK, Group
  <1>7. \A g \in Range(fresh) :
           /\ before[g] \in Group
           /\ before[g].clients = {e \in evicted : fresh[e] = g}
    <2>. SUFFICES ASSUME NEW g \in Range(fresh)
                  PROVE  /\ before[g] \in Group
                         /\ before[g].clients = {e \in evicted : fresh[e] = g}
      OBVIOUS
    <2>1. before[g] = NewGroup(groups[gid].stream_id, {e \in evicted : fresh[e] = g})
      BY <1>3
    <2>2. groups[gid].stream_id \in StreamId \cup {NoStream}
      BY <1>3, <1>4 DEF Group
    <2>3. {e \in evicted : fresh[e] = g} \in SUBSET ClientId
      BY <1>5
    <2>. HIDE DEF evicted, before
    <2>. QED
      BY <2>1, <2>2, <2>3, NewGroupType
  <1>8. DOMAIN before = DOMAIN groups \cup Range(fresh)
    OBVIOUS
  <1>9. groups' = WithoutEmpty(before)
    BY <1>1
  <1>10. /\ evicted \cap ids = {}
         /\ \A g \in DOMAIN groups : g # gid => groups[g].clients \cap evicted = {}
         /\ \A g \in DOMAIN groups : g # gid => (groups[g].clients \ joined) \cap ids = {}
    BY DEF MembersOf, StateInv, AtMostOneGroup
  <1>. HIDE DEF before, evicted, joined, moved
  <1>11. /\ DOMAIN groups' \subseteq DOMAIN groups \cup Range(fresh)
         /\ \A g \in DOMAIN groups' : groups'[g] = before[g] /\ before[g].clients # {}
    BY <1>8, <1>9, WithoutEmptyFacts
  <1>12. StateTypeOK'
    <2>1. groups' \in [DOMAIN groups' -> Group]
      <3>1. \A g \in DOMAIN groups' : groups'[g] \in Group
        BY <1>6, <1>7, <1>11
      <3>2. groups' = [g \in DOMAIN groups' |-> groups'[g]]
        BY <1>9 DEF WithoutEmpty, Restrict
      <3>. QED
        BY <3>1, <3>2
    <2>2. DOMAIN groups' \subseteq spent' /\ spent' \subseteq GroupId
      BY <1>1, <1>3, <1>11 DEF StateInv, StateTypeOK
    <2>. QED
      BY <2>1, <2>2 DEF StateInv, StateTypeOK, SetGroupClients
  <1>13. AtMostOneGroup'
    <2>. SUFFICES ASSUME NEW g \in DOMAIN groups', NEW h \in DOMAIN groups', g # h,
                         NEW x \in before[g].clients, x \in before[h].clients
                  PROVE  FALSE
      BY <1>11 DEF AtMostOneGroup
    <2>1. CASE g \in DOMAIN groups /\ h \in DOMAIN groups
      BY <2>1, <1>6, <1>10 DEF StateInv, AtMostOneGroup
    <2>2. CASE g \in DOMAIN groups /\ h \in Range(fresh)
      BY <2>2, <1>6, <1>7, <1>10
    <2>3. CASE g \in Range(fresh) /\ h \in DOMAIN groups
      BY <2>3, <1>6, <1>7, <1>10
    <2>4. CASE g \in Range(fresh) /\ h \in Range(fresh)
      BY <2>4, <1>7
    <2>. QED
      BY <2>1, <2>2, <2>3, <2>4, <1>11
  <1>14. NoEmptyGroup'
    BY <1>11 DEF NoEmptyGroup
  <1>. QED
    BY <1>12, <1>13, <1>14 DEF StateInv

-----------------------------------------------------------------------------
(* The invariant.                                                            *)

LEMMA StateInvInit == StateInit => StateInv
  <1>. SUFFICES ASSUME StateInit
                PROVE  StateInv
    OBVIOUS
  <1>1. DOMAIN groups = {} /\ DOMAIN clients = {} /\ DOMAIN streams = StreamId
    BY DEF StateInit
  <1>2. StateTypeOK
    <2>1. clients \in [DOMAIN clients -> Client]
      BY <1>1 DEF StateInit
    <2>2. groups \in [DOMAIN groups -> Group]
      BY <1>1 DEF StateInit
    <2>3. streams \in [DOMAIN streams -> Meta]
      BY <1>1, DefaultsAre DEF StateInit
    <2>. QED
      BY <1>1, <2>1, <2>2, <2>3 DEF StateTypeOK, StateInit
  <1>. QED
    BY <1>1, <1>2 DEF StateInv, AtMostOneGroup, NoEmptyGroup

LEMMA StateInvNext == StateInv /\ [StateNext]_stateVars => StateInv'
  <1>. SUFFICES ASSUME StateInv, [StateNext]_stateVars
                PROVE  StateInv'
    OBVIOUS
  <1>1. CASE SessionSection
    BY <1>1, RegisterStep, ClientFieldStep, ChangeVolumeStep DEF SessionSection
  <1>2. CASE ClientCommand
    BY <1>2, ChangeVolumeStep, ClientFieldStep, DeleteClientStep
       DEF ClientCommand, SetClientVolume
  <1>3. CASE GroupCommand
    <2>. PICK gid \in GroupId :
              \/ \E stream \in StreamId \cup {NoStream} : SetGroupStream(gid, stream)
              \/ \E muted \in BOOLEAN : SetGroupMute(gid, muted)
              \/ \E name \in Name : SetGroupName(gid, name)
              \/ \E ids \in SUBSET ClientId : SetGroupClients(gid, ids)
      BY <1>3 DEF GroupCommand
    <2>1. CASE \E stream \in StreamId \cup {NoStream} : SetGroupStream(gid, stream)
      BY <2>1, GroupFieldStep
    <2>2. CASE \E muted \in BOOLEAN : SetGroupMute(gid, muted)
      BY <2>2, GroupFieldStep
    <2>3. CASE \E name \in Name : SetGroupName(gid, name)
      BY <2>3, GroupFieldStep
    <2>4. CASE \E ids \in SUBSET ClientId : SetGroupClients(gid, ids)
      BY <2>4, SetGroupClientsStep
    <2>. QED
      BY <2>1, <2>2, <2>3, <2>4
  <1>4. CASE StreamCommand
    BY <1>4, SetStreamMetaStep, RemoveStreamStep DEF StreamCommand
  <1>5. CASE UNCHANGED stateVars
    BY <1>5 DEF stateVars, StateInv, StateTypeOK, AtMostOneGroup, NoEmptyGroup
  <1>. QED
    BY <1>1, <1>2, <1>3, <1>4, <1>5 DEF StateNext

\* The server's state never leaves its types, whatever commands and sessions do: group
\* ids, members, streams and client records stay what the code's structs hold.
THEOREM StateTypeCorrect == StateSpec => []StateTypeOK
  <1>1. StateSpec => []StateInv
    BY StateInvInit, StateInvNext, PTL DEF StateSpec
  <1>2. StateInv => StateTypeOK
    BY DEF StateInv
  <1>. QED
    BY <1>1, <1>2, PTL

\* build_routing's "first group that contains the client" is the only one: no sequence of
\* moves, evictions, deletions and reconnections puts a client into two groups.
THEOREM GroupsDisjoint == StateSpec => []AtMostOneGroup
  <1>1. StateSpec => []StateInv
    BY StateInvInit, StateInvNext, PTL DEF StateSpec
  <1>2. StateInv => AtMostOneGroup
    BY DEF StateInv
  <1>. QED
    BY <1>1, <1>2, PTL

\* No operation leaves a group without members behind.
THEOREM GroupsPopulated == StateSpec => []NoEmptyGroup
  <1>1. StateSpec => []StateInv
    BY StateInvInit, StateInvNext, PTL DEF StateSpec
  <1>2. StateInv => NoEmptyGroup
    BY DEF StateInv
  <1>. QED
    BY <1>1, <1>2, PTL

\* Together: the groups divide the clients.
THEOREM GroupsDivide == StateSpec => []GroupsDivideClients
  <1>1. AtMostOneGroup /\ NoEmptyGroup => GroupsDivideClients
    BY DEF GroupsDivideClients
  <1>. QED
    BY <1>1, GroupsDisjoint, GroupsPopulated, PTL

-----------------------------------------------------------------------------
(* Who stays where.                                                          *)

\* set_group_clients finds every client it does not list a group on the stream it heard,
\* and one that is not muted unless its group was; those it lists go to the target.
LEMMA Regrouped ==
    ASSUME StateInv, NEW gid \in GroupId, NEW ids \in SUBSET ClientId,
           SetGroupClients(gid, ids),
           NEW g \in DOMAIN groups, NEW c \in groups[g].clients
    PROVE  /\ c \notin ids => \E h \in DOMAIN groups' :
                 /\ c \in groups'[h].clients
                 /\ groups'[h].stream_id = groups[g].stream_id
                 /\ groups'[h].muted => groups[g].muted
           /\ c \in ids /\ gid \in DOMAIN groups =>
                 gid \in DOMAIN groups' /\ c \in groups'[gid].clients
  <1>. DEFINE evicted == MembersOf(gid) \ ids
              joined  == ids \ MembersOf(gid)
              moved   == Moved(gid, ids)
  <1>1. PICK fresh \in Injection(evicted, GroupId \ spent) :
           groups' = WithoutEmpty(
                [x \in DOMAIN groups \cup Range(fresh) |->
                   IF x \in DOMAIN groups THEN moved[x]
                   ELSE NewGroup(groups[gid].stream_id, {e \in evicted : fresh[e] = x})])
    BY DEF SetGroupClients
  <1>. DEFINE before == [x \in DOMAIN groups \cup Range(fresh) |->
                           IF x \in DOMAIN groups THEN moved[x]
                           ELSE NewGroup(groups[gid].stream_id, {e \in evicted : fresh[e] = x})]
  <1>2. \A x \in DOMAIN before : before[x].clients # {} => x \in DOMAIN groups' /\ groups'[x] = before[x]
    BY <1>1 DEF WithoutEmpty, Restrict
  <1>3. \A x \in DOMAIN groups :
           /\ x \in DOMAIN before
           /\ before[x].clients = IF x = gid THEN ids ELSE groups[x].clients \ joined
           /\ before[x].stream_id = groups[x].stream_id
           /\ before[x].muted = groups[x].muted
    BY DEF Moved, StateInv, StateTypeOK, Group
  <1>4. CASE c \in ids
    <2>1. gid \in DOMAIN groups => gid \in DOMAIN before /\ before[gid].clients = ids
      BY <1>3
    <2>. HIDE DEF before
    <2>. QED
      BY <1>2, <1>4, <2>1
  <1>5. CASE c \notin ids /\ c \notin evicted
    <2>1. g # gid /\ c \in before[g].clients
      BY <1>3, <1>5 DEF MembersOf
    <2>. HIDE DEF before
    <2>. QED
      BY <1>2, <1>3, <1>5, <2>1
  <1>6. CASE c \in evicted
    <2>1. g = gid
      BY <1>6 DEF MembersOf, StateInv, AtMostOneGroup
    <2>2. fresh[c] \in Range(fresh) /\ fresh[c] \notin DOMAIN groups
      BY <1>6 DEF Injection, IsInjective, Range, StateInv, StateTypeOK
    <2>3. /\ fresh[c] \in DOMAIN before
          /\ before[fresh[c]] = NewGroup(groups[gid].stream_id, {e \in evicted : fresh[e] = fresh[c]})
      BY <2>2
    <2>. HIDE DEF before
    <2>4. /\ c \in before[fresh[c]].clients
          /\ before[fresh[c]].stream_id = groups[g].stream_id
          /\ before[fresh[c]].muted = FALSE
      BY <1>6, <2>1, <2>3 DEF NewGroup
    <2>. QED
      BY <1>2, <1>6, <2>3, <2>4
  <1>. QED
    BY <1>4, <1>5, <1>6

\* The listing shows exactly the known clients that are in a group.
AllGrouped == \A c \in DOMAIN clients : Grouped(c)

LEMMA ListedIs == StateInv => (EveryClientGrouped <=> AllGrouped)
  <1>. SUFFICES ASSUME StateInv
                PROVE  EveryClientGrouped <=> AllGrouped
    OBVIOUS
  <1>1. \A g \in DOMAIN groups : ToStatus[g].clients = groups[g].clients \cap DOMAIN clients
    BY DEF ToStatus, StateInv, StateTypeOK, Group
  <1>. QED
    BY <1>1 DEF EveryClientGrouped, AllGrouped, Grouped

\* A registration leaves its client in a group, and everybody else where they were.
LEMMA RegisterGroups ==
    ASSUME StateInv, NEW c \in ClientId, Register(c)
    PROVE  /\ DOMAIN clients' = DOMAIN clients \cup {c}
           /\ Grouped(c)'
           /\ \A x \in ClientId : Grouped(x) => Grouped(x)'
  <1>1. DOMAIN clients' = DOMAIN clients \cup {c}
    BY DEF Register
  <1>2. CASE Grouped(c) /\ UNCHANGED groups
    BY <1>1, <1>2 DEF Grouped
  <1>3. ASSUME NEW gid \in GroupId \ spent,
               groups' = [g \in DOMAIN groups \cup {gid} |->
                            IF g = gid THEN NewGroup(DefaultStream, {c}) ELSE groups[g]]
        PROVE  Grouped(c)' /\ \A x \in ClientId : Grouped(x) => Grouped(x)'
    <2>1. gid \notin DOMAIN groups
      BY DEF StateInv, StateTypeOK
    <2>2. /\ DOMAIN groups' = DOMAIN groups \cup {gid} /\ c \in groups'[gid].clients
          /\ \A g \in DOMAIN groups : groups'[g] = groups[g]
      BY <1>3, <2>1 DEF NewGroup
    <2>. QED
      BY <2>2 DEF Grouped
  <1>. QED
    BY <1>1, <1>2, <1>3 DEF Register, GroupForClient

\* A deletion moves nobody else.
LEMMA DeleteClientGroups ==
    ASSUME StateInv, NEW c \in ClientId, DeleteClient(c)
    PROVE  /\ DOMAIN clients' = DOMAIN clients \ {c}
           /\ \A x \in ClientId \ {c} : Grouped(x) => Grouped(x)'
  <1>1. DOMAIN clients' = DOMAIN clients \ {c}
    BY DEF DeleteClient, Restrict
  <1>2. \A g \in DOMAIN groups : groups[g].clients \ {c} # {} =>
           g \in DOMAIN groups' /\ groups'[g].clients = groups[g].clients \ {c}
    <2>. DEFINE left == [g \in DOMAIN groups |-> [groups[g] EXCEPT !.clients = @ \ {c}]]
    <2>1. /\ DOMAIN left = DOMAIN groups
          /\ \A g \in DOMAIN groups : left[g].clients = groups[g].clients \ {c}
      BY DEF StateInv, StateTypeOK, Group
    <2>2. groups' = WithoutEmpty(left)
      BY DEF DeleteClient
    <2>. HIDE DEF left
    <2>. QED
      BY <2>1, <2>2 DEF WithoutEmpty, Restrict
  <1>. QED
    BY <1>1, <1>2 DEF Grouped

\* The commands that touch neither the members of a group nor the set of clients.
LEMMA FieldGroups ==
    ASSUME StateInv, NEW gid, NEW stream, NEW muted, NEW name,
           \/ SetGroupStream(gid, stream) \/ SetGroupMute(gid, muted)
           \/ SetGroupName(gid, name) \/ RemoveStream(stream)
    PROVE  /\ DOMAIN clients' = DOMAIN clients
           /\ \A x \in ClientId : Grouped(x) => Grouped(x)'
  <1>1. /\ clients' = clients /\ DOMAIN groups' = DOMAIN groups
        /\ \A g \in DOMAIN groups : groups'[g].clients = groups[g].clients
    BY DEF SetGroupStream, SetGroupMute, SetGroupName, RemoveStream, StateInv, StateTypeOK, Group
  <1>. QED
    BY <1>1 DEF Grouped

LEMMA StaysGrouped ==
    ASSUME StateInv, [StateNext]_stateVars, ~ Misdirected,
           \A c \in DOMAIN clients : Grouped(c)
    PROVE  \A c \in DOMAIN clients' : Grouped(c)'
  <1>0. DOMAIN clients \subseteq ClientId
    BY DEF StateInv, StateTypeOK
  <1>1. ASSUME UNCHANGED groups, DOMAIN clients' = DOMAIN clients
        PROVE  \A c \in DOMAIN clients' : Grouped(c)'
    BY <1>1 DEF Grouped
  <1>2. CASE SessionSection
    <2>1. PICK c \in ClientId :
             \/ Register(c) \/ Unregister(c)
             \/ \E percent \in Percent, muted \in BOOLEAN : ChangeVolume(c, percent, muted)
      BY <1>2 DEF SessionSection
    <2>2. CASE Register(c)
      BY <1>0, <2>2, RegisterGroups
    <2>3. CASE Unregister(c)
      BY <1>1, <2>3 DEF Unregister
    <2>4. CASE \E percent \in Percent, muted \in BOOLEAN : ChangeVolume(c, percent, muted)
      BY <1>1, <2>4 DEF ChangeVolume
    <2>. QED
      BY <2>1, <2>2, <2>3, <2>4
  <1>3. CASE ClientCommand
    <2>1. PICK c \in ClientId :
             \/ \E percent \in Percent, muted \in BOOLEAN : SetClientVolume(c, percent, muted)
             \/ \E latency \in Latency : SetClientLatency(c, latency)
             \/ \E name \in Name : SetClientName(c, name)
             \/ DeleteClient(c)
      BY <1>3 DEF ClientCommand
    <2>2. CASE DeleteClient(c)
      BY <1>0, <2>2, DeleteClientGroups
    <2>. QED
      BY <1>1, <2>1, <2>2 DEF SetClientVolume, ChangeVolume, SetClientLatency, SetClientName
  <1>4. CASE GroupCommand
    <2>1. PICK gid \in GroupId :
              \/ \E stream \in StreamId \cup {NoStream} : SetGroupStream(gid, stream)
              \/ \E muted \in BOOLEAN : SetGroupMute(gid, muted)
              \/ \E name \in Name : SetGroupName(gid, name)
              \/ \E ids \in SUBSET ClientId : SetGroupClients(gid, ids)
      BY <1>4 DEF GroupCommand
    <2>2. CASE \E ids \in SUBSET ClientId : SetGroupClients(gid, ids)
      <3>1. PICK ids \in SUBSET ClientId : SetGroupClients(gid, ids)
        BY <2>2
      <3>2. gid \in DOMAIN groups /\ clients' = clients
        BY <3>1 DEF Misdirected, SetGroupClients
      <3>3. ASSUME NEW c \in DOMAIN clients
            PROVE  Grouped(c)'
        <4>1. PICK g \in DOMAIN groups : c \in groups[g].clients
          BY DEF Grouped
        <4>. QED
          BY <3>1, <3>2, <4>1, Regrouped DEF Grouped
      <3>. QED
        BY <3>2, <3>3
    <2>3. CASE \/ \E stream \in StreamId \cup {NoStream} : SetGroupStream(gid, stream)
               \/ \E muted \in BOOLEAN : SetGroupMute(gid, muted)
               \/ \E name \in Name : SetGroupName(gid, name)
      BY <1>0, <2>3, FieldGroups
    <2>. QED
      BY <2>1, <2>2, <2>3
  <1>5. CASE StreamCommand
    <2>1. PICK stream \in StreamId : RemoveStream(stream) \/ \E meta \in Meta : SetStreamMeta(stream, meta)
      BY <1>5 DEF StreamCommand
    <2>2. CASE RemoveStream(stream)
      BY <1>0, <2>2, FieldGroups
    <2>. QED
      BY <1>1, <2>1, <2>2 DEF SetStreamMeta
  <1>6. CASE UNCHANGED stateVars
    BY <1>1, <1>6 DEF stateVars
  <1>. QED
    BY <1>2, <1>3, <1>4, <1>5, <1>6 DEF StateNext

\* No known client drops out of the status listing but by a set_group_clients for a group
\* that does not exist: no eviction, deletion, reconnection or other command loses one.
THEOREM ListingLosesNobody == StateSpec => LosesClientsOnlyWhenMisdirected
  <1>1. StateSpec => []StateInv
    BY StateInvInit, StateInvNext, PTL DEF StateSpec
  <1>2. ASSUME StateInv, StateInv', [StateNext]_stateVars, EveryClientGrouped, ~ Misdirected
        PROVE  EveryClientGrouped'
    <2>1. \A c \in DOMAIN clients' : Grouped(c)'
      BY <1>2, ListedIs, StaysGrouped DEF AllGrouped
    <2>2. StateInv' => (EveryClientGrouped' <=> AllGrouped')
      BY ListedIs, PTL
    <2>. QED
      BY <1>2, <2>1, <2>2 DEF AllGrouped
  <1>3. StateInv /\ StateInv' /\ [StateNext]_stateVars
           => [EveryClientGrouped /\ ~ EveryClientGrouped' => Misdirected]_stateVars
    BY <1>2
  <1>. QED
    BY <1>1, <1>3, PTL DEF StateSpec, LosesClientsOnlyWhenMisdirected

\* A client that set_group_clients does not list, evicted or not, stays on its stream and
\* is not muted by the move, for any groups and members.
THEOREM UnlistedUndisturbed == StateSpec => UnlistedKeepListening
  <1>1. StateSpec => []StateInv
    BY StateInvInit, StateInvNext, PTL DEF StateSpec
  <1>2. ASSUME StateInv, StateInv', NEW c \in ClientId, Grouped(c),
               NEW gid \in GroupId, NEW ids \in SUBSET (ClientId \ {c}), SetGroupClients(gid, ids)
        PROVE  Undisturbed(c)
    <2>1. \A g \in DOMAIN groups : c \in groups[g].clients => g = GroupOf(c)
      BY <1>2 DEF GroupOf, StateInv, AtMostOneGroup
    <2>2. \A g \in DOMAIN groups' : c \in groups'[g].clients => g = GroupOf(c)'
      BY <1>2 DEF GroupOf, StateInv, AtMostOneGroup
    <2>3. PICK g \in DOMAIN groups : c \in groups[g].clients
      BY <1>2 DEF Grouped
    <2>4. PICK h \in DOMAIN groups' : /\ c \in groups'[h].clients
                                      /\ groups'[h].stream_id = groups[g].stream_id
                                      /\ groups'[h].muted => groups[g].muted
      <3>1. ids \in SUBSET ClientId /\ c \notin ids
        OBVIOUS
      <3>. QED
        BY <1>2, <2>3, <3>1, Regrouped
    <2>5. g = GroupOf(c) /\ h = GroupOf(c)'
      BY <2>1, <2>2, <2>3, <2>4
    <2>. QED
      BY <2>4, <2>5 DEF Undisturbed, Grouped, StreamFor, MutedFor
  <1>3. StateInv /\ StateInv' =>
          \A c \in ClientId : Grouped(c) /\ ~ Undisturbed(c) =>
            ~ \E gid \in GroupId, ids \in SUBSET (ClientId \ {c}) : SetGroupClients(gid, ids)
    BY <1>2
  <1>. QED
    BY <1>1, <1>3, StateInvNext, PTL DEF StateSpec, UnlistedKeepListening

-----------------------------------------------------------------------------
(* The sessions.                                                             *)

\* A session past its Hello carries a client id: the part of TypeOK the critical
\* sections of a session depend on.
CidOK == /\ pc \in [Session -> Steps]
         /\ cid \in [Session -> ClientId \cup {None}]
         /\ \A s \in Session : cid[s] = None => pc[s] \in {"new", "gone"}

-----------------------------------------------------------------------------
(* CidOK is inductive.                                                       *)

LEMMA CidInit == Init => CidOK
  BY DEF Init, CidOK, Steps

\* A session past its Hello that goes on to another step keeps the id it has.
LEMMA GotoKeepsCid ==
    ASSUME CidOK, NEW s \in Session, NEW step \in Steps, Goto(s, step), UNCHANGED cid,
           pc[s] \notin {"new", "gone"}
    PROVE  CidOK'
  BY DEF CidOK, Goto, Steps

LEMMA EndKeepsCid ==
    ASSUME CidOK, NEW s \in Session, End(s)
    PROVE  CidOK'
  BY DEF CidOK, End, Goto, Steps

LEMMA HelloKeepsCid ==
    ASSUME CidOK, NEW s \in Session, NEW c \in ClientId, Hello(s, c)
    PROVE  CidOK'
  <1>1. c # None
    BY SessionAssumption
  <1>2. pc' \in [Session -> Steps] /\ cid' \in [Session -> ClientId \cup {None}]
    BY DEF CidOK, Hello, Goto, Steps
  <1>3. ASSUME NEW t \in Session, cid'[t] = None PROVE pc'[t] \in {"new", "gone"}
    BY <1>1, <1>3 DEF CidOK, Hello, Goto
  <1>. QED
    BY <1>2, <1>3 DEF CidOK

LEMMA SessionStepKeepsCid ==
    ASSUME CidOK, NEW s \in Session, SessionStep(s)
    PROVE  CidOK'
  <1>1. CASE Refuse(s) \/ FailHandshake(s)
    BY <1>1, EndKeepsCid DEF Refuse, FailHandshake
  <1>2. CASE \E c \in ClientId : Hello(s, c)
    BY <1>2, HelloKeepsCid
  <1>3. CASE Handshake(s)
    <2>1. CASE RegisterClient(s)
      BY <2>1, GotoKeepsCid DEF RegisterClient, Steps
    <2>2. CASE PublishRouting(s)
      BY <2>2, GotoKeepsCid DEF PublishRouting, Steps
    <2>3. CASE StartLoop(s)
      BY <2>3, GotoKeepsCid DEF StartLoop, Steps
    <2>. QED
      BY <1>3, <2>1, <2>2, <2>3 DEF Handshake
  <1>4. CASE SeeRouting(s)
    BY <1>4 DEF SeeRouting, CidOK
  <1>5. CASE \E percent \in Percent, muted \in BOOLEAN : ReadClientInfo(s, percent, muted)
    BY <1>5 DEF ReadClientInfo, CidOK
  <1>6. CASE ReceiveSettings(s)
    BY <1>6 DEF ReceiveSettings, CidOK
  <1>7. CASE LeaveLoop(s)
    BY <1>7, GotoKeepsCid DEF LeaveLoop, Steps
  <1>8. CASE CleanUp(s)
    <2>1. CASE CloseSettings(s)
      BY <2>1, GotoKeepsCid DEF CloseSettings, Steps
    <2>2. CASE CloseRouting(s)
      BY <2>2, GotoKeepsCid DEF CloseRouting, Steps
    <2>3. CASE CloseState(s)
      BY <2>3, EndKeepsCid DEF CloseState
    <2>. QED
      BY <1>8, <2>1, <2>2, <2>3 DEF CleanUp
  <1>. QED
    BY <1>1, <1>2, <1>3, <1>4, <1>5, <1>6, <1>7, <1>8 DEF SessionStep

\* The dispatcher never moves a session.
LEMMA DispatchLeavesSessions == Dispatch \/ FinishCommand => UNCHANGED <<pc, cid>>
  <1>1. Dispatch => UNCHANGED <<pc, cid>>
    BY DEF Dispatch, DispatchClientVolume, DispatchClientLatency, DispatchDeleteClient,
           DispatchQuietCommand, DispatchGroupStream, DispatchGroupMute,
           DispatchGroupClients, DispatchRemoveStream, OthersUnchanged, sessionVars
  <1>2. FinishCommand => UNCHANGED <<pc, cid>>
    BY DEF FinishCommand, LookUpSettings, SendSettings, PushRouting, sessionVars
  <1>. QED
    BY <1>1, <1>2

LEMMA CidNext == CidOK /\ [Next]_vars => CidOK'
  <1>. SUFFICES ASSUME CidOK, [Next]_vars
                PROVE  CidOK'
    OBVIOUS
  <1>1. CASE \E s \in Session : SessionStep(s)
    BY <1>1, SessionStepKeepsCid
  <1>2. CASE Dispatch \/ FinishCommand
    BY <1>2, DispatchLeavesSessions DEF CidOK
  <1>3. CASE UNCHANGED vars
    BY <1>3 DEF vars, sessionVars, CidOK
  <1>. QED
    BY <1>1, <1>2, <1>3 DEF Next

-----------------------------------------------------------------------------
(* Every step is a critical section of ServerState or leaves the state alone. *)

LEMMA SessionStepImplements ==
    ASSUME CidOK, NEW s \in Session, SessionStep(s)
    PROVE  SessionSection \/ UNCHANGED stateVars
  <1>1. CASE Refuse(s) \/ FailHandshake(s) \/ LeaveLoop(s)
    BY <1>1 DEF Refuse, FailHandshake, LeaveLoop
  <1>2. CASE \E c \in ClientId : Hello(s, c)
    BY <1>2 DEF Hello
  <1>3. CASE RegisterClient(s)
    <2>1. cid[s] \in ClientId
      BY <1>3 DEF RegisterClient, CidOK
    <2>2. Register(cid[s])
      BY <1>3 DEF RegisterClient
    <2>. QED
      BY <2>1, <2>2 DEF SessionSection
  <1>4. CASE PublishRouting(s) \/ StartLoop(s)
    BY <1>4 DEF PublishRouting, StartLoop
  <1>5. CASE SeeRouting(s) \/ ReceiveSettings(s)
    BY <1>5 DEF SeeRouting, ReceiveSettings
  <1>6. CASE \E percent \in Percent, muted \in BOOLEAN : ReadClientInfo(s, percent, muted)
    <2>. PICK percent \in Percent, muted \in BOOLEAN : ReadClientInfo(s, percent, muted)
      BY <1>6
    <2>1. cid[s] \in ClientId
      BY DEF ReadClientInfo, CidOK
    <2>2. ChangeVolume(cid[s], percent, muted)
      BY DEF ReadClientInfo
    <2>. QED
      BY <2>1, <2>2 DEF SessionSection
  <1>7. CASE CloseSettings(s) \/ CloseRouting(s)
    BY <1>7 DEF CloseSettings, CloseRouting
  <1>8. CASE CloseState(s)
    <2>1. cid[s] \in ClientId
      BY <1>8 DEF CloseState, CidOK
    <2>2. Unregister(cid[s])
      BY <1>8 DEF CloseState
    <2>. QED
      BY <2>1, <2>2 DEF SessionSection
  <1>. QED
    BY <1>1, <1>2, <1>3, <1>4, <1>5, <1>6, <1>7, <1>8 DEF SessionStep, Handshake, CleanUp

LEMMA DispatchImplements == Dispatch => ClientCommand \/ GroupCommand \/ StreamCommand
  <1>. SUFFICES ASSUME Dispatch
                PROVE  ClientCommand \/ GroupCommand \/ StreamCommand
    OBVIOUS
  <1>1. CASE \E c \in ClientId :
                \/ \E percent \in Percent, muted \in BOOLEAN :
                      DispatchClientVolume(c, percent, muted)
                \/ \E latency \in Latency : DispatchClientLatency(c, latency)
                \/ DispatchDeleteClient(c)
    BY <1>1 DEF DispatchClientVolume, DispatchClientLatency, DispatchDeleteClient,
                ClientCommand
  <1>2. CASE DispatchQuietCommand
    BY <1>2 DEF DispatchQuietCommand, ClientCommand, GroupCommand, StreamCommand
  <1>3. CASE \E gid \in GroupId :
                \/ \E stream \in StreamId \cup {NoStream} : DispatchGroupStream(gid, stream)
                \/ \E muted \in BOOLEAN : DispatchGroupMute(gid, muted)
                \/ \E ids \in SUBSET ClientId : DispatchGroupClients(gid, ids)
    BY <1>3 DEF DispatchGroupStream, DispatchGroupMute, DispatchGroupClients, GroupCommand
  <1>4. CASE \E stream \in StreamId : DispatchRemoveStream(stream)
    BY <1>4 DEF DispatchRemoveStream, StreamCommand
  <1>. QED
    BY <1>1, <1>2, <1>3, <1>4 DEF Dispatch

LEMMA StepImplements == CidOK /\ [Next]_vars => [StateNext]_stateVars
  <1>. SUFFICES ASSUME CidOK, [Next]_vars
                PROVE  [StateNext]_stateVars
    OBVIOUS
  <1>1. CASE \E s \in Session : SessionStep(s)
    BY <1>1, SessionStepImplements DEF StateNext
  <1>2. CASE Dispatch
    BY <1>2, DispatchImplements DEF StateNext
  <1>3. CASE FinishCommand
    BY <1>3 DEF FinishCommand, LookUpSettings, SendSettings, PushRouting
  <1>4. CASE UNCHANGED vars
    BY <1>4 DEF vars
  <1>. QED
    BY <1>1, <1>2, <1>3, <1>4 DEF Next

-----------------------------------------------------------------------------

\* The sessions and the dispatcher implement the shared state's specification: for any
\* number of sessions and any interleaving of their steps with the pushes of a command,
\* clients, groups and streams change only by the critical sections ServerState lists.
THEOREM SessionsImplementState == Spec => StateSpec
  <1>1. Init => StateInit
    BY DEF Init
  <1>2. Spec => []CidOK
    BY CidInit, CidNext, PTL DEF Spec
  <1>3. CidOK /\ [Next]_vars => [StateNext]_stateVars
    BY StepImplements
  <1>. QED
    BY <1>1, <1>2, <1>3, PTL DEF Spec, StateSpec

\* A client's group is unique at every step of every session, so the routing a handshake
\* copies and the routing a push sends cannot disagree on which group they read.
THEOREM GroupsDivideUnderSessions == Spec => []GroupsDivideClients
  BY SessionsImplementState, GroupsDivide, PTL

-----------------------------------------------------------------------------
(* Types.                                                                    *)

Job == [at: {"idle", "settings", "send", "routing"},
        scope: {"none", "client", "group", "all"},
        id: ClientId \cup GroupId \cup {None},
        update: ServerSettings, to: Session \cup {None}]

\* What a session keeps, a channel included.
SessionTypes ==
    /\ routing \in [Session -> SessionRouting]
    /\ watch \in [Session -> [value: SessionRouting, unseen: BOOLEAN]]
    /\ settings \in [Session -> Seq(ServerSettings)]
    /\ \A s \in Session : Len(settings[s]) <= SettingsCap
    /\ wire \in [Session -> [codec: StreamId \cup {NoStream},
                             by: {"nobody", "handshake", "loop"}]]
    /\ view \in [Session -> ServerSettings]
    /\ missed \subseteq Session /\ crossed \subseteq Session

\* A command at rest is forgotten; one that pushes settings has a client to push them
\* to, and then a session; a scope names what it says.
JobOK ==
    /\ job.at = "idle" => job = Idle
    /\ job.at \in {"settings", "send"} => job.id \in ClientId
    /\ job.at = "send" => job.to \in Session
    /\ job.scope = "client" => job.id \in ClientId

SharedTypes ==
    /\ routing_senders \in [ClientId -> Session \cup {None}]
    /\ settings_senders \in [ClientId -> Session \cup {None}]
    /\ job \in Job /\ JobOK
    /\ issued \in 0 .. MaxCommands

\* The grouping, the ids and the types together.
Types == StateInv /\ CidOK /\ SessionTypes /\ SharedTypes

LEMMA Defaults ==
    /\ NoRouting \in SessionRouting /\ NoSettings \in ServerSettings
    /\ NothingSent \in [codec: StreamId \cup {NoStream}, by: {"nobody", "handshake", "loop"}]
    /\ Idle \in Job
  <1>1. NoSettings \in ServerSettings
    BY DefaultsAre DEF NoSettings, ServerSettings
  <1>2. Idle \in Job
    BY <1>1 DEF Idle, Job
  <1>. QED
    BY <1>1, <1>2 DEF NoRouting, SessionRouting, NothingSent

\* What build_routing finds for a client in a group, and the settings of a known client.
RoutingsTyped == \A c \in ClientId : Grouped(c) => RoutingOf(c) \in SessionRouting
SettingsTyped == \A c \in DOMAIN clients : SettingsOf(c) \in ServerSettings

LEMMA RoutingType == StateTypeOK => RoutingsTyped
  <1>. SUFFICES ASSUME StateTypeOK, NEW c \in ClientId, Grouped(c)
                PROVE  RoutingOf(c) \in SessionRouting
    BY DEF RoutingsTyped
  <1>1. GroupOf(c) \in DOMAIN groups
    BY DEF Grouped, GroupOf
  <1>2. groups[GroupOf(c)] \in Group
    BY <1>1 DEF StateTypeOK
  <1>3. StreamFor(c) \in StreamId \cup {NoStream} /\ MutedFor(c) \in BOOLEAN
    BY <1>2 DEF StreamFor, MutedFor, Group
  <1>4. (c \in DOMAIN clients /\ clients[c].config.muted) \in BOOLEAN
    OBVIOUS
  <1>. QED
    BY <1>3, <1>4 DEF RoutingOf, SessionRouting

LEMMA SettingsType == StateTypeOK => SettingsTyped
  BY DEF SettingsTyped, StateTypeOK, Client, ClientConfig, SettingsOf, ServerSettings

LEMMA DropTypes ==
    ASSUME SessionTypes, NEW s \in Session, Drop(s)
    PROVE  SessionTypes'
  <1>1. <<>> \in Seq(ServerSettings) /\ Len(<<>>) <= SettingsCap
    BY SessionAssumption
  <1>2. /\ routing' \in [Session -> SessionRouting]
        /\ wire' \in [Session -> [codec: StreamId \cup {NoStream},
                                  by: {"nobody", "handshake", "loop"}]]
        /\ view' \in [Session -> ServerSettings]
        /\ missed' \subseteq Session /\ crossed' \subseteq Session
    BY Defaults DEF SessionTypes, Drop
  <1>3. watch' \in [Session -> [value: SessionRouting, unseen: BOOLEAN]]
    <2>1. [value |-> NoRouting, unseen |-> FALSE] \in [value: SessionRouting, unseen: BOOLEAN]
      BY Defaults
    <2>. QED
      BY <2>1 DEF SessionTypes, Drop
  <1>4. /\ settings' \in [Session -> Seq(ServerSettings)]
        /\ \A t \in Session : Len(settings'[t]) <= SettingsCap
    BY <1>1 DEF SessionTypes, Drop
  <1>. QED
    BY <1>2, <1>3, <1>4 DEF SessionTypes

-----------------------------------------------------------------------------
(* What the critical sections leave of a client's routing and settings.      *)

\* build_routing finds the one group the client is in.
Found == \A c \in ClientId, g \in DOMAIN groups : c \in groups[g].clients => GroupOf(c) = g

LEMMA OnlyGroup == StateInv => Found
  BY DEF StateInv, AtMostOneGroup, GroupOf, Found

\* As long as a client stays in its group, and the group's stream, its mute and the
\* client's own are what they were, its routing is.
LEMMA SameRouting ==
    ASSUME StateInv, StateInv', NEW c \in ClientId, Grouped(c),
           \A g \in DOMAIN groups : c \in groups[g].clients =>
              /\ g \in DOMAIN groups' /\ c \in groups'[g].clients
              /\ groups'[g].stream_id = groups[g].stream_id /\ groups'[g].muted = groups[g].muted,
           (c \in DOMAIN clients' /\ clients'[c].config.muted)
              = (c \in DOMAIN clients /\ clients[c].config.muted)
    PROVE  Grouped(c)' /\ RoutingOf(c)' = RoutingOf(c)
  <1>1. PICK g \in DOMAIN groups : c \in groups[g].clients
    BY DEF Grouped
  <1>2. GroupOf(c) = g
    BY <1>1, OnlyGroup DEF Found
  <1>3. g \in DOMAIN groups' /\ c \in groups'[g].clients
    BY <1>1
  <1>4. GroupOf(c)' = g
    <2>1. Found'
      BY OnlyGroup, PTL
    <2>. QED
      BY <1>3, <2>1 DEF Found
  <1>5. StreamFor(c)' = StreamFor(c) /\ MutedFor(c)' = MutedFor(c)
    BY <1>1, <1>2, <1>4 DEF StreamFor, MutedFor
  <1>. QED
    BY <1>3, <1>5 DEF Grouped, RoutingOf

\* A registration gives a group to a client that has none, and fresh settings to one
\* that is unknown; it changes nothing else.
LEMMA RegisterKeeps ==
    ASSUME StateInv, StateInv', NEW c \in ClientId, Register(c)
    PROVE  /\ DOMAIN clients' = DOMAIN clients \cup {c} /\ Grouped(c)'
           /\ \A d \in DOMAIN clients : clients'[d].config = clients[d].config
           /\ \A d \in ClientId : Grouped(d) => Grouped(d)' /\ RoutingOf(d)' = RoutingOf(d)
           /\ \A d \in ClientId : d # c /\ Grouped(d)' => Grouped(d)
           /\ \A gid : MembersOf(gid) \subseteq MembersOf(gid)'
  <1>1. /\ DOMAIN clients' = DOMAIN clients \cup {c}
        /\ \A d \in DOMAIN clients : clients'[d].config = clients[d].config
        /\ c \notin DOMAIN clients => clients'[c].config.muted = FALSE
    BY DEF Register, GetOrCreate, DefaultConfig
  <1>2. /\ DOMAIN groups \subseteq DOMAIN groups'
        /\ \A g \in DOMAIN groups : groups'[g] = groups[g]
        /\ \A g \in DOMAIN groups' \ DOMAIN groups : groups'[g].clients = {c}
        /\ Grouped(c)'
    <2>1. CASE Grouped(c) /\ UNCHANGED groups
      BY <2>1 DEF Grouped
    <2>2. ASSUME NEW gid \in GroupId \ spent,
                 groups' = [g \in DOMAIN groups \cup {gid} |->
                              IF g = gid THEN NewGroup(DefaultStream, {c}) ELSE groups[g]]
          PROVE  /\ DOMAIN groups \subseteq DOMAIN groups'
                 /\ \A g \in DOMAIN groups : groups'[g] = groups[g]
                 /\ \A g \in DOMAIN groups' \ DOMAIN groups : groups'[g].clients = {c}
                 /\ Grouped(c)'
      <3>1. gid \notin DOMAIN groups
        BY DEF StateInv, StateTypeOK
      <3>2. groups'[gid].clients = {c} /\ DOMAIN groups' = DOMAIN groups \cup {gid}
        BY <2>2 DEF NewGroup
      <3>. QED
        BY <2>2, <3>1, <3>2 DEF Grouped
    <2>. QED
      BY <2>1, <2>2 DEF Register, GroupForClient
  <1>3. ASSUME NEW d \in ClientId, Grouped(d)
        PROVE  Grouped(d)' /\ RoutingOf(d)' = RoutingOf(d)
    <2>1. (d \in DOMAIN clients' /\ clients'[d].config.muted)
            = (d \in DOMAIN clients /\ clients[d].config.muted)
      BY <1>1
    <2>. QED
      BY <1>2, <1>3, <2>1, SameRouting
  <1>4. ASSUME NEW d \in ClientId, d # c, Grouped(d)' PROVE Grouped(d)
    BY <1>2, <1>4 DEF Grouped
  <1>5. \A gid : MembersOf(gid) \subseteq MembersOf(gid)'
    BY <1>2 DEF MembersOf
  <1>. QED
    BY <1>1, <1>2, <1>3, <1>4, <1>5

\* A volume changes the settings of its client, and its routing if it is a mute.
LEMMA VolumeKeeps ==
    ASSUME StateInv, StateInv', NEW c \in ClientId, NEW percent \in Percent, NEW muted \in BOOLEAN,
           ChangeVolume(c, percent, muted)
    PROVE  /\ UNCHANGED groups /\ DOMAIN clients' = DOMAIN clients
           /\ \A d \in DOMAIN clients : d # c => clients'[d] = clients[d]
           /\ c \in DOMAIN clients => SettingsOf(c)' = [percent |-> percent, muted |-> muted,
                                                       latency |-> clients[c].config.latency]
           /\ \A d \in ClientId :
                /\ Grouped(d)' <=> Grouped(d)
                /\ Grouped(d) /\ (d = c => c \notin DOMAIN clients \/ clients[c].config.muted = muted)
                     => RoutingOf(d)' = RoutingOf(d)
  <1>1. /\ UNCHANGED groups /\ DOMAIN clients' = DOMAIN clients
        /\ \A d \in DOMAIN clients : d # c => clients'[d] = clients[d]
    BY DEF ChangeVolume
  <1>2. ASSUME c \in DOMAIN clients
        PROVE  /\ SettingsOf(c)' = [percent |-> percent, muted |-> muted,
                                    latency |-> clients[c].config.latency]
               /\ clients'[c].config.muted = muted
    <2>1. PICK r \in Client : r = clients[c]
      BY <1>2 DEF StateInv, StateTypeOK
    <2>2. PICK k \in ClientConfig : k = r.config
      BY DEF Client
    <2>3. clients'[c] = [r EXCEPT !.config.percent = percent, !.config.muted = muted]
      BY <1>2, <2>1 DEF ChangeVolume
    <2>4. clients'[c].config = [k EXCEPT !.percent = percent, !.muted = muted]
      BY <2>2, <2>3 DEF Client
    <2>5. /\ clients'[c].config.percent = percent /\ clients'[c].config.muted = muted
          /\ clients'[c].config.latency = k.latency
      BY <2>4 DEF ClientConfig
    <2>. QED
      BY <2>1, <2>2, <2>5 DEF SettingsOf
  <1>3. ASSUME NEW d \in ClientId, Grouped(d),
               d = c => c \notin DOMAIN clients \/ clients[c].config.muted = muted
        PROVE  RoutingOf(d)' = RoutingOf(d)
    <2>1. (d \in DOMAIN clients' /\ clients'[d].config.muted)
            = (d \in DOMAIN clients /\ clients[d].config.muted)
      BY <1>1, <1>2, <1>3
    <2>. QED
      BY <1>1, <1>3, <2>1, SameRouting
  <1>. QED
    BY <1>1, <1>2, <1>3 DEF Grouped

\* Names, connections and stream properties.
QuietSection ==
    \/ \E c \in ClientId : Unregister(c) \/ \E name \in Name : SetClientName(c, name)
    \/ \E gid \in GroupId, name \in Name : SetGroupName(gid, name)
    \/ \E stream \in StreamId, meta \in Meta : SetStreamMeta(stream, meta)

\* They and latencies leave every routing alone.
LEMMA QuietKeeps ==
    ASSUME StateInv, StateInv',
           QuietSection \/ \E c \in ClientId, latency \in Latency : SetClientLatency(c, latency)
    PROVE  /\ DOMAIN clients' = DOMAIN clients
           /\ \A d \in ClientId : /\ Grouped(d)' <=> Grouped(d)
                                  /\ Grouped(d) => RoutingOf(d)' = RoutingOf(d)
  <1>1. /\ DOMAIN clients' = DOMAIN clients
        /\ \A d \in DOMAIN clients : clients'[d].config.muted = clients[d].config.muted
    BY DEF QuietSection, SetClientLatency, SetClientName, Unregister, SetGroupName, SetStreamMeta,
           StateInv, StateTypeOK, Client, ClientConfig
  <1>2. /\ DOMAIN groups' = DOMAIN groups
        /\ \A g \in DOMAIN groups : /\ groups'[g].clients = groups[g].clients
                                   /\ groups'[g].stream_id = groups[g].stream_id
                                   /\ groups'[g].muted = groups[g].muted
    BY DEF QuietSection, SetClientLatency, SetClientName, Unregister, SetGroupName, SetStreamMeta,
           StateInv, StateTypeOK, Group
  <1>3. ASSUME NEW d \in ClientId, Grouped(d) PROVE RoutingOf(d)' = RoutingOf(d)
    <2>1. (d \in DOMAIN clients' /\ clients'[d].config.muted)
            = (d \in DOMAIN clients /\ clients[d].config.muted)
      BY <1>1
    <2>. QED
      BY <1>2, <1>3, <2>1, SameRouting
  <1>. QED
    BY <1>1, <1>2, <1>3 DEF Grouped

\* They leave what a client plays with alone.
LEMMA QuietSettings ==
    ASSUME StateInv, QuietSection
    PROVE  /\ DOMAIN clients' = DOMAIN clients
           /\ \A d \in DOMAIN clients : SettingsOf(d)' = SettingsOf(d)
  BY DEF QuietSection, SetClientName, Unregister, SetGroupName, SetStreamMeta,
         StateInv, StateTypeOK, Client, ClientConfig, SettingsOf

\* A group's stream and mute are heard by its members.
LEMMA GroupFieldKeeps ==
    ASSUME StateInv, StateInv', NEW gid \in GroupId,
           \/ \E stream \in StreamId \cup {NoStream} : SetGroupStream(gid, stream)
           \/ \E muted \in BOOLEAN : SetGroupMute(gid, muted)
    PROVE  /\ UNCHANGED clients /\ MembersOf(gid)' = MembersOf(gid)
           /\ \A d \in ClientId : Grouped(d)' <=> Grouped(d)
           /\ \A d \in ClientId \ MembersOf(gid) : Grouped(d) => RoutingOf(d)' = RoutingOf(d)
  <1>1. /\ DOMAIN groups' = DOMAIN groups
        /\ \A g \in DOMAIN groups : groups'[g].clients = groups[g].clients
    BY DEF SetGroupStream, SetGroupMute, StateInv, StateTypeOK, Group
  <1>0. \A g \in DOMAIN groups : g # gid => groups'[g] = groups[g]
    BY DEF SetGroupStream, SetGroupMute
  <1>2. UNCHANGED clients
    BY DEF SetGroupStream, SetGroupMute
  <1>3. ASSUME NEW d \in ClientId \ MembersOf(gid), Grouped(d) PROVE RoutingOf(d)' = RoutingOf(d)
    <2>1. (d \in DOMAIN clients' /\ clients'[d].config.muted)
            = (d \in DOMAIN clients /\ clients[d].config.muted)
      BY <1>2
    <2>2. \A g \in DOMAIN groups : d \in groups[g].clients => g # gid
      BY DEF MembersOf
    <2>. QED
      BY <1>0, <1>1, <1>3, <2>1, <2>2, SameRouting
  <1>4. MembersOf(gid)' = MembersOf(gid)
    BY <1>1 DEF MembersOf
  <1>5. ASSUME NEW d \in ClientId PROVE Grouped(d)' <=> Grouped(d)
    BY <1>1 DEF Grouped
  <1>. QED
    BY <1>2, <1>3, <1>4, <1>5

-----------------------------------------------------------------------------
(* Types are kept.                                                           *)

LEMMA RegisterTypes ==
    ASSUME Types, StateInv', NEW s \in Session, RegisterClient(s)
    PROVE  SessionTypes'
  <1>1. cid[s] \in ClientId
    BY DEF Types, CidOK, RegisterClient
  <1>2. StateTypeOK' /\ cid[s] \in DOMAIN clients' /\ Grouped(cid[s])'
    BY <1>1, RegisterKeeps DEF Types, StateInv, RegisterClient
  <1>3. RoutingOf(cid[s])' \in SessionRouting
    <2>1. (StateTypeOK => RoutingsTyped)'
      BY RoutingType, PTL
    <2>2. UNCHANGED cid
      BY DEF RegisterClient
    <2>. QED
      BY <1>1, <1>2, <2>1, <2>2 DEF RoutingsTyped
  <1>4. SettingsOf(cid[s])' \in ServerSettings
    <2>1. (StateTypeOK => SettingsTyped)'
      BY SettingsType, PTL
    <2>2. UNCHANGED cid
      BY DEF RegisterClient
    <2>. QED
      BY <1>1, <1>2, <2>1, <2>2 DEF SettingsTyped
  <1>. QED
    BY <1>1, <1>2, <1>3, <1>4 DEF Types, SessionTypes, RegisterClient, SameClient

LEMMA SessionStepTypes ==
    ASSUME Types, StateInv', NEW s \in Session, SessionStep(s)
    PROVE  SessionTypes' /\ SharedTypes'
  <1>. USE DEF JobOK
  <1>1. CASE Refuse(s) \/ FailHandshake(s) \/ LeaveLoop(s)
    BY <1>1, DropTypes DEF Refuse, FailHandshake, LeaveLoop, Types, SharedTypes, senderVars,
                           commandVars
  <1>2. ASSUME NEW c \in ClientId, Hello(s, c) PROVE SessionTypes' /\ SharedTypes'
    BY <1>2 DEF Hello, Types, SessionTypes, SharedTypes, commandVars, historyVars
  <1>3. CASE RegisterClient(s)
    BY <1>3, RegisterTypes DEF RegisterClient, Types, SharedTypes, senderVars, commandVars
  <1>4. CASE PublishRouting(s)
    BY <1>4 DEF PublishRouting, CidOK, Types, SessionTypes, SharedTypes, commandVars, historyVars
  <1>5. CASE StartLoop(s)
    BY <1>5 DEF StartLoop, Types, SessionTypes, SharedTypes, senderVars, commandVars, historyVars
  <1>6. CASE SeeRouting(s)
    BY <1>6 DEF SeeRouting, Announces, Types, SessionTypes, SharedTypes, senderVars, commandVars,
                historyVars
  <1>7. ASSUME NEW percent \in Percent, NEW muted \in BOOLEAN, ReadClientInfo(s, percent, muted)
        PROVE  SessionTypes' /\ SharedTypes'
    <2>1. [view[s] EXCEPT !.percent = percent, !.muted = muted] \in ServerSettings
      BY DEF Types, SessionTypes, ServerSettings
    <2>2. view' \in [Session -> ServerSettings]
      BY <1>7, <2>1 DEF ReadClientInfo, Types, SessionTypes
    <2>. QED
      BY <1>7, <2>2 DEF ReadClientInfo, SameClient, Types, SessionTypes, SharedTypes, senderVars,
                        commandVars
  <1>8. CASE ReceiveSettings(s)
    <2>1. /\ Head(settings[s]) \in ServerSettings /\ Tail(settings[s]) \in Seq(ServerSettings)
          /\ Len(Tail(settings[s])) <= SettingsCap
      <3>1. settings[s] \in Seq(ServerSettings) /\ settings[s] # <<>> /\ Len(settings[s]) <= SettingsCap
            /\ SettingsCap \in Nat
        BY <1>8, SessionAssumption DEF ReceiveSettings, Types, SessionTypes
      <3>. QED
        BY <3>1
    <2>. QED
      BY <1>8, <2>1 DEF ReceiveSettings, Types, SessionTypes, SharedTypes, senderVars, commandVars,
                        historyVars
  <1>9. CASE CleanUp(s)
    BY <1>9 DEF CleanUp, CloseSettings, CloseRouting, CloseState, Types, CidOK, SessionTypes,
                SharedTypes, senderVars, commandVars, historyVars
  <1>. QED
    BY <1>1, <1>2, <1>3, <1>4, <1>5, <1>6, <1>7, <1>8, <1>9 DEF SessionStep, Handshake

\* A command goes on with a routing update or is done.
LEMMA RouteType ==
    ASSUME NEW scope \in {"none", "client", "group", "all"},
           NEW id \in ClientId \cup GroupId \cup {None}, ThenRoute(scope, id),
           scope = "client" => id \in ClientId
    PROVE  job' \in Job /\ JobOK' /\ job'.scope = scope /\ job'.at \in {"idle", "routing"}
           /\ (scope = "none" => job' = Idle) /\ (scope # "none" => job'.id = id /\ job'.at = "routing")
  <1>1. Idle \in Job
    BY Defaults
  <1>. QED
    BY <1>1 DEF ThenRoute, Job, Idle, JobOK

LEMMA DispatchTypes ==
    ASSUME Types, StateInv', Dispatch
    PROVE  SessionTypes' /\ SharedTypes'
  <1>. USE DEF OthersUnchanged, sessionVars, senderVars, historyVars
  <1>1. SessionTypes' /\ UNCHANGED <<routing_senders, settings_senders>>
    BY DEF Dispatch, DispatchClientVolume, DispatchClientLatency, DispatchDeleteClient,
           DispatchQuietCommand, DispatchGroupStream, DispatchGroupMute, DispatchGroupClients,
           DispatchRemoveStream, Types, SessionTypes
  <1>2. issued' \in 0 .. MaxCommands
    <2>1. TakeCommand
      BY DEF Dispatch, DispatchClientVolume, DispatchClientLatency, DispatchDeleteClient,
             DispatchQuietCommand, DispatchGroupStream, DispatchGroupMute, DispatchGroupClients,
             DispatchRemoveStream
    <2>. QED
      BY <2>1, SessionAssumption DEF TakeCommand, Types, SharedTypes
  <1>3. job' \in Job /\ JobOK'
    <2>1. ASSUME NEW c \in ClientId, NEW percent \in Percent, NEW muted \in BOOLEAN,
                 DispatchClientVolume(c, percent, muted)
          PROVE  job' \in Job /\ JobOK'
      <3>. DEFINE update == [percent |-> percent, muted |-> muted, latency |-> GetOrCreate(c).latency]
      <3>1. GetOrCreate(c) \in ClientConfig
        BY ConfigType DEF Types, StateInv
      <3>2. update \in ServerSettings
        BY <3>1 DEF ServerSettings, ClientConfig
      <3>3. job' = [Idle EXCEPT !.at = "settings", !.scope = "client", !.id = c, !.update = update]
        BY <2>1 DEF DispatchClientVolume
      <3>. HIDE DEF update
      <3>. QED
        BY <3>2, <3>3 DEF Idle, Job, JobOK
    <2>2. ASSUME NEW c \in ClientId, NEW latency \in Latency, DispatchClientLatency(c, latency)
          PROVE  job' \in Job /\ JobOK'
      <3>1. CASE c \in DOMAIN clients
        <4>1. c \in DOMAIN clients'
          BY <2>2, <3>1 DEF DispatchClientLatency, SetClientLatency
        <4>2. SettingsOf(c)' \in ServerSettings
          <5>1. (StateTypeOK => SettingsTyped)'
            BY SettingsType, PTL
          <5>. QED
            BY <5>1, <4>1 DEF StateInv, SettingsTyped
        <4>3. job' = [Idle EXCEPT !.at = "settings", !.id = c, !.update = SettingsOf(c)']
          BY <2>2, <3>1 DEF DispatchClientLatency
        <4>. QED
          BY <4>2, <4>3 DEF Idle, Job, JobOK
      <3>2. CASE c \notin DOMAIN clients
        BY <2>2, <3>2 DEF DispatchClientLatency, Types, SharedTypes, JobOK
      <3>. QED
        BY <3>1, <3>2
    <2>3. CASE DispatchQuietCommand
      BY <2>3 DEF DispatchQuietCommand, Types, SharedTypes, JobOK
    <2>4. ASSUME \/ \E gid \in GroupId : ThenRoute("group", gid)
                 \/ ThenRoute("all", None)
          PROVE  job' \in Job /\ JobOK'
      BY <2>4, RouteType
    <2>. QED
      BY <2>1, <2>2, <2>3, <2>4 DEF Dispatch, DispatchDeleteClient, DispatchGroupStream,
         DispatchGroupMute, DispatchGroupClients, DispatchRemoveStream
  <1>4. routing_senders' \in [ClientId -> Session \cup {None}] /\ settings_senders' \in [ClientId -> Session \cup {None}]
    BY <1>1 DEF Types, SharedTypes
  <1>. QED
    BY <1>1, <1>2, <1>3, <1>4 DEF SharedTypes

LEMMA FinishTypes ==
    ASSUME Types, StateInv', FinishCommand
    PROVE  SessionTypes' /\ SharedTypes'
  <1>. USE DEF sessionVars, senderVars, historyVars
  <1>0. /\ job \in Job /\ job.scope \in {"none", "client", "group", "all"}
        /\ job.id \in ClientId \cup GroupId \cup {None} /\ JobOK
    BY DEF Types, SharedTypes, Job
  <1>1. CASE LookUpSettings
    <2>1. job' \in Job /\ JobOK'
      <3>1. CASE settings_senders[job.id] = None
        BY <1>0, <1>1, <3>1, RouteType DEF LookUpSettings, JobOK
      <3>2. CASE settings_senders[job.id] # None
        <4>1. job.id \in ClientId /\ settings_senders[job.id] \in Session
          BY <1>0, <1>1, <3>2 DEF LookUpSettings, Types, SharedTypes, JobOK
        <4>. QED
          BY <1>0, <1>1, <3>2, <4>1 DEF LookUpSettings, Job, JobOK
      <3>. QED
        BY <3>1, <3>2
    <2>. QED
      BY <1>1, <2>1 DEF LookUpSettings, Types, SessionTypes, SharedTypes
  <1>2. CASE SendSettings
    <2>1. job' \in Job /\ JobOK'
      BY <1>0, <1>2, RouteType DEF SendSettings, JobOK
    <2>2. /\ settings' \in [Session -> Seq(ServerSettings)]
          /\ \A s \in Session : Len(settings'[s]) <= SettingsCap
          /\ crossed' \subseteq Session
      <3>1. CASE UNCHANGED <<settings, crossed>>
        BY <3>1 DEF Types, SessionTypes
      <3>2. ASSUME Receiving(job.to), HasRoom(job.to), job.to \in Session,
                   settings' = [settings EXCEPT ![job.to] = Append(@, job.update)],
                   crossed' \in {crossed \ {job.to}, crossed \cup {job.to}}
            PROVE  /\ settings' \in [Session -> Seq(ServerSettings)]
                   /\ \A s \in Session : Len(settings'[s]) <= SettingsCap
                   /\ crossed' \subseteq Session
        <4>1. /\ settings[job.to] \in Seq(ServerSettings) /\ job.update \in ServerSettings
              /\ Len(settings[job.to]) < SettingsCap
          BY <3>2, <1>0 DEF HasRoom, Types, SessionTypes, Job
        <4>2. /\ Append(settings[job.to], job.update) \in Seq(ServerSettings)
              /\ Len(Append(settings[job.to], job.update)) <= SettingsCap
          BY <4>1, SessionAssumption
        <4>. QED
          BY <3>2, <4>2 DEF Types, SessionTypes
      <3>3. job.to \in Session
        BY <1>0, <1>2 DEF JobOK, SendSettings
      <3>. QED
        BY <1>2, <3>1, <3>2, <3>3 DEF SendSettings
    <2>. QED
      BY <1>2, <2>1, <2>2 DEF SendSettings, Types, SessionTypes, SharedTypes
  <1>3. CASE PushRouting
    <2>1. watch' \in [Session -> [value: SessionRouting, unseen: BOOLEAN]]
      <3>1. \A c \in ClientId : Grouped(c) => RoutingOf(c) \in SessionRouting
        BY RoutingType DEF Types, StateInv, RoutingsTyped
      <3>. DEFINE reached == {s \in Session : /\ cid[s] \in {c \in Targets : Grouped(c)}
                                             /\ Listening(s) /\ routing_senders[cid[s]] = s}
      <3>2. /\ watch' = [s \in Session |-> IF s \in reached
                                           THEN [value |-> RoutingOf(cid[s]), unseen |-> TRUE]
                                           ELSE watch[s]]
            /\ \A s \in reached : Listening(s) /\ Grouped(cid[s])
        BY <1>3 DEF PushRouting
      <3>. HIDE DEF reached
      <3>3. \A s \in reached : cid[s] \in ClientId
        BY <3>2 DEF Types, CidOK, Listening, reached
      <3>4. \A s \in reached : RoutingOf(cid[s]) \in SessionRouting
        BY <3>1, <3>2, <3>3 DEF reached
      <3>. QED
        BY <3>2, <3>4 DEF Types, SessionTypes
    <2>2. job' \in Job /\ JobOK'
      BY <1>3, Defaults DEF PushRouting, JobOK, Idle
    <2>. QED
      BY <1>3, <2>1, <2>2 DEF PushRouting, Types, SessionTypes, SharedTypes
  <1>. QED
    BY <1>1, <1>2, <1>3 DEF FinishCommand

LEMMA TypesInit == Init => Types
  <1>. SUFFICES ASSUME Init PROVE Types
    OBVIOUS
  <1>1. StateInv /\ CidOK
    BY StateInvInit, CidInit DEF Init
  <1>2. <<>> \in Seq(ServerSettings) /\ Len(<<>>) <= SettingsCap
    BY SessionAssumption
  <1>3. SessionTypes
    <2>1. [value |-> NoRouting, unseen |-> FALSE] \in [value: SessionRouting, unseen: BOOLEAN]
      BY Defaults
    <2>2. /\ routing \in [Session -> SessionRouting]
          /\ view \in [Session -> ServerSettings]
          /\ wire \in [Session -> [codec: StreamId \cup {NoStream},
                                   by: {"nobody", "handshake", "loop"}]]
      BY Defaults DEF Init
    <2>3. watch \in [Session -> [value: SessionRouting, unseen: BOOLEAN]]
      BY <2>1 DEF Init
    <2>4. /\ settings \in [Session -> Seq(ServerSettings)]
          /\ \A s \in Session : Len(settings[s]) <= SettingsCap
      BY <1>2 DEF Init
    <2>. QED
      BY <2>2, <2>3, <2>4 DEF SessionTypes, Init
  <1>4. SharedTypes
    BY Defaults, SessionAssumption DEF Init, SharedTypes, JobOK, Idle
  <1>. QED
    BY <1>1, <1>3, <1>4 DEF Types

LEMMA TypesNext == Types /\ [Next]_vars => Types'
  <1>. SUFFICES ASSUME Types, [Next]_vars PROVE Types'
    OBVIOUS
  <1>1. StateInv' /\ CidOK'
    BY StepImplements, StateInvNext, CidNext DEF Types
  <1>2. SessionTypes' /\ SharedTypes'
    <2>1. CASE \E s \in Session : SessionStep(s)
      BY <1>1, <2>1, SessionStepTypes
    <2>2. CASE Dispatch
      BY <1>1, <2>2, DispatchTypes
    <2>3. CASE FinishCommand
      BY <1>1, <2>3, FinishTypes
    <2>4. CASE UNCHANGED vars
      BY <2>4 DEF vars, sessionVars, senderVars, commandVars, historyVars, Types, SessionTypes,
                  SharedTypes, JobOK
    <2>. QED
      BY <2>1, <2>2, <2>3, <2>4 DEF Next
  <1>. QED
    BY <1>1, <1>2 DEF Types

LEMMA TypesAlways == Spec => []Types
  BY TypesInit, TypesNext, PTL DEF Spec

\* Sessions, channels and the command in flight keep their types for any number of them: no
\* settings channel holds more than it has room for, and no session past its Hello is
\* without a client id.
THEOREM SessionTypeCorrect == Spec => []TypeOK
  <1>1. Types => TypeOK
    BY DEF Types, StateInv, CidOK, SessionTypes, SharedTypes, Job, TypeOK
  <1>. QED
    BY <1>1, TypesAlways, PTL

-----------------------------------------------------------------------------
(* What a session's loop has adopted and announced.                          *)

\* A loop with nothing left to see has adopted the newest value; the header it wrote
\* last is that of the stream it plays, unless that one has none.
LoopOK(s) ==
    /\ pc[s] = "loop" /\ ~ watch[s].unseen => routing[s] = watch[s].value
    /\ wire[s].by = "loop" =>
          /\ pc[s] = "loop"
          /\ routing[s].stream_id \in StreamId => wire[s].codec = routing[s].stream_id

LoopInv == \A s \in Session : LoopOK(s)

LEMMA LoopInit == Init => LoopInv
  BY DEF Init, LoopInv, LoopOK, NothingSent

LEMMA SessionStepLoop ==
    ASSUME Types, LoopInv, NEW s \in Session, SessionStep(s), NEW t \in Session
    PROVE  LoopOK(t)'
  <1>. USE DEF LoopInv, LoopOK
  <1>0. pc \in [Session -> Steps] /\ SessionTypes
    BY DEF Types, CidOK
  <1>1. CASE Refuse(s) \/ FailHandshake(s) \/ LeaveLoop(s)
    <2>1. Drop(s) /\ \E step \in Steps : Goto(s, step) /\ step # "loop"
      BY <1>1 DEF Refuse, FailHandshake, LeaveLoop, End, Steps
    <2>2. CASE t = s
      BY <1>0, <2>1, <2>2 DEF Drop, Goto, NothingSent, SessionTypes
    <2>3. CASE t # s
      BY <1>0, <2>1, <2>3 DEF Drop, Goto, SessionTypes
    <2>. QED
      BY <2>2, <2>3
  <1>2. CASE \E c \in ClientId : Hello(s, c)
    BY <1>0, <1>2 DEF Hello, Goto, SessionTypes
  <1>3. CASE RegisterClient(s)
    BY <1>0, <1>3 DEF RegisterClient, Goto, SessionTypes
  <1>4. CASE PublishRouting(s)
    BY <1>0, <1>4 DEF PublishRouting, Goto, SessionTypes
  <1>5. CASE StartLoop(s)
    BY <1>0, <1>5 DEF StartLoop, Goto, SessionTypes
  <1>6. CASE SeeRouting(s)
    BY <1>0, <1>6 DEF SeeRouting, Announces, SessionTypes
  <1>7. CASE \E percent \in Percent, muted \in BOOLEAN : ReadClientInfo(s, percent, muted)
    BY <1>7 DEF ReadClientInfo
  <1>8. CASE ReceiveSettings(s)
    BY <1>8 DEF ReceiveSettings
  <1>9. CASE CleanUp(s)
    BY <1>0, <1>9 DEF CleanUp, CloseSettings, CloseRouting, CloseState, End, Goto
  <1>. QED
    BY <1>1, <1>2, <1>3, <1>4, <1>5, <1>6, <1>7, <1>8, <1>9 DEF SessionStep, Handshake

LEMMA LoopNext == Types /\ LoopInv /\ [Next]_vars => LoopInv'
  <1>. SUFFICES ASSUME Types, LoopInv, [Next]_vars, NEW t \in Session PROVE LoopOK(t)'
    BY DEF LoopInv
  <1>1. CASE \E s \in Session : SessionStep(s)
    BY <1>1, SessionStepLoop
  <1>2. CASE Dispatch \/ LookUpSettings \/ SendSettings \/ UNCHANGED vars
    <2>1. UNCHANGED <<pc, routing, watch, wire>>
      BY <1>2 DEF Dispatch, DispatchClientVolume, DispatchClientLatency, DispatchDeleteClient,
             DispatchQuietCommand, DispatchGroupStream, DispatchGroupMute,
             DispatchGroupClients, DispatchRemoveStream, OthersUnchanged, LookUpSettings,
             SendSettings, sessionVars, vars
    <2>. QED
      BY <2>1 DEF LoopInv, LoopOK
  <1>3. CASE PushRouting
    <2>1. watch'[t] = watch[t] \/ watch'[t].unseen
      BY <1>3 DEF PushRouting
    <2>. QED
      BY <1>3, <2>1 DEF PushRouting, LoopInv, LoopOK
  <1>. QED
    BY <1>1, <1>2, <1>3 DEF Next, FinishCommand

\* From the first switch its loop announces on, a session writes chunks only of the stream
\* whose header it wrote last, however routings, mutes and removals follow each other.
THEOREM AudioMatchesCodec == Spec => []SwitchedAudioMatchesCodec
  <1>1. LoopInv => SwitchedAudioMatchesCodec
    BY DEF LoopInv, LoopOK, SwitchedAudioMatchesCodec, SendsChunk
  <1>. QED
    BY <1>1, LoopInit, LoopNext, TypesAlways, PTL DEF Spec

-----------------------------------------------------------------------------
(* The newest routing of a session.                                          *)

\* Between its snapshot and its insert a session holds its client's routing, and from then
\* on the value of its watch channel is it, as long as the channel is the registered one:
\* but for the sessions a change went past, and for the clients a push is still due to.
RoutingOK(s, c) ==
    cid[s] = c /\ Grouped(c) /\ s \notin missed /\ c \notin Targets =>
       /\ pc[s] = "publish" => routing[s] = RoutingOf(c)
       /\ Listening(s) /\ routing_senders[c] = s => watch[s].value = RoutingOf(c)

RoutingInv == \A s \in Session, c \in ClientId : RoutingOK(s, c)

LEMMA RoutingInit == Init => RoutingInv
  BY DEF Init, RoutingInv, RoutingOK, Listening

LEMMA StateSame ==
    ASSUME UNCHANGED stateVars
    PROVE  /\ \A gid : MembersOf(gid)' = MembersOf(gid)
           /\ \A c \in ClientId : (Grouped(c)' <=> Grouped(c)) /\ RoutingOf(c)' = RoutingOf(c)
           /\ DOMAIN clients' = DOMAIN clients
           /\ \A c \in DOMAIN clients : SettingsOf(c)' = SettingsOf(c)
  BY DEF stateVars, MembersOf, Grouped, RoutingOf, StreamFor, MutedFor, GroupOf, SettingsOf

LEMMA TargetsKept ==
    ASSUME UNCHANGED job, \A gid : MembersOf(gid) \subseteq MembersOf(gid)'
    PROVE  Targets \subseteq Targets'
  <1>1. CASE job.scope = "client"
    BY <1>1 DEF Targets
  <1>2. CASE job.scope = "group"
    BY <1>2 DEF Targets
  <1>3. CASE job.scope = "all"
    BY <1>3 DEF Targets
  <1>4. CASE job.scope \notin {"client", "group", "all"}
    BY <1>4 DEF Targets
  <1>. QED
    BY <1>1, <1>2, <1>3, <1>4

\* A step that leaves a session's snapshot and channel, and its client's routing, alone.
LEMMA RoutingKept ==
    ASSUME RoutingInv, NEW t \in Session, NEW c \in ClientId,
           cid'[t] = cid[t],
           pc'[t] = "publish" => pc[t] = "publish" /\ routing'[t] = routing[t],
           Listening(t)' /\ routing_senders'[c] = t =>
              Listening(t) /\ routing_senders[c] = t /\ watch'[t].value = watch[t].value,
           t \in missed => t \in missed', Targets \subseteq Targets',
           Grouped(c)' => Grouped(c) /\ RoutingOf(c)' = RoutingOf(c)
    PROVE  RoutingOK(t, c)'
  BY DEF RoutingInv, RoutingOK

\* Steps of a session that leave the state alone.
LEMMA LocalStepRouting ==
    ASSUME Types, RoutingInv, NEW s \in Session, NEW t \in Session, NEW c \in ClientId,
           UNCHANGED stateVars,
           \/ Refuse(s) \/ FailHandshake(s) \/ LeaveLoop(s)
           \/ \E d \in ClientId : Hello(s, d)
           \/ PublishRouting(s)
           \/ StartLoop(s) \/ SeeRouting(s) \/ ReceiveSettings(s)
           \/ CloseSettings(s) \/ CloseRouting(s)
    PROVE  RoutingOK(t, c)'
  <1>0. /\ pc \in [Session -> Steps] /\ cid \in [Session -> ClientId \cup {None}]
        /\ SessionTypes /\ routing_senders \in [ClientId -> Session \cup {None}]
        /\ \A u \in Session : cid[u] = None => pc[u] \in {"new", "gone"}
    BY DEF Types, CidOK, SharedTypes
  <1>1. Grouped(c)' => Grouped(c) /\ RoutingOf(c)' = RoutingOf(c)
    BY StateSame
  <1>2. UNCHANGED job => Targets \subseteq Targets'
    BY StateSame, TargetsKept
  <1>3. CASE Refuse(s) \/ FailHandshake(s) \/ LeaveLoop(s)
    <2>1. /\ Drop(s) /\ UNCHANGED <<senderVars, job>>
          /\ \E step \in {"gone", "close_settings"} : Goto(s, step)
          /\ \A u \in Session \ {s} : cid'[u] = cid[u]
      BY <1>0, <1>3 DEF Refuse, FailHandshake, LeaveLoop, End, commandVars
    <2>2. CASE t = s
      BY <1>0, <2>1, <2>2 DEF Goto, Listening, RoutingOK
    <2>3. CASE t # s
      <3>1. /\ pc'[t] = pc[t] /\ routing'[t] = routing[t] /\ watch'[t] = watch[t]
            /\ t \in missed => t \in missed'
        BY <1>0, <2>1, <2>3 DEF Goto, Drop, SessionTypes
      <3>. QED
        BY <1>1, <1>2, <2>1, <2>3, <3>1, RoutingKept DEF Listening, senderVars
    <2>. QED
      BY <2>2, <2>3
  <1>4. CASE \E d \in ClientId : Hello(s, d)
    <2>1. CASE t = s
      BY <1>0, <1>4, <2>1 DEF Hello, Goto, Listening, RoutingOK
    <2>2. CASE t # s
      <3>1. /\ pc'[t] = pc[t] /\ cid'[t] = cid[t]
            /\ UNCHANGED <<routing, watch, missed, routing_senders, job>>
        BY <1>0, <1>4, <2>2 DEF Hello, Goto, commandVars, historyVars
      <3>. QED
        BY <1>1, <1>2, <3>1, RoutingKept DEF Listening
    <2>. QED
      BY <2>1, <2>2
  <1>5. CASE PublishRouting(s)
    <2>0. UNCHANGED <<cid, routing, missed, job>>
      BY <1>5 DEF PublishRouting, commandVars, historyVars
    <2>1. CASE t = s
      <3>1. pc[t] = "publish" /\ pc'[t] = "greet" /\ watch'[t].value = routing[t]
        BY <1>0, <1>5, <2>1 DEF PublishRouting, Goto, SessionTypes
      <3>. QED
        BY <1>1, <1>2, <2>0, <3>1 DEF RoutingInv, RoutingOK
    <2>2. CASE t # s
      <3>1. /\ pc'[t] = pc[t] /\ watch'[t] = watch[t]
            /\ routing_senders'[c] = t => routing_senders[c] = t
        BY <1>0, <1>5, <2>2 DEF PublishRouting, Goto, SessionTypes
      <3>. QED
        BY <1>1, <1>2, <2>0, <3>1, RoutingKept DEF Listening
    <2>. QED
      BY <2>1, <2>2
  <1>6. CASE StartLoop(s) \/ SeeRouting(s) \/ ReceiveSettings(s) \/ CloseSettings(s) \/ CloseRouting(s)
    <2>1. UNCHANGED <<cid, missed, job>>
      BY <1>6 DEF StartLoop, SeeRouting, ReceiveSettings, CloseSettings, CloseRouting,
                  commandVars, historyVars
    <2>2. /\ pc'[t] = "publish" => pc[t] = "publish" /\ routing'[t] = routing[t]
          /\ Listening(t)' => Listening(t) /\ watch'[t].value = watch[t].value
      <3>1. CASE StartLoop(s)
        BY <1>0, <3>1 DEF StartLoop, Goto, Listening, SessionTypes
      <3>4. CASE SeeRouting(s)
        <4>1. watch[t].value = watch'[t].value
          BY <1>0, <3>4 DEF SeeRouting, SessionTypes
        <4>2. UNCHANGED pc /\ (pc[t] = "publish" => t # s)
          BY <3>4 DEF SeeRouting
        <4>3. pc[t] = "publish" => routing'[t] = routing[t]
          BY <1>0, <3>4, <4>2 DEF SeeRouting, SessionTypes
        <4>. QED
          BY <4>1, <4>2, <4>3 DEF Listening
      <3>2. CASE ReceiveSettings(s)
        BY <3>2 DEF ReceiveSettings, Listening
      <3>3. CASE CloseSettings(s) \/ CloseRouting(s)
        BY <1>0, <3>3 DEF CloseSettings, CloseRouting, Goto, Listening
      <3>. QED
        BY <1>6, <3>1, <3>2, <3>3, <3>4
    <2>3. routing_senders'[c] = t => routing_senders[c] = t
      <3>1. t # None
        BY SessionAssumption
      <3>2. CASE CloseRouting(s)
        BY <1>0, <3>1, <3>2 DEF CloseRouting
      <3>3. CASE ~ CloseRouting(s)
        BY <1>6, <3>3 DEF StartLoop, SeeRouting, ReceiveSettings, CloseSettings, senderVars
      <3>. QED
        BY <3>2, <3>3
    <2>. QED
      BY <1>1, <1>2, <2>1, <2>2, <2>3, RoutingKept
  <1>. QED
    BY <1>3, <1>4, <1>5, <1>6

\* The three blocks of a session under the state lock.
LEMMA SectionRouting ==
    ASSUME Types, StateInv', RoutingInv, NEW s \in Session, NEW t \in Session, NEW c \in ClientId,
           \/ RegisterClient(s)
           \/ \E percent \in Percent, muted \in BOOLEAN : ReadClientInfo(s, percent, muted)
           \/ CloseState(s)
    PROVE  RoutingOK(t, c)'
  <1>0. /\ pc \in [Session -> Steps] /\ cid \in [Session -> ClientId \cup {None}]
        /\ StateInv /\ SessionTypes
        /\ \A u \in Session : cid[u] = None => pc[u] \in {"new", "gone"}
    BY DEF Types, CidOK
  <1>1. CASE RegisterClient(s)
    <2>1. cid[s] \in ClientId /\ Register(cid[s]) /\ UNCHANGED <<cid, job>>
      BY <1>0, <1>1 DEF RegisterClient, commandVars
    <2>2. /\ Grouped(c) => RoutingOf(c)' = RoutingOf(c)
          /\ Grouped(c)' => Grouped(c) \/ c = cid[s]
          /\ \A gid : MembersOf(gid) \subseteq MembersOf(gid)'
      BY <1>0, <2>1, RegisterKeeps
    <2>3. Targets \subseteq Targets'
      BY <2>1, <2>2, TargetsKept
    <2>4. CASE t = s
      <3>1. CASE cid[t] # c
        BY <2>1, <3>1 DEF RoutingOK
      <3>2. CASE cid[t] = c
        BY <1>0, <1>1, <2>4, <3>2 DEF RegisterClient, Goto, Listening, RoutingOK, SessionTypes
      <3>. QED
        BY <3>1, <3>2
    <2>5. CASE t # s
      <3>1. /\ pc'[t] = pc[t] /\ routing'[t] = routing[t] /\ UNCHANGED <<watch, routing_senders>>
            /\ t \in missed => t \in missed'
        BY <1>0, <1>1, <2>5 DEF RegisterClient, Goto, senderVars, SessionTypes
      <3>2. CASE cid[t] = c /\ ~ Grouped(c) /\ Grouped(c)' /\ Receiving(t)
        <4>1. c = cid[s] /\ t \in SameClient(s) \ {s}
          BY <2>2, <2>5, <3>2 DEF SameClient
        <4>2. t \in missed'
          BY <1>1, <3>2, <4>1 DEF RegisterClient
        <4>. QED
          BY <4>2 DEF RoutingOK
      <3>3. CASE cid[t] # c \/ ~ Grouped(c)' \/ ~ Receiving(t)
        BY <2>1, <3>1, <3>3 DEF RoutingOK, Listening, Receiving
      <3>4. CASE Grouped(c)
        BY <2>1, <2>2, <2>3, <3>1, <3>4, RoutingKept DEF Listening
      <3>. QED
        BY <3>2, <3>3, <3>4
    <2>. QED
      BY <2>4, <2>5
  <1>2. ASSUME NEW percent \in Percent, NEW muted \in BOOLEAN, ReadClientInfo(s, percent, muted)
        PROVE  RoutingOK(t, c)'
    <2>1. /\ cid[s] \in ClientId /\ ChangeVolume(cid[s], percent, muted)
          /\ UNCHANGED <<pc, cid, routing, watch, routing_senders, job>>
          /\ t \in missed => t \in missed'
      BY <1>0, <1>2 DEF ReadClientInfo, senderVars, commandVars
    <2>2. /\ UNCHANGED groups
          /\ Grouped(c)' <=> Grouped(c)
          /\ Grouped(c) /\ (c = cid[s] => c \notin DOMAIN clients \/ clients[c].config.muted = muted)
               => RoutingOf(c)' = RoutingOf(c)
      BY <1>0, <2>1, VolumeKeeps
    <2>3. Targets \subseteq Targets'
      BY <2>1, <2>2, TargetsKept DEF MembersOf
    <2>4. CASE cid[t] = c /\ c = cid[s] /\ c \in DOMAIN clients /\ clients[c].config.muted # muted
               /\ Receiving(t)
      <3>1. t \in missed'
        BY <1>2, <2>4 DEF ReadClientInfo, SameClient
      <3>. QED
        BY <3>1 DEF RoutingOK
    <2>5. CASE cid[t] # c \/ ~ Receiving(t)
      BY <2>1, <2>5 DEF RoutingOK, Listening, Receiving
    <2>6. CASE c = cid[s] => c \notin DOMAIN clients \/ clients[c].config.muted = muted
      BY <2>1, <2>2, <2>3, <2>6, RoutingKept DEF Listening
    <2>. QED
      BY <2>4, <2>5, <2>6
  <1>3. CASE CloseState(s)
    <2>1. /\ cid[s] \in ClientId /\ Unregister(cid[s])
          /\ UNCHANGED <<routing, watch, routing_senders, job, missed>>
      BY <1>0, <1>3 DEF CloseState, senderVars, commandVars, historyVars
    <2>2. UNCHANGED groups /\ (Grouped(c)' <=> Grouped(c)) /\ (Grouped(c) => RoutingOf(c)' = RoutingOf(c))
      <3>1. UNCHANGED groups
        BY <2>1 DEF Unregister
      <3>2. \A d \in ClientId : (Grouped(d)' <=> Grouped(d)) /\ (Grouped(d) => RoutingOf(d)' = RoutingOf(d))
        BY <1>0, <2>1, QuietKeeps DEF QuietSection
      <3>. QED
        BY <3>1, <3>2
    <2>3. Targets \subseteq Targets'
      BY <2>1, <2>2, TargetsKept DEF MembersOf
    <2>4. CASE t = s
      BY <1>0, <1>3, <2>4 DEF CloseState, End, Goto, Listening, RoutingOK
    <2>5. CASE t # s
      <3>1. pc'[t] = pc[t] /\ cid'[t] = cid[t]
        BY <1>0, <1>3, <2>5 DEF CloseState, End, Goto
      <3>. QED
        BY <2>1, <2>2, <2>3, <3>1, RoutingKept DEF Listening
    <2>. QED
      BY <2>4, <2>5
  <1>. QED
    BY <1>1, <1>2, <1>3

\* What a command does to the state, and which routings it still has to push.
LEMMA DispatchRouting ==
    ASSUME Types, StateInv', RoutingInv, Dispatch, NEW t \in Session, NEW c \in ClientId
    PROVE  RoutingOK(t, c)'
  <1>0. StateInv /\ StateInv' /\ (job = Idle => job.scope = "none")
    BY DEF Types, Idle
  <1>1. /\ job = Idle /\ UNCHANGED <<sessionVars, senderVars, historyVars>>
    BY DEF Dispatch, DispatchClientVolume, DispatchClientLatency, DispatchDeleteClient,
           DispatchQuietCommand, DispatchGroupStream, DispatchGroupMute,
           DispatchGroupClients, DispatchRemoveStream, TakeCommand, OthersUnchanged
  <1>2. ASSUME c \notin Targets', Grouped(c)' => Grouped(c) /\ RoutingOf(c)' = RoutingOf(c)
        PROVE  RoutingOK(t, c)'
    <2>1. c \notin Targets
      BY <1>0, <1>1 DEF Targets
    <2>. QED
      BY <1>1, <1>2, <2>1 DEF RoutingInv, RoutingOK, Listening, sessionVars, senderVars, historyVars
  <1>3. ASSUME NEW d \in ClientId, NEW percent \in Percent, NEW muted \in BOOLEAN,
               DispatchClientVolume(d, percent, muted)
        PROVE  RoutingOK(t, c)'
    <2>1. Targets' = {d}
      BY <1>3 DEF DispatchClientVolume, Targets, Idle
    <2>2. ChangeVolume(d, percent, muted)
      BY <1>3 DEF DispatchClientVolume, SetClientVolume
    <2>3. c # d => (Grouped(c)' => Grouped(c) /\ RoutingOf(c)' = RoutingOf(c))
      BY <1>0, <2>2, VolumeKeeps
    <2>. QED
      BY <1>2, <2>1, <2>3 DEF RoutingOK
  <1>4. ASSUME QuietSection \/ \E d \in ClientId, latency \in Latency : SetClientLatency(d, latency)
        PROVE  RoutingOK(t, c)'
    <2>1. Grouped(c)' => Grouped(c) /\ RoutingOf(c)' = RoutingOf(c)
      BY <1>0, <1>4, QuietKeeps
    <2>. QED
      BY <1>2, <2>1 DEF RoutingOK
  <1>5. ASSUME NEW gid \in GroupId, ThenRoute("group", gid),
               \/ \E stream \in StreamId \cup {NoStream} : SetGroupStream(gid, stream)
               \/ \E muted \in BOOLEAN : SetGroupMute(gid, muted)
        PROVE  RoutingOK(t, c)'
    <2>1. Targets' = MembersOf(gid)'
      <3>1. job'.scope = "group" /\ job'.id = gid
        BY <1>5 DEF ThenRoute, Idle
      <3>. QED
        BY <3>1 DEF Targets
    <2>2. c \notin MembersOf(gid)' => (Grouped(c)' => Grouped(c) /\ RoutingOf(c)' = RoutingOf(c))
      BY <1>0, <1>5, GroupFieldKeeps
    <2>. QED
      BY <1>2, <2>1, <2>2 DEF RoutingOK
  <1>6. ASSUME ThenRoute("all", None)
        PROVE  RoutingOK(t, c)'
    <2>1. Targets' = ClientId
      BY <1>6 DEF ThenRoute, Targets, Idle
    <2>. QED
      BY <2>1 DEF RoutingOK
  <1>. QED
    <2>1. CASE DispatchQuietCommand
      <3>1. QuietSection
        BY <2>1 DEF DispatchQuietCommand, QuietSection
      <3>. QED
        BY <1>4, <3>1
    <2>2. ASSUME NEW d \in ClientId, NEW latency \in Latency, DispatchClientLatency(d, latency)
          PROVE  RoutingOK(t, c)'
      BY <1>4, <2>2 DEF DispatchClientLatency
    <2>3. ASSUME NEW gid \in GroupId,
                 \/ \E stream \in StreamId \cup {NoStream} : DispatchGroupStream(gid, stream)
                 \/ \E muted \in BOOLEAN : DispatchGroupMute(gid, muted)
          PROVE  RoutingOK(t, c)'
      BY <1>5, <2>3 DEF DispatchGroupStream, DispatchGroupMute
    <2>4. CASE ThenRoute("all", None)
      BY <1>6, <2>4
    <2>. QED
      BY <1>3, <2>1, <2>2, <2>3, <2>4
      DEF Dispatch, DispatchDeleteClient, DispatchGroupClients, DispatchRemoveStream

\* A command that goes on keeps the clients it still has to reach.
LEMMA RouteTargets ==
    ASSUME Types, ThenRoute(job.scope, job.id), UNCHANGED stateVars
    PROVE  Targets' = Targets
  <1>1. /\ job'.scope = job.scope
        /\ job.scope # "none" => job'.id = job.id
    BY DEF ThenRoute, Idle
  <1>2. \A gid : MembersOf(gid)' = MembersOf(gid)
    BY StateSame
  <1>. QED
    BY <1>1, <1>2 DEF Targets

LEMMA FinishRouting ==
    ASSUME Types, RoutingInv, FinishCommand, NEW t \in Session, NEW c \in ClientId
    PROVE  RoutingOK(t, c)'
  <1>1. UNCHANGED stateVars
    BY DEF FinishCommand, LookUpSettings, SendSettings, PushRouting
  <1>2. Grouped(c)' => Grouped(c) /\ RoutingOf(c)' = RoutingOf(c)
    BY <1>1, StateSame
  <1>3. CASE LookUpSettings \/ SendSettings
    <2>1. Targets' = Targets
      <3>1. CASE ThenRoute(job.scope, job.id)
        BY <1>1, <3>1, RouteTargets
      <3>2. CASE job' = [job EXCEPT !.at = "send", !.to = settings_senders[job.id]]
        <4>1. job'.scope = job.scope /\ job'.id = job.id
          BY <3>2 DEF Types, SharedTypes, Job
        <4>2. \A gid : MembersOf(gid)' = MembersOf(gid)
          BY <1>1, StateSame
        <4>. QED
          BY <4>1, <4>2 DEF Targets
      <3>. QED
        BY <1>3, <3>1, <3>2 DEF LookUpSettings, SendSettings
    <2>. QED
      BY <1>2, <1>3, <2>1, RoutingKept DEF LookUpSettings, SendSettings, Listening, sessionVars,
                                           senderVars, historyVars
  <1>4. CASE PushRouting
    <2>1. UNCHANGED <<pc, cid, routing, routing_senders>>
      BY <1>4 DEF PushRouting, senderVars
    <2>. SUFFICES ASSUME cid[t] = c, Grouped(c), t \notin missed'
                  PROVE  /\ pc[t] = "publish" => routing[t] = RoutingOf(c)
                         /\ Listening(t) /\ routing_senders[c] = t => watch'[t].value = RoutingOf(c)
      BY <1>2, <2>1 DEF RoutingOK, Listening
    <2>2. CASE c \in Targets
      <3>1. pc[t] # "publish"
        BY <1>4, <2>2 DEF PushRouting
      <3>2. ASSUME Listening(t), routing_senders[c] = t
            PROVE  watch'[t] = [value |-> RoutingOf(cid[t]), unseen |-> TRUE]
        BY <1>4, <2>2, <3>2 DEF PushRouting
      <3>. QED
        BY <3>1, <3>2
    <2>3. CASE c \notin Targets
      <3>1. watch'[t] = watch[t] /\ t \notin missed
        BY <1>4, <2>3 DEF PushRouting
      <3>. QED
        BY <2>3, <3>1 DEF RoutingInv, RoutingOK
    <2>. QED
      BY <2>2, <2>3
  <1>. QED
    BY <1>3, <1>4 DEF FinishCommand

LEMMA RoutingNext == Types /\ RoutingInv /\ [Next]_vars => RoutingInv'
  <1>. SUFFICES ASSUME Types, RoutingInv, [Next]_vars, NEW t \in Session, NEW c \in ClientId
                PROVE  RoutingOK(t, c)'
    BY DEF RoutingInv
  <1>0. StateInv'
    BY StepImplements, StateInvNext DEF Types
  <1>1. ASSUME NEW s \in Session, SessionStep(s) PROVE RoutingOK(t, c)'
    <2>1. CASE \/ RegisterClient(s)
               \/ \E percent \in Percent, muted \in BOOLEAN : ReadClientInfo(s, percent, muted)
               \/ CloseState(s)
      BY <1>0, <2>1, SectionRouting
    <2>2. CASE \/ Refuse(s) \/ FailHandshake(s) \/ LeaveLoop(s)
               \/ \E d \in ClientId : Hello(s, d)
               \/ PublishRouting(s)
               \/ StartLoop(s) \/ SeeRouting(s) \/ ReceiveSettings(s)
               \/ CloseSettings(s) \/ CloseRouting(s)
      <3>1. UNCHANGED stateVars
        BY <2>2 DEF Refuse, FailHandshake, LeaveLoop, Hello, PublishRouting, StartLoop, SeeRouting,
                    ReceiveSettings, CloseSettings, CloseRouting
      <3>. QED
        BY <2>2, <3>1, LocalStepRouting
    <2>. QED
      BY <1>1, <2>1, <2>2 DEF SessionStep, Handshake, CleanUp
  <1>2. CASE Dispatch
    BY <1>0, <1>2, DispatchRouting
  <1>3. CASE FinishCommand
    BY <1>3, FinishRouting
  <1>4. CASE UNCHANGED vars
    <2>1. /\ UNCHANGED <<pc, cid, routing, watch, routing_senders, missed, job, stateVars>>
      BY <1>4 DEF vars, sessionVars, senderVars, commandVars, historyVars
    <2>2. Targets \subseteq Targets' /\ (Grouped(c)' => Grouped(c) /\ RoutingOf(c)' = RoutingOf(c))
      BY <2>1, StateSame, TargetsKept
    <2>. QED
      BY <2>1, <2>2, RoutingKept DEF Listening
  <1>. QED
    BY <1>1, <1>2, <1>3, <1>4 DEF Next

LEMMA RoutingAlways == Spec => [](Types /\ LoopInv /\ RoutingInv)
  BY TypesAlways, LoopInit, LoopNext, RoutingInit, RoutingNext, PTL DEF Spec

\* With no command in flight there is no client a push is due to.
LEMMA IdleHasNoTargets ==
    ASSUME Types, job.at = "idle"
    PROVE  Targets = {}
  <1>1. job.scope = "none"
    BY DEF Types, SharedTypes, JobOK, Idle
  <1>. QED
    BY <1>1 DEF Targets

LEMMA RoutingImplies == Types /\ LoopInv /\ RoutingInv => RoutingCurrent /\ AudioFollowsAssignment
  <1>. SUFFICES ASSUME Types, LoopInv, RoutingInv, job.at = "idle", NEW s \in Session,
                       Listening(s), Owns(s), Grouped(cid[s]), s \notin missed
                PROVE  /\ watch[s].value = RoutingOf(cid[s])
                       /\ pc[s] = "loop" /\ ~ watch[s].unseen => routing[s] = RoutingOf(cid[s])
    BY DEF RoutingCurrent, AudioFollowsAssignment, Listening
  <1>1. cid[s] \in ClientId
    BY DEF Types, CidOK, Owns
  <1>2. watch[s].value = RoutingOf(cid[s])
    BY <1>1, IdleHasNoTargets DEF RoutingInv, RoutingOK, Owns
  <1>. QED
    BY <1>2 DEF LoopInv, LoopOK

\* With no command in flight, a session whose watch channel is the registered one holds its
\* client's routing there, for any number of sessions of that client in any phase of their
\* handshake and clean-up, but for the sessions a change provably went past.
THEOREM NewestRoutingCurrent == Spec => []RoutingCurrent
  BY RoutingAlways, RoutingImplies, PTL

\* The same of what its loop filters chunks with, once it saw the newest value.
THEOREM AudioFollows == Spec => []AudioFollowsAssignment
  BY RoutingAlways, RoutingImplies, PTL

-----------------------------------------------------------------------------
(* The settings a client plays with.                                         *)

\* A registered settings sender is one of a session of that client, or was.
SenderOK(c) == settings_senders[c] # None =>
                  /\ pc[settings_senders[c]] # "new"
                  /\ cid[settings_senders[c]] \in {c, None}

\* So is the one a command that pushes settings looked up.
SendingOK == job.at = "send" => pc[job.to] # "new" /\ cid[job.to] \in {job.id, None}

\* What a session's client plays with once it has received everything in its channel.
Newest(s) == IF settings[s] = <<>> THEN view[s] ELSE settings[s][Len(settings[s])]

\* The command in flight still has a push for the session.
Coming(s, c) == \/ job.at = "settings" /\ job.id = c
                \/ job.at = "send" /\ job.to = s

\* A session that has settings of its own, pushed to it or read under the state lock.
Informed(s) == Receiving(s) /\ (pc[s] = "register" => settings[s] # <<>>)

\* An informed session whose settings sender is the registered one, but for those a change
\* went past, ends with what the state holds for its client.
Due(s, c) == /\ cid[s] = c /\ Informed(s) /\ settings_senders[c] = s /\ c \in DOMAIN clients
             /\ s \notin crossed /\ ~ Coming(s, c)

SettingsOK(s, c) == Due(s, c) => Newest(s) = SettingsOf(c)

\* Nothing is pushed to a session before its Hello.
FreshOK(s) == pc[s] = "new" => settings[s] = <<>>

SettingsInv == /\ \A c \in ClientId : SenderOK(c)
               /\ SendingOK
               /\ \A s \in Session : FreshOK(s)
               /\ \A s \in Session, c \in ClientId : SettingsOK(s, c)

LEMMA SettingsInit == Init => SettingsInv
  BY DEF Init, SettingsInv, SenderOK, SendingOK, FreshOK, SettingsOK, Due, Informed, Receiving, Idle

\* A channel's newest message is the one appended last, and taking its oldest leaves it.
LEMMA AppendLast ==
    ASSUME NEW q \in Seq(ServerSettings), NEW m \in ServerSettings
    PROVE  Append(q, m) # <<>> /\ Append(q, m)[Len(Append(q, m))] = m
  OBVIOUS

LEMMA TailLast ==
    ASSUME NEW q \in Seq(ServerSettings), q # <<>>
    PROVE  IF Tail(q) = <<>> THEN Head(q) = q[Len(q)] ELSE Tail(q)[Len(Tail(q))] = q[Len(q)]
  <1>. DEFINE t == Tail(q)
  <1>1. /\ t \in Seq(ServerSettings) /\ Len(t) = Len(q) - 1 /\ Len(q) \in Nat \ {0}
        /\ Head(q) = q[1] /\ \A i \in 1 .. Len(q) - 1 : t[i] = q[i + 1]
    OBVIOUS
  <1>2. Len(<<>>) = 0
    OBVIOUS
  <1>. HIDE DEF t
  <1>3. CASE t = <<>>
    <2>1. Len(q) = 1
      BY <1>1, <1>2, <1>3
    <2>. QED
      BY <1>1, <1>3, <2>1 DEF t
  <1>4. CASE t # <<>>
    <2>1. Len(t) # 0
      BY <1>1, <1>4
    <2>2. Len(t) \in 1 .. Len(q) - 1 /\ Len(t) + 1 = Len(q)
      BY <1>1, <2>1
    <2>3. t[Len(t)] = q[Len(q)]
      BY <1>1, <2>2
    <2>. QED
      BY <1>4, <2>3 DEF t
  <1>. QED
    BY <1>3, <1>4

\* Who a sender belongs to: a session keeps its client until it returns, and never goes
\* back to its Hello.
LEMMA SessionStepOwner ==
    ASSUME Types, NEW s \in Session, SessionStep(s), NEW t \in Session
    PROVE  pc[t] # "new" => pc'[t] # "new" /\ cid'[t] \in {cid[t], None}
  <1>0. pc \in [Session -> Steps] /\ cid \in [Session -> ClientId \cup {None}]
    BY DEF Types, CidOK
  <1>1. CASE Refuse(s) \/ FailHandshake(s) \/ CloseState(s)
    BY <1>0, <1>1 DEF Refuse, FailHandshake, CloseState, End, Goto
  <1>2. CASE \E c \in ClientId : Hello(s, c)
    BY <1>0, <1>2 DEF Hello, Goto
  <1>3. CASE Handshake(s)
    BY <1>0, <1>3 DEF Handshake, RegisterClient, PublishRouting, StartLoop, Goto
  <1>4. CASE SeeRouting(s) \/ ReceiveSettings(s)
    BY <1>0, <1>4 DEF SeeRouting, ReceiveSettings
  <1>5. CASE \E percent \in Percent, muted \in BOOLEAN : ReadClientInfo(s, percent, muted)
    BY <1>5 DEF ReadClientInfo
  <1>6. CASE LeaveLoop(s) \/ CloseSettings(s) \/ CloseRouting(s)
    BY <1>0, <1>6 DEF LeaveLoop, CloseSettings, CloseRouting, Goto
  <1>. QED
    BY <1>1, <1>2, <1>3, <1>4, <1>5, <1>6 DEF SessionStep, CleanUp

LEMMA SessionStepSender ==
    ASSUME Types, NEW s \in Session, SessionStep(s), NEW c \in ClientId,
           settings_senders'[c] \notin {settings_senders[c], None}
    PROVE  settings_senders'[c] = s /\ pc'[s] # "new" /\ cid'[s] = c
  <1>0. /\ pc \in [Session -> Steps] /\ cid \in [Session -> ClientId \cup {None}]
        /\ settings_senders \in [ClientId -> Session \cup {None}]
    BY DEF Types, CidOK, SharedTypes
  <1>1. \A d \in ClientId : Hello(s, d) => settings_senders'[c] = s /\ pc'[s] # "new" /\ cid'[s] = c
    BY <1>0 DEF Hello, Goto
  <1>2. ~ CloseSettings(s)
    BY <1>0 DEF CloseSettings
  <1>. QED
    BY <1>1, <1>2 DEF SessionStep, Refuse, FailHandshake, Handshake, RegisterClient,
       PublishRouting, StartLoop, SeeRouting, ReadClientInfo, ReceiveSettings, LeaveLoop, CleanUp,
       CloseRouting, CloseState, senderVars

LEMMA SenderStep ==
    ASSUME Types, SettingsInv, NEW s \in Session, SessionStep(s)
    PROVE  SendingOK' /\ \A c \in ClientId : SenderOK(c)'
  <1>1. ASSUME NEW c \in ClientId PROVE SenderOK(c)'
    <2>1. settings_senders[c] \in Session \cup {None}
      BY DEF Types, SharedTypes
    <2>2. CASE settings_senders'[c] \in {settings_senders[c], None}
      BY <2>1, <2>2, SessionStepOwner DEF SettingsInv, SenderOK
    <2>3. CASE settings_senders'[c] \notin {settings_senders[c], None}
      BY <2>3, SessionStepSender DEF SenderOK
    <2>. QED
      BY <2>2, <2>3
  <1>2. SendingOK'
    <2>1. UNCHANGED job
      BY DEF SessionStep, Refuse, Hello, FailHandshake, Handshake, RegisterClient,
         PublishRouting, StartLoop, SeeRouting, ReadClientInfo, ReceiveSettings, LeaveLoop, CleanUp,
         CloseSettings, CloseRouting, CloseState, commandVars
    <2>2. job.at = "send" => job.to \in Session
      BY DEF Types, SharedTypes, JobOK
    <2>. QED
      BY <2>1, <2>2, SessionStepOwner DEF SettingsInv, SendingOK
  <1>. QED
    BY <1>1, <1>2

LEMMA FreshStep ==
    ASSUME Types, SettingsInv, NEW s \in Session, SessionStep(s), NEW t \in Session
    PROVE  FreshOK(t)'
  <1>0. pc \in [Session -> Steps] /\ settings \in [Session -> Seq(ServerSettings)]
    BY DEF Types, CidOK, SessionTypes
  <1>1. settings'[t] = settings[t] \/ settings'[t] = <<>> \/ pc[t] = "loop"
    <2>1. CASE Drop(s)
      BY <1>0, <2>1 DEF Drop
    <2>2. CASE ReceiveSettings(s)
      BY <1>0, <2>2 DEF ReceiveSettings
    <2>. QED
      BY <2>1, <2>2 DEF SessionStep, Refuse, Hello, FailHandshake, Handshake, RegisterClient,
         PublishRouting, StartLoop, SeeRouting, ReadClientInfo, LeaveLoop, CleanUp,
         CloseSettings, CloseRouting, CloseState
  <1>2. pc[t] # "new" => pc'[t] # "new"
    BY SessionStepOwner
  <1>. QED
    BY <1>1, <1>2 DEF SettingsInv, FreshOK

LEMMA SettingsKept ==
    ASSUME SettingsInv, NEW t \in Session, NEW c \in ClientId,
           Due(t, c)' => Due(t, c) /\ Newest(t)' = Newest(t) /\ SettingsOf(c)' = SettingsOf(c)
    PROVE  SettingsOK(t, c)'
  BY DEF SettingsInv, SettingsOK

\* Steps of a session that leave the state alone.
LEMMA LocalStepSettings ==
    ASSUME Types, SettingsInv, NEW s \in Session, NEW t \in Session, NEW c \in ClientId,
           UNCHANGED stateVars,
           \/ Refuse(s) \/ FailHandshake(s) \/ LeaveLoop(s)
           \/ \E d \in ClientId : Hello(s, d)
           \/ PublishRouting(s)
           \/ StartLoop(s) \/ SeeRouting(s) \/ ReceiveSettings(s)
           \/ CloseSettings(s) \/ CloseRouting(s)
    PROVE  SettingsOK(t, c)'
  <1>0. /\ pc \in [Session -> Steps] /\ cid \in [Session -> ClientId \cup {None}]
        /\ SessionTypes /\ settings_senders \in [ClientId -> Session \cup {None}]
    BY DEF Types, CidOK, SharedTypes
  <1>1. DOMAIN clients' = DOMAIN clients /\ (c \in DOMAIN clients => SettingsOf(c)' = SettingsOf(c))
    BY StateSame
  <1>2. CASE Refuse(s) \/ FailHandshake(s) \/ LeaveLoop(s)
    <2>1. /\ Drop(s) /\ UNCHANGED <<senderVars, job>>
          /\ \E step \in {"gone", "close_settings"} : Goto(s, step)
          /\ \A u \in Session \ {s} : cid'[u] = cid[u]
      BY <1>0, <1>2 DEF Refuse, FailHandshake, LeaveLoop, End, commandVars
    <2>2. CASE t = s
      BY <1>0, <2>1, <2>2 DEF Goto, Informed, Receiving, Due, SettingsOK
    <2>3. CASE t # s
      <3>1. /\ pc'[t] = pc[t] /\ settings'[t] = settings[t] /\ view'[t] = view[t]
            /\ t \in crossed => t \in crossed'
        BY <1>0, <2>1, <2>3 DEF Goto, Drop, SessionTypes
      <3>. QED
        BY <1>1, <2>1, <2>3, <3>1, SettingsKept DEF Due, Informed, Receiving, Coming, Newest, senderVars
    <2>. QED
      BY <2>2, <2>3
  <1>3. CASE \E d \in ClientId : Hello(s, d)
    <2>0. UNCHANGED <<settings, view, crossed, job>>
      BY <1>3 DEF Hello, commandVars, historyVars
    <2>1. CASE t = s
      <3>1. pc'[t] = "register" /\ settings[t] = <<>>
        BY <1>0, <1>3, <2>1 DEF Hello, Goto, SettingsInv, FreshOK
      <3>. QED
        BY <2>0, <3>1 DEF Informed, Due, SettingsOK
    <2>2. CASE t # s
      <3>1. /\ pc'[t] = pc[t] /\ cid'[t] = cid[t]
            /\ settings_senders'[c] = t => settings_senders[c] = t
        BY <1>0, <1>3, <2>2 DEF Hello, Goto
      <3>. QED
        BY <1>1, <2>0, <3>1, SettingsKept DEF Due, Informed, Receiving, Coming, Newest
    <2>. QED
      BY <2>1, <2>2
  <1>4. CASE PublishRouting(s) \/ StartLoop(s) \/ SeeRouting(s)
    <2>1. UNCHANGED <<cid, settings, view, settings_senders, crossed, job>>
      BY <1>4 DEF PublishRouting, StartLoop, SeeRouting, commandVars, historyVars, senderVars
    <2>2. /\ Receiving(t)' => Receiving(t)
          /\ pc[t] = "register" => pc'[t] = "register"
      BY <1>0, <1>4 DEF PublishRouting, StartLoop, SeeRouting, Goto, Receiving
    <2>. QED
      BY <1>1, <2>1, <2>2, SettingsKept DEF Due, Informed, Coming, Newest
  <1>5. CASE ReceiveSettings(s)
    <2>1. UNCHANGED <<pc, cid, settings_senders, crossed, job>>
      BY <1>5 DEF ReceiveSettings, commandVars, historyVars, senderVars
    <2>2. Newest(t)' = Newest(t)
      <3>1. CASE t = s
        <4>1. settings[t] \in Seq(ServerSettings) /\ settings[t] # <<>>
          BY <1>0, <1>5, <3>1 DEF ReceiveSettings, SessionTypes
        <4>2. settings'[t] = Tail(settings[t]) /\ view'[t] = Head(settings[t])
          BY <1>0, <1>5, <3>1 DEF ReceiveSettings, SessionTypes
        <4>. QED
          BY <4>1, <4>2, TailLast DEF Newest
      <3>2. CASE t # s
        BY <1>0, <1>5, <3>2 DEF ReceiveSettings, SessionTypes, Newest
      <3>. QED
        BY <3>1, <3>2
    <2>3. Informed(t)' => Informed(t)
      <3>1. pc[s] = "loop" /\ \A u \in Session \ {s} : settings'[u] = settings[u]
        BY <1>0, <1>5 DEF ReceiveSettings, SessionTypes
      <3>. QED
        BY <2>1, <3>1 DEF Informed, Receiving
    <2>. QED
      BY <1>1, <2>1, <2>2, <2>3, SettingsKept DEF Due, Coming
  <1>6. CASE CloseSettings(s) \/ CloseRouting(s)
    <2>1. UNCHANGED <<cid, settings, view, crossed, job>>
      BY <1>6 DEF CloseSettings, CloseRouting, commandVars, historyVars
    <2>2. Informed(t)' => Informed(t)
      BY <1>0, <1>6, <2>1 DEF CloseSettings, CloseRouting, Goto, Informed, Receiving
    <2>3. settings_senders'[c] = t => settings_senders[c] = t
      <3>1. t # None
        BY SessionAssumption
      <3>. QED
        BY <1>0, <1>6, <3>1 DEF CloseSettings, CloseRouting
    <2>. QED
      BY <1>1, <2>1, <2>2, <2>3, SettingsKept DEF Due, Coming, Newest
  <1>. QED
    BY <1>2, <1>3, <1>4, <1>5, <1>6

\* The three blocks of a session under the state lock.
LEMMA SectionSettings ==
    ASSUME Types, SettingsInv, StateInv', NEW s \in Session, NEW t \in Session, NEW c \in ClientId,
           \/ RegisterClient(s)
           \/ \E percent \in Percent, muted \in BOOLEAN : ReadClientInfo(s, percent, muted)
           \/ CloseState(s)
    PROVE  SettingsOK(t, c)'
  <1>0. /\ pc \in [Session -> Steps] /\ cid \in [Session -> ClientId \cup {None}]
        /\ StateInv /\ SessionTypes
        /\ \A u \in Session : cid[u] = None => pc[u] \in {"new", "gone"}
    BY DEF Types, CidOK
  <1>1. CASE RegisterClient(s)
    <2>1. /\ cid[s] \in ClientId /\ Register(cid[s])
          /\ UNCHANGED <<cid, job, settings, settings_senders>>
      BY <1>0, <1>1 DEF RegisterClient, commandVars, senderVars
    <2>2. /\ DOMAIN clients' = DOMAIN clients \cup {cid[s]}
          /\ \A d \in DOMAIN clients : clients'[d].config = clients[d].config
      BY <1>0, <2>1, RegisterKeeps
    <2>3. c \in DOMAIN clients => SettingsOf(c)' = SettingsOf(c)
      BY <2>2 DEF SettingsOf
    <2>4. pc[s] = "register" /\ Receiving(s)
      BY <1>1 DEF RegisterClient, Receiving
    <2>5. CASE t = s
      <3>. SUFFICES ASSUME Due(t, c)' PROVE Newest(t)' = SettingsOf(c)'
        BY DEF SettingsOK
      <3>1. cid[t] = c /\ settings_senders[c] = t
        BY <2>1 DEF Due
      <3>2. CASE settings[t] = <<>>
        BY <1>0, <1>1, <2>1, <2>5, <3>1, <3>2 DEF RegisterClient, Newest, SessionTypes
      <3>3. CASE settings[t] # <<>>
        <4>1. t \notin crossed /\ c \in DOMAIN clients
          BY <1>1, <2>1, <2>4, <2>5, <3>1, <3>3 DEF RegisterClient, SameClient, Due
        <4>2. Due(t, c)
          BY <2>1, <2>4, <2>5, <3>1, <3>3, <4>1 DEF Due, Informed, Coming
        <4>. QED
          BY <2>1, <2>3, <3>3, <4>1, <4>2 DEF SettingsInv, SettingsOK, Newest
      <3>. QED
        BY <3>2, <3>3
    <2>6. CASE t # s
      <3>1. /\ pc'[t] = pc[t] /\ view'[t] = view[t]
            /\ t \in crossed => t \in crossed'
        BY <1>0, <1>1, <2>6 DEF RegisterClient, Goto, SessionTypes
      <3>2. CASE cid[t] = c /\ c \notin DOMAIN clients /\ c \in DOMAIN clients' /\ Receiving(t)
        <4>1. cid[s] \notin DOMAIN clients /\ t \in SameClient(s)
          BY <2>2, <3>2 DEF SameClient
        <4>2. t \in crossed'
          BY <1>1, <2>6, <4>1 DEF RegisterClient
        <4>. QED
          BY <4>2 DEF Due, SettingsOK
      <3>3. CASE c \in DOMAIN clients
        BY <2>1, <2>3, <3>1, <3>3, SettingsKept DEF Due, Informed, Receiving, Coming, Newest
      <3>4. CASE cid[t] # c \/ c \notin DOMAIN clients' \/ ~ Receiving(t)
        BY <2>1, <3>1, <3>4 DEF Due, Informed, Receiving, SettingsOK
      <3>. QED
        BY <3>2, <3>3, <3>4
    <2>. QED
      BY <2>5, <2>6
  <1>2. ASSUME NEW percent \in Percent, NEW muted \in BOOLEAN, ReadClientInfo(s, percent, muted)
        PROVE  SettingsOK(t, c)'
    <2>1. /\ cid[s] \in ClientId /\ ChangeVolume(cid[s], percent, muted) /\ pc[s] = "loop"
          /\ UNCHANGED <<pc, cid, settings, settings_senders, job>>
          /\ t \in crossed => t \in crossed'
          /\ t # s => view'[t] = view[t]
      BY <1>0, <1>2 DEF ReadClientInfo, senderVars, commandVars, SessionTypes
    <2>2. /\ DOMAIN clients' = DOMAIN clients
          /\ \A d \in DOMAIN clients : d # cid[s] => clients'[d] = clients[d]
          /\ c = cid[s] /\ c \in DOMAIN clients
               => SettingsOf(c)' = [percent |-> percent, muted |-> muted,
                                    latency |-> clients[c].config.latency]
      BY <1>0, <2>1, VolumeKeeps
    <2>. SUFFICES ASSUME Due(t, c)' PROVE Newest(t)' = SettingsOf(c)'
      BY DEF SettingsOK
    <2>3. Due(t, c)
      BY <2>1, <2>2 DEF Due, Informed, Receiving, Coming
    <2>4. Newest(t) = SettingsOf(c) /\ cid[t] = c /\ Receiving(t) /\ c \in DOMAIN clients
      BY <2>3 DEF SettingsInv, SettingsOK, Due, Informed
    <2>5. CASE c # cid[s]
      <3>1. t # s /\ SettingsOf(c)' = SettingsOf(c)
        BY <2>2, <2>4, <2>5 DEF SettingsOf
      <3>. QED
        BY <2>1, <2>4, <3>1 DEF Newest
    <2>6. CASE c = cid[s] /\ t # s
      <3>1. t \in crossed'
        BY <1>2, <2>4, <2>6 DEF ReadClientInfo, SameClient
      <3>. QED
        BY <3>1 DEF Due
    <2>7. CASE t = s
      <3>1. settings[s] = <<>>
        BY <1>2, <2>7 DEF ReadClientInfo, Due
      <3>2. view[s] \in ServerSettings /\ view[s].latency = clients[c].config.latency
        BY <1>0, <2>4, <2>7, <3>1 DEF Newest, SettingsOf, SessionTypes
      <3>3. view'[s] = [view[s] EXCEPT !.percent = percent, !.muted = muted]
        BY <1>0, <1>2 DEF ReadClientInfo, SessionTypes
      <3>4. view'[s] = [percent |-> percent, muted |-> muted, latency |-> view[s].latency]
        BY <3>2, <3>3 DEF ServerSettings
      <3>. QED
        BY <2>1, <2>2, <2>4, <2>7, <3>1, <3>2, <3>4 DEF Newest
    <2>. QED
      BY <2>5, <2>6, <2>7
  <1>3. CASE CloseState(s)
    <2>1. /\ cid[s] \in ClientId /\ Unregister(cid[s])
          /\ UNCHANGED <<settings, view, settings_senders, crossed, job>>
      BY <1>0, <1>3 DEF CloseState, senderVars, commandVars, historyVars
    <2>2. DOMAIN clients' = DOMAIN clients /\ (c \in DOMAIN clients => SettingsOf(c)' = SettingsOf(c))
      <3>1. QuietSection
        BY <2>1 DEF QuietSection
      <3>. QED
        BY <1>0, <3>1, QuietSettings
    <2>3. CASE t = s
      BY <1>0, <1>3, <2>3 DEF CloseState, End, Goto, Informed, Receiving, Due, SettingsOK
    <2>4. CASE t # s
      <3>1. pc'[t] = pc[t] /\ cid'[t] = cid[t]
        BY <1>0, <1>3, <2>4 DEF CloseState, End, Goto
      <3>. QED
        BY <2>1, <2>2, <3>1, SettingsKept DEF Due, Informed, Receiving, Coming, Newest
    <2>. QED
      BY <2>3, <2>4
  <1>. QED
    BY <1>1, <1>2, <1>3

LEMMA DispatchSettings ==
    ASSUME Types, SettingsInv, Dispatch, NEW t \in Session, NEW c \in ClientId
    PROVE  SettingsOK(t, c)'
  <1>1. /\ job = Idle /\ UNCHANGED <<sessionVars, senderVars, historyVars>>
    BY DEF Dispatch, DispatchClientVolume, DispatchClientLatency, DispatchDeleteClient,
           DispatchQuietCommand, DispatchGroupStream, DispatchGroupMute,
           DispatchGroupClients, DispatchRemoveStream, TakeCommand, OthersUnchanged
  <1>2. ASSUME c \in DOMAIN clients' => c \in DOMAIN clients /\ (SettingsOf(c)' = SettingsOf(c) \/ Coming(t, c)')
        PROVE  SettingsOK(t, c)'
    <2>1. ~ Coming(t, c)
      BY <1>1 DEF Coming, Idle
    <2>. QED
      BY <1>1, <1>2, <2>1, SettingsKept
      DEF Due, Informed, Receiving, Newest, sessionVars, senderVars, historyVars
  <1>3. ASSUME NEW d \in ClientId, NEW percent \in Percent, NEW muted \in BOOLEAN,
               DispatchClientVolume(d, percent, muted)
        PROVE  SettingsOK(t, c)'
    <2>1. DOMAIN clients' = DOMAIN clients /\ \A e \in DOMAIN clients : e # d => clients'[e] = clients[e]
      BY <1>3 DEF DispatchClientVolume, SetClientVolume, ChangeVolume
    <2>2. c = d => Coming(t, c)'
      BY <1>3 DEF DispatchClientVolume, Coming, Idle
    <2>. QED
      BY <1>2, <2>1, <2>2 DEF SettingsOf
  <1>4. ASSUME NEW d \in ClientId, NEW latency \in Latency, DispatchClientLatency(d, latency)
        PROVE  SettingsOK(t, c)'
    <2>1. DOMAIN clients' = DOMAIN clients /\ \A e \in DOMAIN clients : e # d => clients'[e] = clients[e]
      BY <1>4 DEF DispatchClientLatency, SetClientLatency
    <2>2. c = d /\ d \in DOMAIN clients => Coming(t, c)'
      BY <1>4 DEF DispatchClientLatency, Coming, Idle
    <2>. QED
      BY <1>2, <2>1, <2>2 DEF SettingsOf
  <1>5. CASE DispatchQuietCommand
    <2>1. QuietSection /\ StateInv
      BY <1>5 DEF DispatchQuietCommand, QuietSection, Types
    <2>. QED
      BY <1>2, <2>1, QuietSettings
  <1>6. ASSUME NEW d \in ClientId, DispatchDeleteClient(d)
        PROVE  SettingsOK(t, c)'
    <2>1. /\ DOMAIN clients' = DOMAIN clients \ {d}
          /\ \A e \in DOMAIN clients' : clients'[e] = clients[e]
      BY <1>6 DEF DispatchDeleteClient, DeleteClient, Restrict
    <2>. QED
      BY <1>2, <2>1 DEF SettingsOf
  <1>7. CASE UNCHANGED clients
    BY <1>2, <1>7 DEF SettingsOf
  <1>. QED
    BY <1>3, <1>4, <1>5, <1>6, <1>7 DEF Dispatch, DispatchGroupStream, SetGroupStream,
       DispatchGroupMute, SetGroupMute, DispatchGroupClients, SetGroupClients,
       DispatchRemoveStream, RemoveStream

\* Only a lookup makes a command one that sends, to the session whose sender it found.
LEMMA FinishSending ==
    ASSUME Types, SettingsInv, Dispatch \/ FinishCommand
    PROVE  SendingOK' /\ \A c \in ClientId : SenderOK(c)'
  <1>1. UNCHANGED <<pc, cid>> /\ UNCHANGED settings_senders
    BY DispatchLeavesSessions
    DEF Dispatch, DispatchClientVolume, DispatchClientLatency, DispatchDeleteClient,
        DispatchQuietCommand, DispatchGroupStream, DispatchGroupMute,
        DispatchGroupClients, DispatchRemoveStream, OthersUnchanged, FinishCommand,
        LookUpSettings, SendSettings, PushRouting, senderVars
  <1>2. job'.at = "send" => LookUpSettings /\ settings_senders[job.id] # None
    <2>1. \A scope, id : ThenRoute(scope, id) => job'.at # "send"
      BY DEF ThenRoute, Idle
    <2>2. CASE Dispatch
      <3>1. ASSUME NEW c \in ClientId, NEW percent \in Percent, NEW muted \in BOOLEAN,
                   DispatchClientVolume(c, percent, muted)
            PROVE  job'.at # "send"
        <4>. DEFINE update == [percent |-> percent, muted |-> muted, latency |-> GetOrCreate(c).latency]
        <4>1. job' = [Idle EXCEPT !.at = "settings", !.scope = "client", !.id = c, !.update = update]
          BY <3>1 DEF DispatchClientVolume
        <4>. HIDE DEF update
        <4>. QED
          BY <4>1 DEF Idle
      <3>2. ASSUME NEW c \in ClientId, NEW latency \in Latency, DispatchClientLatency(c, latency)
            PROVE  job'.at # "send"
        <4>1. \A update : [Idle EXCEPT !.at = "settings", !.id = c, !.update = update].at # "send"
          BY DEF Idle
        <4>2. job.at # "send"
          BY <3>2 DEF DispatchClientLatency, TakeCommand, Idle
        <4>. QED
          BY <3>2, <4>1, <4>2 DEF DispatchClientLatency
      <3>3. CASE DispatchQuietCommand
        BY <3>3 DEF DispatchQuietCommand, TakeCommand, Idle
      <3>. QED
        BY <2>1, <2>2, <3>1, <3>2, <3>3
        DEF Dispatch, DispatchDeleteClient, DispatchGroupStream, DispatchGroupMute,
            DispatchGroupClients, DispatchRemoveStream
    <2>3. CASE LookUpSettings
      BY <2>1, <2>3 DEF LookUpSettings
    <2>4. CASE SendSettings \/ PushRouting
      BY <2>1, <2>4 DEF SendSettings, PushRouting, Idle
    <2>. QED
      BY <2>2, <2>3, <2>4 DEF FinishCommand
  <1>3. ASSUME job'.at = "send" PROVE pc[job'.to] # "new" /\ cid[job'.to] \in {job'.id, None}
    <2>1. job.id \in ClientId /\ job'.id = job.id /\ job'.to = settings_senders[job.id]
      BY <1>2, <1>3 DEF LookUpSettings, Types, SharedTypes, Job, JobOK
    <2>. QED
      BY <1>2, <1>3, <2>1 DEF SettingsInv, SenderOK
  <1>. QED
    BY <1>1, <1>3 DEF SettingsInv, SenderOK, SendingOK

LEMMA FinishSettings ==
    ASSUME Types, SettingsInv, FinishCommand, NEW t \in Session, NEW c \in ClientId
    PROVE  SettingsOK(t, c)'
  <1>0. UNCHANGED <<stateVars, pc, cid, view, settings_senders>>
    BY DEF FinishCommand, LookUpSettings, SendSettings, PushRouting, senderVars, sessionVars
  <1>1. /\ DOMAIN clients' = DOMAIN clients
        /\ c \in DOMAIN clients => SettingsOf(c)' = SettingsOf(c)
    BY <1>0, StateSame
  <1>2. CASE LookUpSettings
    <2>1. UNCHANGED <<settings, crossed>>
      BY <1>2 DEF LookUpSettings, sessionVars, historyVars
    <2>2. Due(t, c)' => ~ Coming(t, c)
      <3>1. CASE settings_senders[job.id] = None
        <4>1. t # None
          BY SessionAssumption
        <4>. QED
          BY <1>0, <1>2, <3>1, <4>1 DEF LookUpSettings, Due, Coming
      <3>2. CASE settings_senders[job.id] # None
        BY <1>0, <1>2, <3>2 DEF LookUpSettings, Due, Coming, Types, SharedTypes, Job
      <3>. QED
        BY <3>1, <3>2
    <2>. QED
      BY <1>0, <1>1, <2>1, <2>2, SettingsKept
      DEF Due, Informed, Receiving, Newest
  <1>3. CASE SendSettings
    <2>0. /\ job.to \in Session /\ settings \in [Session -> Seq(ServerSettings)]
          /\ job.update \in ServerSettings
      BY <1>3 DEF SendSettings, Types, SharedTypes, SessionTypes, Job, JobOK
    <2>1. CASE t # job.to
      <3>1. /\ settings'[t] = settings[t] /\ (t \in crossed => t \in crossed')
            /\ ~ Coming(t, c)
        BY <1>3, <2>0, <2>1 DEF SendSettings, Coming
      <3>. QED
        BY <1>0, <1>1, <3>1, SettingsKept DEF Due, Informed, Receiving, Newest
    <2>2. CASE t = job.to /\ ~ Receiving(t)
      <3>1. UNCHANGED settings
        BY <1>3, <2>2 DEF SendSettings
      <3>. QED
        BY <1>0, <2>2, <3>1 DEF SettingsOK, Due, Informed, Receiving
    <2>3. CASE t = job.to /\ Receiving(t)
      <3>1. settings'[t] = Append(settings[t], job.update)
        BY <1>3, <2>0, <2>3 DEF SendSettings
      <3>2. settings[t] \in Seq(ServerSettings)
        BY <2>0
      <3>3. settings'[t] # <<>> /\ Newest(t)' = job.update
        BY <2>0, <3>1, <3>2, AppendLast DEF Newest
      <3>4. ASSUME Due(t, c)' PROVE Newest(t)' = SettingsOf(c)'
        <4>1. c = job.id
          <5>1. cid[t] \in {job.id, None} /\ cid[t] = c /\ c # None
            BY <1>0, <1>3, <2>3, <3>4, SessionAssumption DEF SendSettings, SettingsInv, SendingOK, Due
          <5>. QED
            BY <5>1
        <4>2. job.id \in DOMAIN clients /\ job.update = SettingsOf(job.id)
          BY <1>3, <2>3, <3>4 DEF SendSettings, Due
        <4>. QED
          BY <1>1, <3>3, <4>1, <4>2
      <3>. QED
        BY <3>4 DEF SettingsOK
    <2>. QED
      BY <2>1, <2>2, <2>3
  <1>4. CASE PushRouting
    <2>1. UNCHANGED <<settings, crossed>> /\ ~ Coming(t, c)
      BY <1>4 DEF PushRouting, Coming
    <2>. QED
      BY <1>0, <1>1, <2>1, SettingsKept
      DEF Due, Informed, Receiving, Newest
  <1>. QED
    BY <1>2, <1>3, <1>4 DEF FinishCommand

LEMMA FinishFresh ==
    ASSUME Types, SettingsInv, FinishCommand, NEW t \in Session
    PROVE  FreshOK(t)'
  <1>1. UNCHANGED pc /\ (pc[t] = "new" => settings'[t] = settings[t])
    <2>1. CASE LookUpSettings \/ PushRouting
      BY <2>1 DEF LookUpSettings, PushRouting, sessionVars
    <2>2. CASE SendSettings
      BY <2>2 DEF SendSettings, Receiving, Types, SessionTypes
    <2>. QED
      BY <2>1, <2>2 DEF FinishCommand
  <1>. QED
    BY <1>1 DEF SettingsInv, FreshOK

LEMMA SettingsNext == Types /\ SettingsInv /\ [Next]_vars => SettingsInv'
  <1>. SUFFICES ASSUME Types, SettingsInv, [Next]_vars
                PROVE  SettingsInv'
    OBVIOUS
  <1>0. StateInv'
    BY StepImplements, StateInvNext DEF Types
  <1>1. ASSUME NEW s \in Session, SessionStep(s) PROVE SettingsInv'
    <2>1. SendingOK' /\ \A c \in ClientId : SenderOK(c)'
      BY <1>1, SenderStep
    <2>2. \A t \in Session : FreshOK(t)'
      BY <1>1, FreshStep
    <2>3. ASSUME NEW t \in Session, NEW c \in ClientId PROVE SettingsOK(t, c)'
      <3>1. CASE \/ RegisterClient(s)
                 \/ \E percent \in Percent, muted \in BOOLEAN : ReadClientInfo(s, percent, muted)
                 \/ CloseState(s)
        BY <1>0, <3>1, SectionSettings
      <3>2. CASE \/ Refuse(s) \/ FailHandshake(s) \/ LeaveLoop(s)
                 \/ \E d \in ClientId : Hello(s, d)
                 \/ PublishRouting(s)
                 \/ StartLoop(s) \/ SeeRouting(s) \/ ReceiveSettings(s)
                 \/ CloseSettings(s) \/ CloseRouting(s)
        <4>1. UNCHANGED stateVars
          BY <3>2 DEF Refuse, FailHandshake, LeaveLoop, Hello, PublishRouting, StartLoop, SeeRouting,
                      ReceiveSettings, CloseSettings, CloseRouting
        <4>. QED
          BY <3>2, <4>1, LocalStepSettings
      <3>. QED
        BY <1>1, <3>1, <3>2 DEF SessionStep, Handshake, CleanUp
    <2>. QED
      BY <2>1, <2>2, <2>3 DEF SettingsInv
  <1>2. CASE Dispatch
    <2>1. UNCHANGED <<pc, settings>>
      BY <1>2 DEF Dispatch, DispatchClientVolume, DispatchClientLatency, DispatchDeleteClient,
         DispatchQuietCommand, DispatchGroupStream, DispatchGroupMute, DispatchGroupClients,
         DispatchRemoveStream, OthersUnchanged, sessionVars
    <2>2. \A t \in Session : FreshOK(t)'
      BY <2>1 DEF SettingsInv, FreshOK
    <2>3. \A t \in Session, c \in ClientId : SettingsOK(t, c)'
      BY <1>2, DispatchSettings
    <2>4. SendingOK' /\ \A c \in ClientId : SenderOK(c)'
      BY <1>2, FinishSending
    <2>. QED
      BY <2>2, <2>3, <2>4 DEF SettingsInv
  <1>3. CASE FinishCommand
    <2>1. SendingOK' /\ \A c \in ClientId : SenderOK(c)'
      BY <1>3, FinishSending
    <2>2. \A t \in Session : FreshOK(t)' /\ \A c \in ClientId : SettingsOK(t, c)'
      <3>. SUFFICES ASSUME NEW t \in Session PROVE FreshOK(t)' /\ \A c \in ClientId : SettingsOK(t, c)'
        OBVIOUS
      <3>1. \A c \in ClientId : SettingsOK(t, c)'
        BY <1>3, FinishSettings
      <3>2. FreshOK(t)'
        BY <1>3, FinishFresh
      <3>. QED
        BY <3>1, <3>2
    <2>. QED
      BY <2>1, <2>2 DEF SettingsInv
  <1>4. CASE UNCHANGED vars
    <2>1. UNCHANGED <<stateVars, pc, cid, settings, view, settings_senders, crossed, job>>
      BY <1>4 DEF vars, sessionVars, senderVars, commandVars, historyVars
    <2>2. \A t \in Session, c \in ClientId : SettingsOK(t, c)'
      BY <2>1, StateSame, SettingsKept DEF Due, Informed, Receiving, Coming, Newest
    <2>. QED
      BY <2>1, <2>2 DEF SettingsInv, SenderOK, SendingOK, FreshOK
  <1>. QED
    BY <1>1, <1>2, <1>3, <1>4 DEF Next

LEMMA SettingsImplies == Types /\ SettingsInv => SettingsCurrent
  <1>. SUFFICES ASSUME Types, SettingsInv, job.at = "idle", NEW s \in Session,
                       pc[s] = "loop", settings[s] = <<>>, OwnsSettings(s),
                       cid[s] \in DOMAIN clients, s \notin crossed
                PROVE  view[s] = SettingsOf(cid[s])
    BY DEF SettingsCurrent
  <1>1. cid[s] \in ClientId
    BY DEF Types, CidOK, OwnsSettings
  <1>2. Due(s, cid[s])
    BY DEF Due, Informed, Receiving, Coming, OwnsSettings
  <1>. QED
    BY <1>1, <1>2 DEF SettingsInv, SettingsOK, Newest

\* Once everything pushed was delivered a client plays with the settings the server stores
\* for it, for any number of sessions, commands and channel sizes, but for the sessions a
\* change crossed a push of.
THEOREM ClientSettingsCurrent == Spec => []SettingsCurrent
  BY TypesAlways, SettingsInit, SettingsNext, SettingsImplies, PTL DEF Spec
=============================================================================
