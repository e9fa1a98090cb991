------------------------- MODULE ClientProcess_proofs -------------------------
(* For any command lines, servers, volumes and bounds: the client process keeps *)
(* its types, plays only where it may, and its mixer ends at the server's       *)
(* volume.                                                                      *)
EXTENDS ClientProcess, TLAPS

Event == [type: {"volume"}, volume: Volume] \cup {Told("other", None)}

-----------------------------------------------------------------------------
(* Sequences.                                                                  *)

LEMMA TailOf ==
    ASSUME NEW S, NEW s \in Seq(S), s # <<>>
    PROVE  /\ Head(s) \in S /\ Tail(s) \in Seq(S)
           /\ Len(Tail(s)) = Len(s) - 1 /\ Len(s) \in Nat \ {0}
           /\ Head(s) = s[1] /\ \A i \in 1 .. Len(s) - 1 : Tail(s)[i] = s[i + 1]
  OBVIOUS

\* The last element stays the last until it is the first.
LEMMA LastOf ==
    ASSUME NEW S, NEW s \in Seq(S), s # <<>>
    PROVE  IF Tail(s) = <<>> THEN Head(s) = s[Len(s)]
           ELSE Tail(s)[Len(Tail(s))] = s[Len(s)]
  <1>. DEFINE t == Tail(s)
  <1>1. /\ t \in Seq(S) /\ Len(t) = Len(s) - 1 /\ Len(s) \in Nat \ {0}
        /\ Head(s) = s[1] /\ \A i \in 1 .. Len(s) - 1 : t[i] = s[i + 1]
    BY TailOf
  <1>2. Len(<<>>) = 0
    OBVIOUS
  <1>. HIDE DEF t
  <1>3. t # <<>> => Len(t) # 0
    BY <1>1
  <1>4. CASE t = <<>>
    <2>1. Len(s) = 1
      BY <1>1, <1>2, <1>4
    <2>. QED
      BY <1>1, <1>4, <2>1 DEF t
  <1>5. CASE t # <<>>
    <2>1. Len(t) \in 1 .. Len(s) - 1 /\ Len(t) + 1 = Len(s)
      BY <1>1, <1>3, <1>5
    <2>2. t[Len(t)] = s[Len(s)]
      BY <1>1, <2>1
    <2>. QED
      BY <1>5, <2>2 DEF t
  <1>. QED
    BY <1>4, <1>5

LEMMA AppendOf ==
    ASSUME NEW S, NEW s \in Seq(S), NEW e \in S
    PROVE  /\ Append(s, e) \in Seq(S) /\ Append(s, e) # <<>>
           /\ Len(Append(s, e)) = Len(s) + 1 /\ Append(s, e)[Len(s) + 1] = e
           /\ \A i \in 1 .. Len(s) : Append(s, e)[i] = s[i]
  OBVIOUS

\* A volume of two bytes ends up in one.
LEMMA Volumes == \A v \in Volume : v.percent % 256 \in 0 .. 255 /\ v.muted \in BOOLEAN
  <1>. SUFFICES ASSUME NEW v \in Volume PROVE v.percent % 256 \in 0 .. 255 /\ v.muted \in BOOLEAN
    OBVIOUS
  <1>1. v.percent \in Nat /\ v.muted \in BOOLEAN
    BY ProcessAssumption
  <1>2. \A n \in Nat : n % 256 \in 0 .. 255
    OBVIOUS
  <1>. QED
    BY <1>1, <1>2

\* Events that are emitted are added as far as there is room; when the last of
\* them is a volume and it is not lost, all of them were added.
LEMMA Emitted ==
    ASSUME NEW list \in Seq(Event), list # <<>>,
           events \in Seq(Event), lost \in BOOLEAN, Emit(list)
    PROVE  /\ events' \in Seq(Event) /\ Len(events') <= EventMax /\ lost' \in BOOLEAN
           /\ list[Len(list)].type = "volume" /\ ~lost' =>
                /\ events' # <<>> /\ events'[Len(events')] = list[Len(list)]
  <1>. DEFINE all == events \o list
  <1>1. /\ all \in Seq(Event) /\ Len(all) = Len(events) + Len(list)
        /\ Len(list) \in Nat \ {0} /\ Len(events) \in Nat
        /\ all[Len(events) + Len(list)] = list[Len(list)]
    OBVIOUS
  <1>2. EventMax \in Nat \ {0}
    BY ProcessAssumption
  <1>3. /\ events' = IF Len(all) <= EventMax THEN all ELSE SubSeq(all, 1, EventMax)
        /\ lost' = IF list[Len(list)].type = "volume" THEN Len(all) > EventMax ELSE lost
    BY DEF Emit
  <1>. HIDE DEF all
  <1>6. /\ Len(all) \in Nat /\ all # <<>>
        /\ all[Len(all)] = list[Len(list)]
    BY <1>1
  <1>4. CASE Len(all) <= EventMax
    <2>1. events' = all
      BY <1>3, <1>4
    <2>3. (Len(all) > EventMax) = FALSE
      BY <1>4, <1>6, <1>2
    <2>2. lost' \in BOOLEAN
      BY <1>3, <2>3, Zenon
    <2>. QED
      BY <2>1, <2>2, <1>1, <1>6, <1>4, Zenon
  <1>5. CASE ~(Len(all) <= EventMax)
    <2>1. events' = SubSeq(all, 1, EventMax) /\ Len(all) > EventMax
      BY <1>6, <1>2, <1>3, <1>5
    <2>2. events' \in Seq(Event) /\ Len(events') = EventMax
      BY <2>1, <1>1, <1>2
    <2>3. /\ lost' \in BOOLEAN
          /\ list[Len(list)].type = "volume" => lost' = TRUE
      BY <2>1, <1>3, Zenon
    <2>4. EventMax <= EventMax
      BY <1>2
    <2>. QED
      BY <2>2, <2>3, <2>4, Zenon
  <1>. QED
    BY <1>4, <1>5

-----------------------------------------------------------------------------
(* Types.                                                                      *)

\* The facts about lists the steps use.
LEMMA Lists ==
    /\ \A v \in Volume : /\ <<Told("volume", v)>> \in Seq(Event)
                         /\ <<Told("volume", v), Told("volume", v)>> \in Seq(Event)
    /\ <<Told("other", None)>> \in Seq(Event)
    /\ <<>> \in Seq(Reply) /\ <<>> \in Seq(Event)
  <1>1. /\ \A v \in Volume : Told("volume", v) \in Event
        /\ Told("other", None) \in Event
    BY DEF Told, Event
  <1>. QED
    BY <1>1

LEMMA TypeInit == Init => TypeOK
  <1>. SUFFICES ASSUME Init PROVE TypeOK
    OBVIOUS
  <1>1. MaxDelay \in Nat \ {0} /\ EventMax \in Nat \ {0} /\ MaxCrashes \in Nat /\ MaxVolumes \in Nat
    BY ProcessAssumption
  <1>2. PICK access \in Access, v \in Volume :
            /\ server = [up |-> TRUE, access |-> access, volume |-> v]
            /\ conn = [end |-> "none", access |-> access]
    BY DEF Init
  <1>3. events \in Seq(Event) /\ Len(events) <= EventMax /\ replies \in Seq(Reply)
    BY <1>1, Lists DEF Init
  <1>4. /\ server \in [up: BOOLEAN, access: Access, volume: Volume]
        /\ conn \in [end: {"none", "asked", "admitted", "closed", "silent"}, access: Access]
    BY <1>2
  <1>5. /\ attempts \in 0 .. MaxDelay /\ wait \in 0 .. MaxDelay
        /\ crashes \in 0 .. MaxCrashes /\ volumes \in 0 .. MaxVolumes
    BY <1>1 DEF Init
  <1>6. volume_state \in [percent: 0 .. 255, muted: BOOLEAN] /\ alsa \in 0 .. 255
    BY DEF Init
  <1>. QED
    BY <1>3, <1>4, <1>5, <1>6 DEF Init, TypeOK, Event

\* A client that failed sleeps, and its types are kept.
LEMMA FailType ==
    ASSUME TypeOK, NEW why \in {"401", "403", "unreachable", "closed", "timeout"}, Fail(why)
    PROVE  TypeOK'
  <1>1. MaxDelay \in Nat \ {0}
    BY ProcessAssumption
  <1>2. attempts \in Nat /\ attempts <= MaxDelay
    BY <1>1 DEF TypeOK
  <1>3. attempts' \in 0 .. MaxDelay /\ wait' \in 0 .. MaxDelay
    BY <1>1, <1>2 DEF Fail, Least
  <1>4. events' \in Seq(Event) /\ Len(events') <= EventMax /\ lost' \in BOOLEAN
    <2>1. <<Told("other", None)>> # <<>>
      OBVIOUS
    <2>2. events \in Seq(Event) /\ lost \in BOOLEAN
      BY DEF TypeOK, Event
    <2>. QED
      BY <2>1, <2>2, Lists, Emitted DEF Fail
  <1>5. conn' \in [end: {"none", "asked", "admitted", "closed", "silent"}, access: Access]
    BY DEF TypeOK, Fail
  <1>6. replies' \in Seq(Reply)
    BY Lists DEF Fail
  <1>7. UNCHANGED <<start, server_settings, stopping, volume_state, alsa, server, crashes, volumes>>
        /\ pc' = "waiting" /\ reason' = why
    BY DEF Fail
  <1>. QED
    BY <1>3, <1>4, <1>5, <1>6, <1>7 DEF TypeOK, Event

LEMMA TypeStep == TypeOK /\ [Next]_vars => TypeOK'
  <1>. SUFFICES ASSUME TypeOK, [Next]_vars PROVE TypeOK'
    OBVIOUS
  <1>a. MaxDelay \in Nat \ {0} /\ EventMax \in Nat \ {0} /\ MaxCrashes \in Nat /\ MaxVolumes \in Nat
    BY ProcessAssumption
  <1>b. /\ events \in Seq(Event) /\ lost \in BOOLEAN /\ Len(events) <= EventMax
        /\ replies \in Seq(Reply)
    BY DEF TypeOK, Event
  <1>1. CASE Connect
    <2>1. events' \in Seq(Event) /\ Len(events') <= EventMax /\ lost' \in BOOLEAN
      <3>1. <<Told("other", None)>> # <<>>
        OBVIOUS
      <3>. QED
        BY <1>1, <1>b, <3>1, Lists, Emitted DEF Connect
    <2>2. conn' \in [end: {"none", "asked", "admitted", "closed", "silent"}, access: Access]
      BY <1>1 DEF Connect, TypeOK
    <2>3. /\ UNCHANGED <<start, attempts, wait, server_settings, stopping, volume_state, alsa,
                         server, crashes, volumes>>
          /\ pc' = "hello" /\ reason' = None /\ replies' \in Seq(Reply)
      BY <1>1, Lists DEF Connect
    <2>. QED
      BY <2>1, <2>2, <2>3 DEF TypeOK, Event
  <1>2. CASE ConnectFails
    BY <1>2, FailType DEF ConnectFails
  <1>3. CASE Second
    <2>1. wait' \in 0 .. MaxDelay /\ pc' \in {"waiting", "connecting"}
      BY <1>3, <1>a DEF Second, TypeOK
    <2>. QED
      BY <2>1, <1>3 DEF Second, TypeOK, mixerVars
  <1>4. CASE Settings
    <2>. DEFINE v == Head(replies).volume
    <2>1. v \in Volume /\ Tail(replies) \in Seq(Reply)
      <3>1. replies # <<>> /\ Head(replies).type = "settings"
        BY <1>4 DEF Settings, Reads
      <3>2. Head(replies) \in Reply /\ Tail(replies) \in Seq(Reply)
        BY <3>1, <1>b, TailOf
      <3>. QED
        BY <3>1, <3>2 DEF Reply
    <2>2. events' \in Seq(Event) /\ Len(events') <= EventMax /\ lost' \in BOOLEAN
      <3>1. \/ Emit(<<Told("volume", v)>>)
            \/ Emit(<<Told("volume", v), Told("volume", v)>>)
        BY <1>4 DEF Settings
      <3>2. /\ <<Told("volume", v)>> # <<>>
            /\ <<Told("volume", v), Told("volume", v)>> # <<>>
        OBVIOUS
      <3>. HIDE DEF v
      <3>. QED
        BY <3>1, <3>2, <2>1, <1>b, Lists, Emitted
    <2>3. /\ UNCHANGED <<start, attempts, wait, reason, stopping, volume_state, alsa, server, conn,
                         crashes, volumes>>
          /\ pc' = "receiving" /\ server_settings' = v /\ replies' = Tail(replies)
      BY <1>4 DEF Settings
    <2>. HIDE DEF v
    <2>. QED
      BY <2>1, <2>2, <2>3 DEF TypeOK, Event
  <1>5. CASE Rejected
    <2>1. replies # <<>> /\ Head(replies).type = "error"
      BY <1>5 DEF Rejected, Reads
    <2>2. Head(replies) \in Reply
      BY <2>1, <1>b, TailOf
    <2>3. Head(replies).code \in {"401", "403"}
      BY <2>1, <2>2 DEF Reply
    <2>. QED
      BY <1>5, <2>3, FailType DEF Rejected
  <1>6. CASE ReadFails
    BY <1>6, FailType DEF ReadFails
  <1>7. CASE TimesOut
    BY <1>7, FailType DEF TimesOut
  <1>8. CASE ApplyEvent
    <2>1. events # <<>> /\ events' = Tail(events)
      BY <1>8 DEF ApplyEvent
    <2>2. /\ events' \in Seq(Event) /\ Len(events') <= EventMax
          /\ Head(events) \in Event
      BY <2>1, <1>a, <1>b, TailOf
    <2>3. volume_state' \in [percent: 0 .. 255, muted: BOOLEAN] /\ alsa' \in 0 .. 255
      <3>1. CASE Head(events).type # "volume"
        BY <3>1, <1>8 DEF ApplyEvent, TypeOK
      <3>2. CASE Head(events).type = "volume"
        <4>1. Head(events) \in [type: {"volume"}, volume: Volume]
          BY <3>2, <2>2 DEF Event, Told
        <4>. DEFINE w == Head(events).volume
        <4>2. w \in Volume
          BY <4>1
        <4>. DEFINE byte == w.percent % 256
        <4>3. byte \in 0 .. 255 /\ w.muted \in BOOLEAN
          BY <4>2, Volumes
        <4>4. volume_state \in [percent: 0 .. 255, muted: BOOLEAN] /\ alsa \in 0 .. 255
          BY DEF TypeOK
        <4>5. volume_state' = IF Mode = "software"
                              THEN [percent |-> byte, muted |-> w.muted] ELSE volume_state
          BY <3>2, <1>8 DEF ApplyEvent
        <4>6. alsa' = IF Mode = "hardware" THEN (IF w.muted THEN 0 ELSE byte) ELSE alsa
          BY <3>2, <1>8 DEF ApplyEvent
        <4>. HIDE DEF byte, w
        <4>7. alsa' = 0 \/ alsa' = byte \/ alsa' = alsa
          BY <4>6, Zenon
        <4>8. alsa' \in 0 .. 255
          BY <4>3, <4>4, <4>7
        <4>9. [percent |-> byte, muted |-> w.muted] \in [percent: 0 .. 255, muted: BOOLEAN]
          BY <4>3
        <4>. QED
          BY <4>4, <4>5, <4>8, <4>9, Zenon
      <3>. QED
        BY <3>1, <3>2
    <2>. QED
      BY <1>8, <2>2, <2>3 DEF ApplyEvent, TypeOK, clientVars, Event
  <1>9. CASE CtrlC
    BY <1>9 DEF CtrlC, TypeOK, mixerVars
  <1>10. CASE Exit
    <2>1. conn' \in [end: {"none", "asked", "admitted", "closed", "silent"}, access: Access]
      BY <1>10 DEF Exit, TypeOK
    <2>. QED
      BY <2>1, <1>10, Lists DEF Exit, TypeOK, mixerVars, clientVars
  <1>11. CASE Examine
    <2>1. conn' \in [end: {"none", "asked", "admitted", "closed", "silent"}, access: Access]
      BY <1>11 DEF Examine, TypeOK
    <2>2. replies' \in Seq(Reply)
      <3>. DEFINE code == IF conn.access.users = None THEN "ok" ELSE ValidateAuth(conn.access, Hello)
      <3>1. code \in {"ok", "401", "403"}
        BY DEF ValidateAuth, Validate
      <3>2. server.volume \in Volume
        BY DEF TypeOK
      <3>3. \/ replies' = replies
            \/ replies' = Append(replies, [type |-> "error", code |-> code]) /\ code # "ok"
            \/ replies' = Append(replies, [type |-> "settings", volume |-> server.volume])
        BY <1>11 DEF Examine
      <3>. HIDE DEF code
      <3>4. /\ code # "ok" => [type |-> "error", code |-> code] \in Reply
            /\ [type |-> "settings", volume |-> server.volume] \in Reply
        BY <3>1, <3>2 DEF Reply
      <3>. QED
        BY <3>3, <3>4, <1>b, AppendOf, SMTT(60)
    <2>. QED
      BY <2>1, <2>2, <1>11 DEF Examine, TypeOK, mixerVars, clientVars
  <1>12. CASE Crash
    <2>1. conn' \in [end: {"none", "asked", "admitted", "closed", "silent"}, access: Access]
      BY <1>12 DEF Crash, TypeOK
    <2>2. replies' \in Seq(Reply)
      BY <1>12, <1>b, Lists DEF Crash
    <2>3. server' \in [up: BOOLEAN, access: Access, volume: Volume]
      BY <1>12 DEF Crash, TypeOK
    <2>4. crashes' \in 0 .. MaxCrashes
      <3>1. crashes \in 0 .. MaxCrashes /\ crashes < MaxCrashes /\ crashes' = crashes + 1
        BY <1>12 DEF Crash, TypeOK
      <3>. QED
        BY <3>1, <1>a
    <2>. QED
      BY <2>1, <2>2, <2>3, <2>4, <1>12 DEF Crash, TypeOK, mixerVars, clientVars
  <1>13. ASSUME NEW v \in Volume, SetVolume(v) PROVE TypeOK'
    <2>1. server' \in [up: BOOLEAN, access: Access, volume: Volume]
      BY <1>13 DEF SetVolume, TypeOK
    <2>3. volumes' \in 0 .. MaxVolumes
      <3>1. volumes \in 0 .. MaxVolumes /\ volumes < MaxVolumes /\ volumes' = volumes + 1
        BY <1>13 DEF SetVolume, TypeOK
      <3>. QED
        BY <3>1, <1>a
    <2>2. replies' \in Seq(Reply)
      <3>1. [type |-> "settings", volume |-> v] \in Reply
        BY DEF Reply
      <3>. QED
        BY <1>13, <3>1, <1>b, AppendOf DEF SetVolume
    <2>. QED
      BY <2>1, <2>2, <2>3, <1>13 DEF SetVolume, TypeOK, mixerVars, clientVars
  <1>14. ASSUME NEW access \in Access, Restart(access) PROVE TypeOK'
    <2>1. server' \in [up: BOOLEAN, access: Access, volume: Volume]
      BY <1>14 DEF Restart, TypeOK
    <2>. QED
      BY <2>1, <1>14 DEF Restart, TypeOK, mixerVars, clientVars
  <1>15. CASE UNCHANGED vars
    BY <1>15 DEF vars, mixerVars, clientVars, TypeOK
  <1>. QED
    BY <1>1, <1>2, <1>3, <1>4, <1>5, <1>6, <1>7, <1>8, <1>9, <1>10, <1>11, <1>12, <1>13, <1>14,
       <1>15 DEF Next, ClientStep

\* The client process keeps its types for any bounds: its delay never exceeds the
\* longest (Controller::run), and what reaches the mixer is a byte.
THEOREM ProcessTypeCorrect == Spec => []TypeOK
  BY TypeInit, TypeStep, PTL DEF Spec

-----------------------------------------------------------------------------
(* The door.                                                                   *)

\* What the program's types say of a configuration, and the duplicates that its
\* owner would not write: every name is there once.
Distinct(list) ==
    /\ DOMAIN list \subseteq Nat
    /\ \A i, j \in DOMAIN list : list[i].name = list[j].name => i = j

WellConfigured ==
    /\ \A a \in Access : Distinct(a.roles) /\ (a.users # None => Distinct(a.users))
    /\ \A s \in Start : s.login = None \/ s.login = [user     |-> s.login.user,
                                                     password |-> s.login.password]
    /\ \A x, y : /\ None # [user |-> x, password |-> y]
                 /\ None # [scheme |-> x, param |-> y]

LEMMA OnlyNamed ==
    ASSUME NEW list, Distinct(list), NEW i \in DOMAIN list
    PROVE  LastNamed(list, list[i].name) = list[i]
  <1>1. \A k \in DOMAIN list :
            (/\ list[k].name = list[i].name
             /\ \A j \in DOMAIN list : list[j].name = list[i].name => j <= k) <=> k = i
    BY DEF Distinct
  <1>. QED
    BY <1>1 DEF LastNamed

\* The filter, the names, the passwords and the roles say together what Entitled
\* says, and whoever is not let in is told so with one of two codes.
LEMMA Door ==
    ASSUME WellConfigured, start \in Start, NEW access \in Access
    PROVE  Entitled(access) <=> /\ ~Filtered(access, Hello)
                                /\ access.users = None \/ ValidateAuth(access, Hello) = "ok"
  <1>1. Filtered(access, Hello) <=> ~(access.macs = None \/ Mac \in access.macs)
    BY DEF Filtered, Hello
  <1>2. CASE access.users = None
    BY <1>1, <1>2 DEF Entitled
  <1>3. CASE access.users # None /\ start.login = None
    <2>1. ValidateAuth(access, Hello) = "401"
      BY <1>3 DEF ValidateAuth, Hello, Auth
    <2>2. ~Entitled(access)
      BY <1>3 DEF Entitled, WellConfigured
    <2>. QED
      BY <1>3, <2>1, <2>2
  <1>4. CASE access.users # None /\ start.login # None
    <2>. DEFINE login == start.login
                users == access.users
                roles == access.roles
                user  == LastNamed(users, login.user)
    <2>1. /\ login = [user |-> login.user, password |-> login.password]
          /\ Distinct(users) /\ Distinct(roles)
      BY <1>4 DEF WellConfigured
    <2>2. Hello.auth = [scheme |-> "Basic", param |-> login] /\ Hello.auth # None
      BY <1>4 DEF Hello, Auth, WellConfigured
    <2>3. ValidateAuth(access, Hello) = "ok" <=>
            /\ login.user \in Names(users) /\ user.password = login.password
            /\ "Streaming" \in Permissions(access, user)
      BY <2>2 DEF ValidateAuth, Validate
    <2>4. "Streaming" \in Permissions(access, user) <=>
            \E j \in DOMAIN roles : roles[j].name = user.role /\ "Streaming" \in roles[j].permissions
      BY <2>1, OnlyNamed DEF Permissions, Names
    <2>5. \A i \in DOMAIN users : users[i].name = login.user => user = users[i]
      BY <2>1, OnlyNamed
    <2>6. \A i \in DOMAIN users :
            login = [user |-> users[i].name, password |-> users[i].password]
              <=> login.user = users[i].name /\ login.password = users[i].password
      BY <2>1
    <2>7. (\E i \in DOMAIN users, j \in DOMAIN roles :
                /\ login = [user |-> users[i].name, password |-> users[i].password]
                /\ roles[j].name = users[i].role /\ "Streaming" \in roles[j].permissions)
          <=> ValidateAuth(access, Hello) = "ok"
      <3>. HIDE DEF login, users, roles, user
      <3>. QED
        BY <2>3, <2>4, <2>5, <2>6 DEF Names
    <2>8. Entitled(access) <=> /\ access.macs = None \/ Mac \in access.macs
                               /\ ValidateAuth(access, Hello) = "ok"
      BY <2>7, <1>4 DEF Entitled
    <2>. QED
      BY <1>1, <1>4, <2>8
  <1>. QED
    BY <1>2, <1>3, <1>4

\* What was said, and who is served, agrees with the configuration by which the
\* client was examined.
Judged ==
    /\ conn.end = "admitted" => Entitled(conn.access)
    /\ \A i \in DOMAIN replies :
        IF replies[i].type = "settings" THEN Entitled(conn.access) ELSE ~Entitled(conn.access)

Just == Judged /\ JustlyTreated

\* Whom a configuration lets in does not change while the client runs.
LEMMA SameAccess ==
    ASSUME start' = start, conn'.access = conn.access
    PROVE  Entitled(conn.access)' <=> Entitled(conn.access)
  BY DEF Entitled

\* A client that failed has nobody to talk to, and knows why.
LEMMA FailJust ==
    ASSUME TypeOK, Just, NEW why, Fail(why), why \in {"401", "403"} => ~Entitled(conn.access)
    PROVE  Just'
  <1>1. /\ conn'.access = conn.access /\ conn'.end = "none" /\ start' = start
        /\ replies' = <<>> /\ pc' = "waiting" /\ reason' = why
    BY DEF Fail, TypeOK
  <1>. QED
    BY <1>1, SameAccess DEF Just, Judged, JustlyTreated

LEMMA JustStep ==
    ASSUME WellConfigured, TypeOK, Just, [Next]_vars
    PROVE  Just'
  <1>0. /\ replies \in Seq(Reply) /\ start \in Start /\ conn.access \in Access
        /\ \A r \in Reply : r.type \in {"settings", "error"}
    BY DEF TypeOK, Reply
  <1>1. CASE Connect
    <2>1. pc' = "hello" /\ reason' = None /\ replies' = <<>> /\ conn'.end = "asked"
      BY <1>1 DEF Connect
    <2>2. reason' \notin {"401", "403"}
      BY <2>1, ProcessAssumption
    <2>. QED
      BY <2>1, <2>2 DEF Just, Judged, JustlyTreated
  <1>2. CASE ConnectFails
    BY <1>2, FailJust DEF ConnectFails
  <1>3. CASE Second
    <2>1. UNCHANGED <<start, conn, replies, reason>> /\ pc' # "receiving"
      BY <1>3 DEF Second
    <2>. QED
      BY <2>1, SameAccess DEF Just, Judged, JustlyTreated
  <1>4. CASE Settings
    <2>1. /\ UNCHANGED <<start, conn, reason>> /\ replies' = Tail(replies)
          /\ replies # <<>> /\ Head(replies).type = "settings"
      BY <1>4 DEF Settings, Reads
    <2>2. /\ Head(replies) = replies[1] /\ 1 \in DOMAIN replies
          /\ \A i \in DOMAIN Tail(replies) : /\ i + 1 \in DOMAIN replies
                                            /\ Tail(replies)[i] = replies[i + 1]
      BY <2>1, <1>0
    <2>3. Entitled(conn.access)
      BY <2>1, <2>2 DEF Just, Judged
    <2>4. \A i \in DOMAIN replies' : replies'[i].type = "settings"
      BY <2>1, <2>2, <2>3 DEF Just, Judged
    <2>. QED
      BY <2>1, <2>3, <2>4, SameAccess DEF Just, Judged, JustlyTreated
  <1>5. CASE Rejected
    <2>1. replies # <<>> /\ Head(replies).type = "error" /\ Fail(Head(replies).code)
      BY <1>5 DEF Rejected, Reads
    <2>2. Head(replies) = replies[1] /\ 1 \in DOMAIN replies
      BY <2>1, <1>0
    <2>3. ~Entitled(conn.access)
      BY <2>1, <2>2 DEF Just, Judged
    <2>. QED
      BY <2>1, <2>3, FailJust
  <1>6. CASE ReadFails
    BY <1>6, FailJust DEF ReadFails
  <1>7. CASE TimesOut
    BY <1>7, FailJust DEF TimesOut
  <1>8. CASE ApplyEvent \/ CtrlC \/ (\E access \in Access : Restart(access)) \/ UNCHANGED vars
    <2>1. UNCHANGED <<start, conn, replies, reason, pc>>
      BY <1>8 DEF ApplyEvent, CtrlC, Restart, vars, clientVars
    <2>. QED
      BY <2>1, SameAccess DEF Just, Judged, JustlyTreated
  <1>9. CASE Exit
    <2>1. /\ UNCHANGED <<start, reason>> /\ replies' = <<>> /\ pc' = "exited"
          /\ conn'.end = "none" /\ conn'.access = conn.access
      BY <1>9 DEF Exit, clientVars, TypeOK
    <2>. QED
      BY <2>1, SameAccess DEF Just, Judged, JustlyTreated
  <1>10. CASE Examine
    <2>1. UNCHANGED <<start, reason, pc>> /\ conn'.access = conn.access
      BY <1>10 DEF Examine, clientVars, TypeOK
    <2>2. CASE Entitled(conn.access)
      <3>1. conn'.end = "admitted"
            /\ replies' = Append(replies, [type |-> "settings", volume |-> server.volume])
        BY <2>2, <1>10, <1>0, Door DEF Examine, TypeOK
      <3>2. [type |-> "settings", volume |-> server.volume] \in Reply
        BY DEF Reply, TypeOK
      <3>3. \A i \in DOMAIN replies' : replies'[i].type = "settings"
        BY <3>1, <3>2, <1>0, <2>2 DEF Just, Judged
      <3>. QED
        BY <2>1, <2>2, <3>1, <3>3, SameAccess DEF Just, Judged, JustlyTreated
    <2>3. CASE ~Entitled(conn.access)
      <3>. DEFINE code == ValidateAuth(conn.access, Hello)
                  refusal == [type |-> "error", code |-> code]
      <3>0. ~Filtered(conn.access, Hello) => code # "ok"
        BY <2>3, <1>0, Door
      <3>1. /\ conn'.end = "closed"
            /\ replies' = IF Filtered(conn.access, Hello) THEN replies ELSE Append(replies, refusal)
        BY <2>3, <1>10, <1>0, Door DEF Examine, TypeOK
      <3>2. code \in {"ok", "401", "403"} /\ (replies' # replies => code # "ok")
        <4>1. code \in {"ok", "401", "403"}
          BY DEF ValidateAuth, Validate
        <4>. QED
          BY <3>0, <3>1, <4>1, Zenon
      <3>3. replies' # replies => refusal \in Reply
        BY <3>2 DEF Reply
      <3>4. refusal.type = "error"
        OBVIOUS
      <3>5. \A i \in DOMAIN replies : replies[i].type # "settings"
        BY <2>3 DEF Just, Judged
      <3>. HIDE DEF refusal, code
      <3>6. \A i \in DOMAIN replies' : replies'[i].type # "settings"
        <4>1. CASE replies' = replies
          BY <4>1, <3>5
        <4>2. CASE replies' = Append(replies, refusal) /\ refusal \in Reply
          BY <4>2, <3>4, <3>5, <1>0
        <4>. QED
          BY <3>1, <3>3, <4>1, <4>2
      <3>. QED
        BY <2>1, <2>3, <3>1, <3>6, SameAccess DEF Just, Judged, JustlyTreated
    <2>. QED
      BY <2>2, <2>3
  <1>11. CASE Crash
    <2>1. /\ UNCHANGED <<start, reason, pc>> /\ conn'.access = conn.access
          /\ conn'.end = "admitted" => conn.end = "admitted"
          /\ replies' = replies \/ replies' = <<>>
      BY <1>11 DEF Crash, clientVars, TypeOK
    <2>. QED
      BY <2>1, SameAccess DEF Just, Judged, JustlyTreated
  <1>12. ASSUME NEW v \in Volume, SetVolume(v) PROVE Just'
    <2>1. /\ UNCHANGED <<start, reason, pc, conn>>
          /\ \/ replies' = replies
             \/ /\ conn.end = "admitted"
                /\ replies' = Append(replies, [type |-> "settings", volume |-> v])
      BY <1>12 DEF SetVolume, clientVars
    <2>2. CASE replies' = replies
      BY <2>1, <2>2, SameAccess DEF Just, Judged, JustlyTreated
    <2>3. CASE replies' = Append(replies, [type |-> "settings", volume |-> v]) /\ conn.end = "admitted"
      <3>1. Entitled(conn.access)
        BY <2>3 DEF Just, Judged
      <3>2. [type |-> "settings", volume |-> v] \in Reply
        BY DEF Reply
      <3>3. \A i \in DOMAIN replies' : replies'[i].type = "settings"
        BY <2>3, <3>1, <3>2, <1>0 DEF Just, Judged
      <3>. QED
        BY <2>1, <3>1, <3>3, SameAccess DEF Just, Judged, JustlyTreated
    <2>. QED
      BY <2>1, <2>2, <2>3
  <1>. QED
    BY <1>1, <1>2, <1>3, <1>4, <1>5, <1>6, <1>7, <1>8, <1>9, <1>10, <1>11, <1>12
       DEF Next, ClientStep

\* For any configurations in which no name is written twice, a client plays only
\* from a server that lets it in, and is refused only by one that does not
\* (handle_client, StaticAuthValidator, send_hello).
THEOREM ProcessJustlyTreated == ASSUME WellConfigured PROVE Spec => []JustlyTreated
  <1>1. Init => Just
    <2>. SUFFICES ASSUME Init PROVE Just
      OBVIOUS
    <2>1. reason \notin {"401", "403"}
      BY ProcessAssumption DEF Init
    <2>2. conn.end = "none" /\ replies = <<>> /\ pc # "receiving"
      BY DEF Init
    <2>. QED
      BY <2>1, <2>2 DEF Just, Judged, JustlyTreated
  <1>2. TypeOK /\ Just /\ [Next]_vars => Just'
    BY JustStep
  <1>3. Just => JustlyTreated
    BY DEF Just
  <1>. QED
    BY <1>1, <1>2, <1>3, ProcessTypeCorrect, PTL DEF Spec

-----------------------------------------------------------------------------
(* The mixer.                                                                  *)

\* A percentage is one (the protocol's sixteen bits would hold more).
Percentages == \A v \in Volume : v.percent <= 255

\* Where the server's volume is on its way to the mixer: in the last reply, then in
\* server_settings and the last event, and then in the mixer.
Connected == conn.end # "none" => pc \in {"hello", "receiving"}

LastReply ==
    conn.end = "admitted" =>
        IF replies = <<>> THEN pc = "receiving" /\ server_settings = server.volume
        ELSE replies[Len(replies)] = [type |-> "settings", volume |-> server.volume]

LastEvent ==
    pc = "receiving" /\ ~lost =>
        IF events = <<>>
        THEN Mode # "none" => Loudness(volume_state) * alsa = 100 * Loudness(server_settings)
        ELSE events[Len(events)] = Told("volume", server_settings)

Untouched ==
    /\ Mode = "software" => alsa = 100
    /\ Mode = "hardware" => volume_state = [percent |-> 100, muted |-> FALSE]

MixInv == Connected /\ LastReply /\ LastEvent /\ Untouched

LEMMA OneReply ==
    ASSUME TypeOK, conn.end = "admitted", NEW v \in Volume,
           server'.volume = v, replies' = Append(replies, [type |-> "settings", volume |-> v])
    PROVE  LastReply'
  <1>1. [type |-> "settings", volume |-> v] \in Reply /\ replies \in Seq(Reply)
    BY DEF Reply, TypeOK
  <1>2. replies' # <<>> /\ replies'[Len(replies')] = [type |-> "settings", volume |-> v]
    BY <1>1, AppendOf
  <1>. QED
    BY <1>2 DEF LastReply

LEMMA FailMix ==
    ASSUME TypeOK, MixInv, NEW why, Fail(why)
    PROVE  MixInv'
  <1>1. /\ conn'.end = "none" /\ pc' = "waiting"
        /\ UNCHANGED <<start, volume_state, alsa>>
    BY DEF Fail, TypeOK
  <1>. QED
    BY <1>1 DEF MixInv, Connected, LastReply, LastEvent, Untouched, Mode

\* What the mixer makes of the last event is what was told by it.
LEMMA Applied ==
    ASSUME Percentages, TypeOK, Untouched, ApplyEvent, NEW v \in Volume,
           Head(events) = Told("volume", v)
    PROVE  /\ Mode # "none" => Loudness(volume_state') * alsa' = 100 * Loudness(v)
           /\ Untouched'
  <1>1. /\ v.percent \in 0 .. 255 /\ v.muted \in BOOLEAN
        /\ \A n \in 0 .. 255 : n % 256 = n
    BY ProcessAssumption DEF Percentages
  <1>2. Head(events).type = "volume" /\ Head(events).volume = v
    BY DEF Told
  <1>3. /\ volume_state' = IF Mode = "software"
                           THEN [percent |-> v.percent, muted |-> v.muted] ELSE volume_state
        /\ alsa' = IF Mode = "hardware" THEN (IF v.muted THEN 0 ELSE v.percent) ELSE alsa
        /\ start' = start
    <2>1. v.percent % 256 = v.percent
      BY <1>1
    <2>. QED
      BY <1>2, <2>1 DEF ApplyEvent, clientVars
  <1>4. Mode' = Mode /\ Mode \in {"software", "hardware", "none"}
    <2>1. start.mixer \in Modes
      BY ProcessAssumption DEF TypeOK
    <2>. QED
      BY <1>3, <2>1 DEF Mode, Modes
  <1>5. CASE Mode = "software"
    <2>1. volume_state' = [percent |-> v.percent, muted |-> v.muted] /\ alsa' = 100
      BY <1>3, <1>5 DEF Untouched
    <2>2. Loudness(volume_state') = Loudness(v) /\ Loudness(v) \in Nat
      BY <2>1, <1>1 DEF Loudness
    <2>. QED
      BY <1>4, <1>5, <2>1, <2>2 DEF Untouched
  <1>6. CASE Mode = "hardware"
    <2>1. volume_state' = [percent |-> 100, muted |-> FALSE] /\ alsa' = Loudness(v)
      BY <1>3, <1>6 DEF Untouched, Loudness
    <2>2. Loudness(volume_state') = 100 /\ Loudness(v) \in Nat
      BY <2>1, <1>1 DEF Loudness
    <2>. QED
      BY <1>4, <1>6, <2>1, <2>2 DEF Untouched
  <1>7. CASE Mode = "none"
    BY <1>4, <1>7 DEF Untouched
  <1>. QED
    BY <1>4, <1>5, <1>6, <1>7

LEMMA MixStep ==
    ASSUME Percentages, TypeOK, MixInv, [Next]_vars
    PROVE  MixInv'
  <1>0. /\ replies \in Seq(Reply) /\ events \in Seq(Event) /\ lost \in BOOLEAN
        /\ server.volume \in Volume
    BY DEF TypeOK, Event
  <1>1. CASE Connect
    <2>1. /\ pc' = "hello" /\ conn'.end = "asked"
          /\ UNCHANGED <<start, volume_state, alsa>>
      BY <1>1 DEF Connect
    <2>. QED
      BY <2>1 DEF MixInv, Connected, LastReply, LastEvent, Untouched, Mode
  <1>2. CASE ConnectFails
    BY <1>2, FailMix DEF ConnectFails
  <1>3. CASE Second
    <2>1. /\ pc \notin {"hello", "receiving"} /\ pc' \notin {"hello", "receiving"}
          /\ UNCHANGED <<start, conn, volume_state, alsa>>
      BY <1>3 DEF Second, mixerVars
    <2>. QED
      BY <2>1 DEF MixInv, Connected, LastReply, LastEvent, Untouched, Mode
  <1>4. CASE Settings
    <2>. DEFINE v == Head(replies).volume
    <2>1. /\ replies # <<>> /\ Head(replies) = [type |-> "settings", volume |-> v]
          /\ v \in Volume
      <3>1. replies # <<>> /\ Head(replies).type = "settings"
        BY <1>4 DEF Settings, Reads
      <3>2. Head(replies) \in Reply
        BY <3>1, <1>0, TailOf
      <3>. QED
        BY <3>1, <3>2 DEF Reply
    <2>2. /\ UNCHANGED <<start, volume_state, alsa, server, conn>>
          /\ pc' = "receiving" /\ server_settings' = v /\ replies' = Tail(replies)
      BY <1>4 DEF Settings
    <2>3. ~lost' => events' # <<>> /\ events'[Len(events')] = Told("volume", v)
      <3>1. \/ Emit(<<Told("volume", v)>>)
            \/ Emit(<<Told("volume", v), Told("volume", v)>>)
        BY <1>4 DEF Settings
      <3>2. /\ <<Told("volume", v)>> # <<>>
            /\ <<Told("volume", v), Told("volume", v)>> # <<>>
            /\ Told("volume", v).type = "volume"
        BY DEF Told
      <3>3. /\ <<Told("volume", v)>>[Len(<<Told("volume", v)>>)] = Told("volume", v)
            /\ <<Told("volume", v), Told("volume", v)>>[Len(<<Told("volume", v), Told("volume", v)>>)]
                 = Told("volume", v)
        OBVIOUS
      <3>. HIDE DEF v
      <3>. QED
        BY <3>1, <3>2, <3>3, <2>1, <1>0, Lists, Emitted
    <2>. HIDE DEF v
    <2>4. LastReply'
      <3>1. SUFFICES ASSUME conn.end = "admitted"
                     PROVE  IF Tail(replies) = <<>> THEN v = server.volume
                            ELSE Tail(replies)[Len(Tail(replies))]
                                   = [type |-> "settings", volume |-> server.volume]
        BY <2>2 DEF LastReply
      <3>2. replies[Len(replies)] = [type |-> "settings", volume |-> server.volume]
        BY <2>1, <3>1 DEF MixInv, LastReply
      <3>3. CASE Tail(replies) = <<>>
        <4>1. Head(replies) = replies[Len(replies)]
          BY <2>1, <3>3, <1>0, LastOf
        <4>2. [type |-> "settings", volume |-> server.volume].volume
                = [type |-> "settings", volume |-> v].volume
          BY <4>1, <3>2, <2>1
        <4>. QED
          BY <4>2, <3>3
      <3>4. CASE Tail(replies) # <<>>
        BY <2>1, <3>2, <3>4, <1>0, LastOf
      <3>. QED
        BY <3>3, <3>4
    <2>5. Connected' /\ LastEvent' /\ Untouched'
      BY <2>2, <2>3 DEF MixInv, Connected, LastEvent, Untouched, Mode
    <2>. QED
      BY <2>4, <2>5 DEF MixInv
  <1>5. CASE Rejected
    BY <1>5, FailMix DEF Rejected
  <1>6. CASE ReadFails
    BY <1>6, FailMix DEF ReadFails
  <1>7. CASE TimesOut
    BY <1>7, FailMix DEF TimesOut
  <1>8. CASE ApplyEvent
    <2>1. /\ events # <<>> /\ events' = Tail(events)
          /\ UNCHANGED <<start, pc, server_settings, lost, server, conn, replies>>
      BY <1>8 DEF ApplyEvent, clientVars
    <2>2. CASE Head(events).type # "volume"
      <3>1. UNCHANGED <<volume_state, alsa>>
        BY <2>2, <1>8 DEF ApplyEvent
      <3>2. LastEvent'
        <4>1. SUFFICES ASSUME pc = "receiving", ~lost
                       PROVE  Tail(events) # <<>> /\
                              Tail(events)[Len(Tail(events))] = Told("volume", server_settings)
          BY <2>1 DEF LastEvent
        <4>2. events[Len(events)] = Told("volume", server_settings)
          BY <4>1, <2>1 DEF MixInv, LastEvent
        <4>3. Head(events) # events[Len(events)]
          BY <4>2, <2>2 DEF Told
        <4>. QED
          BY <4>2, <4>3, <2>1, <1>0, LastOf
      <3>. QED
        BY <2>1, <3>1, <3>2 DEF MixInv, Connected, LastReply, Untouched, Mode
    <2>3. CASE Head(events).type = "volume"
      <3>. DEFINE v == Head(events).volume
      <3>1. Head(events) = Told("volume", v) /\ v \in Volume
        <4>1. Head(events) \in Event
          BY <2>1, <1>0, TailOf
        <4>. QED
          BY <4>1, <2>3 DEF Event, Told
      <3>. HIDE DEF v
      <3>2. /\ Mode # "none" => Loudness(volume_state') * alsa' = 100 * Loudness(v)
            /\ Untouched'
        BY <3>1, <1>8, Applied DEF MixInv
      <3>3. LastEvent'
        <4>1. SUFFICES ASSUME pc = "receiving", ~lost
                       PROVE  IF Tail(events) = <<>> THEN v = server_settings
                              ELSE Tail(events)[Len(Tail(events))] = Told("volume", server_settings)
          BY <2>1, <3>2 DEF LastEvent, Mode
        <4>2. events[Len(events)] = Told("volume", server_settings)
          BY <4>1, <2>1 DEF MixInv, LastEvent
        <4>3. CASE Tail(events) = <<>>
          <5>1. Head(events) = events[Len(events)]
            BY <4>3, <2>1, <1>0, LastOf
          <5>. QED
            BY <5>1, <4>2, <4>3, <3>1 DEF Told
        <4>4. CASE Tail(events) # <<>>
          BY <4>2, <4>4, <2>1, <1>0, LastOf
        <4>. QED
          BY <4>3, <4>4
      <3>. QED
        BY <2>1, <3>2, <3>3 DEF MixInv, Connected, LastReply
    <2>. QED
      BY <2>2, <2>3
  <1>9. CASE CtrlC \/ UNCHANGED vars
    <2>1. /\ UNCHANGED <<start, pc, server_settings, events, lost, volume_state, alsa, server,
                         conn, replies>>
      BY <1>9 DEF CtrlC, vars, clientVars, mixerVars
    <2>. QED
      BY <2>1 DEF MixInv, Connected, LastReply, LastEvent, Untouched, Mode
  <1>10. CASE Exit
    <2>1. /\ conn'.end = "none" /\ pc' = "exited"
          /\ UNCHANGED <<start, volume_state, alsa>>
      BY <1>10 DEF Exit, clientVars, mixerVars, TypeOK
    <2>. QED
      BY <2>1 DEF MixInv, Connected, LastReply, LastEvent, Untouched, Mode
  <1>11. CASE Examine
    <2>1. /\ UNCHANGED <<start, pc, server_settings, events, lost, volume_state, alsa, server>>
          /\ conn.end = "asked"
          /\ \/ conn'.end = "closed"
             \/ /\ conn'.end = "admitted"
                /\ replies' = Append(replies, [type |-> "settings", volume |-> server.volume])
      BY <1>11 DEF Examine, clientVars, mixerVars, TypeOK
    <2>2. LastReply'
      <3>1. CASE conn'.end = "closed"
        BY <3>1 DEF LastReply
      <3>2. CASE replies' = Append(replies, [type |-> "settings", volume |-> server.volume])
        <4>1. replies' # <<>> /\ replies'[Len(replies')]
                                   = [type |-> "settings", volume |-> server.volume]
          <5>1. [type |-> "settings", volume |-> server.volume] \in Reply
            BY <1>0 DEF Reply
          <5>. QED
            BY <3>2, <5>1, <1>0, AppendOf
        <4>. QED
          BY <4>1, <2>1 DEF LastReply
      <3>. QED
        BY <2>1, <3>1, <3>2
    <2>. QED
      BY <2>1, <2>2 DEF MixInv, Connected, LastEvent, Untouched, Mode
  <1>12. CASE Crash
    <2>1. /\ UNCHANGED <<start, pc, server_settings, events, lost, volume_state, alsa>>
          /\ conn'.end # "none" => conn.end # "none"
          /\ conn'.end # "admitted"
      BY <1>12 DEF Crash, clientVars, mixerVars, TypeOK
    <2>. QED
      BY <2>1 DEF MixInv, Connected, LastReply, LastEvent, Untouched, Mode
  <1>13. ASSUME NEW v \in Volume, SetVolume(v) PROVE MixInv'
    <2>1. /\ UNCHANGED <<start, pc, server_settings, events, lost, volume_state, alsa, conn>>
          /\ server'.volume = v
          /\ conn.end = "admitted" => replies' = Append(replies, [type |-> "settings", volume |-> v])
      BY <1>13 DEF SetVolume, clientVars, mixerVars, TypeOK
    <2>2. LastReply'
      <3>1. CASE conn.end = "admitted"
        BY <2>1, <3>1, OneReply
      <3>2. CASE conn.end # "admitted"
        BY <2>1, <3>2 DEF LastReply
      <3>. QED
        BY <3>1, <3>2
    <2>. QED
      BY <2>1, <2>2 DEF MixInv, Connected, LastEvent, Untouched, Mode
  <1>14. ASSUME NEW access \in Access, Restart(access) PROVE MixInv'
    <2>1. /\ UNCHANGED <<start, pc, server_settings, events, lost, volume_state, alsa, conn, replies>>
          /\ server'.volume = server.volume
      BY <1>14 DEF Restart, clientVars, mixerVars, TypeOK
    <2>. QED
      BY <2>1 DEF MixInv, Connected, LastReply, LastEvent, Untouched, Mode
  <1>. QED
    BY <1>1, <1>2, <1>3, <1>4, <1>5, <1>6, <1>7, <1>8, <1>9, <1>10, <1>11, <1>12, <1>13, <1>14
       DEF Next, ClientStep

\* For any volumes that fit a byte and any capacity of the event channel, the mixer
\* ends at the volume the server has, unless the event that says so was dropped
\* (send_hello, handle_message, main's event task, Mixer::set_volume).
THEOREM ProcessMixerFollows == ASSUME Percentages PROVE Spec => []MixerFollows
  <1>1. Init => MixInv
    <2>. SUFFICES ASSUME Init PROVE MixInv
      OBVIOUS
    <2>1. conn.end = "none" /\ pc # "receiving"
      BY DEF Init
    <2>. QED
      BY <2>1 DEF Init, MixInv, Connected, LastReply, LastEvent, Untouched
  <1>2. TypeOK /\ MixInv /\ [Next]_vars => MixInv'
    BY MixStep
  <1>3. MixInv => MixerFollows
    BY DEF MixInv, LastReply, LastEvent, MixerFollows
  <1>. QED
    BY <1>1, <1>2, <1>3, ProcessTypeCorrect, PTL DEF Spec
=============================================================================
