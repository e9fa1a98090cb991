------------------------- MODULE ControlPlane_proofs -------------------------
(***************************************************************************)
(* What the control plane keeps true for every set of connections, clients *)
(* and settings, every size of the channels and every bound: its types,    *)
(* the gate of the tokens, that the application saves every setting, that  *)
(* the last word about a setting is what holds, and that all of it is the  *)
(* service of ControlService.                                              *)
(*                                                                         *)
(* The queues are spoken of by the last of their elements of some kind:    *)
(* Absent(q, K) says there is none, LastIn(q, K, G) that it is one of G.   *)
(***************************************************************************)
EXTENDS ControlPlane, SequenceTheorems, FiniteSetTheorems, WellFoundedInduction, TLAPS

-----------------------------------------------------------------------------
(* Sequences, by what their last element of a kind is.                       *)

\* No element of q is in K; the last one that is, is in G.
Absent(q, K) == \A i \in 1 .. Len(q) : q[i] \notin K
LastIn(q, K, G) ==
    \A i \in 1 .. Len(q) : q[i] \in K /\ (\A j \in i + 1 .. Len(q) : q[j] \notin K) => q[i] \in G

LEMMA AppendOf ==
    ASSUME NEW S, NEW q \in Seq(S), NEW e \in S
    PROVE  /\ Append(q, e) \in Seq(S) /\ Len(Append(q, e)) = Len(q) + 1
           /\ Append(q, e)[Len(q) + 1] = e /\ Len(q) \in Nat
           /\ \A i \in 1 .. Len(q) : Append(q, e)[i] = q[i]
  OBVIOUS

LEMMA TailOf ==
    ASSUME NEW S, NEW q \in Seq(S), q # <<>>
    PROVE  /\ Head(q) \in S /\ Tail(q) \in Seq(S) /\ Head(q) = q[1]
           /\ Len(q) \in Nat \ {0} /\ Len(Tail(q)) = Len(q) - 1
           /\ \A i \in 1 .. Len(q) - 1 : Tail(q)[i] = q[i + 1]
  OBVIOUS

LEMMA AppendLast ==
    ASSUME NEW S, NEW q \in Seq(S), NEW e \in S, NEW K, NEW G
    PROVE  /\ Absent(Append(q, e), K) <=> Absent(q, K) /\ e \notin K
           /\ e \in K => (LastIn(Append(q, e), K, G) <=> e \in G)
           /\ e \notin K => (LastIn(Append(q, e), K, G) <=> LastIn(q, K, G))
  <1>. DEFINE a == Append(q, e)
  <1>1. /\ Len(a) = Len(q) + 1 /\ Len(q) \in Nat /\ a[Len(q) + 1] = e
        /\ \A i \in 1 .. Len(q) : a[i] = q[i]
    BY AppendOf
  <1>. HIDE DEF a
  <1>2. Absent(a, K) <=> Absent(q, K) /\ e \notin K
    BY <1>1 DEF Absent
  <1>3. ASSUME e \in K PROVE LastIn(a, K, G) <=> e \in G
    BY <1>1, <1>3 DEF LastIn
  <1>4. ASSUME e \notin K PROVE LastIn(a, K, G) <=> LastIn(q, K, G)
    <2>1. ASSUME LastIn(q, K, G), NEW i \in 1 .. Len(a), a[i] \in K,
                 \A j \in i + 1 .. Len(a) : a[j] \notin K
          PROVE  a[i] \in G
      <3>1. i \in 1 .. Len(q)
        BY <1>1, <1>4, <2>1
      <3>2. \A j \in i + 1 .. Len(q) : q[j] \notin K
        BY <1>1, <2>1, <3>1
      <3>. QED
        BY <1>1, <2>1, <3>1, <3>2 DEF LastIn
    <2>2. ASSUME LastIn(a, K, G), NEW i \in 1 .. Len(q), q[i] \in K,
                 \A j \in i + 1 .. Len(q) : q[j] \notin K
          PROVE  q[i] \in G
      <3>1. ASSUME NEW j \in i + 1 .. Len(a) PROVE a[j] \notin K
        BY <1>1, <1>4, <2>2, <3>1
      <3>. QED
        BY <1>1, <2>2, <3>1 DEF LastIn
    <2>. QED
      BY <2>1, <2>2 DEF LastIn
  <1>. QED
    BY <1>2, <1>3, <1>4 DEF a

LEMMA TailLast ==
    ASSUME NEW S, NEW q \in Seq(S), q # <<>>, NEW K, NEW G
    PROVE  /\ Absent(q, K) <=> Absent(Tail(q), K) /\ Head(q) \notin K
           /\ Absent(Tail(q), K) /\ Head(q) \in K => (LastIn(q, K, G) <=> Head(q) \in G)
           /\ LastIn(q, K, G) => LastIn(Tail(q), K, G)
  <1>. DEFINE t == Tail(q)
              h == Head(q)
  <1>1. /\ Len(q) \in Nat \ {0} /\ Len(t) = Len(q) - 1 /\ h = q[1]
        /\ \A i \in 1 .. Len(q) - 1 : t[i] = q[i + 1]
    BY TailOf
  <1>. HIDE DEF t, h
  <1>0. \A i \in 2 .. Len(q) : i - 1 \in 1 .. Len(t) /\ q[i] = t[i - 1]
    <2>. SUFFICES ASSUME NEW i \in 2 .. Len(q) PROVE i - 1 \in 1 .. Len(t) /\ q[i] = t[i - 1]
      OBVIOUS
    <2>1. i - 1 \in 1 .. Len(q) - 1 /\ (i - 1) + 1 = i
      BY <1>1
    <2>. QED
      BY <1>1, <2>1
  <1>2. Absent(q, K) <=> Absent(t, K) /\ h \notin K
    <2>1. ASSUME Absent(q, K) PROVE Absent(t, K) /\ h \notin K
      BY <1>1, <2>1 DEF Absent
    <2>2. ASSUME Absent(t, K), h \notin K, NEW i \in 1 .. Len(q) PROVE q[i] \notin K
      <3>1. CASE i = 1
        BY <1>1, <2>2, <3>1
      <3>2. CASE i \in 2 .. Len(q)
        BY <1>0, <2>2, <3>2 DEF Absent
      <3>. QED
        BY <1>1, <3>1, <3>2
    <2>. QED
      BY <2>1, <2>2 DEF Absent
  <1>3. ASSUME Absent(t, K), h \in K PROVE LastIn(q, K, G) <=> h \in G
    <2>1. \A j \in 2 .. Len(q) : q[j] \notin K
      BY <1>0, <1>3 DEF Absent
    <2>2. 1 \in 1 .. Len(q) /\ \A i \in 1 .. Len(q) : i = 1 \/ i \in 2 .. Len(q)
      BY <1>1
    <2>. QED
      BY <1>1, <1>3, <2>1, <2>2 DEF LastIn
  <1>4. ASSUME LastIn(q, K, G), NEW i \in 1 .. Len(t), t[i] \in K,
               \A j \in i + 1 .. Len(t) : t[j] \notin K
        PROVE  t[i] \in G
    <2>1. i + 1 \in 1 .. Len(q) /\ t[i] = q[i + 1]
      BY <1>1
    <2>2. ASSUME NEW j \in (i + 1) + 1 .. Len(q) PROVE q[j] \notin K
      <3>1. j \in 2 .. Len(q) /\ j - 1 \in i + 1 .. Len(t)
        BY <1>1
      <3>. QED
        BY <1>0, <1>4, <3>1
    <2>. QED
      BY <1>4, <2>1, <2>2 DEF LastIn
  <1>. QED
    BY <1>2, <1>3, <1>4 DEF t, h, LastIn

-----------------------------------------------------------------------------
(* Types.                                                                    *)

ChangeEvents == [type: {"changed"}, object: Object, value: Value]
ClientEvents == [type: {"client"}, object: Client]
Updated      == [type |-> "updated"]
Control      == [type |-> "control"]

\* A state in which every setting has a value.
Known        == {f \in State : \A s \in Setting : f[s] # None}
StateEvents  == [type: {"state"}, state: Known]
Events       == ChangeEvents \cup ClientEvents \cup StateEvents \cup {Updated, Control}

\* What a session sends.
Reports == {e \in ChangeEvents : e.object \in Client} \cup ClientEvents

\* A command as it stands in the queue: a change names an object of its kind.
Issued == {d \in Command :
    /\ d.method \in Method \cup {"GetStatus"}
    /\ d.method \in Changes => d.object \in Object /\ (OfClient(d.method) <=> d.object \in Client)
    /\ d.from = Task => d.method = "GetStatus"}

QueuesOK ==
    /\ commands \in Seq(Issued) /\ Len(commands) <= CommandMax
    /\ dispatcher \in {d \in Issued : d.method \in Pushes} \cup {None}
    /\ events \in Seq(Events) /\ Len(events) <= EventMax

SessionsOK ==
    /\ settings \in [Client -> 0 .. SettingsMax]
    /\ session \in [Client -> [pc: {"off", "announcing", "serving", "reporting", "leaving"},
                               event: Reports \cup {None}]]

ValuesOK == value \in Known /\ saved \in Known /\ told \in State

TaskOK == task \in [event: ClientEvents \cup {Updated, None}, asked: BOOLEAN,
                    reply: State \cup {None}]

ConnTypes ==
    conn \in [Conn -> [pc: {"idle", "sending", "asking", "waiting", "responding", "notifying", "gone"},
                       request: Request \cup {None}, authenticated: BOOLEAN,
                       reply: State \cup {None}]]

\* How far a request gets, and what its connection has by then.
ConnOK(c) ==
    LET r  == conn[c].request
        pc == conn[c].pc
    IN  /\ pc \notin {"idle", "gone"} => r \in Requests[c]
        /\ pc \in {"idle", "sending", "asking"} => conn[c].reply = None
        /\ pc = "sending" => r.method \in Sets \cup Quiet \cup Updates \cup {"Stream.AddStream"}
        /\ pc = "asking" => r.method \in Queries \cup Updates
        /\ pc = "waiting" => r.method \in Queries \cup Updates \cup {"Stream.AddStream"}
        /\ pc = "notifying" => Notifies(r)
        /\ pc \in {"sending", "notifying"} => ~ Malformed(r)
        /\ pc \in {"asking", "waiting"} /\ r.method \in Updates => ~ Malformed(r)
        /\ pc = "notifying" /\ r.method \in Updates => conn[c].reply # None
        /\ pc = "responding" /\ Admits(c, r) /\ ~ Malformed(r) /\ r.method \in Updates =>
              conn[c].reply # None

\* A question of a connection stands in the queue once, and its connection waits for the
\* answer to the request it made, unless its user is gone.
Questions(c) == {d \in Issued : d.method \in {"GetStatus", "Stream.AddStream"} /\ d.from = c}

QuestionOK(c) ==
    \/ conn[c].pc = "gone"
    \/ \A i \in 1 .. Len(commands) : commands[i] \in Questions(c) =>
          /\ conn[c].pc = "waiting" /\ conn[c].reply = None
          /\ commands[i].method = "Stream.AddStream" <=> conn[c].request.method = "Stream.AddStream"
          /\ \A j \in 1 .. Len(commands) : commands[j] \in Questions(c) => j = i

ConnInv == ConnTypes /\ \A c \in Conn : ConnOK(c) /\ QuestionOK(c)

Types == QueuesOK /\ SessionsOK /\ ValuesOK /\ TaskOK /\ ConnInv /\ dropped \in BOOLEAN

-----------------------------------------------------------------------------
(* The helpers of the actions.                                               *)

\* A command gives a setting its value and leaves the others alone.
LEMMA EffectOf ==
    ASSUME NEW state \in Known, NEW d \in Issued, d.method \in Changes
    PROVE  /\ Effect(state, d) \in Known
           /\ \A s \in Setting : Effect(state, d)[s] = IF s = d.object THEN d.value ELSE state[s]
  <1>1. /\ state \in [Object -> Value \cup {None}] /\ d.object \in Object /\ d.value \in Value
        /\ d.method = "Server.DeleteClient" => d.object \in Client
    BY DEF Known, State, Issued, Command, OfClient
  <1>2. Client \cap Setting = {} /\ None \notin Value /\ Setting \subseteq Object
    BY ControlAssumption DEF Object
  <1>3. \A s \in Setting : state[s] # None
    BY DEF Known
  <1>4. Effect(state, d) \in State
    BY <1>1 DEF Effect, State
  <1>5. ASSUME NEW s \in Setting
        PROVE  Effect(state, d)[s] = IF s = d.object THEN d.value ELSE state[s]
    <2>1. CASE s = d.object
      BY <1>1, <1>2, <1>3, <2>1 DEF Effect
    <2>2. CASE s # d.object
      BY <1>1, <1>2, <2>2 DEF Effect
    <2>. QED
      BY <2>1, <2>2
  <1>6. \A s \in Setting : Effect(state, d)[s] # None
    BY <1>1, <1>2, <1>3, <1>5
  <1>. QED
    BY <1>4, <1>5, <1>6 DEF Known

LEMMA Joined ==
    ASSUME NEW S, NEW q \in Seq(S)
    PROVE  /\ q \o <<>> = q
           /\ \A e \in S : q \o <<e>> = Append(q, e)
           /\ \A e, f \in S : q \o (<<e>> \o <<f>>) = Append(Append(q, e), f)
  <1>1. q \o <<>> = q /\ \A e \in S : q \o <<e>> = Append(q, e)
    OBVIOUS
  <1>2. ASSUME NEW e \in S, NEW f \in S
        PROVE  q \o (<<e>> \o <<f>>) = Append(Append(q, e), f)
    <2>1. <<e>> \in Seq(S) /\ <<f>> \in Seq(S) /\ Append(q, e) \in Seq(S)
      OBVIOUS
    <2>2. (q \o <<e>>) \o <<f>> = q \o (<<e>> \o <<f>>)
      BY <2>1, ConcatAssociative
    <2>. QED
      BY <1>1, <2>1, <2>2, AppendIsConcat
  <1>. QED
    BY <1>1, <1>2

\* What try_send leaves in the event channel.
LEMMA OfferOf ==
    ASSUME QueuesOK, dropped \in BOOLEAN, NEW list \in Seq(Events), Offer(list)
    PROVE  /\ events' \in Seq(Events) /\ Len(events') <= EventMax
           /\ dropped' \in BOOLEAN
           /\ ~ dropped' => ~ dropped /\ events' = events \o list
  <1>. DEFINE all == events \o list
  <1>1. all \in Seq(Events) /\ Len(all) \in Nat /\ EventMax \in Nat
    BY ControlAssumption DEF QueuesOK
  <1>2. events' = IF Len(all) <= EventMax THEN all ELSE SubSeq(all, 1, EventMax)
    BY DEF Offer
  <1>3. dropped' = (dropped \/ Len(all) > EventMax)
    BY DEF Offer
  <1>. HIDE DEF all
  <1>4. CASE Len(all) <= EventMax
    <2>1. (Len(all) > EventMax) = FALSE
      BY <1>1, <1>4
    <2>. QED
      BY <1>1, <1>2, <1>3, <1>4, <2>1 DEF all
  <1>5. CASE ~ (Len(all) <= EventMax)
    <2>1. events' = SubSeq(all, 1, EventMax) /\ EventMax \in 1 - 1 .. Len(all)
      BY <1>1, <1>2, <1>5
    <2>2. events' \in Seq(Events) /\ Len(events') <= EventMax
      BY <1>1, <2>1
    <2>3. (Len(all) > EventMax) = TRUE
      BY <1>1, <1>5
    <2>. QED
      BY <1>3, <2>2, <2>3
  <1>. QED
    BY <1>4, <1>5

LEMMA FirstSteps ==
    ASSUME NEW c \in Conn, NEW r
    PROVE  /\ FirstStep(c, r) \in {"idle", "sending", "asking", "responding"}
           /\ FirstStep(c, r) \in {"sending", "asking"} => Admits(c, r) /\ ~ Malformed(r)
           /\ FirstStep(c, r) = "sending"
                => r.method \in Sets \cup Quiet \cup Updates \cup {"Stream.AddStream"}
           /\ FirstStep(c, r) = "asking" => r.method \in Queries
           /\ Notifies(r) /\ Admits(c, r) /\ ~ Malformed(r) => FirstStep(c, r) = "sending"
  BY DEF FirstStep, Notifies, Sets, Quiet, Updates, Queries, Tokens

-----------------------------------------------------------------------------
(* Questions and connections.                                                *)

LEMMA ConnSame ==
    ASSUME NEW c \in Conn, ConnOK(c), conn'[c] = conn[c]
    PROVE  ConnOK(c)'
  BY DEF ConnOK, Admits

LEMMA QuestionSame ==
    ASSUME NEW c \in Conn, QuestionOK(c), conn'[c] = conn[c], UNCHANGED commands
    PROVE  QuestionOK(c)'
  BY DEF QuestionOK

LEMMA QuestionTail ==
    ASSUME NEW c \in Conn, QuestionOK(c), conn'[c] = conn[c], QueuesOK,
           commands # <<>>, commands' = Tail(commands)
    PROVE  QuestionOK(c)'
  <1>1. /\ Len(commands) \in Nat \ {0} /\ Len(commands') = Len(commands) - 1
        /\ \A i \in 1 .. Len(commands) - 1 : commands'[i] = commands[i + 1]
    BY TailOf DEF QueuesOK
  <1>2. \A i \in 1 .. Len(commands') :
           i \in Nat /\ i + 1 \in 1 .. Len(commands) /\ commands'[i] = commands[i + 1]
    BY <1>1
  <1>3. \A i, j \in 1 .. Len(commands') : i + 1 = j + 1 => i = j
    BY <1>1
  <1>. QED
    BY <1>2, <1>3 DEF QuestionOK

LEMMA QuestionAppend ==
    ASSUME NEW c \in Conn, QuestionOK(c), conn'[c] = conn[c], QueuesOK,
           NEW d \in Issued, d \notin Questions(c), commands' = Append(commands, d)
    PROVE  QuestionOK(c)'
  <1>1. /\ Len(commands) \in Nat /\ Len(commands') = Len(commands) + 1
        /\ commands'[Len(commands) + 1] = d
        /\ \A i \in 1 .. Len(commands) : commands'[i] = commands[i]
    BY AppendOf DEF QueuesOK
  <1>2. \A i \in 1 .. Len(commands') : commands'[i] \in Questions(c) =>
           i \in 1 .. Len(commands) /\ commands'[i] = commands[i]
    BY <1>1
  <1>. QED
    BY <1>2 DEF QuestionOK

\* A connection that does not wait has no question in the queue.
LEMMA NoQuestion ==
    ASSUME NEW c \in Conn, QuestionOK(c), conn[c].pc \notin {"waiting", "gone"}
    PROVE  Absent(commands, Questions(c))
  BY DEF QuestionOK, Absent

LEMMA QuestionAbsent ==
    ASSUME NEW c \in Conn, Absent(commands, Questions(c))'
    PROVE  QuestionOK(c)'
  BY DEF QuestionOK, Absent

\* The question at the head of the queue is the only one of its connection.
LEMMA QuestionHead ==
    ASSUME NEW c \in Conn, QuestionOK(c), conn[c].pc = "waiting", QueuesOK,
           commands # <<>>, Head(commands) \in Questions(c)
    PROVE  /\ conn[c].reply = None
           /\ Head(commands).method = "Stream.AddStream" <=>
                conn[c].request.method = "Stream.AddStream"
           /\ Absent(Tail(commands), Questions(c))
  <1>1. /\ Len(commands) \in Nat \ {0} /\ Len(Tail(commands)) = Len(commands) - 1
        /\ Head(commands) = commands[1]
        /\ \A i \in 1 .. Len(commands) - 1 : Tail(commands)[i] = commands[i + 1]
    BY TailOf DEF QueuesOK
  <1>2. 1 \in 1 .. Len(commands)
    BY <1>1
  <1>3. ASSUME NEW i \in 1 .. Len(Tail(commands)) PROVE Tail(commands)[i] \notin Questions(c)
    <2>1. i + 1 \in 1 .. Len(commands) /\ i + 1 # 1 /\ Tail(commands)[i] = commands[i + 1]
      BY <1>1
    <2>. QED
      BY <1>1, <1>2, <2>1 DEF QuestionOK
  <1>. QED
    BY <1>1, <1>2, <1>3 DEF QuestionOK, Absent

LEMMA ConnKept ==
    ASSUME ConnInv, UNCHANGED <<conn, commands>>
    PROVE  ConnInv'
  <1>1. \A c \in Conn : conn'[c] = conn[c]
    OBVIOUS
  <1>2. \A c \in Conn : ConnOK(c)' /\ QuestionOK(c)'
    BY <1>1, ConnSame, QuestionSame DEF ConnInv
  <1>. QED
    BY <1>2 DEF ConnInv, ConnTypes

\* A step of one connection, the queue untouched.
LEMMA ConnMoves ==
    ASSUME ConnInv, NEW c \in Conn, UNCHANGED commands, ConnTypes', ConnOK(c)', QuestionOK(c)',
           \A d \in Conn : d # c => conn'[d] = conn[d]
    PROVE  ConnInv'
  <1>1. ASSUME NEW d \in Conn PROVE ConnOK(d)' /\ QuestionOK(d)'
    <2>1. CASE d = c
      BY <2>1
    <2>2. CASE d # c
      BY <2>2, ConnSame, QuestionSame DEF ConnInv
    <2>. QED
      BY <2>1, <2>2
  <1>. QED
    BY <1>1 DEF ConnInv

-----------------------------------------------------------------------------
(* Types: the dispatcher.                                                    *)

\* The command at the head of the queue.
LEMMA HeadOf ==
    ASSUME QueuesOK, commands # <<>>
    PROVE  /\ Head(commands) \in Issued /\ Tail(commands) \in Seq(Issued)
           /\ Len(Tail(commands)) <= CommandMax
  <1>1. commands \in Seq(Issued) /\ Len(commands) <= CommandMax /\ CommandMax \in Nat
    BY ControlAssumption DEF QueuesOK
  <1>2. /\ Head(commands) \in Issued /\ Tail(commands) \in Seq(Issued)
        /\ Len(commands) \in Nat \ {0} /\ Len(Tail(commands)) = Len(commands) - 1
    BY <1>1, TailOf
  <1>. QED
    BY <1>1, <1>2

\* What a command reports.
LEMMA Reported ==
    ASSUME NEW d \in Issued, d.method \in Changes \cup {"Stream.Control"}, NEW state \in Known
    PROVE  /\ StateChanged(state) \in StateEvents /\ Event(d) \in Events
           /\ Snapshot(d, state) \in Seq(Events)
           /\ Snapshot(d, state) \o <<Event(d)>> \in Seq(Events)
  <1>1. StateChanged(state) \in StateEvents
    BY DEF StateChanged, StateEvents
  <1>2. Event(d) \in Events
    <2>1. CASE d.method \in Sets
      BY <2>1 DEF Event, Events, Changed, ChangeEvents, Issued, Command, Changes
    <2>2. CASE d.method \notin Sets
      BY <2>2 DEF Event, Events, Updated, Control
    <2>. QED
      BY <2>1, <2>2
  <1>3. StateChanged(state) \in Events
    BY <1>1 DEF Events
  <1>. HIDE DEF Events
  <1>4. Snapshot(d, state) \in Seq(Events)
    BY <1>3 DEF Snapshot
  <1>5. Snapshot(d, state) \o <<Event(d)>> \in Seq(Events)
    BY <1>2, <1>4
  <1>. QED
    BY <1>1, <1>2, <1>4, <1>5

LEMMA DispatchTypes ==
    ASSUME Types, Dispatch
    PROVE  Types'
  <1>. DEFINE d == Head(commands)
  <1>1. /\ commands # <<>> /\ d.method \in Changes \cup {"Stream.Control"}
        /\ value' = IF d.method \in Changes THEN Effect(value, d) ELSE value
        /\ IF Pushed(d)
              THEN dispatcher' = d /\ Offer(Snapshot(d, value'))
              ELSE UNCHANGED dispatcher /\ Offer(Snapshot(d, value') \o <<Event(d)>>)
        /\ commands' = Tail(commands)
        /\ UNCHANGED <<clientVars, conn, task, told, saved, requests, restarts, setters>>
    BY DEF Dispatch
  <1>2. d \in Issued /\ Tail(commands) \in Seq(Issued) /\ Len(Tail(commands)) <= CommandMax
    BY <1>1, HeadOf DEF Types
  <1>. HIDE DEF d
  <1>3. value' \in Known
    BY <1>1, <1>2, EffectOf DEF Types, ValuesOK
  <1>4. /\ Snapshot(d, value') \in Seq(Events)
        /\ Snapshot(d, value') \o <<Event(d)>> \in Seq(Events)
    BY <1>1, <1>2, <1>3, Reported
  <1>5. events' \in Seq(Events) /\ Len(events') <= EventMax /\ dropped' \in BOOLEAN
    <2>1. CASE Pushed(d)
      BY <1>1, <1>4, <2>1, OfferOf DEF Types
    <2>2. CASE ~ Pushed(d)
      BY <1>1, <1>4, <2>2, OfferOf DEF Types
    <2>. QED
      BY <2>1, <2>2
  <1>6. dispatcher' \in {e \in Issued : e.method \in Pushes} \cup {None}
    <2>1. CASE Pushed(d)
      <3>1. d.method \in Pushes
        BY <2>1 DEF Pushed, Pushes
      <3>. QED
        BY <1>1, <1>2, <2>1, <3>1
    <2>2. CASE ~ Pushed(d)
      BY <1>1, <2>2 DEF Types, QueuesOK
    <2>. QED
      BY <2>1, <2>2
  <1>7. ConnInv'
    <2>1. \A c \in Conn : conn'[c] = conn[c]
      BY <1>1
    <2>2. \A c \in Conn : QuestionOK(c)'
      BY <1>1, <2>1, QuestionTail DEF Types, ConnInv
    <2>3. \A c \in Conn : ConnOK(c)'
      BY <2>1, ConnSame DEF Types, ConnInv
    <2>. QED
      BY <1>1, <2>2, <2>3 DEF Types, ConnInv, ConnTypes
  <1>8. QueuesOK'
    BY <1>1, <1>2, <1>5, <1>6 DEF QueuesOK
  <1>. QED
    BY <1>1, <1>3, <1>5, <1>7, <1>8 DEF Types, SessionsOK, ValuesOK, TaskOK, clientVars

LEMMA PushTypes ==
    ASSUME Types, Push
    PROVE  Types'
  <1>. DEFINE c == dispatcher.object
  <1>1. /\ dispatcher # None /\ (Receives(c) => settings[c] < SettingsMax)
        /\ settings' = IF Receives(c) THEN [settings EXCEPT ![c] = @ + 1] ELSE settings
        /\ Offer(<<Changed(dispatcher)>>) /\ dispatcher' = None
        /\ UNCHANGED <<value, commands, session, steps, conn, task, told, saved, requests,
                       restarts, setters>>
    BY DEF Push
  <1>2. dispatcher \in Issued /\ dispatcher.method \in Pushes
    BY <1>1 DEF Types, QueuesOK
  <1>3. Changed(dispatcher) \in Events
    BY <1>2 DEF Changed, Events, ChangeEvents, Issued, Command, Changes, Sets, Pushes
  <1>4. c \in Client
    BY <1>2 DEF Issued, Changes, Sets, Pushes, OfClient
  <1>5. settings' \in [Client -> 0 .. SettingsMax]
    <2>1. settings \in [Client -> 0 .. SettingsMax] /\ SettingsMax \in Nat
      BY ControlAssumption DEF Types, SessionsOK
    <2>2. CASE Receives(c)
      <3>1. settings[c] + 1 \in 0 .. SettingsMax
        BY <1>1, <1>4, <2>1, <2>2
      <3>. QED
        BY <1>1, <2>1, <2>2, <3>1
    <2>3. CASE ~ Receives(c)
      BY <1>1, <2>1, <2>3
    <2>. QED
      BY <2>2, <2>3
  <1>6. events' \in Seq(Events) /\ Len(events') <= EventMax /\ dropped' \in BOOLEAN
    <2>1. <<Changed(dispatcher)>> \in Seq(Events)
      BY <1>3
    <2>. QED
      BY <1>1, <2>1, OfferOf DEF Types
  <1>7. ConnInv'
    BY <1>1, ConnKept DEF Types
  <1>8. QueuesOK'
    BY <1>1, <1>6 DEF Types, QueuesOK
  <1>. QED
    BY <1>1, <1>5, <1>6, <1>7, <1>8 DEF Types, SessionsOK, ValuesOK, TaskOK

LEMMA AnswerTypes ==
    ASSUME Types, Answer
    PROVE  Types'
  <1>. DEFINE d == Head(commands)
              c == d.from
  <1>1. /\ commands # <<>> /\ d.method \in {"GetStatus", "Stream.AddStream"}
        /\ task' = IF c = Task THEN [task EXCEPT !.reply = value] ELSE task
        /\ conn' = IF c = Task \/ conn[c].pc # "waiting" THEN conn
                   ELSE IF d.method = "GetStatus"
                   THEN [conn EXCEPT ![c].reply = value]
                   ELSE [conn EXCEPT ![c].pc = "responding"]
        /\ commands' = Tail(commands)
        /\ UNCHANGED <<value, dispatcher, events, clientVars, told, saved, ghostVars>>
    BY DEF Answer
  <1>2. d \in Issued /\ Tail(commands) \in Seq(Issued) /\ Len(Tail(commands)) <= CommandMax
    BY <1>1, HeadOf DEF Types
  <1>3. value \in State /\ c \in Conn \cup {Task}
    BY <1>2 DEF Types, ValuesOK, Known, Issued, Command
  <1>4. QueuesOK'
    BY <1>1, <1>2 DEF Types, QueuesOK
  <1>5. TaskOK'
    <2>1. task' = task \/ task' = [task EXCEPT !.reply = value]
      BY <1>1
    <2>. QED
      BY <1>3, <2>1 DEF Types, TaskOK
  <1>6. ConnInv'
    <2>1. CASE c = Task \/ conn[c].pc # "waiting"
      <3>1. conn' = conn
        BY <1>1, <2>1
      <3>2. \A e \in Conn : QuestionOK(e)'
        BY <1>1, <3>1, QuestionTail DEF Types, ConnInv
      <3>3. \A e \in Conn : ConnOK(e)'
        BY <3>1, ConnSame DEF Types, ConnInv
      <3>. QED
        BY <3>1, <3>2, <3>3 DEF Types, ConnInv, ConnTypes
    <2>2. CASE c # Task /\ conn[c].pc = "waiting"
      <3>0. PICK k \in Conn : k = c
        BY <1>3, <2>2
      <3>1. /\ ConnTypes /\ ConnOK(k) /\ QuestionOK(k) /\ QueuesOK
        BY <1>3, <2>2, <3>0 DEF Types, ConnInv
      <3>2. d \in Questions(k)
        BY <1>1, <1>2, <3>0 DEF Questions
      <3>3. /\ conn[k].reply = None /\ Absent(commands, Questions(k))'
            /\ d.method = "Stream.AddStream" <=> conn[k].request.method = "Stream.AddStream"
        <4>1. Absent(Tail(commands), Questions(k))
          BY <1>1, <2>2, <3>0, <3>1, <3>2, QuestionHead
        <4>. QED
          BY <1>1, <2>2, <3>0, <3>1, <3>2, <4>1, QuestionHead DEF Absent, Questions
      <3>4. \A e \in Conn : e # k => conn'[e] = conn[e]
        BY <1>1, <2>2, <3>0, <3>1 DEF ConnTypes
      <3>5. CASE d.method = "GetStatus"
        <4>1. conn' = [conn EXCEPT ![k].reply = value]
          BY <1>1, <2>2, <3>0, <3>5
        <4>2. ConnTypes'
          BY <1>3, <3>1, <4>1 DEF ConnTypes
        <4>3. /\ conn'[k].pc = "waiting" /\ conn'[k].request = conn[k].request
          BY <2>2, <3>0, <3>1, <4>1 DEF ConnTypes
        <4>4. ConnOK(k)'
          BY <2>2, <3>0, <3>1, <4>3 DEF ConnOK
        <4>. QED
          BY <1>1, <3>1, <3>3, <3>4, <4>2, <4>4, <2>2, QuestionAbsent, QuestionTail, ConnSame
             DEF Types, ConnInv
      <3>6. CASE d.method = "Stream.AddStream"
        <4>1. conn' = [conn EXCEPT ![k].pc = "responding"]
          BY <1>1, <2>2, <3>0, <3>6
        <4>2. ConnTypes'
          BY <3>1, <4>1 DEF ConnTypes
        <4>3. /\ conn'[k].pc = "responding" /\ conn'[k].request = conn[k].request
          BY <3>1, <4>1 DEF ConnTypes
        <4>4. conn'[k].request.method \notin Updates
          BY <3>3, <3>6, <4>3 DEF Updates
        <4>5. ConnOK(k)'
          BY <2>2, <3>0, <3>1, <4>3, <4>4 DEF ConnOK
        <4>. QED
          BY <1>1, <3>1, <3>3, <3>4, <4>2, <4>5, <2>2, QuestionAbsent, QuestionTail, ConnSame
             DEF Types, ConnInv
      <3>. QED
        BY <1>1, <3>5, <3>6
    <2>. QED
      BY <2>1, <2>2
  <1>. QED
    BY <1>1, <1>4, <1>5, <1>6 DEF Types, SessionsOK, ValuesOK, clientVars, ghostVars

-----------------------------------------------------------------------------
(* Types: the sessions and the application.                                  *)

LEMMA ArriveTypes ==
    ASSUME Types, NEW c \in Client, Arrive(c)
    PROVE  Types'
  <1>1. /\ value' = [value EXCEPT ![c] = IF @ = None THEN Default ELSE @]
        /\ settings' = [settings EXCEPT ![c] = 0]
        /\ session' = [session EXCEPT ![c] = Sending("announcing", [type |-> "client", object |-> c])]
        /\ UNCHANGED <<commands, dispatcher, events, conn, task, told, saved, dropped>>
    BY DEF Arrive, Step, ghostVars
  <1>2. value' \in Known
    <2>1. value \in Known /\ c \notin Setting /\ Default \in Value
      BY ControlAssumption DEF Types, ValuesOK
    <2>2. value' \in State
      BY <1>1, <2>1 DEF Known, State
    <2>3. \A s \in Setting : value'[s] = value[s]
      BY <1>1, <2>1 DEF Known, State, Object
    <2>. QED
      BY <2>1, <2>2, <2>3 DEF Known
  <1>3. SessionsOK'
    <2>1. [type |-> "client", object |-> c] \in Reports
      BY DEF Reports, ClientEvents
    <2>2. settings' \in [Client -> 0 .. SettingsMax]
      BY <1>1, ControlAssumption DEF Types, SessionsOK
    <2>. QED
      BY <1>1, <2>1, <2>2 DEF Types, SessionsOK, Sending
  <1>4. QueuesOK' /\ TaskOK' /\ ConnInv'
    BY <1>1, ConnKept DEF Types, QueuesOK, TaskOK
  <1>. QED
    BY <1>1, <1>2, <1>3, <1>4 DEF Types, ValuesOK

LEMMA ReportTypes ==
    ASSUME Types, NEW c \in Client, NEW v \in Value, Report(c, v)
    PROVE  Types'
  <1>1. /\ value' = [value EXCEPT ![c] = IF @ = None THEN None ELSE v]
        /\ session' = [session EXCEPT ![c] =
                Sending("reporting", [type |-> "changed", object |-> c, value |-> v])]
        /\ UNCHANGED <<commands, dispatcher, events, settings, conn, task, told, saved, dropped>>
    BY DEF Report, Step, ghostVars
  <1>2. value' \in Known
    <2>1. value \in Known /\ c \notin Setting
      BY ControlAssumption DEF Types, ValuesOK
    <2>2. value' \in State
      BY <1>1, <2>1 DEF Known, State
    <2>3. \A s \in Setting : value'[s] = value[s]
      BY <1>1, <2>1 DEF Known, State, Object
    <2>. QED
      BY <2>1, <2>2, <2>3 DEF Known
  <1>3. SessionsOK'
    <2>1. [type |-> "changed", object |-> c, value |-> v] \in Reports
      BY DEF Reports, ChangeEvents, Object
    <2>. QED
      BY <1>1, <2>1 DEF Types, SessionsOK, Sending
  <1>4. QueuesOK' /\ TaskOK' /\ ConnInv'
    BY <1>1, ConnKept DEF Types, QueuesOK, TaskOK
  <1>. QED
    BY <1>1, <1>2, <1>3, <1>4 DEF Types, ValuesOK

LEMMA SessionTypes ==
    ASSUME Types, NEW c \in Client, Leave(c) \/ Post(c) \/ TakeSettings(c)
    PROVE  Types'
  <1>1. UNCHANGED <<value, commands, dispatcher, conn, task, told, saved, dropped>>
    BY DEF Leave, Post, TakeSettings, ghostVars
  <1>2. ConnInv' /\ TaskOK' /\ ValuesOK'
    BY <1>1, ConnKept DEF Types, TaskOK, ValuesOK
  <1>3. CASE Leave(c)
    <2>1. settings' \in [Client -> 0 .. SettingsMax]
      BY <1>3, ControlAssumption DEF Types, SessionsOK, Leave
    <2>2. [type |-> "client", object |-> c] \in Reports
      BY DEF Reports, ClientEvents
    <2>3. SessionsOK'
      BY <1>3, <2>1, <2>2 DEF Types, SessionsOK, Leave, Step, Sending
    <2>4. UNCHANGED events
      BY <1>3 DEF Leave
    <2>. QED
      BY <1>1, <1>2, <2>3, <2>4 DEF Types, QueuesOK
  <1>4. CASE Post(c)
    <2>1. /\ session[c].event # None /\ Len(events) < EventMax
          /\ events' = Append(events, session[c].event)
          /\ UNCHANGED settings
          /\ session' = [session EXCEPT ![c] =
                 [pc |-> IF @.pc = "leaving" THEN "off" ELSE "serving", event |-> None]]
      BY <1>4 DEF Post
    <2>2. session[c].event \in Events
      BY <2>1 DEF Types, SessionsOK, Reports, Events
    <2>3. events' \in Seq(Events) /\ Len(events') <= EventMax
      <3>1. events \in Seq(Events) /\ EventMax \in Nat
        BY ControlAssumption DEF Types, QueuesOK
      <3>2. events' \in Seq(Events) /\ Len(events') = Len(events) + 1 /\ Len(events) \in Nat
        BY <2>1, <2>2, <3>1, AppendOf
      <3>. QED
        BY <2>1, <3>1, <3>2
    <2>4. SessionsOK'
      BY <2>1 DEF Types, SessionsOK
    <2>. QED
      BY <1>1, <1>2, <2>3, <2>4 DEF Types, QueuesOK
  <1>5. CASE TakeSettings(c)
    <2>1. settings' \in [Client -> 0 .. SettingsMax]
      <3>1. settings \in [Client -> 0 .. SettingsMax] /\ SettingsMax \in Nat
        BY ControlAssumption DEF Types, SessionsOK
      <3>2. settings[c] - 1 \in 0 .. SettingsMax
        BY <1>5, <3>1 DEF TakeSettings
      <3>. QED
        BY <1>5, <3>1, <3>2 DEF TakeSettings
    <2>2. UNCHANGED <<events, session>>
      BY <1>5 DEF TakeSettings
    <2>. QED
      BY <1>1, <1>2, <2>1, <2>2 DEF Types, QueuesOK, SessionsOK
  <1>. QED
    BY <1>3, <1>4, <1>5

\* The event at the head of the channel.
LEMMA EventOf ==
    ASSUME QueuesOK, events # <<>>
    PROVE  /\ Head(events) \in Events /\ Tail(events) \in Seq(Events)
           /\ Len(Tail(events)) <= EventMax
  <1>1. events \in Seq(Events) /\ Len(events) <= EventMax /\ EventMax \in Nat
    BY ControlAssumption DEF QueuesOK
  <1>2. /\ Head(events) \in Events /\ Tail(events) \in Seq(Events)
        /\ Len(events) \in Nat \ {0} /\ Len(Tail(events)) = Len(events) - 1
    BY <1>1, TailOf
  <1>. QED
    BY <1>1, <1>2

LEMMA TaskTypes ==
    ASSUME Types, TaskStep
    PROVE  Types'
  <1>1. CASE TakeEvent
    <2>. DEFINE e == Head(events)
    <2>1. /\ events # <<>> /\ events' = Tail(events)
          /\ saved' = IF e.type = "state" THEN e.state ELSE saved
          /\ told' = IF e.type = "changed" THEN [told EXCEPT ![e.object] = e.value] ELSE told
          /\ task' = IF e.type \in {"client", "updated"} THEN [NoEvent EXCEPT !.event = e]
                     ELSE task
          /\ UNCHANGED <<value, commands, dispatcher, clientVars, conn, ghostVars>>
      BY <1>1 DEF TakeEvent
    <2>2. e \in Events /\ Tail(events) \in Seq(Events) /\ Len(Tail(events)) <= EventMax
      BY <2>1, EventOf DEF Types
    <2>. HIDE DEF e
    <2>3. /\ e.type = "state" => e.state \in Known
          /\ e.type = "changed" => e.object \in Object /\ e.value \in Value
          /\ e.type \in {"client", "updated"} => e \in ClientEvents \cup {Updated}
      BY <2>2 DEF Events, StateEvents, ChangeEvents, ClientEvents, Updated, Control
    <2>4. ValuesOK'
      BY <2>1, <2>3 DEF Types, ValuesOK, State
    <2>5. TaskOK'
      BY <2>1, <2>3 DEF Types, TaskOK, NoEvent
    <2>. QED
      BY <2>1, <2>2, <2>4, <2>5, ConnKept DEF Types, QueuesOK, SessionsOK, clientVars, ghostVars
  <1>2. CASE AskStatus
    <2>1. /\ Len(commands) < CommandMax /\ commands' = Append(commands, GetStatus(Task))
          /\ task' = [task EXCEPT !.asked = TRUE]
          /\ UNCHANGED <<value, dispatcher, events, clientVars, conn, told, saved, ghostVars>>
      BY <1>2 DEF AskStatus
    <2>2. /\ GetStatus(Task) \in Issued
          /\ \A c \in Conn : GetStatus(Task) \notin Questions(c)
      BY ControlAssumption DEF GetStatus, Issued, Command, Questions, Changes, Sets, Updates
    <2>3. commands' \in Seq(Issued) /\ Len(commands') <= CommandMax
      <3>1. commands \in Seq(Issued) /\ CommandMax \in Nat
        BY ControlAssumption DEF Types, QueuesOK
      <3>2. commands' \in Seq(Issued) /\ Len(commands') = Len(commands) + 1 /\ Len(commands) \in Nat
        BY <2>1, <2>2, <3>1, AppendOf
      <3>. QED
        BY <2>1, <3>1, <3>2
    <2>4. ConnInv'
      <3>1. \A c \in Conn : conn'[c] = conn[c]
        BY <2>1
      <3>2. \A c \in Conn : QuestionOK(c)'
        BY <2>1, <2>2, <3>1, QuestionAppend DEF Types, ConnInv
      <3>3. \A c \in Conn : ConnOK(c)'
        BY <3>1, ConnSame DEF Types, ConnInv
      <3>. QED
        BY <2>1, <3>2, <3>3 DEF Types, ConnInv, ConnTypes
    <2>. QED
      BY <2>1, <2>3, <2>4 DEF Types, QueuesOK, SessionsOK, ValuesOK, TaskOK, clientVars, ghostVars
  <1>3. CASE TellStatus
    <2>1. /\ task.reply # None
          /\ told' = IF task.event.type = "updated" THEN task.reply
                     ELSE [told EXCEPT ![task.event.object] = task.reply[task.event.object]]
          /\ task' = NoEvent
          /\ UNCHANGED <<value, commands, dispatcher, events, clientVars, conn, saved, ghostVars>>
      BY <1>3 DEF TellStatus
    <2>2. task.reply \in State /\ told \in State
      BY <2>1 DEF Types, TaskOK, ValuesOK
    <2>3. told' \in State
      BY <2>1, <2>2 DEF State
    <2>4. TaskOK'
      BY <2>1 DEF TaskOK, NoEvent
    <2>. QED
      BY <2>1, <2>3, <2>4, ConnKept DEF Types, QueuesOK, SessionsOK, ValuesOK, clientVars, ghostVars
  <1>. QED
    BY <1>1, <1>2, <1>3 DEF TaskStep

-----------------------------------------------------------------------------
(* Types: the connections.                                                   *)

\* A step of a connection that sends a command.
LEMMA SentKeeps ==
    ASSUME Types, NEW c \in Conn, NEW d \in Issued, Len(commands) < CommandMax,
           commands' = Append(commands, d), ConnTypes', ConnOK(c)', QuestionOK(c)', d.from = c,
           \A e \in Conn : e # c => conn'[e] = conn[e],
           UNCHANGED <<value, dispatcher, events, clientVars, task, told, saved, dropped>>
    PROVE  Types'
  <1>1. commands' \in Seq(Issued) /\ Len(commands') <= CommandMax
    <2>1. commands \in Seq(Issued) /\ CommandMax \in Nat
      BY ControlAssumption DEF Types, QueuesOK
    <2>2. commands' \in Seq(Issued) /\ Len(commands') = Len(commands) + 1 /\ Len(commands) \in Nat
      BY <2>1, AppendOf
    <2>. QED
      BY <2>1, <2>2
  <1>2. ASSUME NEW e \in Conn PROVE ConnOK(e)' /\ QuestionOK(e)'
    <2>1. CASE e = c
      BY <2>1
    <2>2. CASE e # c
      <3>1. d \notin Questions(e) /\ conn'[e] = conn[e]
        BY <2>2 DEF Questions
      <3>2. QuestionOK(e)'
        BY <3>1, QuestionAppend DEF Types, ConnInv
      <3>. QED
        BY <3>1, <3>2, ConnSame DEF Types, ConnInv
    <2>. QED
      BY <2>1, <2>2
  <1>. QED
    BY <1>1, <1>2 DEF Types, ConnInv, QueuesOK, SessionsOK, ValuesOK, TaskOK, clientVars

\* The command a connection sends.
SentBy(c) == [method |-> conn[c].request.method, object |-> conn[c].request.object,
              value |-> conn[c].request.value, from |-> c]

LEMMA SentIssued ==
    ASSUME Types, NEW c \in Conn, conn[c].pc = "sending"
    PROVE  SentBy(c) \in Issued
  <1>. DEFINE r == conn[c].request
              d == SentBy(c)
  <1>1. /\ r \in Requests[c] /\ r \in Request /\ ~ Malformed(r)
        /\ r.method \in Sets \cup Quiet \cup Updates \cup {"Stream.AddStream"}
    BY DEF Types, ConnInv, ConnOK, Requests
  <1>2. /\ r.method \in Method /\ r.object \in Object \cup {None} /\ r.value \in Value
        /\ r.object # None => (OfClient(r.method) <=> r.object \in Client)
        /\ r.object # None
    BY <1>1 DEF Requests, Request, Malformed
  <1>3. r.method \in Changes \cup {"Stream.Control", "Stream.AddStream", "GetStatus"}
    BY <1>1 DEF Changes, Quiet
  <1>4. d \in Command
    BY <1>2, <1>3 DEF Command, SentBy
  <1>. QED
    BY <1>2, <1>4, ControlAssumption DEF Issued, SentBy

LEMMA SendCommandTypes ==
    ASSUME Types, NEW c \in Conn, SendCommand(c)
    PROVE  Types'
  <1>. DEFINE r == conn[c].request
              d == [method |-> r.method, object |-> r.object, value |-> r.value, from |-> c]
              pc == CASE r.method \in Updates -> "asking"
                      [] r.method = "Stream.AddStream" -> "waiting"
                      [] OTHER -> Reporting(c, r)
  <1>1. /\ conn[c].pc = "sending" /\ Len(commands) < CommandMax
        /\ commands' = Append(commands, d) /\ conn' = [conn EXCEPT ![c].pc = pc]
        /\ UNCHANGED <<value, dispatcher, events, clientVars, task, told, saved, dropped>>
    BY DEF SendCommand
  <1>2. /\ r \in Requests[c] /\ r \in Request /\ conn[c].reply = None /\ ~ Malformed(r)
        /\ r.method \in Sets \cup Quiet \cup Updates \cup {"Stream.AddStream"}
    BY <1>1 DEF Types, ConnInv, ConnOK, Requests
  <1>3. d \in Issued
    BY <1>1, SentIssued DEF SentBy
  <1>4. /\ r.method \in Updates => pc = "asking"
        /\ r.method = "Stream.AddStream" => pc = "waiting"
        /\ r.method \in Sets => pc \in {"notifying", "responding"}
        /\ r.method \in Quiet => pc = "responding"
    BY <1>2 DEF Reporting, Notifies, Updates, Sets, Quiet
  <1>. HIDE DEF pc
  <1>5. ConnTypes'
    <2>1. pc \in {"asking", "waiting", "responding", "notifying"}
      BY <1>2, <1>4
    <2>. QED
      BY <1>1, <2>1 DEF Types, ConnInv, ConnTypes
  <1>6. /\ conn'[c].pc = pc /\ conn'[c].request = r /\ conn'[c].reply = None
        /\ conn'[c].authenticated = conn[c].authenticated
        /\ \A e \in Conn : e # c => conn'[e] = conn[e]
    BY <1>1, <1>2 DEF Types, ConnInv, ConnTypes
  <1>. HIDE DEF r
  <1>7. ConnOK(c)'
    <2>1. r.method \in Sets \cup Quiet \cup {"Stream.AddStream"} => r.method \notin Updates
      BY DEF Sets, Quiet, Updates
    <2>2. CASE r.method \in Updates
      BY <1>2, <1>4, <1>6, <2>2 DEF ConnOK
    <2>3. CASE r.method = "Stream.AddStream"
      BY <1>2, <1>4, <1>6, <2>1, <2>3 DEF ConnOK
    <2>4. CASE r.method \in Sets
      BY <1>2, <1>4, <1>6, <2>1, <2>4 DEF ConnOK, Notifies
    <2>5. CASE r.method \in Quiet
      BY <1>2, <1>4, <1>6, <2>1, <2>5 DEF ConnOK
    <2>. QED
      BY <1>2, <2>2, <2>3, <2>4, <2>5
  <1>8. QuestionOK(c)'
    <2>1. Absent(commands, Questions(c)) /\ commands \in Seq(Issued)
      BY <1>1, NoQuestion DEF Types, ConnInv, QueuesOK
    <2>2. CASE d \notin Questions(c)
      <3>1. Absent(commands, Questions(c))'
        BY <1>1, <1>3, <2>1, <2>2, AppendLast DEF Questions
      <3>. QED
        BY <3>1, QuestionAbsent
    <2>3. CASE d \in Questions(c)
      <3>1. r.method = "Stream.AddStream"
        BY <1>2, <2>3 DEF Questions, Sets, Quiet, Updates
      <3>2. /\ Len(commands) \in Nat /\ Len(commands') = Len(commands) + 1
            /\ commands'[Len(commands) + 1] = d
            /\ \A i \in 1 .. Len(commands) : commands'[i] = commands[i]
        BY <1>1, <1>3, <2>1, AppendOf
      <3>3. \A i \in 1 .. Len(commands') : commands'[i] \in Questions(c) =>
               i = Len(commands) + 1 /\ commands'[i] = d
        BY <2>1, <3>2 DEF Absent
      <3>4. d.method = r.method
        OBVIOUS
      <3>. QED
        BY <1>4, <1>6, <3>1, <3>3, <3>4 DEF QuestionOK
    <2>. QED
      BY <2>2, <2>3
  <1>. QED
    BY <1>1, <1>3, <1>5, <1>6, <1>7, <1>8, SentKeeps

LEMMA AskServerTypes ==
    ASSUME Types, NEW c \in Conn, AskServer(c)
    PROVE  Types'
  <1>. DEFINE r == conn[c].request
              d == GetStatus(c)
  <1>1. /\ conn[c].pc = "asking" /\ Len(commands) < CommandMax
        /\ commands' = Append(commands, d) /\ conn' = [conn EXCEPT ![c].pc = "waiting"]
        /\ UNCHANGED <<value, dispatcher, events, clientVars, task, told, saved, dropped>>
    BY DEF AskServer, ghostVars
  <1>2. /\ r \in Requests[c] /\ conn[c].reply = None /\ r.method \in Queries \cup Updates
        /\ r.method \in Updates => ~ Malformed(r)
    BY <1>1 DEF Types, ConnInv, ConnOK
  <1>3. d \in Issued /\ d.method = "GetStatus" /\ d.from = c
    BY ControlAssumption DEF GetStatus, Issued, Command, Changes, Sets, Updates
  <1>4. ConnTypes'
    BY <1>1 DEF Types, ConnInv, ConnTypes
  <1>5. /\ conn'[c].pc = "waiting" /\ conn'[c].request = r /\ conn'[c].reply = None
        /\ \A e \in Conn : e # c => conn'[e] = conn[e]
    BY <1>1, <1>2 DEF Types, ConnInv, ConnTypes
  <1>. HIDE DEF r, d
  <1>6. ConnOK(c)'
    BY <1>2, <1>5 DEF ConnOK
  <1>7. QuestionOK(c)'
    <2>1. Absent(commands, Questions(c)) /\ commands \in Seq(Issued)
      BY <1>1, NoQuestion DEF Types, ConnInv, QueuesOK
    <2>2. r.method # "Stream.AddStream"
      BY <1>2 DEF Queries, Updates
    <2>3. /\ Len(commands) \in Nat /\ Len(commands') = Len(commands) + 1
          /\ commands'[Len(commands) + 1] = d
          /\ \A i \in 1 .. Len(commands) : commands'[i] = commands[i]
      BY <1>1, <1>3, <2>1, AppendOf
    <2>4. \A i \in 1 .. Len(commands') : commands'[i] \in Questions(c) =>
             i = Len(commands) + 1 /\ commands'[i] = d
      BY <2>1, <2>3 DEF Absent
    <2>. QED
      BY <1>3, <1>5, <2>2, <2>4 DEF QuestionOK
  <1>. QED
    BY <1>1, <1>3, <1>4, <1>5, <1>6, <1>7, SentKeeps

\* A step of a connection that leaves the rest alone, and after which it does not wait.
LEMMA MovedKeeps ==
    ASSUME Types, NEW c \in Conn, ConnTypes', ConnOK(c)', told' \in State,
           \/ conn'[c].pc = "gone"
           \/ conn[c].pc \notin {"waiting", "gone"}
           \/ conn[c].pc = "waiting" /\ conn[c].reply # None,
           \A e \in Conn : e # c => conn'[e] = conn[e],
           UNCHANGED <<value, commands, dispatcher, events, clientVars, task, saved, dropped>>
    PROVE  Types'
  <1>1. QuestionOK(c)'
    <2>1. CASE conn'[c].pc = "gone"
      BY <2>1 DEF QuestionOK
    <2>2. CASE conn[c].pc \notin {"waiting", "gone"}
      <3>1. Absent(commands, Questions(c))
        BY <2>2, NoQuestion DEF Types, ConnInv
      <3>. QED
        BY <3>1, QuestionAbsent DEF Absent
    <2>3. CASE conn[c].pc = "waiting" /\ conn[c].reply # None
      <3>1. Absent(commands, Questions(c))
        BY <2>3 DEF Types, ConnInv, QuestionOK, Absent
      <3>. QED
        BY <3>1, QuestionAbsent DEF Absent
    <2>. QED
      BY <2>1, <2>2, <2>3
  <1>2. ConnInv'
    BY <1>1, ConnMoves DEF Types
  <1>. QED
    BY <1>2 DEF Types, QueuesOK, SessionsOK, ValuesOK, TaskOK, clientVars

LEMMA ReceiveTypes ==
    ASSUME Types, NEW c \in Conn, NEW r \in Requests[c], Receive(c, r)
    PROVE  Types'
  <1>. DEFINE accepted == Admits(c, r) /\ r.method = "Server.Authenticate" /\ r.token
              known == conn[c].authenticated \/ (accepted /\ Kind[c] # "http")
              pc == FirstStep(c, r)
  <1>0. /\ conn[c].pc = "idle"
        /\ UNCHANGED <<value, commands, dispatcher, events, clientVars, task, told, saved, dropped>>
    BY DEF Receive
  <1>1. conn' = [conn EXCEPT ![c] =
                [@ EXCEPT !.pc = pc, !.request = r, !.authenticated = known]]
    BY Zenon DEF Receive
  <1>2. /\ pc \in {"idle", "sending", "asking", "responding"}
        /\ pc \in {"sending", "asking"} => ~ Malformed(r)
        /\ pc = "sending" => r.method \in Sets \cup Quiet \cup Updates \cup {"Stream.AddStream"}
        /\ pc = "asking" => r.method \in Queries
        /\ r.method \in Updates /\ Admits(c, r) /\ ~ Malformed(r) => pc = "sending"
    BY FirstSteps DEF Notifies
  <1>3. known \in BOOLEAN /\ r \in Request /\ conn[c].reply = None
    <2>1. conn[c].authenticated \in BOOLEAN
      BY DEF Types, ConnInv, ConnTypes
    <2>2. r \in Request /\ conn[c].reply = None
      BY <1>0, <1>1 DEF Types, ConnInv, ConnOK, Requests
    <2>. QED
      BY <2>1, <2>2
  <1>. HIDE DEF known, pc
  <1>4. ConnTypes'
    <2>. DEFINE One == [pc : {"idle", "sending", "asking", "waiting", "responding", "notifying", "gone"},
                        request : Request \cup {None}, authenticated : BOOLEAN,
                        reply : State \cup {None}]
    <2>1. conn \in [Conn -> One]
      BY DEF Types, ConnInv, ConnTypes
    <2>2. PICK o \in One : o = conn[c]
      BY <2>1
    <2>3. PICK n \in One : n = [o EXCEPT !.pc = pc, !.request = r, !.authenticated = known]
      <3>1. [o EXCEPT !.pc = pc, !.request = r, !.authenticated = known] \in One
        BY <1>2, <1>3
      <3>. QED
        BY <3>1
    <2>4. conn' = [conn EXCEPT ![c] = n]
      BY <1>1, <2>2, <2>3
    <2>. HIDE DEF One
    <2>5. conn' \in [Conn -> One]
      BY <2>1, <2>4
    <2>. QED
      BY <2>5 DEF ConnTypes, One
  <1>5. /\ conn'[c].pc = pc /\ conn'[c].request = r /\ conn'[c].reply = None
        /\ conn'[c].authenticated = known
        /\ \A e \in Conn : e # c => conn'[e] = conn[e]
    BY <1>0, <1>1, <1>3 DEF Types, ConnInv, ConnTypes
  <1>6. ConnOK(c)'
    <2>1. CASE pc # "responding"
      <3>1. pc = "asking" => r.method \notin Updates
        BY <1>2 DEF Queries, Updates
      <3>. QED
        BY <1>2, <1>5, <2>1, <3>1 DEF ConnOK
    <2>2. CASE pc = "responding"
      <3>1. r.method \in Updates => ~ Admits(c, r)' \/ Malformed(r)
        <4>1. ASSUME r.method \in Updates PROVE known = conn[c].authenticated
          BY <4>1, <1>3 DEF known, Updates, Types, ConnInv, ConnTypes
        <4>2. ASSUME r.method \in Updates PROVE Admits(c, r)' <=> Admits(c, r)
          BY <4>1, <4>2, <1>5 DEF Admits
        <4>. QED
          BY <1>2, <2>2, <4>2
      <3>. QED
        BY <1>5, <2>2, <3>1 DEF ConnOK
    <2>. QED
      BY <2>1, <2>2
  <1>7. told' \in State
    BY <1>0, <1>1 DEF Types, ValuesOK
  <1>. QED
    BY <1>0, <1>1, <1>4, <1>5, <1>6, <1>7, MovedKeeps

LEMMA GotStatusTypes ==
    ASSUME Types, NEW c \in Conn, GotStatus(c)
    PROVE  Types'
  <1>. DEFINE r == conn[c].request
              pc == Reporting(c, r)
  <1>1. /\ conn[c].pc = "waiting" /\ conn[c].reply # None /\ conn' = [conn EXCEPT ![c].pc = pc]
        /\ UNCHANGED <<value, commands, dispatcher, events, clientVars, task, told, saved, dropped>>
    BY DEF GotStatus, ghostVars
  <1>2. /\ r \in Requests[c] /\ r.method \in Queries \cup Updates \cup {"Stream.AddStream"}
        /\ r.method \in Updates => ~ Malformed(r)
    BY <1>1 DEF Types, ConnInv, ConnOK
  <1>3. pc \in {"notifying", "responding"} /\ (pc = "notifying" => Notifies(r) /\ r.method \in Updates)
    BY <1>2 DEF Reporting, Notifies, Sets, Queries, Updates
  <1>. HIDE DEF pc
  <1>4. ConnTypes'
    BY <1>1, <1>3 DEF Types, ConnInv, ConnTypes
  <1>5. /\ conn'[c].pc = pc /\ conn'[c].request = r /\ conn'[c].reply = conn[c].reply
        /\ \A e \in Conn : e # c => conn'[e] = conn[e]
    BY <1>1 DEF Types, ConnInv, ConnTypes
  <1>6. ConnOK(c)'
    BY <1>1, <1>2, <1>3, <1>5 DEF ConnOK
  <1>7. told' \in State
    BY <1>1 DEF Types, ValuesOK
  <1>. QED
    BY <1>1, <1>4, <1>5, <1>6, <1>7, MovedKeeps

LEMMA RespondTypes ==
    ASSUME Types, NEW c \in Conn, Respond(c)
    PROVE  Types'
  <1>. DEFINE r == conn[c].request
              more == Kind[c] # "http" /\ Admits(c, r) /\ ~ Malformed(r) /\ Notifies(r)
  <1>1. /\ conn[c].pc = "responding"
        /\ conn' = [conn EXCEPT ![c] =
                IF more THEN [@ EXCEPT !.pc = "notifying"]
                ELSE [@ EXCEPT !.pc = "idle", !.request = None, !.reply = None]]
        /\ UNCHANGED <<value, commands, dispatcher, events, clientVars, task, told, saved, dropped>>
    BY DEF Respond, ghostVars
  <1>2. /\ r \in Requests[c]
        /\ r.method \in Updates /\ Admits(c, r) /\ ~ Malformed(r) => conn[c].reply # None
    BY <1>1 DEF Types, ConnInv, ConnOK
  <1>3. more => Notifies(r) /\ ~ Malformed(r) /\ (r.method \in Updates => conn[c].reply # None)
    BY <1>2
  <1>. HIDE DEF more
  <1>4. ConnTypes'
    BY <1>1 DEF Types, ConnInv, ConnTypes
  <1>5. /\ more => /\ conn'[c].pc = "notifying" /\ conn'[c].request = r
                   /\ conn'[c].reply = conn[c].reply
        /\ ~ more => conn'[c].pc = "idle" /\ conn'[c].reply = None
        /\ \A e \in Conn : e # c => conn'[e] = conn[e]
    BY <1>1 DEF Types, ConnInv, ConnTypes
  <1>6. ConnOK(c)'
    BY <1>2, <1>3, <1>5 DEF ConnOK
  <1>7. told' \in State
    BY <1>1 DEF Types, ValuesOK
  <1>. QED
    BY <1>1, <1>4, <1>5, <1>6, <1>7, MovedKeeps

LEMMA NotifyTypes ==
    ASSUME Types, NEW c \in Conn, Notify(c)
    PROVE  Types'
  <1>. DEFINE r == conn[c].request
  <1>1. /\ conn[c].pc = "notifying"
        /\ told' = IF r.method \in Updates THEN conn[c].reply
                   ELSE [told EXCEPT ![r.object] = r.value]
        /\ conn' = [conn EXCEPT ![c] =
                IF Kind[c] = "http" THEN [@ EXCEPT !.pc = "responding"]
                ELSE [@ EXCEPT !.pc = "idle", !.request = None, !.reply = None]]
        /\ UNCHANGED <<value, commands, dispatcher, events, clientVars, task, saved, dropped>>
    BY DEF Notify, ghostVars
  <1>2. /\ r \in Requests[c] /\ r \in Request /\ (r.method \in Updates => conn[c].reply # None)
    BY <1>1 DEF Types, ConnInv, ConnOK, Requests
  <1>3. told' \in State
    <2>1. r.value \in Value /\ conn[c].reply \in State \cup {None} /\ told \in State
      BY <1>2 DEF Request, Types, ConnInv, ConnTypes, ValuesOK
    <2>. QED
      BY <1>1, <1>2, <2>1 DEF State
  <1>4. ConnTypes'
    <2>1. CASE Kind[c] = "http"
      <3>1. conn' = [conn EXCEPT ![c] = [@ EXCEPT !.pc = "responding"]]
        BY <1>1, <2>1
      <3>. QED
        BY <3>1 DEF Types, ConnInv, ConnTypes
    <2>2. CASE Kind[c] # "http"
      <3>1. conn' = [conn EXCEPT ![c] = [@ EXCEPT !.pc = "idle", !.request = None, !.reply = None]]
        BY <1>1, <2>2
      <3>. QED
        BY <3>1 DEF Types, ConnInv, ConnTypes
    <2>. QED
      BY <2>1, <2>2
  <1>5. /\ Kind[c] = "http" => /\ conn'[c].pc = "responding" /\ conn'[c].request = r
                               /\ conn'[c].reply = conn[c].reply
        /\ Kind[c] # "http" => conn'[c].pc = "idle" /\ conn'[c].reply = None
        /\ \A e \in Conn : e # c => conn'[e] = conn[e]
    BY <1>1 DEF Types, ConnInv, ConnTypes
  <1>6. ConnOK(c)'
    BY <1>2, <1>5 DEF ConnOK
  <1>. QED
    BY <1>1, <1>3, <1>4, <1>5, <1>6, MovedKeeps

\* A new connection.
LEMMA NewConnOK ==
    ASSUME NEW c \in Conn, conn[c] = NewConn \/ conn[c] = [NewConn EXCEPT !.pc = "gone"]
    PROVE  ConnOK(c)
  BY DEF NewConn, ConnOK

LEMMA NewConnType ==
    NewConn \in [pc: {"idle"}, request: {None}, authenticated: BOOLEAN, reply: {None}]
  BY DEF NewConn

LEMMA GoneTypes ==
    ASSUME Types, NEW c \in Conn, HangUp(c) \/ Abandon(c)
    PROVE  Types'
  <1>. DEFINE gone == [NewConn EXCEPT !.pc = "gone"]
  <1>1. /\ \/ conn' = [conn EXCEPT ![c] = NewConn] /\ conn[c].pc \notin {"waiting", "gone"}
           \/ conn' = [conn EXCEPT ![c] = gone]
        /\ UNCHANGED <<value, commands, dispatcher, events, clientVars, task, told, saved, dropped>>
    BY DEF HangUp, Abandon, ghostVars
  <1>2. gone.pc = "gone" /\ gone \in [pc: {"gone"}, request: {None}, authenticated: BOOLEAN, reply: {None}]
    BY NewConnType
  <1>3. ConnTypes'
    BY <1>1, <1>2, NewConnType DEF Types, ConnInv, ConnTypes
  <1>4. /\ \/ conn'[c] = NewConn /\ conn[c].pc \notin {"waiting", "gone"}
           \/ conn'[c] = gone
        /\ \A e \in Conn : e # c => conn'[e] = conn[e]
    BY <1>1 DEF Types, ConnInv, ConnTypes
  <1>5. ConnOK(c)'
    BY <1>4 DEF NewConn, ConnOK
  <1>6. told' \in State
    BY <1>1 DEF Types, ValuesOK
  <1>. QED
    BY <1>1, <1>2, <1>3, <1>4, <1>5, <1>6, MovedKeeps

LEMMA RestartTypes ==
    ASSUME Types, Restart
    PROVE  Types'
  <1>1. value' \in Known /\ saved' \in Known /\ told' \in State
    BY DEF Restart, Types, ValuesOK, State
  <1>2. QueuesOK'
    <2>1. <<>> \in Seq(Issued) /\ <<>> \in Seq(Events) /\ Len(<<>>) = 0
      OBVIOUS
    <2>. QED
      BY <2>1, ControlAssumption DEF Restart, QueuesOK
  <1>3. SessionsOK'
    <2>1. 0 \in 0 .. SettingsMax
      BY ControlAssumption
    <2>. QED
      BY <2>1 DEF Restart, SessionsOK, Idle
  <1>4. TaskOK'
    BY DEF Restart, TaskOK, NoEvent
  <1>5. ConnTypes'
    BY NewConnType DEF Restart, ConnTypes
  <1>6. ASSUME NEW c \in Conn PROVE ConnOK(c)' /\ QuestionOK(c)'
    <2>1. conn'[c] = NewConn /\ commands' = <<>>
      BY DEF Restart
    <2>. QED
      BY <2>1 DEF NewConn, ConnOK, QuestionOK
  <1>. QED
    BY <1>1, <1>2, <1>3, <1>4, <1>5, <1>6 DEF Restart, Types, ValuesOK, ConnInv

LEMMA InitTypes ==
    ASSUME Init
    PROVE  Types
  <1>1. FirstState \in Known
    BY ControlAssumption DEF FirstState, Known, State, Object
  <1>2. value \in Known /\ saved \in Known /\ told \in State
    BY <1>1 DEF Init, State
  <1>3. QueuesOK
    <2>1. <<>> \in Seq(Issued) /\ <<>> \in Seq(Events) /\ Len(<<>>) = 0
      OBVIOUS
    <2>. QED
      BY <2>1, ControlAssumption DEF Init, QueuesOK
  <1>4. SessionsOK
    <2>1. 0 \in 0 .. SettingsMax
      BY ControlAssumption
    <2>. QED
      BY <2>1 DEF Init, SessionsOK, Idle
  <1>5. TaskOK
    BY DEF Init, TaskOK, NoEvent
  <1>6. ConnTypes
    BY NewConnType DEF Init, ConnTypes
  <1>7. ASSUME NEW c \in Conn PROVE ConnOK(c) /\ QuestionOK(c)
    <2>1. conn[c] = NewConn /\ commands = <<>>
      BY DEF Init
    <2>. QED
      BY <2>1 DEF NewConn, ConnOK, QuestionOK
  <1>. QED
    BY <1>2, <1>3, <1>4, <1>5, <1>6, <1>7 DEF Init, Types, ValuesOK, ConnInv

LEMMA StepTypes ==
    ASSUME Types, [Next]_vars
    PROVE  Types'
  <1>1. CASE UNCHANGED vars
    BY <1>1, ConnKept DEF vars, clientVars, ghostVars, Types, QueuesOK, SessionsOK, ValuesOK, TaskOK
  <1>2. CASE Next
    <2>1. CASE DispatcherStep
      BY <2>1, DispatchTypes, PushTypes, AnswerTypes DEF DispatcherStep
    <2>2. CASE TaskStep
      BY <2>2, TaskTypes
    <2>3. ASSUME NEW c \in Client, \/ Arrive(c) \/ Leave(c) \/ Post(c) \/ TakeSettings(c)
                                   \/ \E v \in Value : Report(c, v)
          PROVE  Types'
      BY <2>3, ArriveTypes, SessionTypes, ReportTypes
    <2>4. ASSUME NEW c \in Conn, \/ ConnStep(c) \/ HangUp(c) \/ Abandon(c)
                                 \/ \E r \in Requests[c] : Receive(c, r)
          PROVE  Types'
      BY <2>4, SendCommandTypes, AskServerTypes, GotStatusTypes, RespondTypes, NotifyTypes,
         GoneTypes, ReceiveTypes DEF ConnStep
    <2>5. CASE Restart
      BY <2>5, RestartTypes
    <2>. QED
      BY <1>2, <2>1, <2>2, <2>3, <2>4, <2>5 DEF Next
  <1>. QED
    BY <1>1, <1>2

\* The state, the queues and the connections keep their types, and the command queue and
\* the event channel their bounds (the channels of Server::run).
THEOREM TypeCorrect == Spec => []TypeOK
  <1>1. Init => Types
    BY InitTypes
  <1>2. Types /\ [Next]_vars => Types'
    BY StepTypes
  <1>3. Types => TypeOK
    <2>1. ASSUME Types PROVE commands \in Seq(Command)
      <3>1. commands \in Seq(Issued) /\ Issued \subseteq Command
        BY <2>1 DEF Types, QueuesOK, Issued
      <3>. QED
        BY <3>1
    <2>. QED
      BY <2>1 DEF Types, QueuesOK, SessionsOK, ValuesOK, ConnInv, ConnTypes, Known, Issued, TypeOK
  <1>. QED
    BY <1>1, <1>2, <1>3, PTL DEF Spec

-----------------------------------------------------------------------------
(* The gate.                                                                 *)

Gated == {"sending", "asking", "waiting", "notifying"}

Gate(c) ==
    Enabled /\ conn[c].pc \in Gated =>
        IF Kind[c] = "http" THEN conn[c].request.token ELSE conn[c].authenticated

\* Whoever is admitted with a method other than those two has shown a token.
LEMMA Admitted ==
    ASSUME NEW c \in Conn, NEW r, Admits(c, r), r.method \notin Tokens, Enabled
    PROVE  IF Kind[c] = "http" THEN r.token ELSE conn[c].authenticated
  BY DEF Admits

LEMMA GateSame ==
    ASSUME NEW c \in Conn, Gate(c), conn'[c] = conn[c] \/ conn'[c].pc \notin Gated
    PROVE  Gate(c)'
  BY DEF Gate

\* A step that moves on with a request that is past the gate.
LEMMA GateMoves ==
    ASSUME NEW c \in Conn, Gate(c), conn[c].pc \in Gated,
           conn'[c].request = conn[c].request, conn'[c].authenticated = conn[c].authenticated
    PROVE  Gate(c)'
  BY DEF Gate

LEMMA GateReceive ==
    ASSUME Types, NEW c \in Conn, NEW r \in Requests[c], Receive(c, r)
    PROVE  Gate(c)'
  <1>. DEFINE accepted == Admits(c, r) /\ r.method = "Server.Authenticate" /\ r.token
              known == conn[c].authenticated \/ (accepted /\ Kind[c] # "http")
              pc == FirstStep(c, r)
  <1>1. conn' = [conn EXCEPT ![c] =
                [@ EXCEPT !.pc = pc, !.request = r, !.authenticated = known]]
    BY Zenon DEF Receive
  <1>2. /\ pc \in {"idle", "sending", "asking", "responding"}
        /\ pc \in {"sending", "asking"} => Admits(c, r) /\ r.method \notin Tokens
    BY FirstSteps DEF Tokens, Sets, Quiet, Updates, Queries
  <1>3. conn[c].authenticated => known
    OBVIOUS
  <1>. HIDE DEF known, pc
  <1>4. conn'[c].pc = pc /\ conn'[c].request = r /\ conn'[c].authenticated = known
    BY <1>1 DEF Types, ConnInv, ConnTypes
  <1>. QED
    BY <1>2, <1>3, <1>4, Admitted DEF Gate, Gated

LEMMA GateRespond ==
    ASSUME Types, NEW c \in Conn, Respond(c)
    PROVE  Gate(c)'
  <1>. DEFINE r == conn[c].request
              more == Kind[c] # "http" /\ Admits(c, r) /\ ~ Malformed(r) /\ Notifies(r)
  <1>1. conn' = [conn EXCEPT ![c] =
                IF more THEN [@ EXCEPT !.pc = "notifying"]
                ELSE [@ EXCEPT !.pc = "idle", !.request = None, !.reply = None]]
    BY DEF Respond
  <1>2. more /\ Enabled => conn[c].authenticated
    <2>1. Notifies(r) => r.method \notin Tokens
      BY DEF Notifies, Sets, Updates, Tokens
    <2>. QED
      BY <2>1, Admitted
  <1>3. more => Kind[c] # "http"
    OBVIOUS
  <1>. HIDE DEF more
  <1>4. /\ more => conn'[c].authenticated = conn[c].authenticated
        /\ ~ more => conn'[c].pc = "idle"
    BY <1>1 DEF Types, ConnInv, ConnTypes
  <1>. QED
    BY <1>2, <1>3, <1>4 DEF Gate, Gated

LEMMA GateConn ==
    ASSUME Types, NEW c \in Conn, Gate(c), ConnStep(c) \/ HangUp(c) \/ Abandon(c)
    PROVE  Gate(c)'
  <1>1. CASE Respond(c)
    BY <1>1, GateRespond
  <1>2. CASE SendCommand(c)
    <2>1. PICK pc : conn' = [conn EXCEPT ![c].pc = pc]
      BY <1>2 DEF SendCommand
    <2>2. conn[c].pc \in Gated
      BY <1>2 DEF SendCommand, Gated
    <2>. QED
      BY <2>1, <2>2, GateMoves DEF Types, ConnInv, ConnTypes
  <1>3. CASE AskServer(c) \/ GotStatus(c)
    <2>1. PICK pc : conn' = [conn EXCEPT ![c].pc = pc]
      BY <1>3 DEF AskServer, GotStatus
    <2>2. conn[c].pc \in Gated
      BY <1>3 DEF AskServer, GotStatus, Gated
    <2>. QED
      BY <2>1, <2>2, GateMoves DEF Types, ConnInv, ConnTypes
  <1>4. CASE Notify(c)
    <2>1. conn' = [conn EXCEPT ![c] =
                IF Kind[c] = "http" THEN [@ EXCEPT !.pc = "responding"]
                ELSE [@ EXCEPT !.pc = "idle", !.request = None, !.reply = None]]
      BY <1>4 DEF Notify
    <2>2. conn'[c].pc \notin Gated
      BY <2>1 DEF Types, ConnInv, ConnTypes, Gated
    <2>. QED
      BY <2>2, GateSame
  <1>5. CASE HangUp(c) \/ Abandon(c)
    <2>1. conn' = [conn EXCEPT ![c] = NewConn] \/ conn' = [conn EXCEPT ![c] = [NewConn EXCEPT !.pc = "gone"]]
      BY <1>5 DEF HangUp, Abandon
    <2>2. conn'[c].pc \notin Gated
      BY <2>1 DEF Types, ConnInv, ConnTypes, NewConn, Gated
    <2>. QED
      BY <2>2, GateSame
  <1>. QED
    BY <1>1, <1>2, <1>3, <1>4, <1>5 DEF ConnStep

\* The other connections stand still.
LEMMA OthersStand ==
    ASSUME Types, NEW c \in Conn, NEW d \in Conn, c # d,
           \/ ConnStep(d) \/ HangUp(d) \/ Abandon(d)
           \/ \E r \in Requests[d] : Receive(d, r)
    PROVE  conn'[c] = conn[c]
  <1>1. \A r \in Requests[d] : Receive(d, r) => conn'[c] = conn[c]
    BY Zenon DEF Receive, Types, ConnInv, ConnTypes
  <1>2. ConnStep(d) \/ HangUp(d) \/ Abandon(d) => conn'[c] = conn[c]
    BY DEF ConnStep, SendCommand, AskServer, GotStatus, Respond, Notify, HangUp, Abandon,
           Types, ConnInv, ConnTypes
  <1>. QED
    BY <1>1, <1>2

LEMMA GateAnswer ==
    ASSUME Types, NEW c \in Conn, Gate(c), Answer
    PROVE  Gate(c)'
  <1>. DEFINE d == Head(commands)
  <1>1. /\ conn' = IF d.from = Task \/ conn[d.from].pc # "waiting" THEN conn
                   ELSE IF d.method = "GetStatus"
                   THEN [conn EXCEPT ![d.from].reply = value]
                   ELSE [conn EXCEPT ![d.from].pc = "responding"]
        /\ commands # <<>>
    BY DEF Answer
  <1>2. d \in Issued
    BY <1>1, HeadOf DEF Types
  <1>3. d.from \in Conn \cup {Task}
    BY <1>2 DEF Issued, Command
  <1>4. CASE d.from # c \/ conn[c].pc # "waiting"
    <2>1. conn'[c] = conn[c]
      BY <1>1, <1>3, <1>4 DEF Types, ConnInv, ConnTypes
    <2>. QED
      BY <2>1, GateSame
  <1>5. CASE d.from = c /\ conn[c].pc = "waiting"
    <2>1. /\ conn'[c].request = conn[c].request
          /\ conn'[c].authenticated = conn[c].authenticated
      BY <1>1, <1>5 DEF Types, ConnInv, ConnTypes
    <2>2. conn[c].pc \in Gated
      BY <1>5 DEF Gated
    <2>. QED
      BY <2>1, <2>2, GateMoves
  <1>. QED
    BY <1>4, <1>5

LEMMA GateKept ==
    ASSUME Types, NEW c \in Conn, Gate(c), [Next]_vars
    PROVE  Gate(c)'
  <1>1. ASSUME UNCHANGED conn PROVE Gate(c)'
    BY <1>1, GateSame
  <1>2. ASSUME NEW d \in Conn, \/ ConnStep(d) \/ HangUp(d) \/ Abandon(d)
                               \/ \E r \in Requests[d] : Receive(d, r)
        PROVE  Gate(c)'
    <2>1. CASE d = c
      BY <1>2, <2>1, GateConn, GateReceive
    <2>2. CASE d # c
      BY <1>2, <2>2, OthersStand, GateSame
    <2>. QED
      BY <2>1, <2>2
  <1>3. CASE Restart
    <2>1. conn'[c] = NewConn
      BY <1>3 DEF Restart
    <2>. QED
      BY <2>1 DEF NewConn, Gate, Gated
  <1>4. UNCHANGED vars \/ Dispatch \/ Push \/ TaskStep => UNCHANGED conn
    BY DEF vars, Dispatch, Push, TaskStep, TakeEvent, AskStatus, TellStatus
  <1>5. (\E d \in Client : \/ Arrive(d) \/ Leave(d) \/ Post(d) \/ TakeSettings(d)
                           \/ \E v \in Value : Report(d, v)) => UNCHANGED conn
    BY DEF Arrive, Leave, Post, TakeSettings, Report
  <1>. QED
    BY <1>1, <1>2, <1>3, <1>4, <1>5, GateAnswer DEF Next, DispatcherStep

\* With authentication on, a request is carried out and notified of only with a valid token,
\* its own or one shown on the same connection (run_tcp, handle_ws, http_jsonrpc_handler).
THEOREM TokenGates == Spec => []GatedByToken
  <1>. DEFINE Inv == Types /\ \A c \in Conn : Gate(c)
  <1>1. Init => Inv
    <2>1. ASSUME Init, NEW c \in Conn PROVE Gate(c)
      BY <2>1 DEF Init, NewConn, Gate, Gated
    <2>. QED
      BY <2>1, InitTypes
  <1>2. Inv /\ [Next]_vars => Inv'
    BY StepTypes, GateKept
  <1>3. Inv => GatedByToken
    BY DEF Gate, Gated, GatedByToken
  <1>. QED
    BY <1>1, <1>2, <1>3, PTL DEF Spec

-----------------------------------------------------------------------------
(* The snapshots.                                                            *)

Holding(s) == {e \in StateEvents : e.state[s] = value[s]}

\* The last snapshot on its way, or else the last that was saved, holds the setting.
SavedInv(s) ==
    /\ LastIn(events, StateEvents, Holding(s))
    /\ Absent(events, StateEvents) => saved[s] = value[s]

LEMMA SavedSame ==
    ASSUME NEW s \in Setting, SavedInv(s), UNCHANGED <<events, saved>>, value'[s] = value[s]
    PROVE  SavedInv(s)'
  <1>1. Holding(s)' = Holding(s)
    BY DEF Holding
  <1>2. UNCHANGED <<events, saved>>
    OBVIOUS
  <1>. QED
    BY <1>1, <1>2 DEF SavedInv, LastIn, Absent

\* An event that is no snapshot changes nothing.
LEMMA SavedAppend ==
    ASSUME NEW s \in Setting, SavedInv(s), events \in Seq(Events), UNCHANGED saved, value'[s] = value[s],
           NEW e \in Events, e \notin StateEvents, events' = Append(events, e)
    PROVE  SavedInv(s)'
  <1>1. Holding(s)' = Holding(s)
    BY DEF Holding
  <1>2. /\ Absent(Append(events, e), StateEvents) <=> Absent(events, StateEvents)
        /\ LastIn(Append(events, e), StateEvents, Holding(s)) <=> LastIn(events, StateEvents, Holding(s))
    BY AppendLast
  <1>. QED
    BY <1>1, <1>2 DEF SavedInv

\* The events that are not snapshots.
LEMMA OtherEvents ==
    /\ \A d \in Issued : d.method \in Changes \cup {"Stream.Control"} => Event(d) \in Events \ StateEvents
    /\ \A d \in Issued : d.method \in Pushes => Changed(d) \in Events \ StateEvents
    /\ Reports \subseteq Events \ StateEvents
  <1>1. ASSUME NEW d \in Issued, d.method \in Changes \cup {"Stream.Control"}
        PROVE  Event(d) \in Events \ StateEvents
    <2>1. Event(d) \in Events
      <3>1. CASE d.method \in Sets
        BY <3>1 DEF Event, Events, Changed, ChangeEvents, Issued, Command, Changes
      <3>2. CASE d.method \notin Sets
        BY <3>2 DEF Event, Events, Updated, Control
      <3>. QED
        BY <3>1, <3>2
    <2>2. Event(d).type # "state"
      BY DEF Event, Changed
    <2>. QED
      BY <2>1, <2>2 DEF StateEvents
  <1>2. ASSUME NEW d \in Issued, d.method \in Pushes PROVE Changed(d) \in Events \ StateEvents
    BY <1>2 DEF Changed, Events, ChangeEvents, StateEvents, Issued, Command, Changes, Sets, Pushes
  <1>3. Reports \subseteq Events \ StateEvents
    BY DEF Reports, ChangeEvents, ClientEvents, StateEvents, Events
  <1>. QED
    BY <1>1, <1>2, <1>3

LEMMA DispatchDrops ==
    ASSUME Dispatch, ~ dropped'
    PROVE  ~ dropped
  <1>1. \A list : Offer(list) => ~ dropped
    BY Zenon DEF Offer
  <1>. QED
    BY <1>1 DEF Dispatch

\* What a step of the dispatcher does to the event channel when it loses nothing.
LEMMA DispatchEvents ==
    ASSUME Types, Dispatch, ~ dropped'
    PROVE  LET d == Head(commands)
           IN  /\ ~ dropped /\ events \in Seq(Events) /\ d \in Issued /\ value' \in Known
               /\ commands \in Seq(Issued) /\ commands # <<>> /\ commands' = Tail(commands)
               /\ d.method \in Changes \cup {"Stream.Control"}
               /\ value' = IF d.method \in Changes THEN Effect(value, d) ELSE value
               /\ \E q \in Seq(Events) :
                     /\ q = IF d.method \in {"Stream.SetProperty", "Stream.Control"} THEN events
                            ELSE Append(events, StateChanged(value'))
                     /\ events' = IF Pushed(d) THEN q ELSE Append(q, Event(d))
  <1>. DEFINE d == Head(commands)
  <1>1. /\ commands # <<>> /\ d.method \in Changes \cup {"Stream.Control"}
        /\ value' = IF d.method \in Changes THEN Effect(value, d) ELSE value
        /\ IF Pushed(d)
              THEN Offer(Snapshot(d, value'))
              ELSE Offer(Snapshot(d, value') \o <<Event(d)>>)
        /\ commands' = Tail(commands)
    BY DEF Dispatch
  <1>2. d \in Issued
    BY <1>1, HeadOf DEF Types
  <1>. HIDE DEF d
  <1>3. value' \in Known
    BY <1>1, <1>2, EffectOf DEF Types, ValuesOK
  <1>. DEFINE e == StateChanged(value')
  <1>4. /\ e \in StateEvents /\ e \in Events /\ Event(d) \in Events
        /\ Snapshot(d, value') \in Seq(Events) /\ Snapshot(d, value') \o <<Event(d)>> \in Seq(Events)
        /\ events \in Seq(Events)
    BY <1>1, <1>2, <1>3, Reported DEF Events, Types, QueuesOK
  <1>5. /\ Pushed(d) => events' = events \o Snapshot(d, value')
        /\ ~ Pushed(d) => events' = events \o (Snapshot(d, value') \o <<Event(d)>>)
    <2>1. CASE Pushed(d)
      BY <1>1, <1>4, <2>1, OfferOf DEF Types
    <2>2. CASE ~ Pushed(d)
      BY <1>1, <1>4, <2>2, OfferOf DEF Types
    <2>. QED
      BY <2>1, <2>2
  <1>6. Snapshot(d, value') =
            IF d.method \in {"Stream.SetProperty", "Stream.Control"} THEN <<>> ELSE <<e>>
    BY DEF Snapshot
  <1>. HIDE DEF e
  <1>7. CASE d.method \in {"Stream.SetProperty", "Stream.Control"}
    <2>1. /\ Pushed(d) => events' = events
          /\ ~ Pushed(d) => events' = Append(events, Event(d))
      <3>1. <<>> \o <<Event(d)>> = <<Event(d)>> /\ Snapshot(d, value') = <<>>
        BY <1>4, <1>6, <1>7
      <3>. QED
        BY <1>4, <1>5, <3>1, Joined
    <2>2. events' = IF Pushed(d) THEN events ELSE Append(events, Event(d))
      BY <2>1
    <2>. QED
      BY <1>1, <1>2, <1>3, <1>4, <1>7, <2>2, DispatchDrops DEF Types, QueuesOK, d
  <1>8. CASE d.method \notin {"Stream.SetProperty", "Stream.Control"}
    <2>. DEFINE q == Append(events, e)
    <2>1. q \in Seq(Events)
      BY <1>4, AppendOf
    <2>2. /\ Pushed(d) => events' = q
          /\ ~ Pushed(d) => events' = Append(q, Event(d))
      BY <1>4, <1>5, <1>6, <1>8, Joined
    <2>. HIDE DEF q
    <2>3. events' = IF Pushed(d) THEN q ELSE Append(q, Event(d))
      BY <2>2
    <2>4. q = Append(events, StateChanged(value'))
      BY DEF q, e
    <2>. QED
      BY <1>1, <1>2, <1>3, <1>4, <1>8, <2>1, <2>3, <2>4, DispatchDrops DEF Types, QueuesOK, d
  <1>. QED
    BY <1>7, <1>8

LEMMA SavedDispatch ==
    ASSUME Types, "Stream.SetProperty" \notin Method, NEW s \in Setting, SavedInv(s), Dispatch, ~ dropped'
    PROVE  SavedInv(s)'
  <1>. DEFINE d == Head(commands)
              e == StateChanged(value')
  <1>1. /\ events \in Seq(Events) /\ d \in Issued /\ value' \in Known
        /\ d.method \in Changes \cup {"Stream.Control"}
        /\ value' = IF d.method \in Changes THEN Effect(value, d) ELSE value
    BY DispatchEvents
  <1>2. PICK q \in Seq(Events) :
            /\ q = IF d.method \in {"Stream.SetProperty", "Stream.Control"} THEN events
                   ELSE Append(events, e)
            /\ events' = IF Pushed(d) THEN q ELSE Append(q, Event(d))
    BY DispatchEvents
  <1>3. UNCHANGED saved /\ Event(d) \in Events \ StateEvents /\ d.method # "Stream.SetProperty"
    BY <1>1, OtherEvents DEF Dispatch, Issued, Changes, Sets
  <1>4. e \in StateEvents /\ e \in Events /\ e.state = value'
    BY <1>1, Reported DEF StateChanged, Events
  <1>. HIDE DEF d, e
  <1>5. CASE d.method = "Stream.Control"
    <2>1. value' = value /\ q = events /\ ~ Pushed(d)
      BY <1>1, <1>2, <1>5 DEF Changes, Sets, Updates, Pushed
    <2>. QED
      BY <1>1, <1>2, <1>3, <2>1, SavedAppend
  <1>6. CASE d.method # "Stream.Control"
    <2>1. q = Append(events, e) /\ e \in Holding(s)'
      BY <1>2, <1>3, <1>4, <1>6 DEF Holding
    <2>2. LastIn(q, StateEvents, Holding(s)') /\ ~ Absent(q, StateEvents)
      BY <1>1, <1>4, <2>1, AppendLast
    <2>3. LastIn(events', StateEvents, Holding(s)') /\ ~ Absent(events', StateEvents)
      <3>1. CASE Pushed(d)
        BY <1>2, <2>2, <3>1
      <3>2. CASE ~ Pushed(d)
        <4>1. events' = Append(q, Event(d))
          BY <1>2, <3>2
        <4>. QED
          BY <1>3, <2>2, <4>1, AppendLast
      <3>. QED
        BY <3>1, <3>2
    <2>. QED
      BY <2>3 DEF SavedInv
  <1>. QED
    BY <1>5, <1>6

LEMMA SavedTake ==
    ASSUME Types, NEW s \in Setting, SavedInv(s), TakeEvent
    PROVE  SavedInv(s)'
  <1>1. /\ events # <<>> /\ events' = Tail(events) /\ UNCHANGED value
        /\ saved' = IF Head(events).type = "state" THEN Head(events).state ELSE saved
    BY DEF TakeEvent
  <1>2. Head(events) \in Events /\ events \in Seq(Events)
    BY <1>1, EventOf DEF Types, QueuesOK
  <1>3. Holding(s)' = Holding(s)
    BY <1>1 DEF Holding
  <1>4. /\ Absent(events, StateEvents) <=> Absent(Tail(events), StateEvents) /\ Head(events) \notin StateEvents
        /\ Absent(Tail(events), StateEvents) /\ Head(events) \in StateEvents
             => (LastIn(events, StateEvents, Holding(s)) <=> Head(events) \in Holding(s))
        /\ LastIn(events, StateEvents, Holding(s)) => LastIn(Tail(events), StateEvents, Holding(s))
    BY <1>1, <1>2, TailLast
  <1>5. CASE Head(events) \in StateEvents
    <2>1. saved' = Head(events).state
      BY <1>1, <1>5 DEF StateEvents
    <2>2. Absent(events', StateEvents) => saved'[s] = value'[s]
      BY <1>1, <1>4, <1>5, <2>1 DEF SavedInv, Holding
    <2>. QED
      BY <1>1, <1>3, <1>4, <2>2 DEF SavedInv
  <1>6. CASE Head(events) \notin StateEvents
    <2>1. Head(events).type # "state"
      BY <1>2, <1>6 DEF Events, ChangeEvents, ClientEvents, Updated, Control
    <2>. QED
      BY <1>1, <1>3, <1>4, <1>6, <2>1 DEF SavedInv
  <1>. QED
    BY <1>5, <1>6

\* Steps that touch neither the settings, the snapshots nor the event channel.
LEMMA SavedQuiet ==
    ASSUME Types, NEW s \in Setting,
           \/ UNCHANGED vars \/ Answer \/ AskStatus \/ TellStatus
           \/ \E c \in Client : Arrive(c) \/ Leave(c) \/ TakeSettings(c) \/ \E v \in Value : Report(c, v)
           \/ \E c \in Conn : \/ ConnStep(c) \/ HangUp(c) \/ Abandon(c)
                              \/ \E r \in Requests[c] : Receive(c, r)
    PROVE  UNCHANGED <<events, saved, dropped>> /\ value'[s] = value[s]
  <1>1. CASE UNCHANGED vars \/ Answer \/ AskStatus \/ TellStatus
    BY <1>1 DEF vars, ghostVars, Answer, AskStatus, TellStatus
  <1>2. ASSUME NEW c \in Client, Arrive(c) \/ Leave(c) \/ TakeSettings(c) \/ \E v \in Value : Report(c, v)
        PROVE  UNCHANGED <<events, saved, dropped>> /\ value'[s] = value[s]
    <2>1. s # c /\ s \in Object /\ value \in [Object -> Value \cup {None}]
      BY ControlAssumption DEF Object, Types, ValuesOK, Known, State
    <2>. QED
      BY <1>2, <2>1 DEF Arrive, Leave, TakeSettings, Report, ghostVars
  <1>3. ASSUME NEW c \in Conn, \/ ConnStep(c) \/ HangUp(c) \/ Abandon(c)
                               \/ \E r \in Requests[c] : Receive(c, r)
        PROVE  UNCHANGED <<events, saved, dropped>> /\ value'[s] = value[s]
    <2>1. UNCHANGED <<events, saved, dropped, value>>
      BY <1>3 DEF ConnStep, SendCommand, AskServer, GotStatus, Respond, Notify, HangUp, Abandon,
                  Receive, ghostVars
    <2>. QED
      BY <2>1
  <1>. QED
    BY <1>1, <1>2, <1>3

LEMMA SavedKept ==
    ASSUME Types, "Stream.SetProperty" \notin Method, ~ dropped => \A s \in Setting : SavedInv(s),
           [Next]_vars, ~ dropped', NEW s \in Setting
    PROVE  SavedInv(s)'
  <1>1. CASE Restart
    <2>1. value' = saved /\ saved' = saved /\ events' = <<>>
      BY <1>1 DEF Restart
    <2>. QED
      BY <2>1 DEF SavedInv, LastIn, Absent
  <1>2. CASE ~ Restart
    <2>1. ASSUME \/ UNCHANGED vars \/ Answer \/ AskStatus \/ TellStatus
                 \/ \E c \in Client : Arrive(c) \/ Leave(c) \/ TakeSettings(c) \/ \E v \in Value : Report(c, v)
                 \/ \E c \in Conn : \/ ConnStep(c) \/ HangUp(c) \/ Abandon(c)
                                    \/ \E r \in Requests[c] : Receive(c, r)
          PROVE  SavedInv(s)'
      <3>1. UNCHANGED <<events, saved, dropped>> /\ value'[s] = value[s]
        BY <2>1, SavedQuiet
      <3>. QED
        BY <3>1, SavedSame
    <2>2. CASE Dispatch
      <3>1. ~ dropped
        BY <2>2, DispatchDrops
      <3>2. SavedInv(s)
        BY <3>1
      <3>. QED
        BY <2>2, <3>2, SavedDispatch
    <2>3. CASE Push
      <3>1. /\ Offer(<<Changed(dispatcher)>>) /\ UNCHANGED <<value, saved>> /\ dispatcher # None
        BY <2>3 DEF Push
      <3>2. Changed(dispatcher) \in Events \ StateEvents /\ events \in Seq(Events)
        BY <3>1, OtherEvents DEF Types, QueuesOK
      <3>3. ~ dropped /\ events' = events \o <<Changed(dispatcher)>>
        <4>1. <<Changed(dispatcher)>> \in Seq(Events)
          BY <3>2
        <4>. QED
          BY <3>1, <4>1, OfferOf DEF Types
      <3>4. events' = Append(events, Changed(dispatcher))
        BY <3>2, <3>3, Joined
      <3>. QED
        BY <3>1, <3>2, <3>3, <3>4, SavedAppend
    <2>4. CASE TakeEvent
      <3>1. UNCHANGED dropped
        BY <2>4 DEF TakeEvent, ghostVars
      <3>. QED
        BY <2>4, <3>1, SavedTake
    <2>5. ASSUME NEW c \in Client, Post(c) PROVE SavedInv(s)'
      <3>1. /\ session[c].event # None /\ events' = Append(events, session[c].event)
            /\ UNCHANGED <<value, saved, dropped>>
        BY <2>5 DEF Post, ghostVars
      <3>2. session[c].event \in Events \ StateEvents /\ events \in Seq(Events)
        BY <3>1, OtherEvents DEF Types, QueuesOK, SessionsOK
      <3>. QED
        BY <3>1, <3>2, SavedAppend
    <2>. QED
      BY <1>2, <2>1, <2>2, <2>3, <2>4, <2>5 DEF Next, DispatcherStep, TaskStep
  <1>. QED
    BY <1>1, <1>2

\* When nothing is under way and no event was lost, the application has saved every setting
\* as it is (StateChanged in Dispatcher::dispatch, the event task in main).
THEOREM SettingsAreSaved == Spec => []SettingsSaved
  <1>. DEFINE Inv == /\ Types
                     /\ "Stream.SetProperty" \notin Method /\ ~ dropped => \A s \in Setting : SavedInv(s)
  <1>1. Init => Inv
    <2>1. ASSUME Init, NEW s \in Setting PROVE SavedInv(s)
      <3>1. events = <<>> /\ saved = value
        BY <2>1 DEF Init
      <3>. QED
        BY <3>1 DEF SavedInv, LastIn, Absent
    <2>. QED
      BY <2>1, InitTypes
  <1>2. Inv /\ [Next]_vars => Inv'
    BY StepTypes, SavedKept
  <1>3. Inv => SettingsSaved
    BY DEF Quiesced, SettingsSaved, SavedInv, Absent
  <1>. QED
    BY <1>1, <1>2, <1>3, PTL DEF Spec

-----------------------------------------------------------------------------
(* What was notified last.                                                   *)

\* The commands that set a setting, and those of them that give it a value.
Change      == {d \in Issued : d.method \in Changes}
SetsOf(s)   == {d \in Change : d.object = s}
SetsTo(s, v) == {d \in SetsOf(s) : d.value = v}

\* The events that make the application tell of a setting, and those that do it right.
Tells(s)   == {Updated} \cup {e \in ChangeEvents : e.object = s}
Current(s) == {Updated} \cup {e \in ChangeEvents : e.value = value[s]}

\* What the application told last, or is about to tell, is what holds.
Fine(s) ==
    IF task.event = Updated THEN task.reply # None => task.reply[s] = value[s]
                            ELSE told[s] = value[s]

TellsInv(s) ==
    setters[s] # {} /\ Absent(commands, SetsOf(s)) =>
        /\ LastIn(events, Tells(s), Current(s))
        /\ Absent(events, Tells(s)) => Fine(s)

\* The setting has a value as soon as the queue is carried out.
Comes(s, v) ==
    /\ LastIn(commands, SetsOf(s), SetsTo(s, v))
    /\ Absent(commands, SetsOf(s)) => value[s] = v

\* A connection whose echo is still to come; one that has sent a change it will tell of.
Echoes(c) ==
    \/ conn[c].pc = "notifying"
    \/ /\ conn[c].pc = "responding" /\ Kind[c] # "http" /\ Admits(c, conn[c].request)
       /\ ~ Malformed(conn[c].request) /\ Notifies(conn[c].request)

Acts(c) == Echoes(c) \/ (conn[c].pc \in {"asking", "waiting"} /\ conn[c].request.method \in Updates)

\* A connection that waits sends nothing after its question.
Ordered(c) ==
    \A i, j \in 1 .. Len(commands) : i < j /\ commands[i] \in Questions(c) => commands[j].from # c

EchoInv(c) ==
    LET r == conn[c].request
    IN  /\ Acts(c) => c \in setters[r.object]
        /\ \A s \in Setting, v \in Value :
              Echoes(c) /\ r.method \in Sets /\ r.object = s /\ r.value = v => Comes(s, v)
        /\ Acts(c) /\ r.method \in Updates /\ conn[c].reply # None =>
              Absent(commands, Change) /\ \A s \in Setting : conn[c].reply[s] = value[s]
        /\ conn[c].pc = "waiting" => Ordered(c)

OneSetter == \A o, p \in Object : \A c \in setters[o], d \in setters[p] : c = d

ToldInv == ~ dropped /\ OneSetter =>
    (\A s \in Setting : TellsInv(s)) /\ (\A c \in Conn : EchoInv(c))

\* Whoever has a change in the queue is among its setters.
SettersOK ==
    /\ setters \in [Object -> SUBSET Conn]
    /\ IsFiniteSet(UNION {setters[o] : o \in Object})
    /\ \A i \in 1 .. Len(commands) :
          commands[i] \in Change => commands[i].from \in setters[commands[i].object]

\* The question of the event task is about the event in hand.
AskedOK ==
    /\ task.reply # None => task.event # None /\ task.asked
    /\ task.event = None => ~ task.asked
    /\ \A i \in 1 .. Len(commands) : commands[i].from = Task =>
          /\ task.asked /\ task.reply = None
          /\ \A j \in 1 .. Len(commands) : commands[j].from = Task => j = i

-----------------------------------------------------------------------------
(* Facts about the kinds of commands and events.                             *)

LEMMA NoneNoEvent == None # Updated /\ None \notin ClientEvents /\ None \notin State /\ Updated \notin ClientEvents
  BY ControlAssumption DEF Updated, ClientEvents

\* A command that sets a setting goes to no session.
LEMMA SettingCommand ==
    ASSUME NEW d \in Issued, NEW s \in Setting, d \in SetsOf(s)
    PROVE  ~ Pushed(d)
  <1>1. d.object \notin Client
    BY ControlAssumption DEF SetsOf
  <1>2. d.method \in Changes /\ d.value \in Value /\ ~ OfClient(d.method)
    BY <1>1 DEF SetsOf, Change, Issued, Command
  <1>. QED
    BY <1>2 DEF OfClient, Pushes, Pushed

\* The event of a command that sets a setting tells of it.
LEMMA EventTells ==
    ASSUME NEW d \in Issued, NEW s \in Setting, d \in SetsOf(s)
    PROVE  Event(d) \in Tells(s) /\ (Event(d) = Updated \/ Event(d).value = d.value)
  <1>1. d.method \in Changes /\ d.object = s /\ d.value \in Value /\ s \in Object
    BY DEF SetsOf, Change, Issued, Command, Object
  <1>2. CASE d.method \in Sets
    BY <1>1, <1>2 DEF Event, Changed, Tells, ChangeEvents
  <1>3. CASE d.method \notin Sets
    BY <1>1, <1>3 DEF Event, Changes, Sets, Updates, Tells, Updated
  <1>. QED
    BY <1>2, <1>3

\* Any other event tells of everything or of something else.
LEMMA EventElse ==
    ASSUME NEW d \in Issued, NEW s \in Setting, d \notin SetsOf(s),
           d.method \in Changes \cup {"Stream.Control"}
    PROVE  Event(d) = Updated \/ Event(d) \notin Tells(s)
  <1>1. CASE d.method \in Sets
    <2>1. d.object # s
      BY <1>1 DEF SetsOf, Change, Changes
    <2>. QED
      BY <1>1, <2>1 DEF Event, Changed, Tells, ChangeEvents, Updated
  <1>2. CASE d.method \notin Sets
    BY <1>2 DEF Event, Updated, Tells, ChangeEvents
  <1>. QED
    BY <1>1, <1>2

LEMMA NotTold ==
    ASSUME NEW s \in Setting
    PROVE  /\ \A e \in StateEvents : e \notin Tells(s)
           /\ \A e \in Reports : e \notin Tells(s)
           /\ \A d \in Issued : d.method \in Pushes => Changed(d) \notin Tells(s)
  <1>1. \A e \in StateEvents : e \notin Tells(s)
    BY DEF StateEvents, Tells, Updated, ChangeEvents
  <1>2. s \notin Client
    BY ControlAssumption
  <1>3. \A e \in Reports : e \notin Tells(s)
    BY <1>2 DEF Reports, ClientEvents, ChangeEvents, Tells, Updated
  <1>4. ASSUME NEW d \in Issued, d.method \in Pushes PROVE Changed(d) \notin Tells(s)
    <2>1. d.object \in Client
      BY <1>4 DEF Issued, OfClient, Pushes, Changes, Sets
    <2>. QED
      BY <1>2, <2>1 DEF Changed, Tells, Updated, ChangeEvents
  <1>. QED
    BY <1>1, <1>3, <1>4

-----------------------------------------------------------------------------
(* What a step keeps of what was told.                                       *)

\* Nothing new of the setting is in the channel, or that everything changed.
LEMMA TellsKept ==
    ASSUME NEW s \in Setting, TellsInv(s), setters'[s] = setters[s], value'[s] = value[s],
           Absent(commands', SetsOf(s)) => Absent(commands, SetsOf(s)),
           events \in Seq(Events),
           \/ UNCHANGED events
           \/ \E e \in Events : (e = Updated \/ e \notin Tells(s)) /\ events' = Append(events, e),
           Absent(commands, SetsOf(s)) /\ Fine(s) => Fine(s)'
    PROVE  TellsInv(s)'
  <1>1. Current(s)' = Current(s)
    BY DEF Current
  <1>2. CASE UNCHANGED events
    BY <1>1, <1>2 DEF TellsInv, LastIn, Absent
  <1>3. ASSUME NEW e \in Events, e = Updated \/ e \notin Tells(s), events' = Append(events, e)
        PROVE  TellsInv(s)'
    <2>1. e = Updated => e \in Tells(s) /\ e \in Current(s)
      BY DEF Tells, Current
    <2>2. /\ Absent(events', Tells(s)) <=> Absent(events, Tells(s)) /\ e \notin Tells(s)
          /\ e \in Tells(s) => (LastIn(events', Tells(s), Current(s)) <=> e \in Current(s))
          /\ e \notin Tells(s) =>
               (LastIn(events', Tells(s), Current(s)) <=> LastIn(events, Tells(s), Current(s)))
      BY <1>3, AppendLast
    <2>. QED
      BY <1>1, <1>3, <2>1, <2>2 DEF TellsInv
  <1>. QED
    BY <1>2, <1>3

\* A command leaves the queue, and what it set holds.
LEMMA ComesTail ==
    ASSUME QueuesOK, NEW s \in Setting, NEW v \in Value, Comes(s, v), commands # <<>>,
           commands' = Tail(commands),
           IF Head(commands) \in SetsOf(s) THEN value'[s] = Head(commands).value
                                           ELSE value'[s] = value[s]
    PROVE  Comes(s, v)'
  <1>. DEFINE d == Head(commands)
              t == Tail(commands)
  <1>1. /\ Absent(commands, SetsOf(s)) <=> Absent(t, SetsOf(s)) /\ d \notin SetsOf(s)
        /\ Absent(t, SetsOf(s)) /\ d \in SetsOf(s) =>
             (LastIn(commands, SetsOf(s), SetsTo(s, v)) <=> d \in SetsTo(s, v))
        /\ LastIn(commands, SetsOf(s), SetsTo(s, v)) => LastIn(t, SetsOf(s), SetsTo(s, v))
    BY TailLast DEF QueuesOK
  <1>2. d \in SetsTo(s, v) => d.value = v
    BY DEF SetsTo
  <1>. HIDE DEF d, t
  <1>. QED
    BY <1>1, <1>2 DEF Comes, d, t

LEMMA ComesAppend ==
    ASSUME QueuesOK, NEW s \in Setting, NEW v \in Value, Comes(s, v), value'[s] = value[s],
           NEW d \in Issued, d \notin SetsOf(s), commands' = Append(commands, d)
    PROVE  Comes(s, v)'
  <1>1. /\ Absent(commands', SetsOf(s)) <=> Absent(commands, SetsOf(s))
        /\ LastIn(commands', SetsOf(s), SetsTo(s, v)) <=> LastIn(commands, SetsOf(s), SetsTo(s, v))
    BY AppendLast DEF QueuesOK
  <1>. QED
    BY <1>1 DEF Comes

LEMMA OrderedTail ==
    ASSUME QueuesOK, NEW c \in Conn, Ordered(c), commands # <<>>, commands' = Tail(commands)
    PROVE  Ordered(c)'
  <1>1. /\ Len(commands) \in Nat \ {0} /\ Len(commands') = Len(commands) - 1
        /\ \A i \in 1 .. Len(commands) - 1 : commands'[i] = commands[i + 1]
    BY TailOf DEF QueuesOK
  <1>2. \A i \in 1 .. Len(commands') :
           i \in Nat /\ i + 1 \in 1 .. Len(commands) /\ commands'[i] = commands[i + 1]
    BY <1>1
  <1>3. \A i, j \in 1 .. Len(commands') : i < j => i + 1 < j + 1
    BY <1>1
  <1>. QED
    BY <1>2, <1>3 DEF Ordered

LEMMA OrderedAppend ==
    ASSUME QueuesOK, NEW c \in Conn, Ordered(c) \/ Absent(commands, Questions(c)),
           NEW d \in Issued, d.from # c \/ Absent(commands, Questions(c)), commands' = Append(commands, d)
    PROVE  Ordered(c)'
  <1>1. /\ Len(commands) \in Nat /\ Len(commands') = Len(commands) + 1
        /\ commands'[Len(commands) + 1] = d
        /\ \A i \in 1 .. Len(commands) : commands'[i] = commands[i]
    BY AppendOf DEF QueuesOK
  <1>2. \A i, j \in 1 .. Len(commands') : i < j => i \in 1 .. Len(commands)
    BY <1>1
  <1>3. \A j \in 1 .. Len(commands') : j \in 1 .. Len(commands) \/ commands'[j] = d
    BY <1>1
  <1>. QED
    BY <1>1, <1>2, <1>3 DEF Ordered, Absent

LEMMA ChangeTail ==
    ASSUME QueuesOK, commands # <<>>
    PROVE  Absent(commands, Change) <=> Absent(Tail(commands), Change) /\ Head(commands) \notin Change
  BY TailLast DEF QueuesOK

\* What a connection that acts has asked for.
LEMMA ActsOf ==
    ASSUME Types, NEW c \in Conn, Acts(c)
    PROVE  LET r == conn[c].request
           IN  r \in Request /\ Notifies(r) /\ r.object \in Object /\ r.value \in Value
  <1>. DEFINE r == conn[c].request
              pc == conn[c].pc
  <1>1. pc \in {"asking", "waiting", "responding", "notifying"}
    BY DEF Acts, Echoes
  <1>2. r \in Request /\ ~ Malformed(r) /\ Notifies(r)
    <2>1. r \in Requests[c] /\ (pc = "notifying" => ~ Malformed(r) /\ Notifies(r))
          /\ (pc \in {"asking", "waiting"} /\ r.method \in Updates => ~ Malformed(r))
      BY <1>1 DEF Types, ConnInv, ConnOK
    <2>. QED
      BY <2>1 DEF Acts, Echoes, Requests, Notifies
  <1>3. r.object # None
    BY <1>2 DEF Notifies, Malformed
  <1>. QED
    BY <1>2, <1>3 DEF Request

\* A step of others.
LEMMA EchoKept ==
    ASSUME Types, NEW c \in Conn, EchoInv(c), conn'[c] = conn[c],
           \A o \in Object : c \in setters[o] => c \in setters'[o],
           Acts(c) => \A s \in Setting, v \in Value : Comes(s, v) => Comes(s, v)',
           Acts(c) /\ Absent(commands, Change) =>
                Absent(commands', Change) /\ \A s \in Setting : value'[s] = value[s],
           conn[c].pc = "waiting" /\ Ordered(c) => Ordered(c)'
    PROVE  EchoInv(c)'
  <1>. DEFINE r == conn[c].request
  <1>1. (Acts(c)' <=> Acts(c)) /\ (Echoes(c)' <=> Echoes(c)) /\ r' = r
    BY DEF Acts, Echoes, Admits
  <1>2. Echoes(c) => Acts(c)
    BY DEF Acts
  <1>3. Acts(c)' => c \in setters'[r'.object]
    BY <1>1, ActsOf DEF EchoInv
  <1>4. ASSUME NEW s \in Setting, NEW v \in Value,
               Echoes(c)', r'.method \in Sets, r'.object = s, r'.value = v
        PROVE  Comes(s, v)'
    BY <1>1, <1>2, <1>4 DEF EchoInv
  <1>5. ASSUME Acts(c)', r'.method \in Updates, conn'[c].reply # None
        PROVE  Absent(commands', Change) /\ \A s \in Setting : conn'[c].reply[s] = value'[s]
    BY <1>1, <1>5 DEF EchoInv
  <1>6. conn'[c].pc = "waiting" => Ordered(c)'
    BY DEF EchoInv
  <1>. QED
    BY <1>3, <1>4, <1>5, <1>6 DEF EchoInv

-----------------------------------------------------------------------------
(* The setters and the question of the event task.                           *)

\* What a step does to the queue.
Taken   == commands # <<>> /\ commands' = Tail(commands)
Sent(d) == commands' = Append(commands, d)

LEMMA SettersKept ==
    ASSUME QueuesOK, SettersOK, UNCHANGED setters,
           UNCHANGED commands \/ Taken \/ \E d \in Issued : d \notin Change /\ Sent(d)
    PROVE  SettersOK'
  <1>1. CASE UNCHANGED commands
    BY <1>1 DEF SettersOK
  <1>2. CASE Taken
    <2>1. /\ Len(commands) \in Nat \ {0} /\ Len(commands') = Len(commands) - 1
          /\ \A i \in 1 .. Len(commands) - 1 : commands'[i] = commands[i + 1]
      BY <1>2, TailOf DEF QueuesOK, Taken
    <2>2. \A i \in 1 .. Len(commands') : i + 1 \in 1 .. Len(commands) /\ commands'[i] = commands[i + 1]
      BY <2>1
    <2>. QED
      BY <2>2 DEF SettersOK
  <1>3. ASSUME NEW d \in Issued, d \notin Change, Sent(d) PROVE SettersOK'
    <2>1. /\ Len(commands) \in Nat /\ Len(commands') = Len(commands) + 1
          /\ commands'[Len(commands) + 1] = d
          /\ \A i \in 1 .. Len(commands) : commands'[i] = commands[i]
      BY <1>3, AppendOf DEF QueuesOK, Sent
    <2>2. \A i \in 1 .. Len(commands') : i \in 1 .. Len(commands) \/ commands'[i] = d
      BY <2>1
    <2>. QED
      BY <1>3, <2>1, <2>2 DEF SettersOK
  <1>. QED
    BY <1>1, <1>2, <1>3

LEMMA AskedKept ==
    ASSUME QueuesOK, AskedOK, UNCHANGED task,
           UNCHANGED commands \/ Taken \/ \E d \in Issued : d.from # Task /\ Sent(d)
    PROVE  AskedOK'
  <1>1. CASE UNCHANGED commands
    BY <1>1 DEF AskedOK
  <1>2. CASE Taken
    <2>1. /\ Len(commands) \in Nat \ {0} /\ Len(commands') = Len(commands) - 1
          /\ \A i \in 1 .. Len(commands) - 1 : commands'[i] = commands[i + 1]
      BY <1>2, TailOf DEF QueuesOK, Taken
    <2>2. \A i \in 1 .. Len(commands') :
             i \in Nat /\ i + 1 \in 1 .. Len(commands) /\ commands'[i] = commands[i + 1]
      BY <2>1
    <2>3. \A i, j \in 1 .. Len(commands') : i + 1 = j + 1 => i = j
      BY <2>1
    <2>4. ASSUME NEW i \in 1 .. Len(commands'), commands'[i].from = Task
          PROVE  /\ task.asked /\ task.reply = None
                 /\ \A j \in 1 .. Len(commands') : commands'[j].from = Task => i + 1 = j + 1
      BY <2>2, <2>4 DEF AskedOK
    <2>. QED
      BY <2>3, <2>4 DEF AskedOK
  <1>3. ASSUME NEW d \in Issued, d.from # Task, Sent(d) PROVE AskedOK'
    <2>1. /\ Len(commands) \in Nat /\ Len(commands') = Len(commands) + 1
          /\ commands'[Len(commands) + 1] = d
          /\ \A i \in 1 .. Len(commands) : commands'[i] = commands[i]
      BY <1>3, AppendOf DEF QueuesOK, Sent
    <2>2. \A i \in 1 .. Len(commands') : commands'[i].from = Task =>
             i \in 1 .. Len(commands) /\ commands'[i] = commands[i]
      BY <1>3, <2>1
    <2>. QED
      BY <2>2 DEF AskedOK
  <1>. QED
    BY <1>1, <1>2, <1>3

\* While the event task asks nothing, no question of its is in the queue.
LEMMA AskedAbsent ==
    ASSUME AskedOK, ~ task.asked \/ task.reply # None
    PROVE  \A i \in 1 .. Len(commands) : commands[i].from # Task
  BY DEF AskedOK

LEMMA AskedAsk ==
    ASSUME Types, AskedOK, AskStatus
    PROVE  AskedOK'
  <1>1. /\ task.event # None /\ ~ task.asked /\ commands' = Append(commands, GetStatus(Task))
        /\ task' = [task EXCEPT !.asked = TRUE]
    BY DEF AskStatus
  <1>2. GetStatus(Task) \in Issued
    BY ControlAssumption DEF GetStatus, Issued, Command, Changes, Sets, Updates
  <1>3. /\ Len(commands) \in Nat /\ Len(commands') = Len(commands) + 1
        /\ \A i \in 1 .. Len(commands) : commands'[i] = commands[i]
    BY <1>1, <1>2, AppendOf DEF Types, QueuesOK
  <1>4. task.reply = None /\ \A i \in 1 .. Len(commands) : commands[i].from # Task
    BY <1>1, AskedAbsent DEF AskedOK
  <1>5. task'.event = task.event /\ task'.asked /\ task'.reply = None
    BY <1>1, <1>4 DEF Types, TaskOK
  <1>6. \A i \in 1 .. Len(commands') : commands'[i].from = Task => i = Len(commands) + 1
    BY <1>3, <1>4
  <1>. QED
    BY <1>1, <1>5, <1>6 DEF AskedOK

LEMMA AskedAnswer ==
    ASSUME Types, AskedOK, Answer
    PROVE  AskedOK'
  <1>. DEFINE d == Head(commands)
  <1>1. /\ Taken /\ task' = IF d.from = Task THEN [task EXCEPT !.reply = value] ELSE task
    BY DEF Answer, Taken
  <1>2. CASE d.from # Task
    <2>1. UNCHANGED task
      BY <1>1, <1>2
    <2>. QED
      BY <1>1, <2>1, AskedKept DEF Types
  <1>3. CASE d.from = Task
    <2>1. /\ Len(commands) \in Nat \ {0} /\ Len(commands') = Len(commands) - 1
          /\ d = commands[1]
          /\ \A i \in 1 .. Len(commands) - 1 : commands'[i] = commands[i + 1]
      BY <1>1, TailOf DEF Types, QueuesOK, Taken
    <2>2. /\ 1 \in 1 .. Len(commands)
          /\ \A i \in 1 .. Len(commands') :
                i + 1 \in 1 .. Len(commands) /\ i + 1 # 1 /\ commands'[i] = commands[i + 1]
      BY <2>1
    <2>3. task.asked /\ task.event # None /\ \A i \in 1 .. Len(commands') : commands'[i].from # Task
      BY <1>3, <2>1, <2>2 DEF AskedOK
    <2>4. task'.asked = task.asked /\ task'.event = task.event
      BY <1>1, <1>3 DEF Types, TaskOK
    <2>. QED
      BY <2>3, <2>4 DEF AskedOK
  <1>. QED
    BY <1>2, <1>3

LEMMA AskedTask ==
    ASSUME Types, AskedOK, TakeEvent \/ TellStatus
    PROVE  AskedOK'
  <1>1. UNCHANGED commands
    BY DEF TakeEvent, TellStatus
  <1>2. \A i \in 1 .. Len(commands) : commands[i].from # Task
    BY AskedAbsent DEF AskedOK, TakeEvent, TellStatus
  <1>3. task' = task \/ (task'.asked = FALSE /\ task'.reply = None)
    BY DEF TakeEvent, TellStatus, NoEvent
  <1>4. AskedOK
    OBVIOUS
  <1>. QED
    BY <1>1, <1>2, <1>3, <1>4 DEF AskedOK

LEMMA SettersSend ==
    ASSUME Types, SettersOK, NEW c \in Conn, SendCommand(c)
    PROVE  SettersOK'
  <1>. DEFINE r == conn[c].request
              d == [method |-> r.method, object |-> r.object, value |-> r.value, from |-> c]
  <1>1. /\ commands' = Append(commands, d) /\ conn[c].pc = "sending"
        /\ setters' = IF r.method \in Changes THEN [setters EXCEPT ![r.object] = @ \cup {c}] ELSE setters
    BY DEF SendCommand
  <1>2. r \in Request /\ (r.method \in Changes => r.object \in Object)
    <2>1. r \in Requests[c] /\ ~ Malformed(r)
      BY <1>1 DEF Types, ConnInv, ConnOK
    <2>. QED
      BY <2>1 DEF Requests, Request, Malformed, Changes, Quiet
  <1>3. setters' \in [Object -> SUBSET Conn] /\ \A o \in Object : setters[o] \subseteq setters'[o]
    BY <1>1, <1>2 DEF SettersOK
  <1>4. IsFiniteSet(UNION {setters'[o] : o \in Object})
    <2>. DEFINE u == UNION {setters[o] : o \in Object}
    <2>1. IsFiniteSet(u \cup {c})
      BY FS_AddElement DEF SettersOK
    <2>2. UNION {setters'[o] : o \in Object} \in SUBSET (u \cup {c})
      BY <1>1, <1>2 DEF SettersOK
    <2>. QED
      BY <2>1, <2>2, FS_Subset
  <1>5. ASSUME NEW i \in 1 .. Len(commands'), commands'[i] \in Change
        PROVE  commands'[i].from \in setters'[commands'[i].object]
    <2>1. /\ Len(commands) \in Nat /\ Len(commands') = Len(commands) + 1
          /\ commands'[Len(commands) + 1] = d
          /\ \A j \in 1 .. Len(commands) : commands'[j] = commands[j]
      <3>1. commands \in Seq(Issued \cup {d}) /\ d \in Issued \cup {d}
        BY DEF Types, QueuesOK
      <3>. QED
        BY <1>1, <3>1, AppendOf
    <2>2. CASE i \in 1 .. Len(commands)
      <3>1. commands[i].object \in Object
        BY <1>5, <2>1, <2>2 DEF Change, Issued
      <3>. QED
        BY <1>3, <1>5, <2>1, <2>2, <3>1 DEF SettersOK
    <2>3. CASE i = Len(commands) + 1
      <3>1. commands'[i] = d /\ d.method = r.method /\ d.object = r.object /\ d.from = c
        BY <2>1, <2>3
      <3>2. r.method \in Changes
        BY <1>5, <3>1 DEF Change
      <3>3. c \in setters'[r.object]
        BY <1>1, <1>2, <3>2 DEF SettersOK
      <3>. QED
        BY <3>1, <3>3
    <2>. QED
      BY <2>1, <2>2, <2>3
  <1>. QED
    BY <1>3, <1>4, <1>5 DEF SettersOK

\* What a step of a connection does to the rest.
LEMMA ConnSteps ==
    ASSUME NEW c \in Conn, \/ AskServer(c) \/ GotStatus(c) \/ Respond(c) \/ Notify(c)
                           \/ HangUp(c) \/ Abandon(c) \/ \E r \in Requests[c] : Receive(c, r)
    PROVE  /\ UNCHANGED <<value, events, task, setters, dropped>>
           /\ UNCHANGED commands \/ (AskServer(c) /\ Sent(GetStatus(c)))
  BY DEF AskServer, GotStatus, Respond, Notify, HangUp, Abandon, Receive, ghostVars, Sent

LEMMA ClientSteps ==
    ASSUME Types, NEW c \in Client, Arrive(c) \/ Leave(c) \/ Post(c) \/ TakeSettings(c) \/ \E v \in Value : Report(c, v)
    PROVE  /\ UNCHANGED <<commands, conn, task, told, setters, dropped>>
           /\ \A s \in Setting : value'[s] = value[s]
           /\ UNCHANGED events \/ Post(c)
  <1>1. value \in [Object -> Value \cup {None}] /\ \A s \in Setting : s \in Object /\ s # c
    BY ControlAssumption DEF Types, ValuesOK, Known, State, Object
  <1>. QED
    BY <1>1 DEF Arrive, Leave, Post, TakeSettings, Report, Step, ghostVars

LEMMA StatusIssued ==
    ASSUME NEW c \in Conn \cup {Task}
    PROVE  GetStatus(c) \in Issued /\ GetStatus(c) \notin Change /\ GetStatus(c).from = c
  BY ControlAssumption DEF GetStatus, Issued, Command, Changes, Sets, Updates, Change

LEMMA FiledKept ==
    ASSUME Types, SettersOK, AskedOK, [Next]_vars
    PROVE  SettersOK' /\ AskedOK'
  <1>1. CASE UNCHANGED vars
    BY <1>1, SettersKept, AskedKept DEF vars, ghostVars, Types
  <1>2. CASE Dispatch \/ Push
    <2>1. UNCHANGED <<setters, task>> /\ (UNCHANGED commands \/ Taken)
      BY <1>2 DEF Dispatch, Push, Taken
    <2>. QED
      BY <2>1, SettersKept, AskedKept DEF Types
  <1>3. CASE Answer
    <2>1. UNCHANGED setters /\ Taken
      BY <1>3 DEF Answer, Taken, ghostVars
    <2>. QED
      BY <1>3, <2>1, SettersKept, AskedAnswer DEF Types
  <1>4. CASE TakeEvent \/ TellStatus
    <2>1. UNCHANGED <<setters, commands>>
      BY <1>4 DEF TakeEvent, TellStatus, ghostVars
    <2>. QED
      BY <1>4, <2>1, SettersKept, AskedTask DEF Types
  <1>5. CASE AskStatus
    <2>1. UNCHANGED setters /\ Sent(GetStatus(Task))
      BY <1>5 DEF AskStatus, Sent, ghostVars
    <2>. QED
      BY <1>5, <2>1, SettersKept, AskedAsk, StatusIssued DEF Types
  <1>6. ASSUME NEW c \in Client, Arrive(c) \/ Leave(c) \/ Post(c) \/ TakeSettings(c) \/ \E v \in Value : Report(c, v)
        PROVE  SettersOK' /\ AskedOK'
    <2>1. UNCHANGED <<commands, task, setters>>
      BY <1>6, ClientSteps
    <2>. QED
      BY <2>1, SettersKept, AskedKept DEF Types
  <1>7. ASSUME NEW c \in Conn, \/ AskServer(c) \/ GotStatus(c) \/ Respond(c) \/ Notify(c)
                               \/ HangUp(c) \/ Abandon(c) \/ \E r \in Requests[c] : Receive(c, r)
        PROVE  SettersOK' /\ AskedOK'
    <2>1. UNCHANGED <<task, setters>> /\ (UNCHANGED commands \/ Sent(GetStatus(c)))
      BY <1>7, ConnSteps
    <2>2. GetStatus(c).from # Task
      BY StatusIssued, ControlAssumption
    <2>. QED
      BY <2>1, <2>2, SettersKept, AskedKept, StatusIssued DEF Types
  <1>8. ASSUME NEW c \in Conn, SendCommand(c) PROVE SettersOK' /\ AskedOK'
    <2>1. UNCHANGED task
      BY <1>8 DEF SendCommand
    <2>2. \E d \in Issued : d.from = c /\ Sent(d)
      <3>1. SentBy(c) \in Issued /\ SentBy(c).from = c
        BY <1>8, SentIssued DEF SendCommand, SentBy
      <3>. QED
        BY <1>8, <3>1 DEF SendCommand, SentBy, Sent
    <2>3. c # Task
      BY ControlAssumption
    <2>. QED
      BY <1>8, <2>1, <2>2, <2>3, SettersSend, AskedKept DEF Types
  <1>9. CASE Restart
    <2>1. /\ commands' = <<>> /\ task' = NoEvent /\ setters' = [o \in Object |-> {}]
      BY <1>9 DEF Restart
    <2>2. IsFiniteSet(UNION {setters'[o] : o \in Object})
      <3>1. UNION {setters'[o] : o \in Object} = {}
        BY <2>1
      <3>. QED
        BY <3>1, FS_EmptySet
    <2>. QED
      BY <2>1, <2>2 DEF SettersOK, AskedOK, NoEvent
  <1>. QED
    BY <1>1, <1>2, <1>3, <1>4, <1>5, <1>6, <1>7, <1>8, <1>9 DEF Next, DispatcherStep, TaskStep, ConnStep

-----------------------------------------------------------------------------
(* What was told: the steps that leave the settings and their commands alone. *)

Told == (\A s \in Setting : TellsInv(s)) /\ (\A c \in Conn : EchoInv(c))

\* A step of others that takes nothing from the queue.
LEMMA EchoStep ==
    ASSUME Types, NEW c \in Conn, EchoInv(c), conn'[c] = conn[c], UNCHANGED setters,
           \A s \in Setting : value'[s] = value[s],
           UNCHANGED commands \/ \E d \in Issued : d \notin Change /\ d.from # c /\ Sent(d)
    PROVE  EchoInv(c)'
  <1>1. CASE UNCHANGED commands
    <2>1. ASSUME NEW s \in Setting, NEW v \in Value, Comes(s, v) PROVE Comes(s, v)'
      BY <1>1, <2>1 DEF Comes
    <2>2. Ordered(c) => Ordered(c)'
      BY <1>1 DEF Ordered
    <2>. QED
      BY <1>1, <2>1, <2>2, EchoKept
  <1>2. ASSUME NEW d \in Issued, d \notin Change, d.from # c, Sent(d) PROVE EchoInv(c)'
    <2>1. commands' = Append(commands, d) /\ QueuesOK
      BY <1>2 DEF Sent, Types
    <2>2. ASSUME NEW s \in Setting, NEW v \in Value, Comes(s, v) PROVE Comes(s, v)'
      BY <1>2, <2>1, <2>2, ComesAppend DEF SetsOf
    <2>3. Ordered(c) => Ordered(c)'
      BY <1>2, <2>1, OrderedAppend
    <2>4. Absent(commands, Change) => Absent(commands', Change)
      BY <1>2, <2>1, AppendLast DEF QueuesOK
    <2>. QED
      BY <2>2, <2>3, <2>4, EchoKept
  <1>. QED
    BY <1>1, <1>2

\* The queue holds a command of a setting still, or none as before.
LEMMA StillAbsent ==
    ASSUME Types, NEW s \in Setting,
           UNCHANGED commands \/ \E d \in Issued : d \notin Change /\ Sent(d)
    PROVE  Absent(commands', SetsOf(s)) => Absent(commands, SetsOf(s))
  <1>1. CASE UNCHANGED commands
    BY <1>1
  <1>2. ASSUME NEW d \in Issued, Sent(d) PROVE Absent(commands', SetsOf(s)) => Absent(commands, SetsOf(s))
    BY <1>2, AppendLast DEF Types, QueuesOK, Sent
  <1>. QED
    BY <1>1, <1>2

LEMMA ToldClients ==
    ASSUME Types, Told, NEW c \in Client,
           Arrive(c) \/ Leave(c) \/ Post(c) \/ TakeSettings(c) \/ \E v \in Value : Report(c, v)
    PROVE  Told'
  <1>1. /\ UNCHANGED <<commands, conn, task, told, setters, dropped>>
        /\ \A s \in Setting : value'[s] = value[s]
        /\ UNCHANGED events \/ Post(c)
    BY ClientSteps
  <1>2. ASSUME NEW d \in Conn PROVE EchoInv(d)'
    <2>1. conn'[d] = conn[d] /\ UNCHANGED setters /\ UNCHANGED commands
      BY <1>1
    <2>. QED
      BY <1>1, <2>1, EchoStep DEF Told
  <1>3. ASSUME NEW s \in Setting PROVE TellsInv(s)'
    <2>1. Fine(s) => Fine(s)'
      BY <1>1 DEF Fine
    <2>2. ASSUME Post(c)
          PROVE  \E e \in Events : e \notin Tells(s) /\ events' = Append(events, e)
      <3>1. session[c].event # None /\ events' = Append(events, session[c].event)
        BY <2>2 DEF Post
      <3>2. session[c].event \in Reports /\ Reports \subseteq Events
        BY <3>1 DEF Types, SessionsOK, Reports, Events
      <3>. QED
        BY <3>1, <3>2, NotTold
    <2>3. events \in Seq(Events) /\ TellsInv(s) /\ setters'[s] = setters[s] /\ value'[s] = value[s]
      BY <1>1 DEF Types, QueuesOK, Told
    <2>4. UNCHANGED events \/ \E e \in Events : e \notin Tells(s) /\ events' = Append(events, e)
      BY <1>1, <2>2
    <2>. QED
      BY <1>1, <2>1, <2>3, <2>4, TellsKept
  <1>. QED
    BY <1>2, <1>3 DEF Told

LEMMA ToldPush ==
    ASSUME Types, Told, Push, ~ dropped'
    PROVE  Told'
  <1>1. /\ Offer(<<Changed(dispatcher)>>) /\ dispatcher # None
        /\ UNCHANGED <<value, commands, conn, task, told, setters>>
    BY DEF Push
  <1>2. dispatcher \in Issued /\ dispatcher.method \in Pushes
    BY <1>1 DEF Types, QueuesOK
  <1>3. Changed(dispatcher) \in Events /\ events \in Seq(Events)
    BY <1>2, OtherEvents DEF Types, QueuesOK
  <1>4. events' = Append(events, Changed(dispatcher))
    <2>1. <<Changed(dispatcher)>> \in Seq(Events)
      BY <1>3
    <2>2. events' = events \o <<Changed(dispatcher)>>
      BY <1>1, <2>1, OfferOf DEF Types
    <2>. QED
      BY <1>3, <2>2, Joined
  <1>5. ASSUME NEW d \in Conn PROVE EchoInv(d)'
    <2>1. conn'[d] = conn[d] /\ UNCHANGED setters /\ UNCHANGED commands /\ UNCHANGED value
      BY <1>1
    <2>. QED
      BY <2>1, EchoStep DEF Told
  <1>6. ASSUME NEW s \in Setting PROVE TellsInv(s)'
    <2>1. Fine(s) => Fine(s)'
      BY <1>1 DEF Fine
    <2>2. \E e \in Events : e \notin Tells(s) /\ events' = Append(events, e)
      BY <1>2, <1>3, <1>4, NotTold
    <2>3. TellsInv(s) /\ setters'[s] = setters[s] /\ value'[s] = value[s]
      BY <1>1 DEF Told
    <2>. QED
      BY <1>1, <1>3, <2>1, <2>2, <2>3, TellsKept
  <1>. QED
    BY <1>5, <1>6 DEF Told

LEMMA ToldAsk ==
    ASSUME Types, Told, AskStatus
    PROVE  Told'
  <1>. DEFINE d == GetStatus(Task)
  <1>1. /\ Sent(d) /\ task' = [task EXCEPT !.asked = TRUE]
        /\ UNCHANGED <<value, events, conn, told, setters>>
    BY DEF AskStatus, Sent, ghostVars
  <1>2. d \in Issued /\ d \notin Change /\ d.from = Task
    BY StatusIssued
  <1>. HIDE DEF d
  <1>3. ASSUME NEW c \in Conn PROVE EchoInv(c)'
    <2>1. conn'[c] = conn[c] /\ UNCHANGED setters /\ UNCHANGED value /\ d.from # c
      BY <1>1, <1>2, ControlAssumption
    <2>. QED
      BY <1>1, <1>2, <2>1, EchoStep DEF Told
  <1>4. ASSUME NEW s \in Setting PROVE TellsInv(s)'
    <2>1. Fine(s) => Fine(s)'
      <3>1. task'.event = task.event /\ task'.reply = task.reply
        BY <1>1 DEF Types, TaskOK
      <3>. QED
        BY <1>1, <3>1 DEF Fine
    <2>2. events \in Seq(Events) /\ TellsInv(s) /\ setters'[s] = setters[s] /\ value'[s] = value[s]
      BY <1>1 DEF Types, QueuesOK, Told
    <2>3. Absent(commands', SetsOf(s)) => Absent(commands, SetsOf(s))
      BY <1>1, <1>2, StillAbsent
    <2>. QED
      BY <1>1, <2>1, <2>2, <2>3, TellsKept
  <1>. QED
    BY <1>3, <1>4 DEF Told

LEMMA ToldTake ==
    ASSUME Types, Told, TakeEvent
    PROVE  Told'
  <1>. DEFINE e == Head(events)
  <1>1. /\ task.event = None /\ events # <<>> /\ events' = Tail(events)
        /\ told' = IF e.type = "changed" THEN [told EXCEPT ![e.object] = e.value] ELSE told
        /\ task' = IF e.type \in {"client", "updated"} THEN [NoEvent EXCEPT !.event = e]
                   ELSE task
        /\ UNCHANGED <<value, commands, conn, setters>>
    BY DEF TakeEvent, ghostVars
  <1>2. e \in Events /\ events \in Seq(Events)
    BY <1>1, EventOf DEF Types, QueuesOK
  <1>. HIDE DEF e
  <1>3. ASSUME NEW c \in Conn PROVE EchoInv(c)'
    <2>1. conn'[c] = conn[c] /\ UNCHANGED setters /\ UNCHANGED commands /\ UNCHANGED value
      BY <1>1
    <2>. QED
      BY <2>1, EchoStep DEF Told
  <1>4. ASSUME NEW s \in Setting PROVE TellsInv(s)'
    <2>1. /\ Absent(events, Tells(s)) <=> Absent(events', Tells(s)) /\ e \notin Tells(s)
          /\ Absent(events', Tells(s)) /\ e \in Tells(s)
               => (LastIn(events, Tells(s), Current(s)) <=> e \in Current(s))
          /\ LastIn(events, Tells(s), Current(s)) => LastIn(events', Tells(s), Current(s))
      BY <1>1, <1>2, TailLast DEF e
    <2>2. Current(s)' = Current(s)
      BY <1>1 DEF Current
    <2>3. told \in [Object -> Value \cup {None}] /\ s \in Object
      BY DEF Types, ValuesOK, State, Object
    <2>4. SUFFICES ASSUME setters[s] # {}, Absent(commands, SetsOf(s)), Absent(events', Tells(s)),
                          LastIn(events, Tells(s), Current(s)),
                          Absent(events, Tells(s)) => Fine(s)
                   PROVE  Fine(s)'
      <3>1. TellsInv(s)
        BY DEF Told
      <3>. QED
        BY <1>1, <2>1, <2>2, <3>1 DEF TellsInv
    <2>5. CASE e = Updated
      <3>1. task' = [NoEvent EXCEPT !.event = e]
        BY <1>1, <2>5 DEF Updated
      <3>2. task'.event = Updated /\ task'.reply = None
        BY <2>5, <3>1 DEF NoEvent
      <3>. QED
        BY <3>2 DEF Fine
    <2>6. CASE e \in ChangeEvents /\ e.object = s
      <3>1. e \in Tells(s)
        BY <2>6 DEF Tells
      <3>2. e \in Current(s) /\ e # Updated
        BY <2>1, <2>4, <2>6, <3>1 DEF ChangeEvents, Updated
      <3>3. e.value = value[s]
        BY <3>2 DEF Current
      <3>4. told'[s] = e.value /\ task' = task
        BY <1>1, <2>3, <2>6 DEF ChangeEvents
      <3>. QED
        BY <1>1, <3>3, <3>4, NoneNoEvent DEF Fine
    <2>7. CASE e # Updated /\ ~ (e \in ChangeEvents /\ e.object = s)
      <3>1. e \notin Tells(s)
        BY <2>7 DEF Tells
      <3>2. told[s] = value[s]
        BY <1>1, <2>1, <2>4, <3>1, NoneNoEvent DEF Fine
      <3>3. told'[s] = told[s]
        <4>1. CASE e.type = "changed"
          <5>1. e \in ChangeEvents
            BY <1>2, <4>1 DEF Events, ClientEvents, StateEvents, Updated, Control
          <5>. QED
            BY <1>1, <2>3, <2>7, <4>1, <5>1
        <4>2. CASE e.type # "changed"
          BY <1>1, <4>2
        <4>. QED
          BY <4>1, <4>2
      <3>4. task'.event # Updated
        <4>1. CASE e.type \in {"client", "updated"}
          <5>1. task' = [NoEvent EXCEPT !.event = e]
            BY <1>1, <4>1
          <5>2. task'.event = e
            BY <5>1 DEF NoEvent
          <5>. QED
            BY <2>7, <5>2
        <4>2. CASE e.type \notin {"client", "updated"}
          BY <1>1, <4>2, NoneNoEvent
        <4>. QED
          BY <4>1, <4>2
      <3>. QED
        BY <1>1, <3>2, <3>3, <3>4 DEF Fine
    <2>. QED
      BY <2>5, <2>6, <2>7
  <1>. QED
    BY <1>3, <1>4 DEF Told

LEMMA ToldTell ==
    ASSUME Types, AskedOK, Told, TellStatus
    PROVE  Told'
  <1>1. /\ task.reply # None
        /\ told' = IF task.event.type = "updated" THEN task.reply
                   ELSE [told EXCEPT ![task.event.object] = task.reply[task.event.object]]
        /\ task' = NoEvent
        /\ UNCHANGED <<value, commands, events, conn, setters>>
    BY DEF TellStatus, ghostVars
  <1>2. task.event \in ClientEvents \cup {Updated}
    BY <1>1 DEF AskedOK, Types, TaskOK
  <1>3. ASSUME NEW c \in Conn PROVE EchoInv(c)'
    <2>1. conn'[c] = conn[c] /\ UNCHANGED setters /\ UNCHANGED commands /\ UNCHANGED value
      BY <1>1
    <2>. QED
      BY <2>1, EchoStep DEF Told
  <1>4. ASSUME NEW s \in Setting PROVE TellsInv(s)'
    <2>1. Fine(s) => Fine(s)'
      <3>1. task'.event = None
        BY <1>1 DEF NoEvent
      <3>2. CASE task.event = Updated
        <4>1. told'[s] = task.reply[s]
          BY <1>1, <3>2 DEF Updated
        <4>. QED
          BY <1>1, <3>1, <3>2, <4>1, NoneNoEvent DEF Fine
      <3>3. CASE task.event \in ClientEvents
        <4>1. task.event.type # "updated" /\ task.event.object # s
          BY <3>3, ControlAssumption DEF ClientEvents
        <4>2. told'[s] = told[s]
          BY <1>1, <4>1 DEF Types, ValuesOK, State, Object
        <4>. QED
          BY <1>1, <3>1, <3>3, <4>2, NoneNoEvent DEF Fine
      <3>. QED
        BY <1>2, <3>2, <3>3
    <2>2. events \in Seq(Events) /\ TellsInv(s) /\ setters'[s] = setters[s] /\ value'[s] = value[s]
      BY <1>1 DEF Types, QueuesOK, Told
    <2>. QED
      BY <1>1, <2>1, <2>2, TellsKept
  <1>. QED
    BY <1>3, <1>4 DEF Told

-----------------------------------------------------------------------------
(* What was told: the dispatcher.                                            *)

LEMMA ToldDispatch ==
    ASSUME Types, Told, Dispatch, ~ dropped'
    PROVE  Told'
  <1>. DEFINE d == Head(commands)
  <1>1. /\ events \in Seq(Events) /\ d \in Issued /\ value' \in Known
        /\ commands \in Seq(Issued) /\ commands # <<>> /\ commands' = Tail(commands)
        /\ d.method \in Changes \cup {"Stream.Control"}
        /\ value' = IF d.method \in Changes THEN Effect(value, d) ELSE value
    BY DispatchEvents
  <1>2. PICK q \in Seq(Events) :
            /\ q = events \/ q = Append(events, StateChanged(value'))
            /\ events' = IF Pushed(d) THEN q ELSE Append(q, Event(d))
    BY DispatchEvents
  <1>3. UNCHANGED <<conn, task, told, setters>> /\ Event(d) \in Events
    BY <1>1, OtherEvents DEF Dispatch
  <1>4. \A s \in Setting : value'[s] = IF d \in SetsOf(s) THEN d.value ELSE value[s]
    <2>1. CASE d.method \in Changes
      <3>1. \A s \in Setting : value'[s] = IF s = d.object THEN d.value ELSE value[s]
        BY <1>1, <2>1, EffectOf DEF Types, ValuesOK
      <3>. QED
        BY <1>1, <2>1, <3>1 DEF SetsOf, Change
    <2>2. CASE d.method \notin Changes
      BY <1>1, <2>2 DEF SetsOf, Change
    <2>. QED
      BY <2>1, <2>2
  <1>5. ASSUME NEW c \in Conn PROVE EchoInv(c)'
    <2>1. QueuesOK /\ EchoInv(c) /\ conn'[c] = conn[c] /\ UNCHANGED setters
      BY <1>3 DEF Types, Told
    <2>2. ASSUME NEW s \in Setting, NEW v \in Value, Comes(s, v) PROVE Comes(s, v)'
      BY <1>1, <1>4, <2>1, <2>2, ComesTail
    <2>3. Ordered(c) => Ordered(c)'
      BY <1>1, <2>1, OrderedTail
    <2>4. ASSUME Absent(commands, Change)
          PROVE  Absent(commands', Change) /\ \A s \in Setting : value'[s] = value[s]
      <3>1. Absent(commands', Change) /\ d \notin Change
        BY <1>1, <2>1, <2>4, ChangeTail
      <3>. QED
        BY <1>4, <3>1 DEF SetsOf
    <2>. QED
      BY <2>1, <2>2, <2>3, <2>4, EchoKept
  <1>6. ASSUME NEW s \in Setting PROVE TellsInv(s)'
    <2>1. CASE d \in SetsOf(s)
      <3>1. ~ Pushed(d) /\ Event(d) \in Tells(s) /\ (Event(d) = Updated \/ Event(d).value = d.value)
        <4>. HIDE DEF d
        <4>1. ~ Pushed(d)
          BY <1>1, <2>1, SettingCommand
        <4>2. Event(d) \in Tells(s) /\ (Event(d) = Updated \/ Event(d).value = d.value)
          BY <1>1, <2>1, EventTells
        <4>. QED
          BY <4>1, <4>2
      <3>2. value'[s] = d.value
        BY <1>4, <2>1
      <3>3. Event(d) \in Current(s)'
        BY <3>1, <3>2 DEF Current, Tells
      <3>4. events' = Append(q, Event(d))
        BY <1>2, <3>1
      <3>. HIDE DEF d
      <3>5. LastIn(events', Tells(s), Current(s)') /\ ~ Absent(events', Tells(s))
        BY <1>2, <1>3, <3>1, <3>3, <3>4, AppendLast
      <3>. QED
        BY <3>5 DEF TellsInv
    <2>2. CASE d \notin SetsOf(s)
      <3>1. value'[s] = value[s] /\ setters'[s] = setters[s] /\ TellsInv(s)
        BY <1>3, <1>4, <2>2 DEF Told
      <3>2. Absent(commands', SetsOf(s)) => Absent(commands, SetsOf(s))
        BY <1>1, <2>2, TailLast
      <3>3. Event(d) = Updated \/ Event(d) \notin Tells(s)
        BY <1>1, <2>2, EventElse
      <3>4. Current(s)' = Current(s) /\ (Fine(s) => Fine(s)')
        BY <1>3, <3>1 DEF Current, Fine
      <3>. HIDE DEF d
      <3>5. /\ Absent(q, Tells(s)) <=> Absent(events, Tells(s))
            /\ LastIn(q, Tells(s), Current(s)) <=> LastIn(events, Tells(s), Current(s))
        <4>1. CASE q = events
          BY <4>1
        <4>2. CASE q = Append(events, StateChanged(value'))
          <5>1. StateChanged(value') \in Events /\ StateChanged(value') \notin Tells(s)
            BY <1>1, NotTold DEF StateChanged, StateEvents, Events
          <5>. QED
            BY <1>1, <4>2, <5>1, AppendLast
        <4>. QED
          BY <1>2, <4>1, <4>2
      <3>6. Updated \in Tells(s) /\ Updated \in Current(s)
        BY DEF Tells, Current
      <3>7. /\ Absent(events', Tells(s)) => Absent(q, Tells(s))
            /\ LastIn(q, Tells(s), Current(s)) => LastIn(events', Tells(s), Current(s))
        <4>1. CASE Pushed(d)
          BY <1>2, <4>1
        <4>2. CASE ~ Pushed(d)
          <5>1. events' = Append(q, Event(d))
            BY <1>2, <4>2
          <5>. QED
            BY <1>2, <1>3, <3>3, <3>6, <5>1, AppendLast
        <4>. QED
          BY <4>1, <4>2
      <3>. QED
        BY <3>1, <3>2, <3>4, <3>5, <3>7 DEF TellsInv
    <2>. QED
      BY <2>1, <2>2
  <1>. QED
    BY <1>5, <1>6 DEF Told

LEMMA ToldAnswer ==
    ASSUME Types, SettersOK, Told, OneSetter, Answer
    PROVE  Told'
  <1>. DEFINE d == Head(commands)
  <1>1. /\ commands # <<>> /\ commands' = Tail(commands)
        /\ d.method \in {"GetStatus", "Stream.AddStream"}
        /\ task' = IF d.from = Task THEN [task EXCEPT !.reply = value] ELSE task
        /\ conn' = IF d.from = Task \/ conn[d.from].pc # "waiting" THEN conn
                   ELSE IF d.method = "GetStatus"
                   THEN [conn EXCEPT ![d.from].reply = value]
                   ELSE [conn EXCEPT ![d.from].pc = "responding"]
        /\ UNCHANGED <<value, events, told, setters>>
    BY DEF Answer, ghostVars
  <1>2. d \in Issued /\ d \notin Change /\ QueuesOK
    BY <1>1, HeadOf DEF Types, Change, Changes, Sets, Updates
  <1>3. d.from \in Conn \cup {Task} /\ Task \notin Conn
    BY <1>2, ControlAssumption DEF Issued, Command
  <1>4. ASSUME NEW c \in Conn, conn'[c] = conn[c] PROVE EchoInv(c)'
    <2>1. ASSUME NEW s \in Setting, NEW v \in Value, Comes(s, v) PROVE Comes(s, v)'
      BY <1>1, <1>2, <2>1, ComesTail DEF SetsOf
    <2>2. Ordered(c) => Ordered(c)'
      BY <1>1, <1>2, OrderedTail
    <2>3. Absent(commands, Change) => Absent(commands', Change)
      BY <1>1, <1>2, ChangeTail
    <2>4. EchoInv(c) /\ UNCHANGED setters /\ UNCHANGED value
      BY <1>1 DEF Told
    <2>. QED
      BY <1>4, <2>1, <2>2, <2>3, <2>4, EchoKept
  <1>5. ASSUME NEW c \in Conn, c = d.from, conn[c].pc = "waiting" PROVE EchoInv(c)'
    <2>. DEFINE r == conn[c].request
    <2>1. d \in Questions(c) /\ ConnOK(c) /\ QuestionOK(c) /\ ConnTypes /\ EchoInv(c)
      BY <1>1, <1>2, <1>5 DEF Questions, Types, ConnInv, Told
    <2>2. CASE d.method = "GetStatus"
      <3>1. conn' = [conn EXCEPT ![c].reply = value]
        BY <1>1, <1>3, <1>5, <2>2
      <3>2. conn'[c].pc = "waiting" /\ conn'[c].request = r /\ conn'[c].reply = value
        BY <1>5, <2>1, <3>1 DEF ConnTypes
      <3>3. ~ Echoes(c)' /\ (Acts(c)' => Acts(c))
        BY <1>5, <3>2 DEF Acts, Echoes
      <3>4. Ordered(c) /\ Ordered(c)'
        BY <1>1, <1>2, <1>5, <2>1, OrderedTail DEF EchoInv
      <3>5. ASSUME Acts(c) PROVE Absent(commands', Change)
        <4>1. c \in setters[r.object] /\ r.object \in Object
          BY <2>1, <3>5, ActsOf DEF EchoInv
        <4>2. /\ Len(commands) \in Nat \ {0} /\ Len(commands') = Len(commands) - 1
              /\ d = commands[1]
              /\ \A i \in 1 .. Len(commands) - 1 : commands'[i] = commands[i + 1]
          BY <1>1, TailOf DEF Types, QueuesOK
        <4>3. ASSUME NEW i \in 1 .. Len(commands'), commands'[i] \in Change PROVE FALSE
          <5>1. /\ 1 \in 1 .. Len(commands) /\ i + 1 \in 1 .. Len(commands) /\ 1 < i + 1
                /\ commands'[i] = commands[i + 1]
            BY <4>2
          <5>2. commands[i + 1].from # c
            BY <2>1, <3>4, <4>2, <5>1 DEF Ordered
          <5>3. commands[i + 1].from \in setters[commands[i + 1].object]
                /\ commands[i + 1].object \in Object
            BY <4>3, <5>1 DEF SettersOK, Change, Issued
          <5>. QED
            BY <4>1, <5>2, <5>3 DEF OneSetter
        <4>. QED
          BY <4>3 DEF Absent
      <3>. QED
        BY <1>1, <2>1, <3>2, <3>3, <3>4, <3>5 DEF EchoInv
    <2>3. CASE d.method = "Stream.AddStream"
      <3>1. conn' = [conn EXCEPT ![c].pc = "responding"]
        BY <1>1, <1>3, <1>5, <2>3
      <3>2. conn'[c].pc = "responding" /\ conn'[c].request = r
        BY <2>1, <3>1 DEF ConnTypes
      <3>3. r.method = "Stream.AddStream"
        BY <1>1, <1>2, <1>5, <2>1, <2>3, QuestionHead
      <3>4. ~ Echoes(c)' /\ ~ Acts(c)'
        BY <3>2, <3>3 DEF Acts, Echoes, Notifies, Sets, Updates
      <3>. QED
        BY <3>2, <3>4 DEF EchoInv
    <2>. QED
      BY <1>1, <2>2, <2>3
  <1>6. ASSUME NEW c \in Conn PROVE EchoInv(c)'
    <2>1. CASE c = d.from /\ conn[c].pc = "waiting"
      BY <1>5, <2>1
    <2>2. CASE ~ (c = d.from /\ conn[c].pc = "waiting")
      <3>1. conn'[c] = conn[c]
        BY <1>1, <1>3, <2>2 DEF Types, ConnInv, ConnTypes
      <3>. QED
        BY <1>4, <3>1
    <2>. QED
      BY <2>1, <2>2
  <1>7. ASSUME NEW s \in Setting PROVE TellsInv(s)'
    <2>1. Fine(s) => Fine(s)'
      <3>1. CASE d.from = Task
        <4>1. task'.event = task.event /\ task'.reply = value
          BY <1>1, <3>1 DEF Types, TaskOK
        <4>. QED
          BY <1>1, <4>1 DEF Fine
      <3>2. CASE d.from # Task
        BY <1>1, <3>2 DEF Fine
      <3>. QED
        BY <3>1, <3>2
    <2>2. events \in Seq(Events) /\ TellsInv(s) /\ setters'[s] = setters[s] /\ value'[s] = value[s]
      BY <1>1 DEF Types, QueuesOK, Told
    <2>3. Absent(commands', SetsOf(s)) => Absent(commands, SetsOf(s))
      <3>1. d \notin SetsOf(s)
        BY <1>2 DEF SetsOf
      <3>. QED
        BY <1>1, <1>2, <3>1, TailLast DEF QueuesOK
    <2>. QED
      BY <1>1, <2>1, <2>2, <2>3, TellsKept
  <1>. QED
    BY <1>6, <1>7 DEF Told

-----------------------------------------------------------------------------
(* What was told: the connections.                                           *)

\* A connection that acts no longer.
LEMMA EchoQuiet ==
    ASSUME NEW c \in Conn, ~ Acts(c)', conn'[c].pc # "waiting"
    PROVE  EchoInv(c)'
  BY DEF EchoInv, Acts

\* A connection that moves on with what it has.
LEMMA EchoMoves ==
    ASSUME NEW c \in Conn, EchoInv(c), Acts(c), UNCHANGED <<commands, value, setters>>,
           conn'[c].request = conn[c].request, conn'[c].reply = conn[c].reply,
           conn'[c].pc # "waiting", Echoes(c) \/ conn[c].request.method \notin Sets
    PROVE  EchoInv(c)'
  <1>1. \A s \in Setting, v \in Value : Comes(s, v) => Comes(s, v)'
    BY DEF Comes
  <1>. QED
    BY <1>1 DEF EchoInv

LEMMA EchoOwn ==
    ASSUME Types, NEW c \in Conn, EchoInv(c),
           \/ AskServer(c) \/ GotStatus(c) \/ Respond(c) \/ Notify(c) \/ HangUp(c) \/ Abandon(c)
    PROVE  EchoInv(c)'
  <1>. DEFINE r == conn[c].request
  <1>0. conn \in [Conn -> [pc: {"idle", "sending", "asking", "waiting", "responding", "notifying", "gone"},
                           request: Request \cup {None}, authenticated: BOOLEAN,
                           reply: State \cup {None}]]
    BY DEF Types, ConnInv, ConnTypes
  <1>1. CASE AskServer(c)
    <2>1. /\ conn[c].pc = "asking" /\ commands' = Append(commands, GetStatus(c))
          /\ conn' = [conn EXCEPT ![c].pc = "waiting"] /\ UNCHANGED setters
      BY <1>1 DEF AskServer, ghostVars
    <2>2. conn'[c].pc = "waiting" /\ conn'[c].request = r /\ conn'[c].reply = None
      BY <1>0, <2>1 DEF Types, ConnInv, ConnOK
    <2>3. ~ Echoes(c)' /\ (Acts(c)' => Acts(c))
      BY <2>1, <2>2 DEF Acts, Echoes
    <2>4. Absent(commands, Questions(c)) /\ QueuesOK /\ GetStatus(c) \in Issued
      BY <2>1, NoQuestion, StatusIssued DEF Types, ConnInv
    <2>5. Ordered(c)'
      BY <2>1, <2>4, OrderedAppend
    <2>. QED
      BY <2>1, <2>2, <2>3, <2>5 DEF EchoInv
  <1>2. CASE GotStatus(c)
    <2>1. /\ conn[c].pc = "waiting" /\ conn' = [conn EXCEPT ![c].pc = Reporting(c, r)]
          /\ UNCHANGED <<commands, value, setters>>
      BY <1>2 DEF GotStatus, ghostVars
    <2>2. /\ Reporting(c, r) \in {"notifying", "responding"}
          /\ Reporting(c, r) = "notifying" => Notifies(r)
      BY DEF Reporting
    <2>3. conn'[c].pc = Reporting(c, r) /\ conn'[c].request = r /\ conn'[c].reply = conn[c].reply
      BY <1>0, <2>1, <2>2
    <2>4. r.method \in Queries \cup Updates \cup {"Stream.AddStream"}
      BY <2>1 DEF Types, ConnInv, ConnOK
    <2>5. CASE r.method \in Updates
      <3>1. Acts(c) /\ r.method \notin Sets
        BY <2>1, <2>5 DEF Acts, Updates, Sets
      <3>. QED
        BY <2>1, <2>2, <2>3, <3>1, EchoMoves
    <2>6. CASE r.method \notin Updates
      <3>1. ~ Notifies(r)
        BY <2>4, <2>6 DEF Notifies, Queries, Sets
      <3>2. ~ Acts(c)'
        BY <2>2, <2>3, <3>1 DEF Acts, Echoes
      <3>. QED
        BY <2>2, <2>3, <3>2, EchoQuiet
    <2>. QED
      BY <2>5, <2>6
  <1>3. CASE Respond(c)
    <2>1. /\ conn[c].pc = "responding"
          /\ \/ Echoes(c) /\ conn' = [conn EXCEPT ![c] = [@ EXCEPT !.pc = "notifying"]]
             \/ conn' = [conn EXCEPT ![c] = [@ EXCEPT !.pc = "idle", !.request = None, !.reply = None]]
          /\ UNCHANGED <<commands, value, setters>>
      BY <1>3 DEF Respond, Echoes, ghostVars
    <2>2. CASE Echoes(c) /\ conn' = [conn EXCEPT ![c] = [@ EXCEPT !.pc = "notifying"]]
      <3>1. conn'[c].pc = "notifying" /\ conn'[c].request = r /\ conn'[c].reply = conn[c].reply
        BY <1>0, <2>2
      <3>. QED
        BY <2>1, <2>2, <3>1, EchoMoves DEF Acts
    <2>3. CASE conn' = [conn EXCEPT ![c] = [@ EXCEPT !.pc = "idle", !.request = None, !.reply = None]]
      <3>1. conn'[c].pc = "idle"
        BY <1>0, <2>3
      <3>. QED
        BY <3>1, EchoQuiet DEF Acts, Echoes
    <2>. QED
      BY <2>1, <2>2, <2>3
  <1>4. CASE Notify(c)
    <2>1. conn' = [conn EXCEPT ![c] =
                IF Kind[c] = "http" THEN [@ EXCEPT !.pc = "responding"]
                ELSE [@ EXCEPT !.pc = "idle", !.request = None, !.reply = None]]
      BY <1>4 DEF Notify
    <2>2. conn'[c].pc = "idle" \/ (conn'[c].pc = "responding" /\ Kind[c] = "http")
      BY <1>0, <2>1
    <2>. QED
      BY <2>2, EchoQuiet DEF Acts, Echoes
  <1>5. CASE HangUp(c) \/ Abandon(c)
    <2>1. conn' = [conn EXCEPT ![c] = NewConn] \/ conn' = [conn EXCEPT ![c] = [NewConn EXCEPT !.pc = "gone"]]
      BY <1>5 DEF HangUp, Abandon
    <2>2. conn'[c].pc \in {"idle", "gone"}
      BY <1>0, <2>1 DEF NewConn
    <2>. QED
      BY <2>2, EchoQuiet DEF Acts, Echoes
  <1>. QED
    BY <1>1, <1>2, <1>3, <1>4, <1>5

LEMMA EchoReceive ==
    ASSUME Types, NEW c \in Conn, NEW r \in Requests[c], Receive(c, r)
    PROVE  EchoInv(c)'
  <1>. DEFINE accepted == Admits(c, r) /\ r.method = "Server.Authenticate" /\ r.token
              known == conn[c].authenticated \/ (accepted /\ Kind[c] # "http")
              pc == FirstStep(c, r)
  <1>1. conn' = [conn EXCEPT ![c] =
                [@ EXCEPT !.pc = pc, !.request = r, !.authenticated = known]]
    BY Zenon DEF Receive
  <1>2. /\ pc \in {"idle", "sending", "asking", "responding"}
        /\ pc = "asking" => r.method \in Queries
        /\ Notifies(r) /\ Admits(c, r) /\ ~ Malformed(r) => pc = "sending"
    BY FirstSteps
  <1>3. Notifies(r) => known = conn[c].authenticated
    <2>1. Notifies(r) => r.method # "Server.Authenticate"
      BY DEF Notifies, Sets, Updates
    <2>2. conn[c].authenticated \in BOOLEAN
      BY DEF Types, ConnInv, ConnTypes
    <2>. QED
      BY <2>1, <2>2
  <1>. HIDE DEF known, pc
  <1>4. conn'[c].pc = pc /\ conn'[c].request = r /\ conn'[c].authenticated = known
    BY <1>1 DEF Types, ConnInv, ConnTypes
  <1>5. Notifies(r) => (Admits(c, r)' <=> Admits(c, r))
    BY <1>3, <1>4 DEF Admits
  <1>6. pc = "asking" => r.method \notin Updates
    BY <1>2 DEF Queries, Updates
  <1>7. ~ Acts(c)'
    <2>1. CASE pc = "responding"
      <3>1. ~ (Notifies(r) /\ Admits(c, r) /\ ~ Malformed(r))
        BY <1>2, <2>1
      <3>2. ~ (Notifies(r) /\ Admits(c, r)' /\ ~ Malformed(r))
        BY <1>5, <3>1
      <3>. QED
        BY <1>4, <2>1, <3>2 DEF Acts, Echoes
    <2>2. CASE pc # "responding"
      BY <1>2, <1>4, <1>6, <2>2 DEF Acts, Echoes
    <2>. QED
      BY <2>1, <2>2
  <1>. QED
    BY <1>2, <1>4, <1>7, EchoQuiet

\* An echo tells what holds, unless a command for it is on its way.
LEMMA NotifyFine ==
    ASSUME Types, NEW c \in Conn, EchoInv(c), Notify(c), NEW s \in Setting,
           Absent(commands, SetsOf(s)), Fine(s)
    PROVE  Fine(s)'
  <1>. DEFINE r == conn[c].request
  <1>1. /\ conn[c].pc = "notifying"
        /\ told' = IF r.method \in Updates THEN conn[c].reply
                   ELSE [told EXCEPT ![r.object] = r.value]
        /\ UNCHANGED <<value, commands, events, task>>
    BY DEF Notify
  <1>2. Echoes(c) /\ Acts(c) /\ ConnOK(c)
    BY <1>1 DEF Echoes, Acts, Types, ConnInv
  <1>3. r.object \in Object /\ r.value \in Value /\ Notifies(r)
    BY <1>2, ActsOf
  <1>4. told'[s] = value[s] \/ told'[s] = told[s]
    <2>1. CASE r.method \in Updates
      <3>1. conn[c].reply # None
        BY <1>1, <1>2, <2>1 DEF ConnOK
      <3>2. conn[c].reply[s] = value[s]
        BY <1>2, <2>1, <3>1 DEF EchoInv
      <3>. QED
        BY <1>1, <2>1, <3>2
    <2>2. CASE r.method \notin Updates
      <3>1. told' = [told EXCEPT ![r.object] = r.value] /\ r.method \in Sets
        BY <1>1, <1>3, <2>2 DEF Notifies
      <3>2. told \in [Object -> Value \cup {None}] /\ s \in Object
        BY DEF Types, ValuesOK, State, Object
      <3>3. CASE r.object = s
        <4>1. Comes(s, r.value)
          BY <1>2, <1>3, <3>1, <3>3 DEF EchoInv
        <4>. QED
          BY <3>1, <3>2, <3>3, <4>1 DEF Comes
      <3>4. CASE r.object # s
        BY <3>1, <3>2, <3>4
      <3>. QED
        BY <3>3, <3>4
    <2>. QED
      BY <2>1, <2>2
  <1>. QED
    BY <1>1, <1>4 DEF Fine

LEMMA ToldConn ==
    ASSUME Types, Told, NEW c \in Conn,
           \/ AskServer(c) \/ GotStatus(c) \/ Respond(c) \/ Notify(c) \/ HangUp(c) \/ Abandon(c)
           \/ \E r \in Requests[c] : Receive(c, r)
    PROVE  Told'
  <1>1. /\ UNCHANGED <<value, events, task, setters, dropped>>
        /\ UNCHANGED commands \/ Sent(GetStatus(c))
    BY ConnSteps
  <1>2. GetStatus(c) \in Issued /\ GetStatus(c) \notin Change /\ GetStatus(c).from = c
    BY StatusIssued
  <1>3. ASSUME NEW e \in Conn PROVE EchoInv(e)'
    <2>1. CASE e = c
      <3>1. EchoInv(c)
        BY DEF Told
      <3>. QED
        BY <2>1, <3>1, EchoOwn, EchoReceive
    <2>2. CASE e # c
      <3>1. conn'[e] = conn[e]
        BY <2>2, OthersStand DEF ConnStep
      <3>2. EchoInv(e) /\ UNCHANGED setters /\ UNCHANGED value /\ GetStatus(c).from # e
        BY <1>1, <1>2, <2>2 DEF Told
      <3>. QED
        BY <1>1, <1>2, <3>1, <3>2, EchoStep
    <2>. QED
      BY <2>1, <2>2
  <1>4. ASSUME NEW s \in Setting PROVE TellsInv(s)'
    <2>1. Absent(commands, SetsOf(s)) /\ Fine(s) => Fine(s)'
      <3>1. CASE Notify(c)
        BY <3>1, NotifyFine DEF Told
      <3>2. CASE ~ Notify(c)
        <4>1. UNCHANGED told
          BY <3>2 DEF AskServer, GotStatus, Respond, HangUp, Abandon, Receive
        <4>. QED
          BY <1>1, <4>1 DEF Fine
      <3>. QED
        BY <3>1, <3>2
    <2>2. events \in Seq(Events) /\ TellsInv(s) /\ setters'[s] = setters[s] /\ value'[s] = value[s]
      BY <1>1 DEF Types, QueuesOK, Told
    <2>3. Absent(commands', SetsOf(s)) => Absent(commands, SetsOf(s))
      BY <1>1, <1>2, StillAbsent
    <2>. QED
      BY <1>1, <2>1, <2>2, <2>3, TellsKept
  <1>. QED
    BY <1>3, <1>4 DEF Told

LEMMA ToldSend ==
    ASSUME Types, SettersOK, Told, OneSetter', NEW c \in Conn, SendCommand(c)
    PROVE  Told'
  <1>. DEFINE r == conn[c].request
              d == SentBy(c)
              pc == CASE r.method \in Updates -> "asking"
                      [] r.method = "Stream.AddStream" -> "waiting"
                      [] OTHER -> Reporting(c, r)
  <1>1. /\ conn[c].pc = "sending" /\ commands' = Append(commands, d)
        /\ conn' = [conn EXCEPT ![c].pc = pc]
        /\ setters' = IF r.method \in Changes THEN [setters EXCEPT ![r.object] = @ \cup {c}] ELSE setters
        /\ UNCHANGED <<value, events, task, told>>
    BY DEF SendCommand, SentBy
  <1>2. /\ d \in Issued /\ QueuesOK /\ setters \in [Object -> SUBSET Conn]
        /\ d.method = r.method /\ d.object = r.object /\ d.value = r.value /\ d.from = c
    BY <1>1, SentIssued DEF Types, SettersOK, SentBy
  <1>3. r.method \in Sets \cup Quiet \cup Updates \cup {"Stream.AddStream"}
    BY <1>1 DEF Types, ConnInv, ConnOK
  <1>4. /\ r.method \in Updates => pc = "asking"
        /\ r.method = "Stream.AddStream" => pc = "waiting"
        /\ r.method \in Sets => pc \in {"notifying", "responding"}
        /\ r.method \in Quiet => pc = "responding"
    BY <1>3 DEF Reporting, Notifies, Updates, Sets, Quiet
  <1>5. d \in Change <=> r.method \in Changes
    BY <1>2 DEF Change
  <1>. HIDE DEF d, pc
  <1>6. d \in Change => c \in setters'[d.object] /\ d.object \in Object
    <2>1. d \in Change => d.object \in Object
      BY DEF Change, Issued
    <2>. QED
      BY <1>1, <1>2, <1>5, <2>1
  <1>7. \A o \in Object : setters[o] \subseteq setters'[o]
    BY <1>1, <1>2
  <1>8. /\ conn'[c].pc = pc /\ conn'[c].request = r /\ conn'[c].reply = None
        /\ \A e \in Conn : e # c => conn'[e] = conn[e]
    BY <1>1 DEF Types, ConnInv, ConnTypes, ConnOK
  <1>9. ASSUME NEW e \in Conn, e # c PROVE EchoInv(e)'
    <2>1. EchoInv(e) /\ conn'[e] = conn[e]
      BY <1>8, <1>9 DEF Told
    <2>2. Acts(e) => d \notin Change
      <3>1. Acts(e) => e \in setters'[conn[e].request.object] /\ conn[e].request.object \in Object
        BY <1>7, <2>1, ActsOf DEF EchoInv
      <3>. QED
        BY <1>6, <1>9, <3>1 DEF OneSetter
    <2>3. ASSUME Acts(e), NEW s \in Setting, NEW v \in Value, Comes(s, v) PROVE Comes(s, v)'
      <3>1. d \notin SetsOf(s) /\ value'[s] = value[s]
        BY <1>1, <2>2, <2>3 DEF SetsOf
      <3>. QED
        BY <1>1, <1>2, <2>3, <3>1, ComesAppend
    <2>4. Acts(e) /\ Absent(commands, Change) => Absent(commands', Change)
      BY <1>1, <1>2, <2>2, AppendLast DEF QueuesOK
    <2>5. Ordered(e) => Ordered(e)'
      BY <1>1, <1>2, <1>9, OrderedAppend
    <2>. QED
      BY <1>1, <1>7, <2>1, <2>3, <2>4, <2>5, EchoKept
  <1>10. EchoInv(c)'
    <2>1. Acts(c)' => c \in setters'[r.object]
      <3>1. Acts(c)' => Notifies(r)
        BY <1>3, <1>4, <1>8 DEF Acts, Echoes, Notifies, Updates, Sets, Quiet
      <3>. QED
        BY <1>2, <1>5, <1>6, <3>1 DEF Notifies, Changes
    <2>2. ASSUME NEW s \in Setting, NEW v \in Value, r.method \in Sets, r.object = s, r.value = v
          PROVE  Comes(s, v)'
      <3>1. d \in SetsOf(s) /\ d \in SetsTo(s, v)
        BY <1>2, <1>5, <2>2 DEF SetsOf, SetsTo, Changes
      <3>2. LastIn(commands', SetsOf(s), SetsTo(s, v)) /\ ~ Absent(commands', SetsOf(s))
        BY <1>1, <1>2, <3>1, AppendLast DEF QueuesOK
      <3>. QED
        BY <3>2 DEF Comes
    <2>3. Ordered(c)'
      <3>1. Absent(commands, Questions(c))
        BY <1>1, NoQuestion DEF Types, ConnInv
      <3>. QED
        BY <1>1, <1>2, <3>1, OrderedAppend
    <2>. QED
      BY <1>8, <2>1, <2>2, <2>3 DEF EchoInv
  <1>11. ASSUME NEW s \in Setting PROVE TellsInv(s)'
    <2>1. CASE d \in SetsOf(s)
      <3>1. LastIn(commands', SetsOf(s), SetsOf(s)) /\ ~ Absent(commands', SetsOf(s))
        BY <1>1, <1>2, <2>1, AppendLast DEF QueuesOK
      <3>. QED
        BY <3>1 DEF TellsInv
    <2>2. CASE d \notin SetsOf(s)
      <3>1. setters'[s] = setters[s]
        <4>1. d \in Change => d.object # s
          BY <2>2 DEF SetsOf
        <4>. QED
          BY <1>1, <1>2, <1>5, <4>1 DEF Object
      <3>2. Absent(commands', SetsOf(s)) => Absent(commands, SetsOf(s))
        BY <1>1, <1>2, AppendLast DEF QueuesOK
      <3>3. Fine(s) => Fine(s)'
        BY <1>1 DEF Fine
      <3>4. events \in Seq(Events) /\ TellsInv(s) /\ value'[s] = value[s]
        BY <1>1 DEF Types, QueuesOK, Told
      <3>. QED
        BY <1>1, <3>1, <3>2, <3>3, <3>4, TellsKept
    <2>. QED
      BY <2>1, <2>2
  <1>. QED
    BY <1>9, <1>10, <1>11 DEF Told

-----------------------------------------------------------------------------
(* What was told: the specification.                                         *)

LEMMA ToldRestart ==
    ASSUME Restart
    PROVE  Told'
  <1>1. /\ setters' = [o \in Object |-> {}] /\ conn' = [c \in Conn |-> NewConn]
    BY DEF Restart
  <1>2. \A s \in Setting : TellsInv(s)'
    BY <1>1 DEF TellsInv, Object
  <1>3. ASSUME NEW c \in Conn PROVE EchoInv(c)'
    <2>1. conn'[c].pc = "idle"
      BY <1>1 DEF NewConn
    <2>. QED
      BY <2>1, EchoQuiet DEF Acts, Echoes
  <1>. QED
    BY <1>2, <1>3 DEF Told

\* Setters are only forgotten by a restart, and so are lost events never.
LEMMA SettersGrow ==
    ASSUME Types, SettersOK, [Next]_vars, ~ Restart
    PROVE  /\ \A o \in Object : setters[o] \subseteq setters'[o]
           /\ ~ dropped' => ~ dropped
  <1>1. CASE UNCHANGED vars
    BY <1>1 DEF vars, ghostVars
  <1>2. CASE DispatcherStep
    <2>1. UNCHANGED setters
      BY <1>2 DEF DispatcherStep, Dispatch, Push, Answer, ghostVars
    <2>2. ~ dropped' => ~ dropped
      <3>1. Push /\ ~ dropped' => ~ dropped
        BY Zenon DEF Push, Offer
      <3>2. Answer => UNCHANGED dropped
        BY DEF Answer, ghostVars
      <3>. QED
        BY <1>2, <3>1, <3>2, DispatchDrops DEF DispatcherStep
    <2>. QED
      BY <2>1, <2>2
  <1>3. CASE TaskStep
    BY <1>3 DEF TaskStep, TakeEvent, AskStatus, TellStatus, ghostVars
  <1>4. ASSUME NEW c \in Client, Arrive(c) \/ Leave(c) \/ Post(c) \/ TakeSettings(c) \/ \E v \in Value : Report(c, v)
        PROVE  UNCHANGED <<setters, dropped>>
    BY <1>4, ClientSteps
  <1>5. ASSUME NEW c \in Conn, \/ AskServer(c) \/ GotStatus(c) \/ Respond(c) \/ Notify(c)
                               \/ HangUp(c) \/ Abandon(c) \/ \E r \in Requests[c] : Receive(c, r)
        PROVE  UNCHANGED <<setters, dropped>>
    BY <1>5, ConnSteps
  <1>6. ASSUME NEW c \in Conn, SendCommand(c)
        PROVE  UNCHANGED dropped /\ \A o \in Object : setters[o] \subseteq setters'[o]
    BY <1>6 DEF SendCommand, SettersOK
  <1>. QED
    BY <1>1, <1>2, <1>3, <1>4, <1>5, <1>6 DEF Next, ConnStep

LEMMA ToldKept ==
    ASSUME Types, SettersOK, AskedOK, ToldInv, [Next]_vars
    PROVE  ToldInv'
  <1>. SUFFICES ASSUME ~ dropped', OneSetter' PROVE Told'
    BY DEF ToldInv, Told
  <1>1. CASE Restart
    BY <1>1, ToldRestart
  <1>2. CASE ~ Restart
    <2>1. ~ dropped /\ OneSetter
      BY <1>2, SettersGrow DEF OneSetter
    <2>2. Told
      BY <2>1 DEF ToldInv, Told
    <2>3. CASE UNCHANGED vars
      <3>1. Told' <=> Told
        BY <2>3 DEF vars, clientVars, ghostVars, Told, TellsInv, EchoInv, Absent, LastIn, Current, Fine,
                    Comes, Acts, Echoes, Admits, Ordered
      <3>. QED
        BY <2>2, <3>1
    <2>4. ASSUME NEW c \in Client, Arrive(c) \/ Leave(c) \/ Post(c) \/ TakeSettings(c) \/ \E v \in Value : Report(c, v)
          PROVE  Told'
      BY <2>2, <2>4, ToldClients
    <2>5. ASSUME NEW c \in Conn, \/ AskServer(c) \/ GotStatus(c) \/ Respond(c) \/ Notify(c)
                                 \/ HangUp(c) \/ Abandon(c) \/ \E r \in Requests[c] : Receive(c, r)
          PROVE  Told'
      BY <2>2, <2>5, ToldConn
    <2>6. ASSUME NEW c \in Conn, SendCommand(c) PROVE Told'
      BY <2>2, <2>6, ToldSend
    <2>7. CASE DispatcherStep
      BY <2>1, <2>2, <2>7, ToldDispatch, ToldPush, ToldAnswer DEF DispatcherStep
    <2>8. CASE TaskStep
      BY <2>2, <2>8, ToldTake, ToldAsk, ToldTell DEF TaskStep
    <2>. QED
      BY <1>2, <2>3, <2>4, <2>5, <2>6, <2>7, <2>8 DEF Next, ConnStep
  <1>. QED
    BY <1>1, <1>2

\* When all is quiet, one connection has made the settings and no event was lost, what was
\* notified of a setting last is what holds (handle_request, the event task in main).
THEOREM LastWordHolds == Spec => []LastTold
  <1>. DEFINE Inv == Types /\ SettersOK /\ AskedOK /\ ToldInv
  <1>1. Init => Inv
    <2>. SUFFICES ASSUME Init PROVE Inv
      OBVIOUS
    <2>1. /\ commands = <<>> /\ task = NoEvent /\ setters = [o \in Object |-> {}]
          /\ conn = [c \in Conn |-> NewConn]
      BY DEF Init
    <2>2. IsFiniteSet(UNION {setters[o] : o \in Object})
      <3>1. UNION {setters[o] : o \in Object} = {}
        BY <2>1
      <3>. QED
        BY <3>1, FS_EmptySet
    <2>3. SettersOK /\ AskedOK
      BY <2>1, <2>2 DEF SettersOK, AskedOK, NoEvent
    <2>4. \A s \in Setting : TellsInv(s)
      BY <2>1 DEF TellsInv, Object
    <2>5. \A c \in Conn : EchoInv(c)
      BY <2>1 DEF EchoInv, Acts, Echoes, NewConn
    <2>. QED
      BY <2>3, <2>4, <2>5, InitTypes DEF ToldInv
  <1>2. Inv /\ [Next]_vars => Inv'
    BY StepTypes, FiledKept, ToldKept
  <1>3. Inv => LastTold
    <2>. SUFFICES ASSUME Inv, Quiesced, ~ dropped, Cardinality(UNION {setters[o] : o \in Object}) <= 1,
                         NEW s \in Setting, setters[s] # {}
                  PROVE  told[s] = value[s]
      BY DEF LastTold
    <2>. DEFINE u == UNION {setters[o] : o \in Object}
    <2>1. IsFiniteSet(u) /\ Cardinality(u) \in Nat
      BY FS_CardinalityType DEF SettersOK
    <2>2. u = {} \/ \E x : u = {x}
      <3>1. Cardinality(u) = 0 \/ Cardinality(u) = 1
        BY <2>1
      <3>. QED
        BY <2>1, <3>1, FS_EmptySet, FS_Singleton
    <2>3. OneSetter
      BY <2>2 DEF OneSetter
    <2>4. TellsInv(s) /\ commands = <<>> /\ events = <<>> /\ task = NoEvent
      BY <2>3 DEF ToldInv, Quiesced
    <2>5. Fine(s) /\ task.event = None
      BY <2>4 DEF TellsInv, Absent, NoEvent
    <2>. QED
      BY <2>5, NoneNoEvent DEF Fine
  <1>. QED
    BY <1>1, <1>2, <1>3, PTL DEF Spec

-----------------------------------------------------------------------------
(* Induction, by the least element of a set of naturals: the library's theorems *)
(* on induction are about an operator.                                          *)

Below == OpToRel(<, Nat)

LEMMA LeastOf ==
    ASSUME NEW T \in SUBSET Nat, T # {}
    PROVE  \E m \in T : \A k \in T : m <= k
  <1>1. IsWellFoundedOn(Below, Nat)
    BY NatLessThanWellFounded DEF Below
  <1>2. \A i, j : <<i, j>> \in Below <=> i \in Nat /\ j \in Nat /\ i < j
    BY DEF Below, OpToRel
  <1>3. PICK m \in T : \A k \in T : ~ (<<k, m>> \in Below)
    BY <1>1, WFMin
  <1>4. ASSUME NEW k \in T
        PROVE  m <= k
    <2>1. ~ (k < m) /\ k \in Nat /\ m \in Nat
      BY <1>2, <1>3
    <2>. QED
      BY <2>1
  <1>. QED
    BY <1>4

LEMMA Induct ==
    ASSUME NEW T \in SUBSET Nat, 0 \in T, \A n \in T : n + 1 \in T
    PROVE  T = Nat
  <1>1. SUFFICES ASSUME Nat \ T # {}
                 PROVE  FALSE
    OBVIOUS
  <1>2. PICK m \in Nat \ T : \A k \in Nat \ T : m <= k
    BY <1>1, LeastOf
  <1>3. m # 0 /\ m - 1 \in Nat /\ m - 1 \notin Nat \ T
    BY <1>2
  <1>. QED
    BY <1>2, <1>3

-----------------------------------------------------------------------------
(* What a connection has set, of a queue: SetBy goes through the queue from its  *)
(* beginning.  Here a function that does so is shown to exist, and what it says  *)
(* of a queue that a command joins or leaves.                                    *)

Built(g, c, q, m) ==
    g = [n \in 0 .. m |-> IF n = 0 THEN <<>>
                          ELSE IF Mine(c, q[n]) THEN Append(g[n - 1], q[n]) ELSE g[n - 1]]

\* The same, step by step.
Walks(g, c, q, m) ==
    /\ g[0] = <<>>
    /\ \A n \in Nat : n + 1 <= m =>
          g[n + 1] = IF Mine(c, q[n + 1]) THEN Append(g[n], q[n + 1]) ELSE g[n]

LEMMA WalkIs ==
    ASSUME NEW c, NEW q, NEW m \in Nat, NEW g, Built(g, c, q, m)
    PROVE  Walks(g, c, q, m)
  <1>1. \A n \in 0 .. m : g[n] = IF n = 0 THEN <<>>
                                 ELSE IF Mine(c, q[n]) THEN Append(g[n - 1], q[n]) ELSE g[n - 1]
    BY DEF Built
  <1>2. 0 \in 0 .. m
    OBVIOUS
  <1>3. ASSUME NEW n \in Nat, n + 1 <= m
        PROVE  g[n + 1] = IF Mine(c, q[n + 1]) THEN Append(g[n], q[n + 1]) ELSE g[n]
    <2>1. n + 1 \in 0 .. m /\ n + 1 # 0 /\ (n + 1) - 1 = n
      BY <1>3
    <2>. QED
      BY <1>1, <2>1
  <1>. QED
    BY <1>1, <1>2, <1>3 DEF Walks

LEMMA SomeWalk ==
    ASSUME NEW c, NEW q, NEW m \in Nat
    PROVE  \E g : Built(g, c, q, m)
  <1>. DEFINE T == {k \in Nat : \E g : Built(g, c, q, k)}
  <1>1. 0 \in T
    <2>. DEFINE g == [n \in 0 .. 0 |-> <<>>]
    <2>1. g = [n \in 0 .. 0 |-> IF n = 0 THEN <<>>
                                ELSE IF Mine(c, q[n]) THEN Append(g[n - 1], q[n]) ELSE g[n - 1]]
      OBVIOUS
    <2>2. Built(g, c, q, 0)
      BY <2>1 DEF Built
    <2>. QED
      BY <2>2
  <1>2. ASSUME NEW k \in T
        PROVE  k + 1 \in T
    <2>1. k \in Nat
      OBVIOUS
    <2>2. PICK g : Built(g, c, q, k)
      OBVIOUS
    <2>3. Walks(g, c, q, k)
      BY <2>1, <2>2, WalkIs
    <2>4. /\ g[0] = <<>>
          /\ \A n \in Nat : n + 1 <= k =>
                g[n + 1] = IF Mine(c, q[n + 1]) THEN Append(g[n], q[n + 1]) ELSE g[n]
      BY <2>3 DEF Walks
    <2>. DEFINE last == IF Mine(c, q[k + 1]) THEN Append(g[k], q[k + 1]) ELSE g[k]
                f == [n \in 0 .. k + 1 |-> IF n <= k THEN g[n] ELSE last]
    <2>5. ASSUME NEW n \in 0 .. k + 1
          PROVE  f[n] = IF n = 0 THEN <<>>
                        ELSE IF Mine(c, q[n]) THEN Append(f[n - 1], q[n]) ELSE f[n - 1]
      <3>1. CASE n = 0
        BY <2>1, <2>4, <3>1
      <3>2. CASE n # 0
        <4>1. PICK p \in Nat : n = p + 1 /\ p <= k /\ p = n - 1
          BY <2>1, <3>2
        <4>2. f[p] = g[p]
          BY <2>1, <4>1
        <4>3. CASE n <= k
          <5>1. f[n] = g[n]
            BY <4>3
          <5>. HIDE DEF f
          <5>. QED
            BY <2>4, <3>2, <4>1, <4>2, <4>3, <5>1
        <4>4. CASE n = k + 1
          <5>1. f[n] = last /\ p = k
            BY <2>1, <4>1, <4>4
          <5>. HIDE DEF f
          <5>. QED
            BY <3>2, <4>1, <4>2, <4>4, <5>1
        <4>. QED
          BY <2>1, <4>3, <4>4
      <3>. QED
        BY <3>1, <3>2
    <2>6. Built(f, c, q, k + 1)
      <3>1. f = [n \in 0 .. k + 1 |-> f[n]]
        OBVIOUS
      <3>. HIDE DEF f
      <3>. QED
        BY <2>5, <3>1 DEF Built
    <2>. QED
      BY <2>1, <2>6
  <1>3. T = Nat
    <2>. HIDE DEF T
    <2>1. T \in SUBSET Nat
      BY DEF T
    <2>. QED
      BY <1>1, <1>2, <2>1, Induct
  <1>. QED
    BY <1>3

\* SetBy is the end of such a walk.
LEMMA SetByWalks ==
    ASSUME NEW c, NEW q, Len(q) \in Nat
    PROVE  \E g : Walks(g, c, q, Len(q)) /\ SetBy(c, q) = g[Len(q)]
  <1>. DEFINE w == CHOOSE g : Built(g, c, q, Len(q))
  <1>1. Built(w, c, q, Len(q))
    BY SomeWalk
  <1>2. SetBy(c, q) = w[Len(q)]
    BY DEF SetBy, Built
  <1>3. Walks(w, c, q, Len(q))
    BY <1>1, WalkIs
  <1>. QED
    BY <1>2, <1>3

\* A walk holds commands of the queue.
LEMMA WalkType ==
    ASSUME NEW c, NEW S, NEW q, NEW m \in Nat, \A i \in 1 .. m : q[i] \in S, NEW g, Walks(g, c, q, m)
    PROVE  \A n \in Nat : n <= m => g[n] \in Seq(S)
  <1>. DEFINE T == {n \in Nat : n <= m => g[n] \in Seq(S)}
  <1>1. /\ g[0] = <<>>
        /\ \A n \in Nat : n + 1 <= m =>
              g[n + 1] = IF Mine(c, q[n + 1]) THEN Append(g[n], q[n + 1]) ELSE g[n]
    BY DEF Walks
  <1>2. 0 \in T
    <2>1. <<>> \in Seq(S)
      OBVIOUS
    <2>. QED
      BY <1>1, <2>1
  <1>3. ASSUME NEW n \in T
        PROVE  n + 1 \in T
    <2>1. SUFFICES ASSUME n + 1 <= m
                   PROVE  g[n + 1] \in Seq(S)
      OBVIOUS
    <2>2. g[n] \in Seq(S) /\ q[n + 1] \in S
      BY <2>1
    <2>3. Append(g[n], q[n + 1]) \in Seq(S)
      BY <2>2
    <2>. QED
      BY <1>1, <2>1, <2>2, <2>3
  <1>4. T = Nat
    <2>. HIDE DEF T
    <2>1. T \in SUBSET Nat
      BY DEF T
    <2>. QED
      BY <1>2, <1>3, <2>1, Induct
  <1>. QED
    BY <1>4

\* Two queues that begin alike are walked alike.
Alike(p, q, m) == \A i \in 1 .. m : p[i] = q[i]

LEMMA WalksAgree ==
    ASSUME NEW c, NEW q, NEW p, NEW k \in Nat, NEW l \in Nat, NEW m \in Nat, m <= k, m <= l,
           NEW g, Walks(g, c, q, k), NEW f, Walks(f, c, p, l), Alike(p, q, m)
    PROVE  f[m] = g[m]
  <1>. DEFINE T == {n \in Nat : n <= m => f[n] = g[n]}
  <1>1. /\ g[0] = <<>>
        /\ \A n \in Nat : n + 1 <= k =>
              g[n + 1] = IF Mine(c, q[n + 1]) THEN Append(g[n], q[n + 1]) ELSE g[n]
    BY DEF Walks
  <1>2. /\ f[0] = <<>>
        /\ \A n \in Nat : n + 1 <= l =>
              f[n + 1] = IF Mine(c, p[n + 1]) THEN Append(f[n], p[n + 1]) ELSE f[n]
    BY DEF Walks
  <1>3. 0 \in T
    BY <1>1, <1>2
  <1>4. ASSUME NEW n \in T
        PROVE  n + 1 \in T
    <2>1. SUFFICES ASSUME n + 1 <= m
                   PROVE  f[n + 1] = g[n + 1]
      OBVIOUS
    <2>2. f[n] = g[n] /\ p[n + 1] = q[n + 1] /\ n + 1 <= k /\ n + 1 <= l
      BY <2>1 DEF Alike
    <2>. QED
      BY <1>1, <1>2, <2>2
  <1>5. T = Nat
    <2>. HIDE DEF T
    <2>1. T \in SUBSET Nat
      BY DEF T
    <2>. QED
      BY <1>3, <1>4, <2>1, Induct
  <1>. QED
    BY <1>5

JoinsLast(S) == \A r, s \in Seq(S), e \in S : Append(r \o s, e) = r \o Append(s, e)

LEMMA AppendJoins ==
    ASSUME NEW S
    PROVE  JoinsLast(S)
  <1>. SUFFICES ASSUME NEW r \in Seq(S), NEW s \in Seq(S), NEW e \in S
                PROVE  Append(r \o s, e) = r \o Append(s, e)
    BY DEF JoinsLast
  <1>. DEFINE a == Append(r \o s, e)
              b == r \o Append(s, e)
  <1>1. r \o s \in Seq(S) /\ Len(r \o s) = Len(r) + Len(s) /\ Len(r) \in Nat /\ Len(s) \in Nat
    OBVIOUS
  <1>2. a \in Seq(S) /\ Len(a) = Len(r) + Len(s) + 1
    BY <1>1
  <1>3. b \in Seq(S) /\ Len(b) = Len(r) + Len(s) + 1
    BY <1>1
  <1>4. ASSUME NEW i \in 1 .. Len(r) + Len(s) + 1
        PROVE  a[i] = b[i]
    <2>1. CASE i <= Len(r)
      BY <1>1, <2>1
    <2>2. CASE i > Len(r) /\ i <= Len(r) + Len(s)
      BY <1>1, <2>2
    <2>3. CASE i = Len(r) + Len(s) + 1
      BY <1>1, <2>3
    <2>. QED
      BY <1>1, <2>1, <2>2, <2>3
  <1>. HIDE DEF a, b
  <1>5. a = b
    BY <1>2, <1>3, <1>4, SeqEqual
  <1>. QED
    BY <1>5 DEF a, b

\* A walk through a queue goes, after its head, as one through its tail p.
Shifted(p, q, m) == \A i \in 1 .. m : p[i] = q[i + 1]
Joins(s, c, d, r) == s = (IF Mine(c, d) THEN <<d>> ELSE <<>>) \o r

LEMMA WalkTail ==
    ASSUME NEW c, NEW q, NEW p, NEW m \in Nat, NEW k \in Nat,
           Shifted(p, q, m), NEW g, Walks(g, c, q, k), NEW f, Walks(f, c, p, m)
    PROVE  k = m + 1 => Joins(g[k], c, q[1], f[m])
  <1>1. PICK S : \A i \in 1 .. k : q[i] \in S
    <2>. DEFINE S == {q[i] : i \in 1 .. k}
    <2>1. \A i \in 1 .. k : q[i] \in S
      OBVIOUS
    <2>. QED
      BY <2>1
  <1>. DEFINE first == IF Mine(c, q[1]) THEN <<q[1]>> ELSE <<>>
              T == {n \in Nat : n <= m => g[n + 1] = first \o f[n]}
  <1>2. \A n \in Nat : n + 1 <= k =>
            g[n + 1] = IF Mine(c, q[n + 1]) THEN Append(g[n], q[n + 1]) ELSE g[n]
    BY DEF Walks
  <1>3. \A n \in Nat : n + 1 <= m =>
            f[n + 1] = IF Mine(c, p[n + 1]) THEN Append(f[n], p[n + 1]) ELSE f[n]
    BY DEF Walks
  <1>4. g[0] = <<>> /\ f[0] = <<>>
    BY DEF Walks
  <1>5. SUFFICES ASSUME k = m + 1
                 PROVE  g[m + 1] = first \o f[m]
    BY DEF Joins
  <1>6. /\ g[0] = <<>>
        /\ \A n \in Nat : n + 1 <= m + 1 =>
              g[n + 1] = IF Mine(c, q[n + 1]) THEN Append(g[n], q[n + 1]) ELSE g[n]
    BY <1>2, <1>4, <1>5
  <1>7. /\ f[0] = <<>>
        /\ \A n \in Nat : n + 1 <= m =>
              f[n + 1] = IF Mine(c, q[n + 2]) THEN Append(f[n], q[n + 2]) ELSE f[n]
    <2>1. ASSUME NEW n \in Nat, n + 1 <= m
          PROVE  p[n + 1] = q[n + 2]
      <3>1. n + 1 \in 1 .. m /\ (n + 1) + 1 = n + 2
        BY <2>1
      <3>. QED
        BY <3>1 DEF Shifted
    <2>. QED
      BY <1>3, <1>4, <2>1
  <1>8. first \in Seq(S)
    <2>1. q[1] \in S
      <3>1. 1 \in 1 .. k
        BY <1>5
      <3>. QED
        BY <1>1, <3>1
    <2>. QED
      BY <2>1
  <1>9. \A n \in Nat : n <= m => f[n] \in Seq(S)
    <2>1. \A i \in 1 .. m : p[i] \in S
      BY <1>1, <1>5 DEF Shifted
    <2>. QED
      BY <2>1, WalkType
  <1>10. 0 \in T
    <2>1. g[0 + 1] = IF Mine(c, q[1]) THEN Append(g[0], q[1]) ELSE g[0]
      <3>1. 0 \in Nat /\ 0 + 1 <= m + 1 /\ 0 + 1 = 1
        OBVIOUS
      <3>. QED
        BY <1>6, <3>1
    <2>2. g[0 + 1] = first
      BY <1>6, <2>1
    <2>3. first \o <<>> = first
      BY <1>8
    <2>. QED
      BY <1>7, <2>2, <2>3
  <1>. HIDE DEF first
  <1>11. ASSUME NEW s \in Seq(S), NEW e \in S
         PROVE  Append(first \o s, e) = first \o Append(s, e)
    <2>1. JoinsLast(S)
      BY AppendJoins
    <2>. QED
      BY <1>8, <2>1 DEF JoinsLast
  <1>12. ASSUME NEW n \in T
        PROVE  n + 1 \in T
    <2>1. SUFFICES ASSUME n + 1 <= m
                   PROVE  g[(n + 1) + 1] = first \o f[n + 1]
      OBVIOUS
    <2>2. n \in Nat /\ g[n + 1] = first \o f[n] /\ f[n] \in Seq(S)
      BY <1>9, <2>1
    <2>3. g[n + 2] = IF Mine(c, q[n + 2]) THEN Append(g[n + 1], q[n + 2]) ELSE g[n + 1]
      <3>1. n + 1 \in Nat /\ (n + 1) + 1 <= m + 1 /\ (n + 1) + 1 = n + 2
        BY <2>1, <2>2
      <3>. QED
        BY <1>6, <3>1
    <2>4. f[n + 1] = IF Mine(c, q[n + 2]) THEN Append(f[n], q[n + 2]) ELSE f[n]
      BY <1>7, <2>1, <2>2
    <2>5. q[n + 2] \in S
      <3>1. n + 2 \in 1 .. k
        BY <1>5, <2>1, <2>2
      <3>. QED
        BY <1>1, <3>1
    <2>6. Append(first \o f[n], q[n + 2]) = first \o Append(f[n], q[n + 2])
      BY <1>11, <2>2, <2>5
    <2>7. (n + 1) + 1 = n + 2
      BY <2>2
    <2>. QED
      BY <2>2, <2>3, <2>4, <2>6, <2>7
  <1>13. T = Nat
    <2>. HIDE DEF T
    <2>1. T \in SUBSET Nat
      BY DEF T
    <2>. QED
      BY <1>10, <1>12, <2>1, Induct
  <1>14. g[m + 1] = first \o f[m]
    <2>1. m \in T
      <3>. HIDE DEF T
      <3>. QED
        BY <1>13
    <2>2. m <= m
      OBVIOUS
    <2>. QED
      BY <2>1, <2>2
  <1>. QED
    BY <1>14 DEF first

\* What SetBy says of no queue, of one that a command joins, of one that a command leaves,
\* and of one with nothing of the connection's.
LEMMA SetByEmpty ==
    ASSUME NEW c
    PROVE  SetBy(c, <<>>) = <<>>
  <1>1. PICK q : q = <<>>
    OBVIOUS
  <1>2. Len(q) = 0
    BY <1>1
  <1>3. PICK g : Walks(g, c, q, 0) /\ SetBy(c, q) = g[0]
    BY <1>2, SetByWalks
  <1>4. g[0] = <<>>
    BY <1>3 DEF Walks
  <1>. QED
    BY <1>1, <1>3, <1>4

LEMMA SetByAppend ==
    ASSUME NEW c, NEW S, NEW q \in Seq(S), NEW d \in S
    PROVE  SetBy(c, Append(q, d)) = IF Mine(c, d) THEN Append(SetBy(c, q), d) ELSE SetBy(c, q)
  <1>1. PICK m \in Nat : m = Len(q)
    OBVIOUS
  <1>2. PICK k \in Nat : k = m + 1
    OBVIOUS
  <1>3. PICK p, a : p = q /\ a = Append(q, d)
    OBVIOUS
  <1>4. Len(p) = m /\ Len(a) = k /\ a[k] = d /\ \A i \in 1 .. m : a[i] = p[i]
    BY <1>1, <1>2, <1>3
  <1>5. PICK f : Walks(f, c, p, m) /\ SetBy(c, p) = f[m]
    BY <1>4, SetByWalks
  <1>6. PICK g : Walks(g, c, a, k) /\ SetBy(c, a) = g[k]
    BY <1>4, SetByWalks
  <1>7. g[m] = f[m]
    <2>1. m <= k /\ m <= m
      BY <1>2
    <2>2. Alike(a, p, m)
      BY <1>4 DEF Alike
    <2>. QED
      BY <1>5, <1>6, <2>1, <2>2, WalksAgree
  <1>8. g[k] = IF Mine(c, d) THEN Append(g[m], d) ELSE g[m]
    <2>1. \A n \in Nat : n + 1 <= k =>
              g[n + 1] = IF Mine(c, a[n + 1]) THEN Append(g[n], a[n + 1]) ELSE g[n]
      BY <1>6 DEF Walks
    <2>2. m + 1 <= k
      BY <1>2
    <2>3. g[m + 1] = IF Mine(c, a[m + 1]) THEN Append(g[m], a[m + 1]) ELSE g[m]
      BY <2>1, <2>2
    <2>. QED
      BY <1>2, <1>4, <2>3
  <1>. QED
    BY <1>3, <1>5, <1>6, <1>7, <1>8

LEMMA SetByTail ==
    ASSUME NEW c, NEW S, NEW q \in Seq(S), q # <<>>
    PROVE  /\ SetBy(c, Tail(q)) \in Seq(S)
           /\ SetBy(c, q) = (IF Mine(c, Head(q)) THEN <<Head(q)>> ELSE <<>>) \o SetBy(c, Tail(q))
  <1>1. /\ Len(q) \in Nat \ {0} /\ Len(Tail(q)) = Len(q) - 1 /\ Head(q) = q[1]
        /\ \A i \in 1 .. Len(q) - 1 : Tail(q)[i] = q[i + 1]
    BY TailOf
  <1>2. PICK m \in Nat : m = Len(q) - 1
    <2>1. Len(q) - 1 \in Nat
      BY <1>1
    <2>. QED
      BY <2>1
  <1>3. PICK p, t : p = q /\ t = Tail(q)
    OBVIOUS
  <1>. PICK k \in Nat : k = m + 1
    OBVIOUS
  <1>4. /\ Len(p) = k /\ Len(t) = m /\ Head(q) = p[1] /\ k = m + 1
        /\ \A i \in 1 .. k : p[i] \in S
        /\ \A i \in 1 .. m : t[i] = p[i + 1]
    <2>1. \A i \in 1 .. m + 1 : q[i] \in S
      BY <1>1, <1>2
    <2>. QED
      BY <1>1, <1>2, <1>3, <2>1
  <1>5. PICK f : Walks(f, c, t, m) /\ SetBy(c, t) = f[m]
    BY <1>4, SetByWalks
  <1>6. PICK g : Walks(g, c, p, k) /\ SetBy(c, p) = g[k]
    BY <1>4, SetByWalks
  <1>7. f[m] \in Seq(S)
    <2>1. \A i \in 1 .. m : t[i] \in S
      BY <1>4
    <2>2. \A n \in Nat : n <= m => f[n] \in Seq(S)
      BY <1>5, <2>1, WalkType
    <2>. QED
      BY <2>2
  <1>8. g[k] = (IF Mine(c, p[1]) THEN <<p[1]>> ELSE <<>>) \o f[m]
    <2>1. ASSUME NEW n \in Nat, NEW h, Walks(h, c, p, n)
          PROVE  n = m + 1 => Joins(h[n], c, p[1], f[m])
      <3>1. Shifted(t, p, m)
        BY <1>4 DEF Shifted
      <3>. QED
        BY <1>5, <2>1, <3>1, WalkTail
    <2>. QED
      BY <1>4, <1>6, <2>1 DEF Joins
  <1>. QED
    BY <1>3, <1>4, <1>5, <1>6, <1>7, <1>8

LEMMA SetByNone ==
    ASSUME NEW c, NEW S, NEW q \in Seq(S), \A i \in 1 .. Len(q) : ~ Mine(c, q[i])
    PROVE  SetBy(c, q) = <<>>
  <1>1. PICK m \in Nat : m = Len(q)
    OBVIOUS
  <1>2. PICK p : p = q
    OBVIOUS
  <1>3. Len(p) = m /\ \A i \in 1 .. m : ~ Mine(c, p[i])
    BY <1>1, <1>2
  <1>4. PICK g : Walks(g, c, p, m) /\ SetBy(c, p) = g[m]
    BY <1>3, SetByWalks
  <1>5. /\ g[0] = <<>>
        /\ \A n \in Nat : n + 1 <= m =>
              g[n + 1] = IF Mine(c, p[n + 1]) THEN Append(g[n], p[n + 1]) ELSE g[n]
    BY <1>4 DEF Walks
  <1>. DEFINE T == {n \in Nat : n <= m => g[n] = <<>>}
  <1>6. 0 \in T
    BY <1>5
  <1>7. ASSUME NEW n \in T
        PROVE  n + 1 \in T
    <2>1. SUFFICES ASSUME n + 1 <= m
                   PROVE  g[n + 1] = <<>>
      OBVIOUS
    <2>2. n + 1 \in 1 .. m /\ g[n] = <<>> /\ n \in Nat
      BY <2>1
    <2>. QED
      BY <1>3, <1>5, <2>1, <2>2
  <1>8. T = Nat
    <2>. HIDE DEF T
    <2>1. T \in SUBSET Nat
      BY DEF T
    <2>. QED
      BY <1>6, <1>7, <2>1, Induct
  <1>9. m \in T
    <2>. HIDE DEF T
    <2>. QED
      BY <1>8
  <1>. QED
    BY <1>2, <1>4, <1>9

\* What a connection has set and is in the queue, when a command joins or leaves it.
LEMMA OfType ==
    ASSUME QueuesOK, NEW c
    PROVE  OfConn(c) \in Seq(Issued)
  <1>1. CASE commands = <<>>
    <2>1. OfConn(c) = <<>>
      BY <1>1, SetByEmpty DEF OfConn
    <2>2. <<>> \in Seq(Issued)
      OBVIOUS
    <2>. QED
      BY <2>1, <2>2
  <1>2. CASE commands # <<>>
    <2>1. /\ SetBy(c, Tail(commands)) \in Seq(Issued)
          /\ SetBy(c, commands) = (IF Mine(c, Head(commands)) THEN <<Head(commands)>> ELSE <<>>)
                                    \o SetBy(c, Tail(commands))
      BY <1>2, SetByTail DEF QueuesOK
    <2>2. Head(commands) \in Issued
      BY <1>2, HeadOf
    <2>. QED
      BY <2>1, <2>2 DEF OfConn
  <1>. QED
    BY <1>1, <1>2

LEMMA OfAppend ==
    ASSUME QueuesOK, NEW d \in Issued, commands' = Append(commands, d), NEW c
    PROVE  /\ Mine(c, d) => OfConn(c)' = Append(OfConn(c), d) /\ OfConn(c)' # OfConn(c)
           /\ ~ Mine(c, d) => OfConn(c)' = OfConn(c)
  <1>1. SetBy(c, Append(commands, d)) =
            IF Mine(c, d) THEN Append(SetBy(c, commands), d) ELSE SetBy(c, commands)
    BY SetByAppend DEF QueuesOK
  <1>2. OfConn(c)' = IF Mine(c, d) THEN Append(OfConn(c), d) ELSE OfConn(c)
    BY <1>1 DEF OfConn
  <1>3. ASSUME NEW s \in Seq(Issued)
        PROVE  Append(s, d) # s
    <2>1. Len(Append(s, d)) = Len(s) + 1 /\ Len(s) \in Nat
      OBVIOUS
    <2>. QED
      BY <2>1
  <1>4. Append(OfConn(c), d) # OfConn(c)
    BY <1>3, OfType
  <1>. QED
    BY <1>2, <1>4

LEMMA OfTail ==
    ASSUME QueuesOK, commands # <<>>, commands' = Tail(commands), NEW c
    PROVE  /\ Mine(c, Head(commands)) =>
                /\ OfConn(c) # <<>> /\ Head(OfConn(c)) = Head(commands)
                /\ OfConn(c)' = Tail(OfConn(c))
           /\ ~ Mine(c, Head(commands)) => OfConn(c)' = OfConn(c)
  <1>1. /\ SetBy(c, Tail(commands)) \in Seq(Issued)
        /\ SetBy(c, commands) = (IF Mine(c, Head(commands)) THEN <<Head(commands)>> ELSE <<>>)
                                  \o SetBy(c, Tail(commands))
    BY SetByTail DEF QueuesOK
  <1>2. Head(commands) \in Issued
    BY HeadOf
  <1>3. ASSUME NEW s \in Seq(Issued), NEW h \in Issued
        PROVE  /\ <<h>> \o s # <<>> /\ Head(<<h>> \o s) = h /\ Tail(<<h>> \o s) = s
               /\ <<>> \o s = s
    <2>1. <<h>> \o s \in Seq(Issued) /\ Len(<<h>> \o s) = 1 + Len(s) /\ Len(s) \in Nat
          /\ (<<h>> \o s)[1] = h
      OBVIOUS
    <2>2. <<h>> \o s # <<>>
      BY <2>1
    <2>. PICK t : t = <<h>> \o s
      OBVIOUS
    <2>3. Head(t) = t[1]
      BY <2>1, <2>2
    <2>4. Tail(<<h>> \o s) = s /\ <<>> \o s = s
      OBVIOUS
    <2>. QED
      BY <2>1, <2>2, <2>3, <2>4
  <1>4. OfConn(c)' = SetBy(c, Tail(commands))
    BY DEF OfConn
  <1>5. OfConn(c) = SetBy(c, commands)
    BY DEF OfConn
  <1>6. CASE Mine(c, Head(commands))
    <2>1. OfConn(c) = <<Head(commands)>> \o OfConn(c)'
      BY <1>1, <1>4, <1>5, <1>6
    <2>. QED
      BY <1>1, <1>2, <1>3, <1>4, <1>6, <2>1
  <1>7. CASE ~ Mine(c, Head(commands))
    <2>1. OfConn(c) = <<>> \o OfConn(c)'
      BY <1>1, <1>4, <1>5, <1>7
    <2>. QED
      BY <1>1, <1>2, <1>3, <1>4, <1>7, <2>1
  <1>. QED
    BY <1>6, <1>7

LEMMA OperationOf ==
    ASSUME NEW d \in Issued, d.method \in Changes
    PROVE  d \in Operations /\ d.from \in Conn
  <1>1. /\ d = [method |-> d.method, object |-> d.object, value |-> d.value, from |-> d.from]
        /\ d.value \in Value /\ d.from \in Conn \cup {Task}
    BY DEF Issued, Command
  <1>2. d.method # "GetStatus"
    BY DEF Changes, Sets, Updates
  <1>3. d.method \in Method /\ d.object \in Object /\ d.from # Task
    BY <1>2 DEF Issued
  <1>. QED
    BY <1>1, <1>3 DEF Operations

-----------------------------------------------------------------------------
(* The service.  Seen by each connection, the queue holds what it has set and  *)
(* is not in effect; a status is read of the state when nothing of the asker's *)
(* is left in the queue, as its question was the last it sent.                 *)

Reply(c) == conn[c].reply

\* The steps of the service, told of each connection apart.
LEMMA ServiceStutters ==
    ASSUME UNCHANGED value, \A c \in Conn : OfConn(c)' = OfConn(c) /\ Reply(c)' = Reply(c)
    PROVE  UNCHANGED Service!vars
  <1>1. [c \in Conn |-> OfConn(c)]' = [c \in Conn |-> OfConn(c)]
    OBVIOUS
  <1>2. [c \in Conn |-> conn[c].reply]' = [c \in Conn |-> conn[c].reply]
    BY DEF Reply
  <1>. QED
    BY <1>1, <1>2 DEF Service!vars

LEMMA ServiceInit ==
    Init => Service!Init
  <1>. SUFFICES ASSUME Init PROVE Service!Init
    OBVIOUS
  <1>1. value \in State
    BY ControlAssumption DEF Init, FirstState, State
  <1>2. \A c \in Conn : OfConn(c) = <<>>
    BY SetByEmpty DEF Init, OfConn
  <1>3. \A c \in Conn : conn[c].reply = None
    BY DEF Init, NewConn
  <1>. QED
    BY <1>1, <1>2, <1>3 DEF Service!Init

LEMMA ServiceEnds ==
    ASSUME Types, Restart
    PROVE  Service!End
  <1>1. value' \in State
    BY DEF Restart, Types, ValuesOK, Known
  <1>2. \A c \in Conn : OfConn(c)' = <<>>
    BY SetByEmpty DEF Restart, OfConn
  <1>3. \A c \in Conn : conn'[c].reply = None
    BY DEF Restart, NewConn
  <1>. QED
    BY <1>1, <1>2, <1>3 DEF Service!End

LEMMA ServiceApplies ==
    ASSUME NEW c \in Conn, OfConn(c) # <<>>, OfConn(c)' = Tail(OfConn(c)),
           \A d \in Conn : d # c => OfConn(d)' = OfConn(d),
           value' = Effect(value, Head(OfConn(c))), \A d \in Conn : Reply(d)' = Reply(d)
    PROVE  Service!Apply(c)
  <1>1. [d \in Conn |-> OfConn(d)]' = [[d \in Conn |-> OfConn(d)] EXCEPT ![c] = Tail(@)]
    OBVIOUS
  <1>2. [d \in Conn |-> conn[d].reply]' = [d \in Conn |-> conn[d].reply]
    BY DEF Reply
  <1>. QED
    BY <1>1, <1>2 DEF Service!Apply

LEMMA ServiceAccepts ==
    ASSUME NEW c \in Conn, NEW op \in Operations, Reply(c) = None, UNCHANGED value,
           OfConn(c)' = Append(OfConn(c), op), OfConn(c)' # OfConn(c),
           \A d \in Conn : d # c => OfConn(d)' = OfConn(d),
           \A d \in Conn : Reply(d)' = Reply(d)
    PROVE  Service!Accept(c)
  <1>1. [d \in Conn |-> OfConn(d)]' = [[d \in Conn |-> OfConn(d)] EXCEPT ![c] = Append(@, op)]
    OBVIOUS
  <1>2. [d \in Conn |-> conn[d].reply]' = [d \in Conn |-> conn[d].reply]
    BY DEF Reply
  <1>3. [d \in Conn |-> OfConn(d)]' # [d \in Conn |-> OfConn(d)]
    OBVIOUS
  <1>4. [d \in Conn |-> conn[d].reply][c] = None
    BY DEF Reply
  <1>. QED
    BY <1>1, <1>2, <1>3, <1>4 DEF Service!Accept

LEMMA ServiceReads ==
    ASSUME NEW c \in Conn, OfConn(c) = <<>>, Reply(c) = None, UNCHANGED value, Reply(c)' = value,
           \A d \in Conn : OfConn(d)' = OfConn(d),
           \A d \in Conn : d # c => Reply(d)' = Reply(d)
    PROVE  Service!Read(c)
  <1>1. [d \in Conn |-> OfConn(d)]' = [d \in Conn |-> OfConn(d)]
    OBVIOUS
  <1>2. [d \in Conn |-> conn[d].reply]' = [[d \in Conn |-> conn[d].reply] EXCEPT ![c] = value]
    BY DEF Reply
  <1>3. [d \in Conn |-> conn[d].reply][c] = None
    BY DEF Reply
  <1>. QED
    BY <1>1, <1>2, <1>3 DEF Service!Read

LEMMA ServiceTakes ==
    ASSUME NEW c \in Conn, Reply(c) # None, UNCHANGED value, Reply(c)' = None,
           \A d \in Conn : OfConn(d)' = OfConn(d),
           \A d \in Conn : d # c => Reply(d)' = Reply(d)
    PROVE  Service!Take(c)
  <1>1. [d \in Conn |-> OfConn(d)]' = [d \in Conn |-> OfConn(d)]
    OBVIOUS
  <1>2. [d \in Conn |-> conn[d].reply]' = [[d \in Conn |-> conn[d].reply] EXCEPT ![c] = None]
    BY DEF Reply
  <1>3. [d \in Conn |-> conn[d].reply][c] # None
    BY DEF Reply
  <1>. QED
    BY <1>1, <1>2, <1>3 DEF Service!Take

LEMMA ServiceChanges ==
    ASSUME NEW c \in Client, value' \in State, \A o \in DOMAIN value \ {c} : value'[o] = value[o],
           \A d \in Conn : OfConn(d)' = OfConn(d) /\ Reply(d)' = Reply(d)
    PROVE  Service!ClientChanges(c)
  <1>1. [d \in Conn |-> OfConn(d)]' = [d \in Conn |-> OfConn(d)]
    OBVIOUS
  <1>2. [d \in Conn |-> conn[d].reply]' = [d \in Conn |-> conn[d].reply]
    BY DEF Reply
  <1>. QED
    BY <1>1, <1>2 DEF Service!ClientChanges

\* A connection that asked sends nothing after its question.
AsksLast(c) ==
    \/ conn[c].pc = "gone"
    \/ \A i, j \in 1 .. Len(commands) :
          commands[i] \in Questions(c) /\ i < j => commands[j].from # c

LEMMA AsksLastSame ==
    ASSUME NEW c \in Conn, AsksLast(c), UNCHANGED commands, conn[c].pc = "gone" => conn'[c].pc = "gone"
    PROVE  AsksLast(c)'
  BY DEF AsksLast

LEMMA AsksLastTail ==
    ASSUME NEW c \in Conn, AsksLast(c), QueuesOK, commands # <<>>, commands' = Tail(commands),
           conn[c].pc = "gone" => conn'[c].pc = "gone"
    PROVE  AsksLast(c)'
  <1>1. /\ Len(commands) \in Nat \ {0} /\ Len(commands') = Len(commands) - 1
        /\ \A i \in 1 .. Len(commands) - 1 : commands'[i] = commands[i + 1]
    BY TailOf DEF QueuesOK
  <1>2. \A i \in 1 .. Len(commands') :
           i \in Nat /\ i + 1 \in 1 .. Len(commands) /\ commands'[i] = commands[i + 1]
    BY <1>1
  <1>3. \A i, j \in 1 .. Len(commands') : i < j => i + 1 < j + 1
    BY <1>1
  <1>. QED
    BY <1>2, <1>3 DEF AsksLast

LEMMA AsksLastAppend ==
    ASSUME NEW c \in Conn, AsksLast(c), QueuesOK, NEW d \in Issued, commands' = Append(commands, d),
           d.from # c \/ Absent(commands, Questions(c)), conn[c].pc = "gone" => conn'[c].pc = "gone"
    PROVE  AsksLast(c)'
  <1>1. /\ Len(commands) \in Nat /\ Len(commands') = Len(commands) + 1
        /\ commands'[Len(commands) + 1] = d
        /\ \A i \in 1 .. Len(commands) : commands'[i] = commands[i]
    BY AppendOf DEF QueuesOK
  <1>2. ASSUME NEW i \in 1 .. Len(commands'), NEW j \in 1 .. Len(commands'), i < j
        PROVE  /\ i \in 1 .. Len(commands) /\ commands'[i] = commands[i]
               /\ \/ j \in 1 .. Len(commands) /\ commands'[j] = commands[j]
                  \/ commands'[j] = d
    BY <1>1, <1>2
  <1>3. CASE d.from # c
    BY <1>2, <1>3 DEF AsksLast
  <1>4. CASE Absent(commands, Questions(c))
    BY <1>2, <1>4 DEF AsksLast, Absent
  <1>. QED
    BY <1>3, <1>4

\* Who waits and finds its question at the head of the queue has nothing else in it.
LEMMA AsksAlone ==
    ASSUME NEW c \in Conn, AsksLast(c), conn[c].pc # "gone", QueuesOK, commands # <<>>,
           Head(commands) \in Questions(c)
    PROVE  OfConn(c) = <<>>
  <1>1. commands \in Seq(Issued) /\ Head(commands) = commands[1] /\ Len(commands) \in Nat \ {0}
    BY TailOf DEF QueuesOK
  <1>2. ~ Mine(c, commands[1])
    BY <1>1 DEF Mine, Questions, Changes, Sets, Updates
  <1>3. ASSUME NEW i \in 1 .. Len(commands)
        PROVE  ~ Mine(c, commands[i])
    <2>1. CASE i = 1
      BY <1>2, <2>1
    <2>2. CASE i # 1
      <3>1. 1 \in 1 .. Len(commands) /\ 1 < i
        BY <1>1, <2>2
      <3>2. commands[i].from # c
        BY <1>1, <3>1 DEF AsksLast
      <3>. QED
        BY <3>2 DEF Mine
    <2>. QED
      BY <2>1, <2>2
  <1>4. SetBy(c, commands) = <<>>
    BY <1>1, <1>3, SetByNone
  <1>. QED
    BY <1>4 DEF OfConn

LEMMA GoneStays ==
    ASSUME Types, Next, NEW c \in Conn, conn[c].pc = "gone"
    PROVE  Restart \/ conn'[c].pc = "gone"
  <1>. SUFFICES ASSUME ~ Restart
                PROVE  conn'[c] = conn[c]
    OBVIOUS
  <1>0. conn \in [Conn -> [pc: {"idle", "sending", "asking", "waiting", "responding", "notifying", "gone"},
                           request: Request \cup {None}, authenticated: BOOLEAN,
                           reply: State \cup {None}]]
    BY DEF Types, ConnInv, ConnTypes
  <1>1. CASE DispatcherStep
    <2>1. CASE Answer
      <3>1. conn' = conn \/ \E d \in Conn \cup {Task} : d # Task /\ conn[d].pc = "waiting" /\
                               \/ conn' = [conn EXCEPT ![d].reply = value]
                               \/ conn' = [conn EXCEPT ![d].pc = "responding"]
        BY <2>1, HeadOf DEF Answer, Types, Issued, Command
      <3>. QED
        BY <1>0, <3>1
    <2>. QED
      BY <1>1, <2>1 DEF DispatcherStep, Dispatch, Push
  <1>2. CASE TaskStep
    BY <1>2 DEF TaskStep, TakeEvent, AskStatus, TellStatus
  <1>3. ASSUME NEW d \in Client, \/ Arrive(d) \/ Leave(d) \/ Post(d) \/ TakeSettings(d)
                                 \/ \E v \in Value : Report(d, v)
        PROVE  conn'[c] = conn[c]
    BY <1>3 DEF Arrive, Leave, Post, TakeSettings, Report
  <1>4. ASSUME NEW d \in Conn, \/ ConnStep(d) \/ HangUp(d) \/ Abandon(d)
                               \/ \E r \in Requests[d] : Receive(d, r)
        PROVE  conn'[c] = conn[c]
    <2>1. conn[d].pc # "gone" /\ \E x : conn' = [conn EXCEPT ![d] = x]
      BY <1>0, <1>4, Zenon DEF ConnStep, SendCommand, AskServer, GotStatus, Respond, Notify, HangUp, Abandon,
            Receive, NewConn
    <2>. QED
      BY <1>0, <2>1
  <1>. QED
    BY <1>1, <1>2, <1>3, <1>4 DEF Next

AskedLast == \A c \in Conn : AsksLast(c)

LEMMA AskedLastKept ==
    ASSUME Types, AskedLast, [Next]_vars
    PROVE  AskedLast'
  <1>. SUFFICES ASSUME NEW c \in Conn
                PROVE  AsksLast(c)'
    BY DEF AskedLast
  <1>1. AsksLast(c) /\ QueuesOK
    BY DEF AskedLast, Types
  <1>2. CASE UNCHANGED vars
    BY <1>1, <1>2, AsksLastSame DEF vars
  <1>3. CASE Restart
    BY <1>3 DEF Restart, AsksLast
  <1>4. ASSUME Next, ~ Restart
        PROVE  conn[c].pc = "gone" => conn'[c].pc = "gone"
    BY <1>4, GoneStays
  <1>5. ASSUME Next, ~ Restart, UNCHANGED commands
        PROVE  AsksLast(c)'
    BY <1>1, <1>4, <1>5, AsksLastSame
  <1>6. ASSUME Next, ~ Restart, commands # <<>>, commands' = Tail(commands)
        PROVE  AsksLast(c)'
    BY <1>1, <1>4, <1>6, AsksLastTail
  <1>7. ASSUME Next, ~ Restart, NEW e \in Conn \cup {Task}, NEW d \in Issued, d.from = e,
               e \in Conn => conn[e].pc \in {"sending", "asking"}, commands' = Append(commands, d)
        PROVE  AsksLast(c)'
    <2>1. CASE e = c
      <3>1. QuestionOK(c) /\ conn[c].pc \notin {"waiting", "gone"}
        BY <1>7, <2>1 DEF Types, ConnInv
      <3>2. Absent(commands, Questions(c))
        BY <3>1, NoQuestion
      <3>. QED
        BY <1>1, <1>4, <1>7, <3>2, AsksLastAppend
    <2>2. CASE e # c
      BY <1>1, <1>4, <1>7, <2>2, AsksLastAppend
    <2>. QED
      BY <2>1, <2>2
  <1>8. ASSUME Next, ~ Restart
        PROVE  AsksLast(c)'
    <2>1. CASE DispatcherStep
      BY <1>5, <1>6, <1>8, <2>1 DEF DispatcherStep, Dispatch, Push, Answer
    <2>2. CASE TaskStep
      <3>1. CASE AskStatus
        <4>1. GetStatus(Task) \in Issued /\ GetStatus(Task).from = Task /\ Task \notin Conn
          BY StatusIssued, ControlAssumption
        <4>. QED
          BY <1>7, <1>8, <3>1, <4>1 DEF AskStatus
      <3>. QED
        BY <1>5, <1>8, <2>2, <3>1 DEF TaskStep, TakeEvent, TellStatus
    <2>3. ASSUME NEW e \in Client, Arrive(e) \/ Leave(e) \/ Post(e) \/ TakeSettings(e) \/ \E v \in Value : Report(e, v)
          PROVE  AsksLast(c)'
      BY <1>5, <1>8, <2>3, ClientSteps
    <2>4. ASSUME NEW e \in Conn, \/ ConnStep(e) \/ HangUp(e) \/ Abandon(e)
                                 \/ \E r \in Requests[e] : Receive(e, r)
          PROVE  AsksLast(c)'
      <3>1. CASE SendCommand(e)
        <4>1. /\ SentBy(e) \in Issued /\ SentBy(e).from = e /\ conn[e].pc = "sending"
              /\ commands' = Append(commands, SentBy(e))
          BY <3>1, SentIssued DEF SendCommand, SentBy
        <4>. QED
          BY <1>7, <1>8, <4>1
      <3>2. CASE AskServer(e)
        <4>1. GetStatus(e) \in Issued /\ GetStatus(e).from = e
          BY StatusIssued
        <4>. QED
          BY <1>7, <1>8, <3>2, <4>1 DEF AskServer
      <3>. QED
        BY <1>5, <1>8, <2>4, <3>1, <3>2 DEF ConnStep, GotStatus, Respond, Notify, HangUp, Abandon, Receive
    <2>. QED
      BY <1>8, <2>1, <2>2, <2>3, <2>4 DEF Next
  <1>. QED
    BY <1>2, <1>3, <1>8

\* A step of the service, or none.
Served == Service!Next \/ UNCHANGED Service!vars

\* What joins or leaves the queue and is no change is nothing to the service.
LEMMA OfSame ==
    ASSUME Types,
           \/ UNCHANGED commands
           \/ \E d \in Issued : d.method \notin Changes /\ commands' = Append(commands, d)
           \/ commands # <<>> /\ Head(commands).method \notin Changes /\ commands' = Tail(commands)
    PROVE  \A c \in Conn : OfConn(c)' = OfConn(c)
  <1>. SUFFICES ASSUME NEW c \in Conn
                PROVE  OfConn(c)' = OfConn(c)
    OBVIOUS
  <1>0. QueuesOK
    BY DEF Types
  <1>1. CASE UNCHANGED commands
    BY <1>1 DEF OfConn
  <1>2. ASSUME NEW d \in Issued, d.method \notin Changes, commands' = Append(commands, d)
        PROVE  OfConn(c)' = OfConn(c)
    <2>1. ~ Mine(c, d)
      BY <1>2 DEF Mine
    <2>. QED
      BY <1>0, <1>2, <2>1, OfAppend
  <1>3. CASE commands # <<>> /\ Head(commands).method \notin Changes /\ commands' = Tail(commands)
    <2>1. ~ Mine(c, Head(commands))
      BY <1>3 DEF Mine
    <2>. QED
      BY <1>0, <1>3, <2>1, OfTail
  <1>. QED
    BY <1>1, <1>2, <1>3

LEMMA ServiceDispatch ==
    ASSUME Types, Dispatch
    PROVE  Served
  <1>. DEFINE d == Head(commands)
  <1>1. /\ commands # <<>> /\ commands' = Tail(commands) /\ UNCHANGED conn
        /\ value' = IF d.method \in Changes THEN Effect(value, d) ELSE value
    BY DEF Dispatch
  <1>2. d \in Issued /\ QueuesOK
    BY <1>1, HeadOf DEF Types
  <1>. HIDE DEF d
  <1>3. \A c \in Conn : Reply(c)' = Reply(c)
    BY <1>1 DEF Reply
  <1>4. CASE d.method \in Changes
    <2>. PICK c : c = d.from
      OBVIOUS
    <2>1. c \in Conn
      BY <1>2, <1>4, OperationOf
    <2>2. Mine(c, d) /\ \A e \in Conn : e # c => ~ Mine(e, d)
      BY <1>4 DEF Mine
    <2>3. OfConn(c) # <<>> /\ Head(OfConn(c)) = d /\ OfConn(c)' = Tail(OfConn(c))
      BY <1>1, <1>2, <2>2, OfTail DEF d
    <2>4. \A e \in Conn : e # c => OfConn(e)' = OfConn(e)
      BY <1>1, <1>2, <2>2, OfTail DEF d
    <2>5. value' = Effect(value, Head(OfConn(c)))
      BY <1>1, <1>4, <2>3
    <2>6. Service!Apply(c)
      BY <1>3, <2>1, <2>3, <2>4, <2>5, ServiceApplies
    <2>. QED
      BY <2>1, <2>6 DEF Served, Service!Next
  <1>5. CASE d.method \notin Changes
    <2>1. \A c \in Conn : OfConn(c)' = OfConn(c)
      BY <1>1, <1>5, OfSame DEF d
    <2>. QED
      BY <1>1, <1>3, <1>5, <2>1, ServiceStutters DEF Served
  <1>. QED
    BY <1>4, <1>5

\* The status that a connection reads shows all it had set: its question was the last it sent.
LEMMA ServiceAnswer ==
    ASSUME Types, AskedLast, Answer
    PROVE  Served
  <1>. DEFINE d == Head(commands)
  <1>1. /\ commands # <<>> /\ commands' = Tail(commands) /\ UNCHANGED value
        /\ d.method \in {"GetStatus", "Stream.AddStream"}
        /\ conn' = IF d.from = Task \/ conn[d.from].pc # "waiting" THEN conn
                   ELSE IF d.method = "GetStatus" THEN [conn EXCEPT ![d.from].reply = value]
                   ELSE [conn EXCEPT ![d.from].pc = "responding"]
    BY DEF Answer
  <1>2. d \in Issued /\ QueuesOK
    BY <1>1, HeadOf DEF Types
  <1>3. \A c \in Conn : OfConn(c)' = OfConn(c)
    <2>1. d.method \notin Changes
      BY <1>1 DEF Changes, Sets, Updates
    <2>. QED
      BY <1>1, <2>1, OfSame
  <1>4. conn \in [Conn -> [pc: {"idle", "sending", "asking", "waiting", "responding", "notifying", "gone"},
                           request: Request \cup {None}, authenticated: BOOLEAN,
                           reply: State \cup {None}]]
    BY DEF Types, ConnInv, ConnTypes
  <1>5. CASE d.from = Task \/ conn[d.from].pc # "waiting"
    BY <1>1, <1>3, <1>5, ServiceStutters DEF Served, Reply
  <1>6. CASE d.from # Task /\ conn[d.from].pc = "waiting"
    <2>. PICK c : c = d.from
      OBVIOUS
    <2>1. c \in Conn /\ d \in Questions(c)
      BY <1>1, <1>2, <1>6 DEF Questions, Issued, Command
    <2>2. CASE d.method = "GetStatus"
      <3>1. Reply(c) = None
        <4>1. QuestionOK(c) /\ conn[c].pc = "waiting"
          BY <1>6, <2>1 DEF Types, ConnInv
        <4>. QED
          BY <1>1, <1>2, <2>1, <4>1, QuestionHead DEF Reply
      <3>2. OfConn(c) = <<>>
        BY <1>1, <1>2, <1>6, <2>1, AsksAlone DEF AskedLast
      <3>3. conn' = [conn EXCEPT ![c].reply = value]
        BY <1>1, <1>6, <2>2
      <3>4. Reply(c)' = value /\ \A e \in Conn : e # c => Reply(e)' = Reply(e)
        BY <1>4, <2>1, <3>3 DEF Reply
      <3>5. Service!Read(c)
        BY <1>1, <1>3, <2>1, <3>1, <3>2, <3>4, ServiceReads
      <3>. QED
        BY <2>1, <3>5 DEF Served, Service!Next
    <2>3. CASE d.method # "GetStatus"
      <3>1. conn' = [conn EXCEPT ![c].pc = "responding"]
        BY <1>1, <1>6, <2>3
      <3>2. \A e \in Conn : Reply(e)' = Reply(e)
        BY <1>4, <2>1, <3>1 DEF Reply
      <3>. QED
        BY <1>1, <1>3, <3>2, ServiceStutters DEF Served
    <2>. QED
      BY <2>2, <2>3
  <1>. QED
    BY <1>5, <1>6

LEMMA ServiceClients ==
    ASSUME Types, Types', NEW c \in Client,
           Arrive(c) \/ Leave(c) \/ Post(c) \/ TakeSettings(c) \/ \E v \in Value : Report(c, v)
    PROVE  Served
  <1>1. UNCHANGED <<commands, conn>>
    BY ClientSteps
  <1>2. \A d \in Conn : OfConn(d)' = OfConn(d) /\ Reply(d)' = Reply(d)
    BY <1>1, OfSame DEF Reply
  <1>3. CASE Leave(c) \/ Post(c) \/ TakeSettings(c)
    <2>1. UNCHANGED value
      BY <1>3 DEF Leave, Post, TakeSettings
    <2>. QED
      BY <1>2, <2>1, ServiceStutters DEF Served
  <1>4. CASE Arrive(c) \/ \E v \in Value : Report(c, v)
    <2>1. value' \in State
      BY DEF Types, ValuesOK, Known
    <2>2. \E x : value' = [value EXCEPT ![c] = x]
      BY <1>4 DEF Arrive, Report
    <2>3. \A o \in DOMAIN value \ {c} : value'[o] = value[o]
      BY <2>2 DEF Types, ValuesOK, Known, State
    <2>4. Service!ClientChanges(c)
      BY <1>2, <2>1, <2>3, ServiceChanges
    <2>. QED
      BY <2>4 DEF Served, Service!Next
  <1>. QED
    BY <1>3, <1>4

LEMMA ServiceTasks ==
    ASSUME Types, TaskStep \/ Push
    PROVE  Served
  <1>1. UNCHANGED <<value, conn>>
    BY DEF TaskStep, TakeEvent, AskStatus, TellStatus, Push
  <1>2. UNCHANGED commands \/ commands' = Append(commands, GetStatus(Task))
    BY DEF TaskStep, TakeEvent, AskStatus, TellStatus, Push
  <1>3. GetStatus(Task) \in Issued /\ GetStatus(Task).method \notin Changes
    <2>1. GetStatus(Task).method \notin Changes
      BY DEF GetStatus, Changes, Sets, Updates
    <2>. QED
      BY <2>1, StatusIssued
  <1>4. \A d \in Conn : OfConn(d)' = OfConn(d)
    BY <1>2, <1>3, OfSame
  <1>. QED
    BY <1>1, <1>4, ServiceStutters DEF Served, Reply

LEMMA ServiceSends ==
    ASSUME Types, NEW c \in Conn, SendCommand(c)
    PROVE  Served
  <1>. PICK d : d = SentBy(c)
    OBVIOUS
  <1>1. /\ conn[c].pc = "sending" /\ commands' = Append(commands, d) /\ UNCHANGED value
        /\ \E pc : conn' = [conn EXCEPT ![c].pc = pc]
    BY DEF SendCommand, SentBy
  <1>2. d \in Issued /\ d.from = c /\ QueuesOK
    BY <1>1, SentIssued DEF SentBy, Types
  <1>3. \A e \in Conn : Reply(e)' = Reply(e)
    BY <1>1 DEF Reply, Types, ConnInv, ConnTypes
  <1>4. CASE d.method \in Changes
    <2>1. d \in Operations
      BY <1>2, <1>4, OperationOf
    <2>2. Mine(c, d) /\ \A e \in Conn : e # c => ~ Mine(e, d)
      BY <1>2, <1>4 DEF Mine
    <2>3. OfConn(c)' = Append(OfConn(c), d) /\ OfConn(c)' # OfConn(c)
      BY <1>1, <1>2, <2>2, OfAppend
    <2>4. \A e \in Conn : e # c => OfConn(e)' = OfConn(e)
      BY <1>1, <1>2, <2>2, OfAppend
    <2>5. Reply(c) = None
      BY <1>1 DEF Reply, Types, ConnInv, ConnOK
    <2>6. Service!Accept(c)
      BY <1>1, <1>3, <2>1, <2>3, <2>4, <2>5, ServiceAccepts
    <2>. QED
      BY <2>6 DEF Served, Service!Next
  <1>5. CASE d.method \notin Changes
    <2>1. \A e \in Conn : OfConn(e)' = OfConn(e)
      BY <1>1, <1>2, <1>5, OfSame
    <2>. QED
      BY <1>1, <1>3, <2>1, ServiceStutters DEF Served
  <1>. QED
    BY <1>4, <1>5

\* The other steps of a connection leave its reply alone or are done with it.
LEMMA ServiceConns ==
    ASSUME Types, NEW c \in Conn, \/ AskServer(c) \/ GotStatus(c) \/ Respond(c) \/ Notify(c)
                                  \/ HangUp(c) \/ Abandon(c) \/ \E r \in Requests[c] : Receive(c, r)
    PROVE  Served
  <1>1. UNCHANGED value /\ (UNCHANGED commands \/ commands' = Append(commands, GetStatus(c)))
    BY ConnSteps DEF Sent
  <1>2. GetStatus(c) \in Issued /\ GetStatus(c).method \notin Changes
    <2>1. GetStatus(c).method \notin Changes
      BY DEF GetStatus, Changes, Sets, Updates
    <2>. QED
      BY <2>1, StatusIssued
  <1>3. \A d \in Conn : OfConn(d)' = OfConn(d)
    BY <1>1, <1>2, OfSame
  <1>4. conn \in [Conn -> [pc: {"idle", "sending", "asking", "waiting", "responding", "notifying", "gone"},
                           request: Request \cup {None}, authenticated: BOOLEAN,
                           reply: State \cup {None}]]
    BY DEF Types, ConnInv, ConnTypes
  <1>5. \A d \in Conn : d # c => Reply(d)' = Reply(d)
    BY OthersStand DEF Reply, ConnStep
  <1>6. Reply(c)' = Reply(c) \/ Reply(c)' = None
    <2>1. CASE AskServer(c) \/ GotStatus(c)
      BY <1>4, <2>1 DEF AskServer, GotStatus, Reply
    <2>2. CASE Respond(c)
      BY <1>4, <2>2 DEF Respond, Reply
    <2>3. CASE Notify(c)
      BY <1>4, <2>3 DEF Notify, Reply
    <2>4. CASE HangUp(c) \/ Abandon(c)
      BY <1>4, <2>4 DEF HangUp, Abandon, NewConn, Reply
    <2>5. ASSUME NEW r \in Requests[c], Receive(c, r)
          PROVE  Reply(c)' = Reply(c)
      <3>1. \E pc, known : conn' = [conn EXCEPT ![c] =
                                [@ EXCEPT !.pc = pc, !.request = r, !.authenticated = known]]
        BY <2>5, Zenon DEF Receive
      <3>. QED
        BY <1>4, <3>1 DEF Reply
    <2>. QED
      BY <2>1, <2>2, <2>3, <2>4, <2>5
  <1>7. CASE Reply(c)' = Reply(c)
    <2>1. \A d \in Conn : Reply(d)' = Reply(d)
      BY <1>5, <1>7
    <2>. QED
      BY <1>1, <1>3, <2>1, ServiceStutters DEF Served
  <1>8. CASE Reply(c)' = None /\ Reply(c) # None
    <2>1. Service!Take(c)
      BY <1>1, <1>3, <1>5, <1>8, ServiceTakes
    <2>. QED
      BY <2>1 DEF Served, Service!Next
  <1>. QED
    BY <1>6, <1>7, <1>8

LEMMA ServiceStep ==
    ASSUME Types, AskedLast, Types', [Next]_vars
    PROVE  Served
  <1>1. CASE UNCHANGED vars
    BY <1>1, OfSame, ServiceStutters DEF vars, Served, Reply
  <1>2. CASE DispatcherStep \/ TaskStep
    BY <1>2, ServiceDispatch, ServiceAnswer, ServiceTasks DEF DispatcherStep
  <1>3. ASSUME NEW c \in Client, Arrive(c) \/ Leave(c) \/ Post(c) \/ TakeSettings(c) \/ \E v \in Value : Report(c, v)
        PROVE  Served
    BY <1>3, ServiceClients
  <1>4. ASSUME NEW c \in Conn, \/ ConnStep(c) \/ HangUp(c) \/ Abandon(c)
                               \/ \E r \in Requests[c] : Receive(c, r)
        PROVE  Served
    BY <1>4, ServiceSends, ServiceConns DEF ConnStep
  <1>5. CASE Restart
    BY <1>5, ServiceEnds DEF Served, Service!Next
  <1>. QED
    BY <1>1, <1>2, <1>3, <1>4, <1>5 DEF Next

\* The control interface is the service that ControlService describes: a change that a
\* handler sent takes effect once and in the order its connection gave, and a status it is
\* answered with (Server.GetStatus, get_full_status) shows all its connection had changed.
THEOREM ControlIsService == Spec => ServiceSpec
  <1>1. Init => Types /\ AskedLast
    <2>1. Init => AskedLast
      BY DEF Init, AskedLast, AsksLast
    <2>. QED
      BY <2>1, InitTypes
  <1>2. Types /\ AskedLast /\ [Next]_vars => Types' /\ AskedLast'
    BY StepTypes, AskedLastKept
  <1>3. Types /\ AskedLast /\ [Next]_vars /\ Types' => [Service!Next]_Service!vars
    BY ServiceStep DEF Served
  <1>4. Init => Service!Init
    BY ServiceInit
  <1>. QED
    BY <1>1, <1>2, <1>3, <1>4, PTL DEF Spec, ServiceSpec, Service!Spec
==============================================================================
