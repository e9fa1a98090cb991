------------------------ MODULE ClientController_proofs ------------------------
(* For any codecs, settings and bounds: the controller keeps its types, the     *)
(* audio in the stream is of one pipeline, and its buffer follows the settings. *)
EXTENDS ClientController, TLAPS

-----------------------------------------------------------------------------
(* A session has a connection, one that receives has settings, and a pipeline   *)
(* set up in the hello is marked as early: with these three facts the three     *)
(* invariants are inductive.                                                    *)

ControllerInv ==
    /\ TypeOK
    /\ AudioOfOnePipeline
    /\ BufferFollowsSettings
    /\ pc \in {"hello", "receiving"} => connection > 0
    /\ pc = "receiving" => server_settings # None
    /\ pc = "hello" /\ decoder # None => early

LEMMA BufferIsNat ==
    ASSUME NEW settings \in Settings
    PROVE  BufferOf(settings) \in Nat
  <1>1. settings \in [buffer_ms: Int, latency: Int] /\ Latency \in Int
    BY ControllerAssumption
  <1>. QED
    BY <1>1 DEF BufferOf

LEMMA InvInit == Init => ControllerInv
  <1>. SUFFICES ASSUME Init PROVE ControllerInv
    OBVIOUS
  <1>1. stream \in [codec: Supported \cup {None}, buffer: Nat, chunks: Seq(Chunk)]
    BY ControllerAssumption DEF Init
  <1>2. <<>> \in Seq(Message) /\ <<>> \in Seq({"SetVolume", "Stop"})
    OBVIOUS
  <1>3. 0 \in 0 .. QuickSyncs /\ 0 \in 0 .. MaxConnections
    BY ControllerAssumption
  <1>4. /\ pc = "connecting" /\ connection = 0
        /\ open = FALSE /\ announced = None /\ frames = <<>>
        /\ half = FALSE /\ astray = FALSE
        /\ decoder = None /\ server_settings = None /\ quick_syncs = 0
        /\ early = FALSE /\ commands = <<>>
    BY DEF Init
  <1>5. TypeOK
    BY <1>1, <1>2, <1>3, <1>4 DEF TypeOK
  <1>. QED
    BY <1>4, <1>5 DEF ControllerInv, AudioOfOnePipeline, BufferFollowsSettings

\* The first frame is a message, and reading it leaves messages.
LEMMA FramesOK ==
    ASSUME ControllerInv, frames # <<>>
    PROVE  Head(frames) \in Message /\ Tail(frames) \in Seq(Message)
  <1>1. frames \in Seq(Message)
    BY DEF ControllerInv, TypeOK
  <1>. QED
    BY <1>1

\* A command is taken from the front of the queue.
LEMMA CommandsOK ==
    ASSUME ControllerInv, commands # <<>>
    PROVE  Tail(commands) \in Seq({"SetVolume", "Stop"})
  <1>1. commands \in Seq({"SetVolume", "Stop"})
    BY DEF ControllerInv, TypeOK
  <1>. QED
    BY <1>1

LEMMA EnvironmentStep ==
    ASSUME ControllerInv,
           \/ \E message \in Message : Write(message)
           \/ Close \/ \E command \in {"SetVolume", "Stop"} : Ask(command)
    PROVE  ControllerInv'
  <1>1. UNCHANGED <<pc, connection, decoder, server_settings, early, quick_syncs, stream,
                    half, astray>>
    BY DEF Write, Close, Ask, audioVars, wireVars
  <1>2. /\ open' \in BOOLEAN /\ (open' => pc' \in {"hello", "receiving"})
        /\ announced' \in Codec \cup {None} /\ frames' \in Seq(Message)
        /\ commands' \in Seq({"SetVolume", "Stop"})
    <2>1. CASE \E message \in Message : Write(message)
      <3>1. PICK message \in Message : Write(message)
        BY <2>1
      <3>2. message.type = "CodecHeader" => message.codec \in Codec
        BY ControllerAssumption DEF Message
      <3>. QED
        BY <3>1, <3>2 DEF Write, ControllerInv, TypeOK
    <2>2. CASE Close
      BY <2>2 DEF Close, ControllerInv, TypeOK
    <2>3. CASE \E command \in {"SetVolume", "Stop"} : Ask(command)
      BY <2>3 DEF Ask, wireVars, ControllerInv, TypeOK
    <2>. QED
      BY <2>1, <2>2, <2>3
  <1>. QED
    BY <1>1, <1>2
       DEF ControllerInv, TypeOK, AudioOfOnePipeline, BufferFollowsSettings

LEMMA PlayStep ==
    ASSUME ControllerInv, Play
    PROVE  ControllerInv'
  <1>1. /\ stream.chunks \in Seq(Chunk) /\ stream.chunks # <<>>
        /\ stream \in [codec: Supported \cup {None}, buffer: Nat, chunks: Seq(Chunk)]
    BY DEF Play, ControllerInv, TypeOK
  <1>2. /\ stream'.codec = stream.codec /\ stream'.buffer = stream.buffer
        /\ stream'.chunks = Tail(stream.chunks)
        /\ stream' \in [codec: Supported \cup {None}, buffer: Nat, chunks: Seq(Chunk)]
    <2>1. Tail(stream.chunks) \in Seq(Chunk)
      BY <1>1
    <2>2. stream' = [stream EXCEPT !.chunks = Tail(stream.chunks)]
      BY DEF Play
    <2>. QED
      BY <1>1, <2>1, <2>2
  <1>3. \A i \in DOMAIN stream'.chunks :
            i + 1 \in DOMAIN stream.chunks /\ stream'.chunks[i] = stream.chunks[i + 1]
    BY <1>1, <1>2
  <1>4. UNCHANGED <<pc, connection, open, announced, frames, half, astray, decoder,
                    server_settings, early, quick_syncs, commands>>
    BY DEF Play, wireVars
  <1>5. AudioOfOnePipeline'
    BY <1>2, <1>3, <1>4 DEF ControllerInv, AudioOfOnePipeline
  <1>. QED
    BY <1>2, <1>4, <1>5 DEF ControllerInv, TypeOK, BufferFollowsSettings

\* A session that fails leaves no decoder, and with it nothing to keep.
LEMMA FailStep ==
    ASSUME ControllerInv, Fail, commands' \in Seq({"SetVolume", "Stop"})
    PROVE  ControllerInv'
  <1>1. /\ pc' = "backoff" /\ decoder' = None /\ open' = FALSE /\ frames' = <<>>
        /\ half' = FALSE /\ astray' = FALSE /\ announced' = None
        /\ UNCHANGED <<connection, server_settings, stream, early, quick_syncs>>
    BY DEF Fail, Cleanup
  <1>2. <<>> \in Seq(Message)
    OBVIOUS
  <1>3. TypeOK'
    BY <1>1, <1>2 DEF ControllerInv, TypeOK
  <1>. QED
    BY <1>1, <1>3 DEF ControllerInv, AudioOfOnePipeline, BufferFollowsSettings

LEMMA InitPipelineStep ==
    ASSUME ControllerInv, ReceiveCodec
    PROVE  ControllerInv'
  <1>. DEFINE codec == Head(frames).codec
  <1>1. codec \in Supported /\ codec # None /\ pc \in {"hello", "receiving"}
    BY ControllerAssumption DEF ReceiveCodec, Read
  <1>2. /\ decoder' = codec /\ early' = (pc = "hello")
        /\ stream' = [codec  |-> codec, chunks |-> <<>>,
                      buffer |-> IF server_settings = None THEN DefaultBuffer
                                 ELSE BufferOf(server_settings)]
    BY DEF ReceiveCodec, InitPipeline
  <1>3. UNCHANGED <<pc, connection, open, announced, astray, server_settings, quick_syncs,
                    commands>>
        /\ half' = FALSE /\ frames' = Tail(frames) /\ frames # <<>>
    BY DEF ReceiveCodec, Read, Consume
  <1>4. stream' \in [codec: Supported \cup {None}, buffer: Nat, chunks: Seq(Chunk)]
    <2>1. (IF server_settings = None THEN DefaultBuffer ELSE BufferOf(server_settings)) \in Nat
      BY BufferIsNat, ControllerAssumption DEF ControllerInv, TypeOK
    <2>2. <<>> \in Seq(Chunk)
      OBVIOUS
    <2>. HIDE DEF codec
    <2>. QED
      BY <1>1, <1>2, <2>1, <2>2
  <1>5. frames' \in Seq(Message)
    BY <1>3 DEF ControllerInv, TypeOK
  <1>. HIDE DEF codec
  <1>6. TypeOK'
    BY <1>1, <1>2, <1>3, <1>4, <1>5 DEF ControllerInv, TypeOK
  <1>7. AudioOfOnePipeline'
    BY <1>1, <1>2 DEF AudioOfOnePipeline
  <1>8. BufferFollowsSettings'
    BY <1>1, <1>2, <1>3 DEF ControllerInv, BufferFollowsSettings
  <1>. QED
    BY <1>2, <1>3, <1>6, <1>7, <1>8 DEF ControllerInv

LEMMA SettingsStep ==
    ASSUME ControllerInv, HelloSettings \/ ReceiveSettings
    PROVE  ControllerInv'
  <1>1. /\ frames # <<>> /\ Head(frames) \in Message
        /\ Head(frames).type = "ServerSettings" /\ frames' \in Seq(Message)
    BY FramesOK DEF HelloSettings, ReceiveSettings, Read, Consume
  <1>2. Head(frames).settings \in Settings
    BY <1>1 DEF Message
  <1>3. /\ server_settings' = Head(frames).settings /\ server_settings' # None
        /\ half' = FALSE
        /\ UNCHANGED <<connection, open, announced, astray, decoder, commands>>
    BY <1>2, ControllerAssumption DEF HelloSettings, ReceiveSettings, Read, Consume
  <1>4. CASE HelloSettings
    <2>1. /\ pc = "hello" /\ pc' = "receiving" /\ UNCHANGED <<stream, early>>
          /\ quick_syncs' \in 0 .. QuickSyncs
      BY <1>4, ControllerAssumption DEF HelloSettings
    <2>2. TypeOK' /\ AudioOfOnePipeline'
      BY <1>1, <1>2, <1>3, <2>1 DEF ControllerInv, TypeOK, AudioOfOnePipeline
    <2>3. BufferFollowsSettings'
      BY <1>3, <2>1 DEF ControllerInv, BufferFollowsSettings
    <2>. QED
      BY <1>3, <2>1, <2>2, <2>3 DEF ControllerInv
  <1>5. CASE ReceiveSettings
    <2>1. pc = "receiving" /\ UNCHANGED <<pc, quick_syncs>> /\ early' = FALSE
      BY <1>5 DEF ReceiveSettings
    <2>2. stream' = [stream EXCEPT !.buffer = BufferOf(Head(frames).settings)]
      BY <1>5 DEF ReceiveSettings
    <2>3. /\ stream \in [codec: Supported \cup {None}, buffer: Nat, chunks: Seq(Chunk)]
          /\ BufferOf(Head(frames).settings) \in Nat
      BY <1>2, BufferIsNat DEF ControllerInv, TypeOK
    <2>4. /\ stream' \in [codec: Supported \cup {None}, buffer: Nat, chunks: Seq(Chunk)]
          /\ stream'.codec = stream.codec /\ stream'.chunks = stream.chunks
          /\ stream'.buffer = BufferOf(Head(frames).settings)
      BY <2>2, <2>3
    <2>5. TypeOK' /\ AudioOfOnePipeline'
      BY <1>1, <1>2, <1>3, <2>1, <2>4 DEF ControllerInv, TypeOK, AudioOfOnePipeline
    <2>6. BufferFollowsSettings'
      BY <1>3, <2>4 DEF BufferFollowsSettings
    <2>. QED
      BY <1>3, <2>1, <2>5, <2>6 DEF ControllerInv
  <1>. QED
    BY <1>4, <1>5

LEMMA ChunkStep ==
    ASSUME ControllerInv, ReceiveChunk
    PROVE  ControllerInv'
  <1>1. /\ half' = FALSE /\ frames # <<>> /\ frames' = Tail(frames)
        /\ UNCHANGED <<pc, connection, open, announced, astray, decoder, server_settings,
                       early, quick_syncs, commands>>
    BY DEF ReceiveChunk, Read, Consume
  <1>2. frames' \in Seq(Message)
    BY <1>1 DEF ControllerInv, TypeOK
  <1>3. CASE UNCHANGED stream
    BY <1>1, <1>2, <1>3
       DEF ControllerInv, TypeOK, AudioOfOnePipeline, BufferFollowsSettings
  <1>4. CASE /\ pc = "receiving" /\ decoder # None
             /\ stream' = [stream EXCEPT !.chunks =
                             Append(@, [connection |-> connection, codec |-> decoder])]
    <2>. DEFINE chunk == [connection |-> connection, codec |-> decoder]
    <2>1. stream \in [codec: Supported \cup {None}, buffer: Nat, chunks: Seq(Chunk)]
      BY DEF ControllerInv, TypeOK
    <2>2. /\ stream'.codec = stream.codec /\ stream'.buffer = stream.buffer
          /\ stream'.chunks = Append(stream.chunks, chunk)
      BY <1>4, <2>1
    <2>3. CASE chunk \in Chunk
      <3>1. stream' \in [codec: Supported \cup {None}, buffer: Nat, chunks: Seq(Chunk)]
        <4>1. Append(stream.chunks, chunk) \in Seq(Chunk)
          <5>1. stream.chunks \in Seq(Chunk)
            BY <2>1
          <5>. HIDE DEF chunk
          <5>. QED
            BY <2>3, <5>1
        <4>. HIDE DEF chunk
        <4>2. stream' = [stream EXCEPT !.chunks = Append(stream.chunks, chunk)]
          BY <1>4 DEF chunk
        <4>. QED
          BY <2>1, <4>1, <4>2
      <3>2. TypeOK'
        BY <1>1, <1>2, <3>1 DEF ControllerInv, TypeOK
      <3>3. \A i \in DOMAIN stream.chunks : stream.chunks[i] = chunk
        BY <1>4 DEF ControllerInv, AudioOfOnePipeline
      <3>4. \A i \in DOMAIN stream'.chunks : stream'.chunks[i] = chunk
        <4>1. stream.chunks \in Seq(Chunk)
          BY <2>1
        <4>. HIDE DEF chunk
        <4>. QED
          BY <2>2, <2>3, <3>3, <4>1
      <3>5. AudioOfOnePipeline'
        BY <1>1, <1>4, <2>2, <3>4 DEF ControllerInv, AudioOfOnePipeline
      <3>6. BufferFollowsSettings'
        BY <1>1, <2>2 DEF ControllerInv, BufferFollowsSettings
      <3>. QED
        BY <1>1, <3>2, <3>5, <3>6 DEF ControllerInv
    <2>4. chunk \in Chunk
      <3>1. decoder \in Codec
        BY <1>4, ControllerAssumption DEF ControllerInv, TypeOK
      <3>2. connection \in 1 .. MaxConnections
        BY <1>4 DEF ControllerInv, TypeOK
      <3>. QED
        BY <3>1, <3>2 DEF Chunk
    <2>. QED
      BY <2>3, <2>4
  <1>. QED
    BY <1>3, <1>4 DEF ReceiveChunk

\* Steps that leave the pipeline, and the session, as they are.
LEMMA QuietStep ==
    ASSUME ControllerInv, ReceiveOther \/ ReadHeader \/ Tick
    PROVE  ControllerInv'
  <1>1. UNCHANGED <<pc, connection, open, announced, decoder, server_settings, early, stream,
                    commands>>
    BY DEF ReceiveOther, Read, Consume, ReadHeader, Tick, Interrupt, audioVars
  <1>2. /\ frames' \in Seq(Message) /\ half' \in BOOLEAN /\ astray' \in BOOLEAN
        /\ quick_syncs' \in 0 .. QuickSyncs
    <2>1. CASE ReceiveOther
      BY <2>1, FramesOK DEF ReceiveOther, Read, Consume, ControllerInv, TypeOK
    <2>2. CASE ReadHeader
      BY <2>2 DEF ReadHeader, ControllerInv, TypeOK
    <2>3. CASE Tick
      <3>1. quick_syncs \in 0 .. QuickSyncs /\ frames \in Seq(Message)
            /\ half \in BOOLEAN /\ astray \in BOOLEAN
        BY DEF ControllerInv, TypeOK
      <3>2. quick_syncs' \in 0 .. QuickSyncs
        BY <2>3, <3>1, ControllerAssumption DEF Tick
      <3>. QED
        BY <2>3, <3>1, <3>2 DEF Tick, Interrupt
    <2>. QED
      BY <2>1, <2>2, <2>3
  <1>. QED
    BY <1>1, <1>2 DEF ControllerInv, TypeOK, AudioOfOnePipeline, BufferFollowsSettings

LEMMA RunStep ==
    ASSUME ControllerInv, Connect \/ Abort \/ EndBackoff
    PROVE  ControllerInv'
  <1>1. CASE Connect
    <2>1. connection' \in 0 .. MaxConnections /\ connection' > 0
      <3>1. connection \in 0 .. MaxConnections
        BY DEF ControllerInv, TypeOK
      <3>. QED
        BY <1>1, <3>1, ControllerAssumption DEF Connect
    <2>2. /\ pc = "connecting" /\ pc' = "hello"
          /\ open' = TRUE /\ frames' = <<>> /\ decoder = None
          /\ UNCHANGED <<announced, half, astray, decoder, server_settings, stream, early,
                         quick_syncs, commands>>
      BY <1>1 DEF Connect, audioVars, ControllerInv, TypeOK
    <2>3. <<>> \in Seq(Message)
      OBVIOUS
    <2>4. TypeOK'
      BY <2>1, <2>2, <2>3 DEF ControllerInv, TypeOK
    <2>. QED
      BY <2>1, <2>2, <2>4 DEF ControllerInv, AudioOfOnePipeline, BufferFollowsSettings
  <1>2. CASE Abort
    BY <1>2, FailStep DEF Abort, ControllerInv, TypeOK
  <1>3. CASE EndBackoff
    BY <1>3 DEF EndBackoff, wireVars, audioVars, ControllerInv, TypeOK, AudioOfOnePipeline,
                BufferFollowsSettings
  <1>. QED
    BY <1>1, <1>2, <1>3

LEMMA BrokenStep ==
    ASSUME ControllerInv, ReceiveBad \/ ReadFails \/ ReadAstray
    PROVE  ControllerInv'
  <1>1. CASE Fail /\ UNCHANGED commands
    BY <1>1, FailStep DEF ControllerInv, TypeOK
  <1>2. CASE /\ ReadAstray /\ frames' = Tail(frames)
             /\ UNCHANGED <<pc, connection, open, announced, half, astray, audioVars,
                            quick_syncs>>
    <2>1. frames' \in Seq(Message) /\ UNCHANGED commands
      BY <1>2 DEF ReadAstray, ControllerInv, TypeOK
    <2>. QED
      BY <1>2, <2>1 DEF audioVars, ControllerInv, TypeOK, AudioOfOnePipeline,
                        BufferFollowsSettings
  <1>. QED
    BY <1>1, <1>2 DEF ReceiveBad, ReadFails, ReadAstray

LEMMA CommandStep ==
    ASSUME ControllerInv, ReadCommand
    PROVE  ControllerInv'
  <1>1. commands' \in Seq({"SetVolume", "Stop"})
    BY CommandsOK DEF ReadCommand, Stop, SetVolume, Commanded
  <1>2. CASE Stop
    <2>1. /\ pc' = "stopped" /\ decoder' = None /\ open' = FALSE /\ frames' = <<>>
          /\ half' = FALSE /\ astray' = FALSE /\ announced' = None
          /\ UNCHANGED <<connection, server_settings, stream, early, quick_syncs>>
      BY <1>2 DEF Stop, Cleanup
    <2>2. <<>> \in Seq(Message)
      OBVIOUS
    <2>3. TypeOK'
      BY <1>1, <2>1, <2>2 DEF ControllerInv, TypeOK
    <2>. QED
      BY <2>1, <2>3 DEF ControllerInv, AudioOfOnePipeline, BufferFollowsSettings
  <1>3. CASE SetVolume
    <2>1. CASE Fail
      BY <1>1, <2>1, FailStep
    <2>2. CASE /\ Interrupt
               /\ UNCHANGED <<pc, connection, open, announced, frames, audioVars, quick_syncs>>
      BY <1>1, <2>2 DEF Interrupt, audioVars, ControllerInv, TypeOK, AudioOfOnePipeline,
                        BufferFollowsSettings
    <2>. QED
      BY <1>3, <2>1, <2>2 DEF SetVolume
  <1>. QED
    BY <1>2, <1>3 DEF ReadCommand

LEMMA InvNext == ControllerInv /\ [Next]_vars => ControllerInv'
  <1>. SUFFICES ASSUME ControllerInv, [Next]_vars
                PROVE  ControllerInv'
    OBVIOUS
  <1>1. CASE UNCHANGED vars
    BY <1>1 DEF vars, wireVars, audioVars, ControllerInv, TypeOK, AudioOfOnePipeline,
                BufferFollowsSettings
  <1>. QED
    BY <1>1, EnvironmentStep, PlayStep, RunStep, SettingsStep, InitPipelineStep, ChunkStep,
       QuietStep, BrokenStep, CommandStep DEF Next, Receive

LEMMA InvHolds == Spec => []ControllerInv
  BY InvInit, InvNext, PTL DEF Spec

\* The controller keeps its types, for any codecs, settings and bounds: in particular no
\* decoder outlives its session, and no connection is open outside of one.
THEOREM ControllerTypeCorrect == Spec => []TypeOK
  <1>1. ControllerInv => TypeOK
    BY DEF ControllerInv
  <1>. QED
    BY <1>1, InvHolds, PTL

\* Whatever the order of frames, failures and reconnections, what the player finds in the
\* stream while a session plays was decoded in this session by the stream's own codec.
THEOREM OnePipelinesAudio == Spec => []AudioOfOnePipeline
  <1>1. ControllerInv => AudioOfOnePipeline
    BY DEF ControllerInv
  <1>. QED
    BY <1>1, InvHolds, PTL

\* The stream's buffer is that of the newest settings of the session, unless its codec
\* header came before them.
THEOREM SettingsTakeEffect == Spec => []BufferFollowsSettings
  <1>1. ControllerInv => BufferFollowsSettings
    BY DEF ControllerInv
  <1>. QED
    BY <1>1, InvHolds, PTL
=============================================================================
