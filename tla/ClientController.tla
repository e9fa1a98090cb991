--------------------------- MODULE ClientController ---------------------------
(***************************************************************************)
(* The client's controller: connect, hello, receive loop, back-off and     *)
(* stop, with the decoder and the audio stream it sets up on the way       *)
(* (snapcast-client/src/controller.rs, connection/mod.rs).                 *)
(*                                                                         *)
(* The server is the environment: it writes frames into a connection and   *)
(* may close it at any time.  The audio stream is shared with the player,  *)
(* which takes chunks out of it.  A frame is read in two parts, and        *)
(* between them another arm of the select! may win.                        *)
(*                                                                         *)
(* Time has no measure: a timeout may strike and a wait may end at any     *)
(* time, and so the number of failed attempts, which sets the length of    *)
(* the wait, is left out.  So is what the embedder is told (events and     *)
(* copies of the audio, both sent with try_send).                          *)
(***************************************************************************)
EXTENDS Integers, Sequences

CONSTANTS
    Codec,          \* what a CodecHeader may announce
    Supported,      \* the codecs this client can decode
    Settings,       \* ServerSettings: [buffer_ms, latency]
    Latency,        \* the client's own latency
    DefaultBuffer,  \* DEFAULT_BUFFER_MS
    QuickSyncs,     \* INITIAL_QUICK_SYNCS (50 in the code)
    None,           \* no decoder, no settings, no codec
    MaxConnections, \* bound on the connections made
    MaxFrames,      \* bound on the frames on their way
    MaxChunks,      \* bound on the chunks the player leaves in the stream
    MaxCommands     \* bound on the commands waiting

ASSUME ControllerAssumption ==
    /\ Supported \subseteq Codec /\ None \notin Codec /\ None \notin Settings
    /\ Settings \subseteq [buffer_ms: Int, latency: Int] /\ Latency \in Int
    /\ DefaultBuffer \in Nat /\ QuickSyncs \in Nat \ {0}
    /\ {MaxConnections, MaxFrames, MaxChunks, MaxCommands} \subseteq Nat

VARIABLES
    pc,         \* where run and session stand
    connection, \* how many connections were made; the last is the current one
    open,       \* the server has not closed it
    announced,  \* the codec of its last CodecHeader
    frames,     \* written by the server and not read yet
    half,       \* the header of the first of them is read, its payload is not
    astray,     \* the connection is read from the middle of a frame
    decoder, server_settings, quick_syncs,
    stream,     \* the shared Stream: its format, its buffer and its chunks
    early,      \* history: the pipeline was set up before this session's settings
    commands    \* command_rx

wireVars  == <<connection, open, announced, frames, half, astray>>
audioVars == <<decoder, server_settings, stream, early>>
vars == <<pc, wireVars, audioVars, quick_syncs, commands>>

Chunk == [connection: 1 .. MaxConnections, codec: Codec]

Message ==
    [type: {"ServerSettings"}, settings: Settings]
      \cup [type: {"CodecHeader"}, codec: Codec]
      \cup [type: {"WireChunk"}, codec: Codec]
      \cup [type: {"Time", "Error"}]

-----------------------------------------------------------------------------
(* The server and the player.                                                *)

\* What a server may write next: chunks are of the codec it announced.
MaySay(message) == message.type = "WireChunk" => message.codec = announced

Write(message) ==
    /\ open /\ pc \in {"hello", "receiving"}
    /\ Len(frames) < MaxFrames
    /\ MaySay(message)
    /\ frames' = Append(frames, message)
    /\ announced' = IF message.type = "CodecHeader" THEN message.codec ELSE announced
    /\ UNCHANGED <<pc, connection, open, half, astray, audioVars, quick_syncs, commands>>

Close ==
    /\ open
    /\ open' = FALSE
    /\ UNCHANGED <<pc, connection, announced, frames, half, astray, audioVars, quick_syncs, commands>>

\* The player is done with the oldest chunk.
Play ==
    /\ stream.chunks # <<>>
    /\ stream' = [stream EXCEPT !.chunks = Tail(@)]
    /\ UNCHANGED <<pc, wireVars, decoder, server_settings, early, quick_syncs, commands>>

\* The embedder's command.
Ask(command) ==
    /\ Len(commands) < MaxCommands
    /\ commands' = Append(commands, command)
    /\ UNCHANGED <<pc, wireVars, audioVars, quick_syncs>>

-----------------------------------------------------------------------------
(* The pipeline.                                                             *)

BufferOf(settings) ==
    LET ms == settings.buffer_ms - settings.latency - Latency
    IN  IF ms > 0 THEN ms ELSE 0

\* Mutation of InitPipeline: the settings received before are forgotten.
InitPipelineBare(codec) ==
    /\ decoder' = codec
    /\ stream' = [codec |-> codec, buffer |-> DefaultBuffer, chunks |-> <<>>]
    /\ early' = (pc = "hello")

\* Mutation of InitPipeline: the queue is kept.
InitPipelineKeepsChunks(codec) ==
    /\ decoder' = codec
    /\ stream' = [stream EXCEPT !.codec = codec,
                                !.buffer = IF server_settings = None THEN DefaultBuffer
                                           ELSE BufferOf(server_settings)]
    /\ early' = (pc = "hello")

\* init_audio_pipeline: a decoder and a stream of its format that starts empty.
InitPipeline(codec) ==
    /\ decoder' = codec
    /\ stream' = [codec  |-> codec, chunks |-> <<>>,
                  buffer |-> IF server_settings = None THEN DefaultBuffer
                             ELSE BufferOf(server_settings)]
    /\ early' = (pc = "hello")

\* Mutation of Cleanup: the decoder outlives the session.
CleanupKeepsDecoder ==
    /\ open' = FALSE /\ frames' = <<>>
    /\ UNCHANGED decoder

\* cleanup: the stream stays, it is the player's.
Cleanup ==
    /\ decoder' = None
    /\ open' = FALSE /\ frames' = <<>>

\* session returns an error, and run waits before the next attempt.
Fail ==
    /\ pc' = "backoff"
    /\ Cleanup
    /\ half' = FALSE /\ astray' = FALSE /\ announced' = None
    /\ UNCHANGED <<connection, server_settings, stream, early, quick_syncs>>

-----------------------------------------------------------------------------
(* run and session.                                                          *)

Connect ==
    /\ pc = "connecting" /\ connection < MaxConnections
    /\ pc' = "hello" /\ connection' = connection + 1
    /\ open' = TRUE /\ frames' = <<>>
    /\ UNCHANGED <<announced, half, astray, audioVars, quick_syncs, commands>>

\* connect() fails, or the wait for the next message of the hello times out.
Abort ==
    /\ pc \in {"connecting", "hello"}
    /\ Fail
    /\ UNCHANGED commands

EndBackoff ==
    /\ pc = "backoff"
    /\ pc' = "connecting"
    /\ UNCHANGED <<wireVars, audioVars, quick_syncs, commands>>

\* A complete frame is read.
Read ==
    /\ pc \in {"hello", "receiving"} /\ frames # <<>> /\ ~ astray
    /\ half' = FALSE
    /\ UNCHANGED commands

Consume ==
    /\ frames' = Tail(frames)
    /\ UNCHANGED <<connection, open, announced, astray>>

\* The handshake ends with the first ServerSettings: they are kept, not applied.
HelloSettings ==
    /\ Read /\ pc = "hello" /\ Head(frames).type = "ServerSettings"
    /\ pc' = "receiving"
    /\ server_settings' = Head(frames).settings
    /\ quick_syncs' = QuickSyncs
    /\ Consume
    /\ UNCHANGED <<decoder, stream, early>>

\* Once in the loop, settings are applied to the stream and kept.
ReceiveSettings ==
    /\ Read /\ pc = "receiving" /\ Head(frames).type = "ServerSettings"
    /\ stream' = [stream EXCEPT !.buffer = BufferOf(Head(frames).settings)]
    /\ server_settings' = Head(frames).settings
    /\ early' = FALSE
    /\ Consume
    /\ UNCHANGED <<pc, decoder, quick_syncs>>

ReceiveCodec ==
    /\ Read /\ Head(frames).type = "CodecHeader"
    /\ Head(frames).codec \in Supported
    /\ InitPipeline(Head(frames).codec)
    /\ Consume
    /\ UNCHANGED <<pc, server_settings, quick_syncs>>

\* A chunk is decoded and queued; without a decoder, in the handshake, or when the decoder
\* has nothing to give yet, it is dropped.
ReceiveChunk ==
    /\ Read /\ Head(frames).type = "WireChunk"
    /\ Consume
    /\ \/ /\ pc = "receiving" /\ decoder # None
          /\ Len(stream.chunks) < MaxChunks
          /\ stream' = [stream EXCEPT !.chunks =
                          Append(@, [connection |-> connection, codec |-> decoder])]
       \/ UNCHANGED stream
    /\ UNCHANGED <<pc, decoder, server_settings, early, quick_syncs>>

\* Time goes to the time provider; an Error in the loop is logged.
ReceiveOther ==
    /\ Read
    /\ \/ Head(frames).type = "Time"
       \/ Head(frames).type = "Error" /\ pc = "receiving"
    /\ Consume
    /\ UNCHANGED <<pc, audioVars, quick_syncs>>

\* Messages that end the session: an Error in the handshake, a codec unknown or whose
\* header does not parse, a chunk that does not decode.
ReceiveBad ==
    /\ pc \in {"hello", "receiving"} /\ frames # <<>> /\ ~ astray
    /\ \/ Head(frames).type = "Error" /\ pc = "hello"
       \/ Head(frames).type = "CodecHeader"
       \/ Head(frames).type = "WireChunk" /\ pc = "receiving" /\ decoder # None
    /\ Fail
    /\ UNCHANGED commands

\* recv() finds the connection closed.
ReadFails ==
    /\ pc \in {"hello", "receiving"} /\ ~ open
    /\ Fail
    /\ UNCHANGED commands

\* read_frame has the header of a frame whose payload has not come yet.
ReadHeader ==
    /\ pc = "receiving" /\ frames # <<>> /\ ~ half /\ ~ astray
    /\ half' = TRUE
    /\ UNCHANGED <<pc, connection, open, announced, frames, astray, audioVars, quick_syncs, commands>>

\* What read_frame takes for a header is no header: it is refused, or passes for a
\* message the client ignores.
ReadAstray ==
    /\ pc = "receiving" /\ astray /\ frames # <<>>
    /\ \/ Fail
       \/ /\ frames' = Tail(frames)
          /\ UNCHANGED <<pc, connection, open, announced, half, astray, audioVars, quick_syncs>>
    /\ UNCHANGED commands

\* Another arm of the select! wins: the recv() in progress is dropped, with the header it
\* had read.
Interrupt ==
    /\ half' = FALSE
    /\ astray' = (astray \/ half)

\* A timer's tick: quick_sync_timer until the quick syncs are done, sync_timer from then on.
Tick ==
    /\ pc = "receiving"
    /\ quick_syncs' = IF quick_syncs > 0 THEN quick_syncs - 1 ELSE 0
    /\ Interrupt
    /\ UNCHANGED <<pc, connection, open, announced, frames, audioVars, commands>>

\* Mutation of Commanded: the arms are polled in their order, the connection first.
CommandedLast == pc = "receiving" /\ commands # <<>> /\ frames = <<>>

Commanded == pc = "receiving" /\ commands # <<>>

\* Stop ends the run.
Stop ==
    /\ Commanded /\ Head(commands) = "Stop"
    /\ commands' = Tail(commands)
    /\ pc' = "stopped"
    /\ Cleanup
    /\ half' = FALSE /\ astray' = FALSE /\ announced' = None
    /\ UNCHANGED <<connection, server_settings, stream, early, quick_syncs>>

\* SetVolume is sent to the server; the session ends when it cannot be.
SetVolume ==
    /\ Commanded /\ Head(commands) = "SetVolume"
    /\ commands' = Tail(commands)
    /\ \/ /\ Interrupt
          /\ UNCHANGED <<pc, connection, open, announced, frames, audioVars, quick_syncs>>
       \/ ~ open /\ Fail

ReadCommand == Stop \/ SetVolume

-----------------------------------------------------------------------------

Init ==
    /\ pc = "connecting" /\ connection = 0
    /\ open = FALSE /\ announced = None /\ frames = <<>>
    /\ half = FALSE /\ astray = FALSE
    /\ decoder = None /\ server_settings = None /\ quick_syncs = 0
    /\ stream = [codec |-> None, buffer |-> DefaultBuffer, chunks |-> <<>>]
    /\ early = FALSE
    /\ commands = <<>>

Receive ==
    \/ HelloSettings \/ ReceiveSettings \/ ReceiveCodec \/ ReceiveChunk \/ ReceiveOther
    \/ ReceiveBad \/ ReadFails \/ ReadHeader \/ ReadAstray

Next ==
    \/ \E message \in Message : Write(message)
    \/ Close
    \/ Play
    \/ \E command \in {"SetVolume", "Stop"} : Ask(command)
    \/ Connect \/ Abort \/ EndBackoff
    \/ Receive
    \/ Tick
    \/ ReadCommand

Spec == Init /\ [][Next]_vars

\* An arm of the select! that stays ready is taken: tokio polls them in random order.
LiveSpec == Spec /\ WF_vars(ReadCommand)

-----------------------------------------------------------------------------
(* Correctness.                                                              *)

TypeOK ==
    /\ pc \in {"connecting", "hello", "receiving", "backoff", "stopped"}
    /\ connection \in 0 .. MaxConnections
    /\ open \in BOOLEAN /\ (open => pc \in {"hello", "receiving"})
    /\ announced \in Codec \cup {None}
    /\ frames \in Seq(Message)
    /\ half \in BOOLEAN /\ astray \in BOOLEAN
    /\ decoder \in Supported \cup {None}
    /\ decoder # None => pc \in {"hello", "receiving"}
    /\ server_settings \in Settings \cup {None}
    /\ quick_syncs \in 0 .. QuickSyncs
    /\ stream \in [codec: Supported \cup {None}, buffer: Nat, chunks: Seq(Chunk)]
    /\ early \in BOOLEAN
    /\ commands \in Seq({"SetVolume", "Stop"})

\* While a session plays, the stream's format is its decoder's and the player finds in it
\* audio of this connection and this format alone: nothing decoded in an earlier session,
\* or before the last CodecHeader, can be played against the new one's clock or format.
AudioOfOnePipeline ==
    decoder # None =>
        /\ stream.codec = decoder
        /\ \A i \in DOMAIN stream.chunks :
               stream.chunks[i] = [connection |-> connection, codec |-> decoder]

\* While a session plays, the stream is buffered by the newest ServerSettings, whatever
\* the order of settings, codec headers and reconnections, unless the codec header came
\* before the settings of the session (a server sends it after them).
BufferFollowsSettings ==
    pc = "receiving" /\ decoder # None /\ ~ early =>
        stream.buffer = BufferOf(server_settings)

\* A Stop in the queue of a connected client is heard, or the session ends before: no
\* stream of frames from the server keeps the controller from its commands.
StopHeard ==
    (pc = "receiving" /\ \E i \in DOMAIN commands : commands[i] = "Stop")
        ~> (pc # "receiving")
=============================================================================
