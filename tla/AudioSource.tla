------------------------------ MODULE AudioSource ------------------------------
(***************************************************************************)
(* An embedded audio source: the F32AudioSender an application pushes      *)
(* samples into, the ChunkTimestamper that stamps its chunks, the bounded  *)
(* channel behind it and the encoder thread that takes the chunks out at   *)
(* the pace of the clock (snapcast-server/src/lib.rs and time.rs).         *)
(*                                                                         *)
(* Sender and thread share nothing but the channel and the monotonic       *)
(* clock, and either may run late: a timer fires at its time or any time   *)
(* after.                                                                  *)
(*                                                                         *)
(* A frame (one sample of every channel) is the unit of audio and lasts    *)
(* one unit of time.  Samples are numbered in the order they are given, so *)
(* that a buffer is a count and a chunk an interval; what the codec makes  *)
(* of them is left out.                                                    *)
(***************************************************************************)
EXTENDS Integers, Sequences

CONSTANTS
    Chunk,          \* frames in a chunk (20 ms in the code)
    Gap,            \* a playback gap is a pause of more than this (500 ms in the code)
    ChannelSize,    \* F32_CHANNEL_SIZE (1 in the code)
    SendSize,       \* how many samples an application pushes in a call
    None,           \* no timestamper, tick or chunk
    MaxGiven,       \* bound on the samples an application pushes
    MaxTime         \* bound on the clock

ASSUME SourceAssumption == /\ Chunk \in Nat \ {0}
                           /\ Gap \in Nat /\ Gap >= Chunk
                           /\ ChannelSize \in Nat \ {0}
                           /\ SendSize \subseteq Nat
                           /\ MaxGiven \in Nat /\ MaxTime \in Nat

VARIABLES
    now,        \* the clock
    given,      \* samples pushed so far
    buffered,   \* F32AudioSender.buf: how many of the last ones are still in it
    anchor,     \* F32AudioSender.ts: the ChunkTimestamper, if there is one
    last_send,  \* F32AudioSender.last_send
    pending,    \* the chunk a call of send or flush awaits room for; None between calls
    tx,         \* the channel
    next_tick,  \* the thread's next_tick
    encoding,   \* the chunk the thread sleeps with
    last,       \* history: the newest chunk cut
    skipped,    \* history: samples dropped since it was cut
    ahead       \* history: audio broadcast ahead of the clock (see BurstBounded)

senderVars  == <<given, buffered, anchor, last_send, pending, last, skipped>>
encoderVars == <<next_tick, encoding, ahead>>
vars == <<now, senderVars, tx, encoderVars>>

AudioFrame == [first: Nat, len: 1 .. Chunk, timestamp: Nat]

ChunkTimestamper == [start: Nat, samples_written: Nat]

ASSUME NoneAssumption == None \notin Int \cup AudioFrame \cup ChunkTimestamper

EndOf(chunk) == chunk.timestamp + chunk.len

-----------------------------------------------------------------------------
(* The sender.                                                               *)

\* Mutation of Cut: the whole buffer is taken for one chunk of it.
CutTakesAll(have, ts, len) ==
    LET stamper == IF ts = None THEN [start |-> now, samples_written |-> 0] ELSE ts
        chunk   == [first     |-> given' - have, len |-> len,
                    timestamp |-> stamper.start + stamper.samples_written]
    IN  /\ buffered' = 0
        /\ anchor' = [stamper EXCEPT !.samples_written = @ + len]
        /\ pending' = chunk /\ last' = chunk /\ skipped' = 0

\* buf.drain, ChunkTimestamper::next (of a new one where there is none yet), and the
\* start of the await.
Cut(have, ts, len) ==
    LET stamper == IF ts = None THEN [start |-> now, samples_written |-> 0] ELSE ts
        chunk   == [first     |-> given' - have, len |-> len,
                    timestamp |-> stamper.start + stamper.samples_written]
    IN  /\ buffered' = have - len
        /\ anchor' = [stamper EXCEPT !.samples_written = @ + len]
        /\ pending' = chunk /\ last' = chunk /\ skipped' = 0

\* The loop of send: the next full chunk, or the call returns.
Emit(have, ts, dropped) ==
    \/ have >= Chunk /\ Cut(have, ts, Chunk)
    \/ /\ have < Chunk
       /\ buffered' = have /\ anchor' = ts /\ pending' = None
       /\ skipped' = dropped
       /\ UNCHANGED last

\* F32AudioSender::send up to its first await.  A gap drops the timestamper and the
\* samples of the chunk that was begun.
Send(n) ==
    /\ pending = None
    /\ given + n <= MaxGiven
    /\ given' = given + n
    /\ last_send' = now
    /\ IF now - last_send > Gap
       THEN Emit(n, None, skipped + buffered)
       ELSE Emit(buffered + n, anchor, skipped)
    /\ UNCHANGED <<now, tx, encoderVars>>

\* F32AudioSender::flush: what is left goes out as a shorter chunk.
Flush ==
    /\ pending = None /\ buffered > 0
    /\ UNCHANGED given
    /\ Cut(buffered, anchor, buffered)
    /\ UNCHANGED <<now, last_send, tx, encoderVars>>

\* Mutation of HasRoom: one chunk too many.
HasRoomForOneMore == Len(tx) <= ChannelSize

HasRoom == Len(tx) < ChannelSize

\* The await ends: the chunk is in the channel, and the call goes on.
Hand ==
    /\ pending # None
    /\ HasRoom
    /\ tx' = Append(tx, pending)
    /\ UNCHANGED given
    /\ Emit(buffered, anchor, skipped)
    /\ UNCHANGED <<now, last_send, encoderVars>>

-----------------------------------------------------------------------------
(* The encoder thread.                                                       *)

\* Mutation of Tick: the thread never gives up on a schedule it is behind of.
TickWithoutReset(len) == (IF next_tick = None THEN now ELSE next_tick) + len

\* The tick a chunk is due at; a thread more than a gap behind starts over.
Tick(len) ==
    LET lost == next_tick = None \/ now - (next_tick + len) > Gap
    IN  (IF lost THEN now ELSE next_tick) + len

\* rx.recv(), and the chunk's sleep_until
Receive ==
    /\ encoding = None /\ tx # <<>>
    /\ encoding' = Head(tx)
    /\ tx' = Tail(tx)
    /\ next_tick' = Tick(Head(tx).len)
    /\ UNCHANGED <<now, senderVars, ahead>>

\* Mutation of Due: the thread does not sleep.
DueAtOnce == encoding # None

Due == encoding # None /\ now >= next_tick

\* The chunk is encoded and broadcast.  (A codec may keep some of it for later, or fail:
\* what is broadcast then is less than what is counted here.)
Broadcast ==
    /\ Due
    /\ encoding' = None
    /\ ahead' = ahead + encoding.len
    /\ UNCHANGED <<now, senderVars, tx, next_tick>>

-----------------------------------------------------------------------------

\* The clock's next unit; a unit of the audio that was ahead of it is played.
Pass ==
    /\ now < MaxTime
    /\ now' = now + 1
    /\ ahead' = IF ahead > 0 THEN ahead - 1 ELSE 0
    /\ UNCHANGED <<senderVars, tx, next_tick, encoding>>

\* F32AudioSender::new, and the thread before its first chunk.
Init ==
    /\ now = 0
    /\ given = 0 /\ buffered = 0
    /\ anchor = None /\ last_send = 0 /\ pending = None
    /\ tx = <<>>
    /\ next_tick = None /\ encoding = None
    /\ last = None /\ skipped = 0 /\ ahead = 0

Next ==
    \/ \E n \in SendSize : Send(n)
    \/ Flush
    \/ Hand
    \/ Receive
    \/ Broadcast
    \/ Pass

Spec == Init /\ [][Next]_vars

-----------------------------------------------------------------------------
(* Correctness.                                                              *)

TypeOK ==
    /\ now \in 0 .. MaxTime
    /\ given \in 0 .. MaxGiven
    /\ buffered \in Nat /\ (pending = None => buffered < Chunk)
    /\ anchor \in ChunkTimestamper \cup {None}
    /\ last_send \in 0 .. now
    /\ pending \in AudioFrame \cup {None}
    /\ tx \in Seq(AudioFrame) /\ Len(tx) <= ChannelSize
    /\ next_tick \in Nat \cup {None}
    /\ encoding \in AudioFrame \cup {None}
    /\ last \in AudioFrame \cup {None}
    /\ skipped \in Nat
    /\ ahead \in Nat

\* No sample is sent twice, and none is lost but those a gap dropped: chunks follow one
\* another in the order of the samples, whatever the sizes of the calls, flushes and gaps.
EverySampleAccounted ==
    given = (IF last = None THEN 0 ELSE last.first + last.len) + skipped + buffered

\* In any stretch of time the thread broadcasts at most as much audio as the clock
\* passed, a gap and two chunks: however late it ran, catching up is bounded (in the code
\* by 27 chunks, a tenth of what the broadcast channel holds for a slow session).
BurstBounded == ahead <= Gap + 2 * Chunk

\* However fast an application pushes, how late the thread runs and how often the sender
\* starts over, no chunk ends further in the future than a gap and the chunks on their
\* way to the broadcast: the slots of the channel and three more.
StampedAheadAtMost ==
    last # None => EndOf(last) <= now + Gap + (ChannelSize + 3) * Chunk
=============================================================================
