------------------------------- MODULE MediaPath -------------------------------
(***************************************************************************)
(* The way of the audio of one configured source, from the bytes a program *)
(* writes to the samples a client has decoded: the stream readers of the   *)
(* server binary (snapserver-rs/src/stream), which cut them into chunks    *)
(* and stamp these, the encoder (snapcast-server/src/encoder), whose       *)
(* blocks need not be the reader's chunks, the broadcast channel, which    *)
(* drops the oldest when a session is slow, and the client's decoder       *)
(* (snapcast-client/src/decoder), which takes one packet for each chunk.   *)
(*                                                                         *)
(* Bytes are counted in units of four, the part of a file in which the     *)
(* reader looks for a header: a frame of two channels is one unit with 16  *)
(* bits and two with 24 or 32.  A frame lasts one unit of time.  A sample  *)
(* of all channels is known by where it was read, and carries the time its *)
(* reader stamped it with.                                                 *)
(***************************************************************************)
EXTENDS Integers, Sequences

CONSTANTS
    Config,      \* the configurations of a source and its server, see Configs
    Header,      \* units of a WAV header (11 in the code)
    Block,       \* [codec |-> frames of a block] (FLAC: 1152, Opus: 20 ms)
    Second,      \* the pause of most readers before they open their source again
    AudioMax,    \* AUDIO_CHANNEL_SIZE
    WireMax,     \* the size of the broadcast channel
    MaxTime, MaxUnits, MaxOpenings  \* bounds on the clock and on what is written

Schemes == {"pipe", "file", "tcp", "process", "librespot", "airplay"}

\* source and server are the units of a frame by the format of the source and by
\* the format of the encoder; chunk is the length of the reader's chunks.
Configs == [scheme: Schemes, codec: {"pcm", "f32lz4", "flac", "opus"}, wav: BOOLEAN, chunk: Nat \ {0},
            source: {1, 2}, server: {1, 2}]

ASSUME MediaAssumption ==
    /\ Config \subseteq Configs
    /\ Block \in [{"flac", "opus"} -> Nat \ {0}]
    /\ {AudioMax, WireMax} \subseteq Nat \ {0}
    /\ {Header, Second, MaxTime, MaxUnits, MaxOpenings} \subseteq Nat

VARIABLES
    now,      \* the clock
    config,   \* how the source is configured
    source,   \* what the program at the other end has written in this opening
    reader,   \* where the reader is
    ts,       \* its ChunkTimestamper
    tx,       \* the channel to the encoder
    pending,  \* FlacEncoder.pending
    wire,     \* the chunks that are broadcast and not sent yet
    decoded,  \* history: the last chunk the client decoded
    lost      \* history: chunks were dropped since then, or blocks of it

encoderVars == <<pending, wire, decoded, lost>>
readerVars  == <<source, reader, ts, tx>>
vars == <<now, config, readerVars, encoderVars>>

-----------------------------------------------------------------------------
(* ChunkTimestamper.                                                         *)

Anchored(time) == [start |-> time, written |-> 0]
Stamp == ts.start + ts.written
Advance(frames) == ts' = [ts EXCEPT !.written = @ + frames]

-----------------------------------------------------------------------------
(* The program that writes, and the clock.                                   *)

Tick ==
    /\ now < MaxTime /\ now' = now + 1
    /\ UNCHANGED <<config, readerVars, encoderVars>>

Write(n) ==
    /\ source.open /\ ~source.ended /\ source.given + n <= MaxUnits
    /\ source' = [source EXCEPT !.given = @ + n]
    /\ UNCHANGED <<now, config, reader, ts, tx, encoderVars>>

\* The pipe is closed, the file has no more, the peer or the child is gone.
EndOfSource ==
    /\ source.open /\ ~source.ended
    /\ source' = [source EXCEPT !.ended = TRUE]
    /\ UNCHANGED <<now, config, reader, ts, tx, encoderVars>>

-----------------------------------------------------------------------------
(* The readers.                                                              *)

\* What the file reader skips: a WAV header, or the four bytes that were not one.
Skipped == IF config.scheme # "file" THEN 0 ELSE IF config.wav THEN Header ELSE 1

\* Opening succeeds some time: when somebody writes to the pipe, a peer connects,
\* the file is there, the program starts.  Only the pipe's timestamper is new.
Open ==
    /\ ~source.open /\ now >= reader.wake /\ source.opening < MaxOpenings
    /\ source' = [open |-> TRUE, opening |-> source.opening + 1, given |-> 0, ended |-> FALSE]
    /\ reader' = [pumping |-> config.scheme # "file", read |-> 0, wake |-> now, opened |-> now]
    /\ ts' = IF config.scheme = "pipe" THEN Anchored(now) ELSE ts
    /\ UNCHANGED <<now, config, tx, encoderVars>>

\* Mutation of SkipHeader: the four bytes that were looked at are not part of it.
SkipHeaderShort ==
    /\ source.open /\ ~reader.pumping
    /\ source.given >= Skipped \/ source.ended
    /\ reader' = [reader EXCEPT !.pumping = TRUE, !.wake = now,
                    !.read = IF source.given >= Skipped THEN Skipped - 1 ELSE source.given]
    /\ UNCHANGED <<now, config, source, ts, tx, encoderVars>>

\* The header is read before the pacing begins; a file too short for it has ended.
SkipHeader ==
    /\ source.open /\ ~reader.pumping
    /\ source.given >= Skipped \/ source.ended
    /\ reader' = [reader EXCEPT !.pumping = TRUE, !.wake = now,
                    !.read = IF source.given >= Skipped THEN Skipped ELSE source.given]
    /\ UNCHANGED <<now, config, source, ts, tx, encoderVars>>

ChunkUnits == config.chunk * config.source

\* Mutation of Pump: the file is read as fast as it can be.
PumpUnpaced ==
    /\ source.open /\ reader.pumping
    /\ source.given - reader.read >= ChunkUnits /\ Len(tx) < AudioMax
    /\ tx' = Append(tx, [stamp |-> Stamp, opening |-> source.opening, first |-> reader.read])
    /\ reader' = [reader EXCEPT !.read = @ + ChunkUnits]
    /\ Advance(config.chunk)
    /\ UNCHANGED <<now, config, source, encoderVars>>

\* Mutation of Pump: a chunk need not find room.
PumpUnbounded ==
    /\ source.open /\ reader.pumping
    /\ config.scheme = "file" => now >= reader.wake
    /\ source.given - reader.read >= ChunkUnits
    /\ tx' = Append(tx, [stamp |-> Stamp, opening |-> source.opening, first |-> reader.read])
    /\ reader' = [reader EXCEPT !.read = @ + ChunkUnits, !.wake = @ + config.chunk]
    /\ Advance(config.chunk)
    /\ UNCHANGED <<now, config, source, encoderVars>>

\* pump_pcm: a chunk is read, stamped and sent; only the file's reader waits for
\* the next tick of its interval first, and ticks it was late for come at once.
Pump ==
    /\ source.open /\ reader.pumping
    /\ config.scheme = "file" => now >= reader.wake
    /\ source.given - reader.read >= ChunkUnits /\ Len(tx) < AudioMax
    /\ tx' = Append(tx, [stamp |-> Stamp, opening |-> source.opening, first |-> reader.read])
    /\ reader' = [reader EXCEPT !.read = @ + ChunkUnits, !.wake = @ + config.chunk]
    /\ Advance(config.chunk)
    /\ UNCHANGED <<now, config, source, encoderVars>>

\* PumpEnd::SourceEnded: what is less than a chunk is dropped.
Ended(scheme, pause) ==
    /\ config.scheme = scheme
    /\ source.open /\ source.ended /\ reader.pumping
    /\ source.given - reader.read < ChunkUnits
    /\ source' = [source EXCEPT !.open = FALSE]
    /\ reader' = [reader EXCEPT !.pumping = FALSE, !.wake = now + pause]
    /\ UNCHANGED <<now, config, tx, encoderVars>>

\* The pipe has a timestamper for each opening; those of the others start at this
\* moment, and not when the source is opened again.
PipeEnded      == Ended("pipe", Second) /\ UNCHANGED ts
FileEnded      == Ended("file", Second) /\ ts' = Anchored(now)
TcpEnded       == Ended("tcp", 0) /\ ts' = Anchored(now)
ProcessEnded   == Ended("process", Second) /\ ts' = Anchored(now)
LibrespotEnded == Ended("librespot", 2 * Second) /\ ts' = Anchored(now)
AirplayEnded   == Ended("airplay", 2 * Second) /\ ts' = Anchored(now)

-----------------------------------------------------------------------------
(* The encoders.                                                             *)

\* The frames of a chunk by the encoder's format; a part of a frame is dropped.
Samples(c) ==
    [i \in 1 .. ChunkUnits \div config.server |->
        [opening |-> c.opening, unit |-> c.first + (i - 1) * config.server,
         stamp |-> c.stamp + i - 1]]

Blocks(samples, n) ==
    [j \in 1 .. Len(samples) \div n |-> SubSeq(samples, (j - 1) * n + 1, j * n)]
Rest(samples, n) == SubSeq(samples, (Len(samples) \div n) * n + 1, Len(samples))

\* Mutation of FlacEncode: a block is cut, and all of the rest is thrown away.
FlacEncodeDrops(c) ==
    LET all == pending \o Samples(c)
    IN  [blocks  |-> Blocks(all, Block["flac"]),
         pending |-> IF Len(all) < Block["flac"] THEN all ELSE <<>>]

\* Mutation of FlacEncode: the samples that wait are taken from the wrong end.
FlacEncodeKeepsOld(c) ==
    LET all == pending \o Samples(c)
    IN  [blocks  |-> Blocks(all, Block["flac"]),
         pending |-> SubSeq(all, 1, Len(all) % Block["flac"])]

\* FLAC collects samples until they fill blocks, Opus encodes the blocks of this
\* chunk and forgets the rest, the others encode the chunk as it is.
FlacEncode(c) ==
    LET all == pending \o Samples(c)
    IN  [blocks |-> Blocks(all, Block["flac"]), pending |-> Rest(all, Block["flac"])]
OpusEncode(c)  == [blocks |-> Blocks(Samples(c), Block["opus"]), pending |-> <<>>]
PcmEncode(c)   == [blocks |-> <<Samples(c)>>, pending |-> <<>>]
Lz4Encode(c)   == [blocks |-> <<Samples(c)>>, pending |-> <<>>]

Encoded(c) ==
    CASE config.codec = "flac" -> FlacEncode(c)
      [] config.codec = "opus" -> OpusEncode(c)
      [] config.codec = "pcm"  -> PcmEncode(c)
      [] config.codec = "f32lz4" -> Lz4Encode(c)

\* The loop of spawn_stream_encoder: what comes out goes under the timestamp of
\* what went in last; nothing is sent while the encoder is still collecting.
Encode ==
    /\ tx # <<>>
    /\ LET c   == Head(tx)
           e   == Encoded(c)
           all == IF e.blocks = <<>> THEN wire
                  ELSE Append(wire, [stamp |-> c.stamp, blocks |-> e.blocks])
       IN  /\ pending' = e.pending
           /\ wire' = IF Len(all) > WireMax THEN Tail(all) ELSE all
           /\ lost' = (lost \/ Len(all) > WireMax)
    /\ tx' = Tail(tx)
    /\ UNCHANGED <<now, config, source, reader, ts, decoded>>

\* The client decodes a chunk as one packet: of several blocks, the first.
Decode ==
    /\ wire # <<>>
    /\ LET chunk == Head(wire)
       IN  /\ decoded' = [stamp |-> chunk.stamp, samples |-> Head(chunk.blocks)]
           /\ lost' = (Len(chunk.blocks) > 1)
    /\ wire' = Tail(wire)
    /\ UNCHANGED <<now, config, readerVars, pending>>

-----------------------------------------------------------------------------
(* The specification.                                                        *)

Init ==
    /\ now = 0 /\ config \in Config
    /\ source = [open |-> FALSE, opening |-> 0, given |-> 0, ended |-> FALSE]
    /\ reader = [pumping |-> FALSE, read |-> 0, wake |-> 0, opened |-> 0]
    /\ ts = Anchored(0) /\ tx = <<>>
    /\ pending = <<>> /\ wire = <<>>
    /\ decoded = [stamp |-> 0, samples |-> <<>>] /\ lost = FALSE

Next ==
    \/ Tick
    \/ (\E n \in 1 .. MaxUnits : Write(n)) \/ EndOfSource
    \/ Open \/ SkipHeader \/ Pump
    \/ PipeEnded \/ FileEnded \/ TcpEnded
    \/ ProcessEnded \/ LibrespotEnded \/ AirplayEnded
    \/ Encode \/ Decode

Spec == Init /\ [][Next]_vars

-----------------------------------------------------------------------------
(* Properties.                                                               *)

Sample == [opening: 1 .. MaxOpenings, unit: 0 .. MaxUnits, stamp: Nat]

TypeOK ==
    /\ now \in 0 .. MaxTime /\ config \in Config
    /\ source \in [open: BOOLEAN, opening: 0 .. MaxOpenings, given: 0 .. MaxUnits,
                   ended: BOOLEAN]
    /\ reader \in [pumping: BOOLEAN, read: 0 .. MaxUnits, wake: Nat, opened: 0 .. MaxTime]
    /\ ts \in [start: 0 .. MaxTime, written: Nat]
    /\ tx \in Seq([stamp: Nat, opening: 1 .. MaxOpenings, first: 0 .. MaxUnits])
    /\ Len(tx) <= AudioMax /\ Len(wire) <= WireMax
    /\ pending \in Seq(Sample) /\ Len(pending) < Block["flac"]
    /\ wire \in Seq([stamp: Nat, blocks: Seq(Seq(Sample))])
    /\ decoded \in [stamp: Nat, samples: Seq(Sample)] /\ lost \in BOOLEAN

\* The encoder reads the source's format, and no bytes are taken for a header.
Configured ==
    config.source = config.server /\ (config.scheme = "file" => config.wav \/ config.source = 1)

\* However the blocks of the encoder and the chunks of the reader meet, and
\* however often the source ends in the middle of a frame, no sample is put
\* together from two: all of them begin where a frame of the source does
\* (pump_pcm, pcm_to_i32).
WholeFrames ==
    Configured =>
        \A i \in DOMAIN decoded.samples :
            (decoded.samples[i].unit - Skipped) % config.source = 0

\* What a client decodes goes on where it stopped: a sample follows the one
\* before it, or opens the next reading of the source, unless the channel dropped
\* chunks or the last chunk held several blocks (FlacEncoder::encode and decode).
Follows(a, b) ==
    IF a.opening = b.opening THEN b.unit = a.unit + config.server
    ELSE a.opening < b.opening /\ b.unit = Skipped

LastOf(s) == s[Len(s)]
Contiguous ==
    [][decoded' # decoded /\ decoded.samples # <<>> /\ Configured /\ ~lost
       /\ (config.codec = "opus" => config.chunk % Block["opus"] = 0) =>
        /\ Follows(LastOf(decoded.samples), decoded'.samples[1])
        /\ \A i \in 1 .. Len(decoded'.samples) - 1 :
            Follows(decoded'.samples[i], decoded'.samples[i + 1])]_vars

\* The timestamp of a decoded chunk is that of its first sample when chunks and
\* blocks are of one length, and otherwise later by less than a block; across
\* two readings of the source nothing is said (spawn_stream_encoder).
StampClose ==
    LET s == decoded.samples
    IN  Configured /\ s # <<>> /\ s[1].opening = LastOf(s).opening =>
            IF config.codec = "flac" /\ config.chunk % Block["flac"] # 0
            THEN decoded.stamp - s[1].stamp \in 0 .. Block["flac"] - 1
            ELSE decoded.stamp = s[1].stamp

\* A file is played in real time: no chunk of it is stamped ahead of the clock
\* (the pace of pump_pcm).
PacedBehind ==
    config.scheme = "file" => \A i \in DOMAIN tx : tx[i].stamp <= now

-----------------------------------------------------------------------------
(* What the documentation says, and the code does not do.                    *)

\* time.rs: ChunkTimestamper::reset is for "stream restart" and anchors it "at
\* the current time"; its timestamps "reflect when audio should be played".
FreshStamps ==
    \A i \in DOMAIN tx : tx[i].opening = source.opening => tx[i].stamp >= reader.opened
=============================================================================
