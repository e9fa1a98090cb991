---------------------------- MODULE PlaybackStream ----------------------------
(***************************************************************************)
(* The client's time-synchronised audio buffer and the device callback     *)
(* that drains it (snapcast-client/src/stream.rs and double_buffer.rs,     *)
(* snapclient-rs/src/player/mod.rs).                                       *)
(*                                                                         *)
(* Time and audio are counted in frames.  A frame is named by the server   *)
(* time it was stamped with, so that the frames a chunk holds are start,   *)
(* start + 1, ...; 0 is silence.  now is the server time at which the      *)
(* first frame of the callback reaches the ear, the output delay of the    *)
(* device included; it advances by what the callback played, more or less  *)
(* (the clocks drift, the estimate of the server's clock is revised, a     *)
(* callback is late).                                                      *)
(*                                                                         *)
(* The three DoubleBuffers receive the same values and are cleared         *)
(* together, so one history serves them all.  frame_delta and the other    *)
(* numbers of the log are left out, and so are the resampler and the       *)
(* volume, which change samples and not frames.                            *)
(***************************************************************************)
EXTENDS DoubleBuffer

CONSTANTS
    Format,       \* sample formats: rate, channels and encoding
    Frames,       \* frames a callback asks for
    ChunkLen,     \* frames in a chunk
    Buffers,      \* buffer lengths the server may set
    DefaultBuffer,
    Elapsed,      \* by how much now may advance between two callbacks
    Gap,          \* frames the server may leave out between two chunks
    MiniSize, ShortSize, LongSize,  \* *_BUFFER_SIZE
    SoftShort, SoftAge,             \* CORRECTION_BEGIN_USEC, SOFT_SYNC_MIN_USEC
    HardLong, HardShort, HardMini, HardAge, HardMinAge, \* HARD_SYNC_*_USEC
    Fastest,      \* 1 / MAX_RATE_CORRECTION
    Scale,        \* 100 us / RATE_CORRECTION_SCALE
    Second,       \* frames in a second, that is between two statistics
    None,         \* no chunk, no format
    MaxChunks,    \* bound on the chunks queued
    MaxAhead,     \* bound on how far the server's stamps are ahead of now
    MaxTime       \* bound on now

ASSUME PlaybackAssumption ==
    /\ {Frames, ChunkLen, MiniSize, ShortSize, LongSize, Fastest, Scale, Second}
         \subseteq Nat \ {0}
    /\ MiniSize <= ShortSize /\ ShortSize <= LongSize
    /\ Buffers \cup {DefaultBuffer} \cup Elapsed \cup Gap \subseteq Nat
    /\ {SoftShort, SoftAge, HardLong, HardShort, HardMini, HardAge, HardMinAge}
         \subseteq Nat
    /\ {MaxChunks, MaxAhead, MaxTime} \subseteq Nat
    /\ None \notin Format \cup [start: Nat, pos: Nat] /\ Format # {}

VARIABLES
    now,
    next,          \* the stamp of the server's next chunk
    format, buffer, chunks, current, hard_sync,
    ages,          \* the history in buffer, short_buffer and mini_buffer
    median, short_median, last_log,
    played_frames, correct_after, read_buf,
    device,        \* the format the device was opened with
    pcm,           \* the player's pcm_buf
    last           \* history: what the last callback did

syncVars   == <<hard_sync, ages, median, short_median, last_log>>
rateVars   == <<played_frames, correct_after, read_buf>>
queueVars  == <<chunks, current>>
vars == <<now, next, format, buffer, queueVars, syncVars, rateVars, device, pcm, last>>

Silence == 0
Abs(x) == IF x < 0 THEN -x ELSE x
Least(a, b) == IF a < b THEN a ELSE b
Silent(n) == [i \in 1 .. n |-> Silence]

-----------------------------------------------------------------------------
(* The histories.                                                            *)

Add(h, age) == Newest(Append(h, age), LongSize)
Full(n) == Len(ages) >= n

-----------------------------------------------------------------------------
(* Reading.  cur and queue are the current chunk and those behind it.        *)

NewChunk(start) == [start |-> start, pos |-> 0]
Ended(chunk) == chunk = None \/ chunk.pos >= ChunkLen

\* get_player_chunk begins by replacing a chunk that is used up.
Current == IF ~Ended(current) THEN current
           ELSE IF chunks = <<>> THEN None ELSE Head(chunks)
Queue   == IF Ended(current) /\ chunks # <<>> THEN Tail(chunks) ELSE chunks

Available(cur, queue) == ChunkLen - cur.pos + ChunkLen * Len(queue)

\* Mutation of ReadFrames: the next chunk is not fetched, and the old one starts over.
ReadFramesStays(cur, queue, n) ==
    [i \in 1 .. Least(n, Available(cur, queue)) |-> cur.start + ((cur.pos + i - 1) % ChunkLen)]

\* read_next: as many of n frames as there are, and where that leaves the queue.
ReadFrames(cur, queue, n) ==
    [i \in 1 .. Least(n, Available(cur, queue)) |->
        LET p == cur.pos + i - 1
            j == p \div ChunkLen
        IN  (IF j = 0 THEN cur.start ELSE queue[j].start) + (p % ChunkLen)]

\* Mutation of ReadNext: the read position starts over with each call.
ReadNextRewinds(cur, queue, n) ==
    LET read == Least(n, Available(cur, queue))
        used == IF read = 0 THEN 0 ELSE (cur.pos + read - 1) \div ChunkLen
        base == IF used = 0 THEN cur ELSE queue[used]
    IN  /\ current' = [base EXCEPT !.pos = Least(read, ChunkLen)]
        /\ chunks' = SubSeq(queue, used + 1, Len(queue))

ReadNext(cur, queue, n) ==
    LET read == Least(n, Available(cur, queue))
        used == IF read = 0 THEN 0 ELSE (cur.pos + read - 1) \div ChunkLen
        base == IF used = 0 THEN cur ELSE queue[used]
    IN  /\ current' = [base EXCEPT !.pos = cur.pos + read - used * ChunkLen]
        /\ chunks' = SubSeq(queue, used + 1, Len(queue))

\* frames laid over the beginning of a buffer: the rest keeps what it held.
Over(frames, buf) == [i \in DOMAIN buf |-> IF i <= Len(frames) THEN frames[i] ELSE buf[i]]
Resize(buf, n) == [i \in 1 .. n |-> IF i <= Len(buf) THEN buf[i] ELSE Silence]

\* read_with_correction: buf is cut into slices, and a frame is left out (c > 0)
\* or repeated (c < 0) where two of them meet.
Corrected(buf, n, c) ==
    LET max    == IF c < 0 THEN n ELSE n + c
        slices == Least(Abs(c) + 1, max)
        size   == max \div slices
        \* the slice that is the last one to write frame i
        Of(i)  == LET step == IF c < 0 THEN size ELSE size - 1
                  IN  IF step = 0 THEN slices - 1 ELSE Least((i - 1) \div step, slices - 1)
    IN  [i \in 1 .. n |-> IF c < 0 THEN buf[i - Of(i)] ELSE buf[i + Of(i)]]

Clamp(c) == IF c > 1 - Frames THEN c ELSE 1 - Frames

-----------------------------------------------------------------------------
(* The network side, which holds the lock of the stream for each of these.   *)

AddChunk(gap) ==
    /\ format # None
    /\ Len(chunks) < MaxChunks /\ next + gap <= now + MaxAhead
    /\ chunks' = Append(chunks, NewChunk(next + gap))
    /\ next' = next + gap + ChunkLen
    /\ UNCHANGED <<now, format, buffer, current, syncVars, rateVars, device, pcm, last>>

\* init_audio_pipeline puts a new Stream in the place of the old one.
Replace(f, b) ==
    /\ format' = f /\ buffer' = b
    /\ chunks' = <<>> /\ current' = None
    /\ hard_sync' = TRUE /\ ages' = <<>>
    /\ median' = 0 /\ short_median' = 0 /\ last_log' = 0
    /\ played_frames' = 0 /\ correct_after' = 0 /\ read_buf' = <<>>
    /\ UNCHANGED <<now, next, device, pcm, last>>

SetBuffer(b) ==
    /\ format # None
    /\ buffer' = b
    /\ UNCHANGED <<now, next, format, queueVars, syncVars, rateVars, device, pcm, last>>

-----------------------------------------------------------------------------
(* The player: play_audio and the loop at the end of run_cpal.               *)

OpenDevice ==
    /\ device = None /\ format # None
    /\ device' = format /\ pcm' = <<>>
    /\ UNCHANGED <<now, next, format, buffer, queueVars, syncVars, rateVars, last>>

\* Every 100 ms run_cpal looks whether the stream is still of its format.
SeeChange ==
    /\ device # None /\ device # format
    /\ device' = None /\ pcm' = <<>>
    /\ UNCHANGED <<now, next, format, buffer, queueVars, syncVars, rateVars, last>>

-----------------------------------------------------------------------------
(* The callback at time t.                                                   *)

Age(t, stamp) == t - stamp - buffer

Called(t, mode) ==
    /\ device # None /\ t <= MaxTime
    /\ now' = t
    /\ last' = [mode |-> mode, correction |-> 0, complete |-> TRUE]
    /\ UNCHANGED <<next, format, buffer, device>>

\* The format changed under the open device: silence, and pcm_buf is not touched.
Mismatch(t) ==
    /\ device # format
    /\ Called(t, "mismatch")
    /\ UNCHANGED <<queueVars, syncVars, rateVars, pcm>>

Empty(t) ==
    /\ device = format /\ Current = None
    /\ Called(t, "empty")
    /\ current' = None /\ chunks' = Queue
    /\ pcm' = Silent(Frames)
    /\ UNCHANGED <<syncVars, rateVars>>

\* Hard sync, and the chunk is due after this callback.
TooEarly(t) ==
    /\ device = format /\ Current # None /\ hard_sync
    /\ Age(t, Current.start) < -Frames
    /\ Called(t, "early")
    /\ current' = Current /\ chunks' = Queue
    /\ pcm' = Silent(Frames)
    /\ UNCHANGED <<syncVars, rateVars>>

\* Mutation of Align: the frame that is due is silenced, too.
AlignOneLate(t, cur, queue) ==
    LET silent == Least(1 - Age(t, cur.start), Frames)
        frames == ReadFrames(cur, queue, Frames - silent)
    IN  /\ IF silent < Frames THEN ReadNext(cur, queue, Frames - silent)
           ELSE current' = cur /\ chunks' = queue
        /\ pcm' = Over(Silent(silent) \o frames, Resize(pcm, Frames))
        /\ hard_sync' = (silent = Frames)
        /\ ages' = IF silent < Frames THEN <<>> ELSE ages
        /\ now' = t
        /\ last' = [mode |-> "aligned", correction |-> 0,
                    complete |-> Len(frames) = Frames - silent]
        /\ UNCHANGED <<next, format, buffer, device, median, short_median, last_log, rateVars>>

\* The end of the hard sync branch: silence until cur is due, then cur.
Align(t, cur, queue) ==
    LET silent == Least(-Age(t, cur.start), Frames)
        frames == ReadFrames(cur, queue, Frames - silent)
    IN  /\ IF silent < Frames THEN ReadNext(cur, queue, Frames - silent)
           ELSE current' = cur /\ chunks' = queue
        /\ pcm' = Over(Silent(silent) \o frames, Resize(pcm, Frames))
        /\ hard_sync' = (silent = Frames)
        /\ ages' = IF silent < Frames THEN <<>> ELSE ages
        /\ now' = t
        /\ last' = [mode |-> "aligned", correction |-> 0,
                    complete |-> Len(frames) = Frames - silent]
        /\ UNCHANGED <<next, format, buffer, device, median, short_median, last_log, rateVars>>

\* Hard sync, and the chunk is due within this callback.
Due(t) ==
    /\ device = format /\ device # None /\ t <= MaxTime
    /\ Current # None /\ hard_sync
    /\ Age(t, Current.start) \in -Frames .. 0
    /\ Align(t, Current, Queue)

\* Hard sync, and the chunk was due before: it goes, with all the chunks that
\* end before now.  Of the one that is found the part that is over is skipped.
First(t) == {i \in DOMAIN Queue :
                /\ Age(t, Queue[i].start) < ChunkLen
                /\ \A j \in 1 .. i - 1 : Age(t, Queue[j].start) >= ChunkLen}
Behind(i) == SubSeq(Queue, i + 1, Len(Queue))

Late(t) == /\ device = format /\ device # None /\ t <= MaxTime
           /\ Current # None /\ hard_sync
           /\ Age(t, Current.start) > 0

LateEmpty(t) ==
    /\ Late(t) /\ First(t) = {}
    /\ Called(t, "late")
    /\ current' = None /\ chunks' = <<>>
    /\ pcm' = Silent(Frames)
    /\ UNCHANGED <<syncVars, rateVars>>

LateDue(t) ==
    /\ Late(t)
    /\ \E i \in First(t) : Age(t, Queue[i].start) <= 0 /\ Align(t, Queue[i], Behind(i))

\* What is left of the chunk is not played either: its start is still in the past.
LateSkip(t) ==
    /\ Late(t)
    /\ \E i \in First(t) :
        LET age == Age(t, Queue[i].start)
        IN  /\ age > 0
            /\ current' = [Queue[i] EXCEPT !.pos = age]
            /\ chunks' = Behind(i)
    /\ Called(t, "skipped")
    /\ pcm' = Silent(Frames)
    /\ UNCHANGED <<syncVars, rateVars>>

-----------------------------------------------------------------------------
(* Normal playback.                                                          *)

\* The correction due in this callback.
Correction ==
    IF correct_after = 0 THEN 0
    ELSE LET n == (played_frames + Frames) \div Abs(correct_after)
         IN  Clamp(IF correct_after < 0 THEN -n ELSE n)

\* Whether drift beyond the thresholds asks for a new hard sync.
Lost(age) ==
    \/ Full(LongSize)  /\ Abs(median) > HardLong        /\ Abs(age) > HardMinAge
    \/ Full(ShortSize) /\ Abs(short_median) > HardShort /\ Abs(age) > HardMinAge
    \/ Full(MiniSize)  /\ Abs(Median(Newest(ages, MiniSize))) > HardMini
                       /\ Abs(age) > HardMinAge
    \/ Abs(age) > HardAge

\* set_real_sample_rate: frames between two corrections for a drift of a.
Interval(a) == LET n == (2 * Scale + a) \div (2 * a) IN IF n < Fastest THEN Fastest ELSE n

\* Mutation of SoftSync: the rate is not set back to the nominal one first.
SoftSyncKeepsRate(age) ==
    LET mini == Median(Newest(ages, MiniSize))
    IN  IF Lost(age) \/ ~Full(ShortSize) THEN correct_after
        ELSE IF short_median > SoftShort /\ mini > SoftAge /\ age > SoftAge
        THEN Interval(short_median)
        ELSE IF short_median < -SoftShort /\ mini < -SoftAge /\ age < -SoftAge
        THEN -Interval(-short_median)
        ELSE correct_after

\* Soft sync: the drift is on one side by the short median, the mini median and now.
SoftSync(age) ==
    LET mini == Median(Newest(ages, MiniSize))
    IN  IF Lost(age) \/ ~Full(ShortSize) THEN 0
        ELSE IF short_median > SoftShort /\ mini > SoftAge /\ age > SoftAge
        THEN Interval(short_median)
        ELSE IF short_median < -SoftShort /\ mini < -SoftAge /\ age < -SoftAge
        THEN -Interval(-short_median)
        ELSE 0

Statistics(t) ==
    /\ last_log' = t \div Second
    /\ IF last_log' = last_log THEN UNCHANGED <<median, short_median>>
       ELSE /\ median' = Median(ages')
            /\ short_median' = Median(Newest(ages', ShortSize))

Play(t) ==
    LET c      == Correction
        frames == ReadFrames(Current, Queue, Frames + c)
        buf    == Over(frames, Resize(read_buf, Frames + c))
        age    == Age(t, Current.start + Current.pos)
    IN  /\ device = format /\ device # None /\ t <= MaxTime
        /\ Current # None /\ ~hard_sync
        /\ ReadNext(Current, Queue, Frames + c)
        /\ read_buf' = IF c = 0 THEN read_buf ELSE buf
        /\ pcm' = IF Abs(age) >= HardAge THEN Silent(Frames)
                  ELSE IF c = 0 THEN Over(frames, Resize(pcm, Frames))
                  ELSE Corrected(buf, Frames, c)
        /\ played_frames' = IF correct_after = 0 THEN played_frames
                            ELSE (played_frames + Frames) % Abs(correct_after)
        /\ correct_after' = SoftSync(age)
        /\ hard_sync' = Lost(age)
        /\ ages' = Add(ages, age)
        /\ Statistics(t)
        /\ now' = t
        /\ last' = [mode |-> IF Abs(age) >= HardAge THEN "off" ELSE "played",
                    correction |-> c, complete |-> Len(frames) = Frames + c]
        /\ UNCHANGED <<next, format, buffer, device>>

-----------------------------------------------------------------------------
(* The specification.                                                        *)

Init ==
    /\ now = 0 /\ next = 1
    /\ format = None /\ buffer = DefaultBuffer
    /\ chunks = <<>> /\ current = None /\ hard_sync = TRUE
    /\ ages = <<>> /\ median = 0 /\ short_median = 0 /\ last_log = 0
    /\ played_frames = 0 /\ correct_after = 0 /\ read_buf = <<>>
    /\ device = None /\ pcm = <<>>
    /\ last = [mode |-> "none", correction |-> 0, complete |-> TRUE]

Next ==
    \/ \E gap \in Gap : AddChunk(gap)
    \/ \E f \in Format, b \in Buffers \cup {DefaultBuffer} : Replace(f, b)
    \/ \E b \in Buffers : SetBuffer(b)
    \/ OpenDevice \/ SeeChange
    \/ \E e \in Elapsed :
        \/ Mismatch(now + e) \/ Empty(now + e)
        \/ TooEarly(now + e) \/ Due(now + e)
        \/ LateEmpty(now + e) \/ LateDue(now + e) \/ LateSkip(now + e)
        \/ Play(now + e)

Spec == Init /\ [][Next]_vars

-----------------------------------------------------------------------------
(* Properties.                                                               *)

Heard == last.mode \in {"aligned", "played"}
\* The callback went by: only callbacks change now, and they all do.
Callback == now' # now

\* Hard sync ends on time: when it ends with a chunk nothing was read of, the
\* first frame heard is heard exactly buffer after its stamp, however late the
\* callback, and whatever was thrown away to get there (get_player_chunk, hard
\* sync branch).
StartsOnTime ==
    [][hard_sync /\ ~hard_sync' /\ (Current.pos = 0 \/ Age(now', Current.start) > 0) =>
        \E i \in 1 .. Frames :
            /\ \A j \in 1 .. i - 1 : pcm'[j] = Silence
            /\ now' + i - 1 = pcm'[i] + buffer]_vars

\* Soft sync is smooth: in a callback that corrects the rate no two frames
\* that follow each other are more than one left-out frame apart or out of
\* order, and the callback ends exactly the correction further on in the stream
\* (read_with_correction).
Smooth ==
    [][Callback /\ last'.mode = "played" /\ last'.complete =>
        /\ \A i \in 1 .. Frames - 1 : \E gap \in Gap \cup {0} :
                pcm'[i + 1] - pcm'[i] - gap \in 0 .. 2
        /\ \E gap \in Gap \cup {0} :
                pcm'[Frames] = Current.start + Current.pos + Frames + last'.correction - 1
                                 + gap]_vars

\* Smooth allows for one gap in a callback.  That is all there is when a callback reads
\* from two chunks at most, the most it may correct included, or no frames are left out.
Slowest == IF Fastest < Scale THEN Scale ELSE Fastest
Extra   == (Slowest - 1 + Frames) \div Fastest
FewGaps == Frames + Extra <= ChunkLen + 1 \/ Gap \subseteq {0}

\* What was heard is over: no frame still to be read comes before one that was
\* heard, through corrections, hard syncs, and new streams.
PendingIsAhead ==
    Heard /\ last.complete =>
        \A i \in DOMAIN pcm :
            /\ current # None => pcm[i] < current.start + current.pos
            /\ \A j \in DOMAIN chunks : pcm[i] < chunks[j].start

\* The rate is corrected only against a drift the last callback still saw, and
\* in the direction that makes it smaller (set_real_sample_rate is called with
\* the nominal rate first).
CorrectsLastDrift ==
    correct_after # 0 =>
        /\ ages # <<>>
        /\ correct_after > 0 <=> ages[Len(ages)] > SoftAge
        /\ correct_after < 0 <=> ages[Len(ages)] < -SoftAge
=============================================================================
