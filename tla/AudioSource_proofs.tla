-------------------------- MODULE AudioSource_proofs --------------------------
(* For any chunk, gap, channel and calls: the state keeps its types, every     *)
(* sample is accounted for, the encoder thread's catching up is bounded, and   *)
(* so is how far ahead of the clock a chunk can be stamped.                    *)
EXTENDS AudioSource, SequenceTheorems, TLAPS

-----------------------------------------------------------------------------
(* Types and samples.  A chunk is at most Chunk long because only flush cuts a  *)
(* shorter one, and between calls less than a chunk is buffered.                *)

SampleInv == TypeOK /\ EverySampleAccounted

\* What one cut does, from a buffer that holds the last samples given.
LEMMA CutStep ==
    ASSUME SampleInv, NEW have \in Nat, NEW ts \in ChunkTimestamper \cup {None},
           NEW len \in 1 .. Chunk, len <= have, have <= given', given' \in Nat,
           Cut(have, ts, len)
    PROVE  /\ buffered' = have - len /\ buffered' \in Nat
           /\ anchor' \in ChunkTimestamper
           /\ pending' \in AudioFrame /\ last' = pending' /\ skipped' = 0
           /\ last'.first + last'.len = given' - buffered'
  <1>. DEFINE stamper == IF ts = None THEN [start |-> now, samples_written |-> 0] ELSE ts
              chunk   == [first     |-> given' - have, len |-> len,
                          timestamp |-> stamper.start + stamper.samples_written]
  <1>1. stamper \in ChunkTimestamper
    BY NoneAssumption DEF ChunkTimestamper, SampleInv, TypeOK
  <1>2. chunk \in AudioFrame
    <2>1. given' - have \in Nat
      <3>1. \A a, b \in Nat : b <= a => a - b \in Nat
        OBVIOUS
      <3>. QED
        BY <3>1
    <2>2. stamper.start + stamper.samples_written \in Nat
      <3>. HIDE DEF stamper
      <3>. QED
        BY <1>1 DEF ChunkTimestamper
    <2>. HIDE DEF stamper
    <2>. QED
      BY <2>1, <2>2 DEF AudioFrame
  <1>3. /\ buffered' = have - len /\ skipped' = 0
        /\ anchor' = [stamper EXCEPT !.samples_written = @ + len]
        /\ pending' = chunk /\ last' = chunk
    BY DEF Cut
  <1>4. anchor' \in ChunkTimestamper
    BY <1>1, <1>3, SourceAssumption DEF ChunkTimestamper
  <1>5. chunk.first + chunk.len = given' - (have - len)
    <2>1. chunk.first = given' - have /\ chunk.len = len
      OBVIOUS
    <2>2. len \in Nat
      BY SourceAssumption
    <2>. HIDE DEF chunk
    <2>. QED
      BY <2>1, <2>2
  <1>. HIDE DEF stamper, chunk
  <1>6. have - len \in Nat
    BY SourceAssumption
  <1>. QED
    BY <1>2, <1>3, <1>4, <1>5, <1>6

\* A turn of send's loop keeps the account, when it starts with a correct one.
LEMMA EmitStep ==
    ASSUME SampleInv, NEW have \in Nat, NEW ts \in ChunkTimestamper \cup {None},
           NEW dropped \in Nat, given' \in Nat, have <= given', Emit(have, ts, dropped),
           given' = (IF last = None THEN 0 ELSE last.first + last.len) + dropped + have
    PROVE  /\ buffered' \in Nat /\ (pending' = None => buffered' < Chunk)
           /\ anchor' \in ChunkTimestamper \cup {None}
           /\ pending' \in AudioFrame \cup {None} /\ last' \in AudioFrame \cup {None}
           /\ skipped' \in Nat
           /\ EverySampleAccounted'
  <1>1. CASE have >= Chunk /\ Cut(have, ts, Chunk)
    <2>1. /\ buffered' = have - Chunk /\ buffered' \in Nat
          /\ anchor' \in ChunkTimestamper
          /\ pending' \in AudioFrame /\ last' = pending' /\ skipped' = 0
          /\ last'.first + last'.len = given' - buffered'
      <3>1. Chunk \in 1 .. Chunk /\ Chunk <= have
        BY <1>1, SourceAssumption
      <3>. QED
        BY <1>1, <3>1, CutStep
    <2>2. last' # None
      BY <2>1, NoneAssumption
    <2>. QED
      BY <2>1, <2>2, NoneAssumption DEF EverySampleAccounted
  <1>2. CASE /\ have < Chunk
             /\ buffered' = have /\ anchor' = ts /\ pending' = None
             /\ skipped' = dropped
             /\ UNCHANGED last
    BY <1>2 DEF SampleInv, TypeOK, EverySampleAccounted
  <1>. QED
    BY <1>1, <1>2 DEF Emit

\* The samples buffered are among those given.
LEMMA BufferedGiven == SampleInv => buffered <= given
  BY NoneAssumption DEF SampleInv, TypeOK, EverySampleAccounted, AudioFrame

LEMMA SendStep ==
    ASSUME SampleInv, NEW n \in SendSize, Send(n)
    PROVE  SampleInv'
  <1>1. /\ n \in Nat /\ given' = given + n /\ given' \in 0 .. MaxGiven
        /\ buffered <= given
    BY BufferedGiven, SourceAssumption DEF Send, SampleInv, TypeOK
  <1>2. given = (IF last = None THEN 0 ELSE last.first + last.len) + skipped + buffered
    BY DEF SampleInv, EverySampleAccounted
  <1>3. (IF last = None THEN 0 ELSE last.first + last.len) \in Nat
    BY SourceAssumption DEF SampleInv, TypeOK, AudioFrame
  <1>4. /\ buffered' \in Nat /\ (pending' = None => buffered' < Chunk)
        /\ anchor' \in ChunkTimestamper \cup {None}
        /\ pending' \in AudioFrame \cup {None} /\ last' \in AudioFrame \cup {None}
        /\ skipped' \in Nat
        /\ EverySampleAccounted'
    <2>1. CASE now - last_send > Gap
      <3>1. Emit(n, None, skipped + buffered)
        BY <2>1 DEF Send
      <3>2. /\ skipped + buffered \in Nat /\ n <= given' /\ given' \in Nat
            /\ given' = (IF last = None THEN 0 ELSE last.first + last.len)
                           + (skipped + buffered) + n
        BY <1>1, <1>2, <1>3 DEF SampleInv, TypeOK
      <3>. QED
        BY <1>1, <3>1, <3>2, EmitStep
    <2>2. CASE ~ (now - last_send > Gap)
      <3>1. Emit(buffered + n, anchor, skipped)
        BY <2>2 DEF Send
      <3>2. /\ buffered + n \in Nat /\ buffered + n <= given' /\ given' \in Nat
            /\ skipped \in Nat /\ anchor \in ChunkTimestamper \cup {None}
            /\ given' = (IF last = None THEN 0 ELSE last.first + last.len)
                           + skipped + (buffered + n)
        BY <1>1, <1>2, <1>3 DEF SampleInv, TypeOK
      <3>. QED
        BY <3>1, <3>2, EmitStep
    <2>. QED
      BY <2>1, <2>2
  <1>5. last_send' \in 0 .. now' /\ UNCHANGED <<now, tx, next_tick, encoding, ahead>>
    BY DEF Send, encoderVars, SampleInv, TypeOK
  <1>. QED
    BY <1>1, <1>4, <1>5 DEF SampleInv, TypeOK

LEMMA FlushStep ==
    ASSUME SampleInv, Flush
    PROVE  SampleInv'
  <1>1. /\ buffered \in 1 .. Chunk /\ buffered <= given /\ given' = given
        /\ given \in Nat
    BY BufferedGiven, SourceAssumption DEF Flush, SampleInv, TypeOK
  <1>2. /\ buffered' = buffered - buffered /\ buffered' \in Nat
        /\ anchor' \in ChunkTimestamper
        /\ pending' \in AudioFrame /\ last' = pending' /\ skipped' = 0
        /\ last'.first + last'.len = given' - buffered'
    <2>1. /\ Cut(buffered, anchor, buffered) /\ buffered \in Nat /\ buffered <= buffered
          /\ anchor \in ChunkTimestamper \cup {None}
          /\ buffered <= given' /\ given' \in Nat
      BY <1>1, SourceAssumption DEF Flush, SampleInv, TypeOK
    <2>. QED
      BY <1>1, <2>1, CutStep
  <1>3. EverySampleAccounted'
    BY <1>1, <1>2, NoneAssumption DEF EverySampleAccounted
  <1>4. UNCHANGED <<now, given, last_send, tx, next_tick, encoding, ahead>>
    BY DEF Flush, encoderVars
  <1>. QED
    BY <1>2, <1>3, <1>4, NoneAssumption DEF SampleInv, TypeOK

LEMMA HandStep ==
    ASSUME SampleInv, Hand
    PROVE  SampleInv'
  <1>1. /\ buffered \in Nat /\ buffered <= given' /\ given' = given /\ given' \in Nat
        /\ skipped \in Nat /\ anchor \in ChunkTimestamper \cup {None}
        /\ Emit(buffered, anchor, skipped)
    BY BufferedGiven, SourceAssumption DEF Hand, SampleInv, TypeOK
  <1>2. given' = (IF last = None THEN 0 ELSE last.first + last.len) + skipped + buffered
    BY <1>1 DEF SampleInv, EverySampleAccounted
  <1>3. /\ buffered' \in Nat /\ (pending' = None => buffered' < Chunk)
        /\ anchor' \in ChunkTimestamper \cup {None}
        /\ pending' \in AudioFrame \cup {None} /\ last' \in AudioFrame \cup {None}
        /\ skipped' \in Nat
        /\ EverySampleAccounted'
    BY <1>1, <1>2, EmitStep
  <1>4. tx' \in Seq(AudioFrame) /\ Len(tx') <= ChannelSize
    BY SourceAssumption DEF Hand, HasRoom, SampleInv, TypeOK
  <1>5. UNCHANGED <<now, given, last_send, next_tick, encoding, ahead>>
    BY DEF Hand, encoderVars
  <1>. QED
    BY <1>3, <1>4, <1>5 DEF SampleInv, TypeOK

LEMMA EncoderKeepsSamples ==
    ASSUME SampleInv, Receive \/ Broadcast \/ Pass
    PROVE  SampleInv'
  <1>1. UNCHANGED senderVars
    BY DEF Receive, Broadcast, Pass
  <1>2. CASE Receive
    <2>1. /\ Head(tx) \in AudioFrame /\ Tail(tx) \in Seq(AudioFrame)
          /\ Len(Tail(tx)) <= ChannelSize
      BY <1>2, SourceAssumption DEF Receive, SampleInv, TypeOK
    <2>2. next_tick' \in Nat
      <3>1. Head(tx).len \in Nat
        BY <2>1, SourceAssumption DEF AudioFrame
      <3>2. now \in Nat /\ next_tick \in Nat \cup {None}
        BY SourceAssumption DEF SampleInv, TypeOK
      <3>3. next_tick = None \/ next_tick \in Nat
        BY <3>2
      <3>. QED
        BY <1>2, <3>1, <3>2, <3>3 DEF Receive, Tick
    <2>. QED
      BY <1>1, <1>2, <2>1, <2>2
         DEF Receive, SampleInv, TypeOK, EverySampleAccounted, senderVars
  <1>3. CASE Broadcast
    <2>1. ahead' \in Nat
      BY <1>3, NoneAssumption, SourceAssumption
         DEF Broadcast, Due, SampleInv, TypeOK, AudioFrame
    <2>. QED
      BY <1>1, <1>3, <2>1 DEF Broadcast, SampleInv, TypeOK, EverySampleAccounted, senderVars
  <1>4. CASE Pass
    BY <1>1, <1>4, SourceAssumption
       DEF Pass, SampleInv, TypeOK, EverySampleAccounted, senderVars
  <1>. QED
    BY <1>2, <1>3, <1>4

LEMMA SampleInvInit == Init => SampleInv
  BY SourceAssumption DEF Init, SampleInv, TypeOK, EverySampleAccounted

LEMMA SampleInvNext == SampleInv /\ [Next]_vars => SampleInv'
  <1>. SUFFICES ASSUME SampleInv, [Next]_vars
                PROVE  SampleInv'
    OBVIOUS
  <1>1. CASE UNCHANGED vars
    BY <1>1 DEF vars, senderVars, encoderVars, SampleInv, TypeOK, EverySampleAccounted
  <1>. QED
    BY <1>1, SendStep, FlushStep, HandStep, EncoderKeepsSamples DEF Next

\* The source keeps its types, for any chunk, gap, channel and sizes of the calls: a chunk
\* in flight is never longer than Chunk, and less than one waits between two calls.
THEOREM SourceTypeCorrect == Spec => []TypeOK
  <1>1. Spec => []SampleInv
    BY SampleInvInit, SampleInvNext, PTL DEF Spec
  <1>2. SampleInv => TypeOK
    BY DEF SampleInv
  <1>. QED
    BY <1>1, <1>2, PTL

\* No sample an application pushes is sent twice or lost, but where a gap dropped it.
THEOREM SamplesAccounted == Spec => []EverySampleAccounted
  <1>1. Spec => []SampleInv
    BY SampleInvInit, SampleInvNext, PTL DEF Spec
  <1>2. SampleInv => EverySampleAccounted
    BY DEF SampleInv
  <1>. QED
    BY <1>1, <1>2, PTL

-----------------------------------------------------------------------------
(* The burst.  The tick stands for what was broadcast: the audio ahead of the   *)
(* clock is at most a gap and two chunks less than the thread is behind its     *)
(* tick, or no more than the last chunk.  A thread that is further behind than  *)
(* a gap starts over before it can use the difference.                          *)

Headroom(tick) == tick - now + Gap + 2 * Chunk

BurstInv ==
    /\ TypeOK
    /\ encoding = None /\ next_tick = None => ahead = 0
    /\ encoding = None /\ next_tick # None =>
          /\ next_tick <= now
          /\ ahead <= Chunk \/ ahead <= Headroom(next_tick)
    /\ encoding # None =>
          /\ next_tick # None
          /\ next_tick - encoding.len <= now
          /\ ahead = 0 \/ ahead <= Headroom(next_tick - encoding.len)

LEMMA ReceiveKeepsBurst ==
    ASSUME BurstInv, TypeOK', Receive
    PROVE  BurstInv'
  <1>0. Head(tx) \in AudioFrame
    BY DEF Receive, BurstInv, TypeOK
  <1>1. PICK len \in 1 .. Chunk : len = Head(tx).len
    BY <1>0 DEF AudioFrame
  <1>2. /\ encoding = None /\ encoding' # None /\ encoding'.len = len
        /\ next_tick' = Tick(len)
        /\ now' = now /\ ahead' = ahead
    BY <1>0, <1>1, NoneAssumption DEF Receive
  <1>3. now \in Nat /\ ahead \in Nat /\ Chunk \in Nat /\ Gap \in Nat /\ len \in Nat
    BY SourceAssumption DEF BurstInv, TypeOK
  <1>4. CASE next_tick = None
    <2>1. ahead = 0 /\ next_tick' = now + len
      BY <1>2, <1>4 DEF BurstInv, Tick
    <2>2. next_tick' # None
      BY <1>3, <2>1, NoneAssumption
    <2>. QED
      BY <1>2, <1>3, <2>1, <2>2 DEF BurstInv
  <1>5. CASE next_tick # None
    <2>1. /\ next_tick \in Nat /\ next_tick <= now
          /\ ahead <= Chunk \/ ahead <= Headroom(next_tick)
      BY <1>2, <1>5 DEF BurstInv, TypeOK
    <2>2. CASE now - (next_tick + len) > Gap
      <3>1. next_tick' = now + len
        BY <1>2, <2>2 DEF Tick
      <3>2. next_tick' # None
        BY <1>3, <3>1, NoneAssumption
      <3>3. next_tick' - len <= now /\ ahead <= (next_tick' - len) - now + Gap + 2 * Chunk
        BY <1>3, <2>1, <3>1 DEF Headroom
      <3>. QED
        BY <1>2, <3>2, <3>3 DEF BurstInv, Headroom
    <2>3. CASE ~ (now - (next_tick + len) > Gap)
      <3>1. next_tick' = next_tick + len
        BY <1>2, <1>5, <2>3 DEF Tick
      <3>2. next_tick' # None
        BY <1>3, <2>1, <3>1, NoneAssumption
      <3>3. next_tick' - len <= now /\ ahead <= (next_tick' - len) - now + Gap + 2 * Chunk
        BY <1>1, <1>3, <2>1, <2>3, <3>1 DEF Headroom
      <3>. QED
        BY <1>2, <3>2, <3>3 DEF BurstInv, Headroom
    <2>. QED
      BY <2>2, <2>3
  <1>. QED
    BY <1>4, <1>5

LEMMA BroadcastKeepsBurst ==
    ASSUME BurstInv, TypeOK', Broadcast
    PROVE  BurstInv'
  <1>1. PICK len \in 1 .. Chunk : len = encoding.len
    BY DEF Broadcast, Due, BurstInv, TypeOK, AudioFrame
  <1>2. /\ next_tick \in Nat /\ next_tick <= now
        /\ ahead = 0 \/ ahead <= (next_tick - len) - now + Gap + 2 * Chunk
    BY <1>1 DEF Broadcast, Due, BurstInv, TypeOK, Headroom
  <1>3. /\ encoding' = None /\ next_tick' = next_tick /\ now' = now
        /\ ahead' = ahead + len
    BY <1>1 DEF Broadcast
  <1>4. now \in Nat /\ ahead \in Nat /\ Chunk \in Nat /\ Gap \in Nat /\ len \in Nat
        /\ len <= Chunk
    BY SourceAssumption DEF BurstInv, TypeOK
  <1>5. ahead + len <= Chunk \/ ahead + len <= next_tick - now + Gap + 2 * Chunk
    BY <1>2, <1>4
  <1>6. next_tick # None
    BY <1>2, NoneAssumption
  <1>. QED
    BY <1>2, <1>3, <1>5, <1>6 DEF BurstInv, Headroom

LEMMA PassKeepsBurst ==
    ASSUME BurstInv, TypeOK', Pass
    PROVE  BurstInv'
  <1>1. /\ now' = now + 1 /\ UNCHANGED <<next_tick, encoding>>
        /\ ahead' = IF ahead > 0 THEN ahead - 1 ELSE 0
    BY DEF Pass
  <1>2. now \in Nat /\ ahead \in Nat /\ Chunk \in Nat /\ Gap \in Nat
    BY SourceAssumption DEF BurstInv, TypeOK
  <1>3. CASE encoding = None
    <2>1. CASE next_tick = None
      BY <1>1, <1>3, <2>1 DEF BurstInv
    <2>2. CASE next_tick # None
      <3>1. next_tick \in Nat /\ next_tick <= now
            /\ (ahead <= Chunk \/ ahead <= next_tick - now + Gap + 2 * Chunk)
        BY <1>3, <2>2 DEF BurstInv, TypeOK, Headroom
      <3>2. /\ next_tick <= now'
            /\ ahead' <= Chunk \/ ahead' <= next_tick - now' + Gap + 2 * Chunk
        BY <1>1, <1>2, <3>1
      <3>. QED
        BY <1>1, <1>3, <2>2, <3>2 DEF BurstInv, Headroom
    <2>. QED
      BY <2>1, <2>2
  <1>4. CASE encoding # None
    <2>1. PICK len \in Nat : len = encoding.len
      BY <1>4, SourceAssumption, SMTT(60) DEF BurstInv, TypeOK, AudioFrame
    <2>2. /\ next_tick \in Nat /\ next_tick - len <= now
          /\ ahead = 0 \/ ahead <= (next_tick - len) - now + Gap + 2 * Chunk
      BY <1>4, <2>1 DEF BurstInv, TypeOK, Headroom
    <2>3. /\ next_tick - len <= now'
          /\ ahead' = 0 \/ ahead' <= (next_tick - len) - now' + Gap + 2 * Chunk
      BY <1>1, <1>2, <2>2
    <2>. QED
      BY <1>1, <1>4, <2>1, <2>2, <2>3, NoneAssumption DEF BurstInv, Headroom
  <1>. QED
    BY <1>3, <1>4

LEMMA BurstInvNext == BurstInv /\ TypeOK' /\ [Next]_vars => BurstInv'
  <1>. SUFFICES ASSUME BurstInv, TypeOK', [Next]_vars
                PROVE  BurstInv'
    OBVIOUS
  <1>1. ASSUME UNCHANGED <<now, next_tick, encoding, ahead>>
        PROVE  BurstInv'
    BY <1>1 DEF BurstInv, Headroom
  <1>2. (\E n \in SendSize : Send(n)) \/ Flush \/ Hand \/ UNCHANGED vars
          => UNCHANGED <<now, next_tick, encoding, ahead>>
    BY DEF Send, Flush, Hand, vars, encoderVars
  <1>. QED
    BY <1>1, <1>2, ReceiveKeepsBurst, BroadcastKeepsBurst, PassKeepsBurst DEF Next

\* In any stretch of time the encoder thread broadcasts at most as much audio as the clock
\* passed, a gap and two chunks, for any chunk, gap and channel.
THEOREM CatchUpBounded == Spec => []BurstBounded
  <1>1. Init => BurstInv
    BY SampleInvInit DEF Init, SampleInv, BurstInv
  <1>2. BurstInv => BurstBounded
    <2>1. SUFFICES ASSUME BurstInv PROVE BurstBounded
      OBVIOUS
    <2>2. now \in Nat /\ ahead \in Nat /\ Chunk \in Nat /\ Gap \in Nat
      BY <2>1, SourceAssumption DEF BurstInv, TypeOK
    <2>3. CASE encoding = None
      <3>1. CASE next_tick = None
        BY <2>1, <2>2, <2>3, <3>1 DEF BurstInv, BurstBounded
      <3>2. CASE next_tick # None
        <4>1. next_tick \in Nat /\ next_tick <= now
              /\ (ahead <= Chunk \/ ahead <= next_tick - now + Gap + 2 * Chunk)
          BY <2>1, <2>3, <3>2 DEF BurstInv, TypeOK, Headroom
        <4>. QED
          BY <2>2, <4>1 DEF BurstBounded
      <3>. QED
        BY <3>1, <3>2
    <2>4. CASE encoding # None
      <3>1. PICK len \in Nat : len = encoding.len
        BY <2>1, <2>4, SourceAssumption DEF BurstInv, TypeOK, AudioFrame
      <3>2. /\ next_tick \in Nat /\ next_tick - len <= now
            /\ ahead = 0 \/ ahead <= (next_tick - len) - now + Gap + 2 * Chunk
        BY <2>1, <2>4, <3>1 DEF BurstInv, TypeOK, Headroom
      <3>. QED
        BY <2>2, <3>1, <3>2 DEF BurstBounded
    <2>. QED
      BY <2>3, <2>4
  <1>3. Spec => []TypeOK
    BY SourceTypeCorrect
  <1>. QED
    BY <1>1, <1>2, <1>3, BurstInvNext, PTL DEF Spec

-----------------------------------------------------------------------------
(* The stamps.  A chunk begins where the one before it ends, or, when the       *)
(* sender started over in between, no later than now: so of any two chunks on   *)
(* their way the later one is no further ahead of the other one's end, or of    *)
(* the clock, than the chunks in between are long.  The thread's tick stands    *)
(* for the chunks that have left the channel: a tick only falls behind the      *)
(* stamps when the thread gives up on it, and then by a gap.                    *)

\* The chunks that are cut and not received, oldest first.
Way == IF pending = None THEN tx ELSE Append(tx, pending)

Reached(t) == t <= now \/ (next_tick # None /\ t <= next_tick + Gap + Chunk)

Apart(a, b, n) == b.timestamp <= EndOf(a) + n * Chunk \/ b.timestamp <= now + n * Chunk

Spread(q) == \A i, j \in 1 .. Len(q) : i < j => Apart(q[i], q[j], j - i - 1)

OnTheWay(q) ==
    /\ Spread(q)
    /\ IF q # <<>> THEN last = q[Len(q)] /\ Reached(q[1].timestamp)
       ELSE last # None => Reached(EndOf(last))

\* Where the next chunk of a timestamper would begin.
Stamps(ts) == ts.start + ts.samples_written

Follows(ts) ==
    ts # None => Stamps(ts) <= now \/ (last # None /\ Stamps(ts) <= EndOf(last))

TickPaced == next_tick # None => next_tick <= now + (IF encoding = None THEN 0 ELSE Chunk)

AheadInv == TickPaced /\ OnTheWay(Way) /\ Follows(anchor)

LEMMA FrameIs ==
    ASSUME NEW f \in AudioFrame
    PROVE  /\ f.timestamp \in Nat /\ f.len \in Nat /\ f.len <= Chunk
           /\ EndOf(f) = f.timestamp + f.len
           /\ EndOf(f) \in Nat /\ EndOf(f) <= f.timestamp + Chunk
  <1>1. f.timestamp \in Nat /\ f.len \in 1 .. Chunk /\ Chunk \in Nat
    BY SourceAssumption DEF AudioFrame
  <1>. QED
    BY <1>1 DEF EndOf

LEMMA Longer ==
    ASSUME NEW q \in Seq(AudioFrame), NEW e \in AudioFrame
    PROVE  /\ Len(q) \in Nat /\ Append(q, e) \in Seq(AudioFrame) /\ Append(q, e) # <<>>
           /\ Len(Append(q, e)) = Len(q) + 1 /\ Append(q, e)[Len(q) + 1] = e
           /\ \A i \in 1 .. Len(q) : Append(q, e)[i] = q[i] /\ q[i] \in AudioFrame
           /\ q # <<>> => Len(q) \in 1 .. Len(q) /\ Append(q, e)[1] = q[1]
           /\ q = <<>> => Append(q, e)[1] = e
  <1>1. /\ Len(q) \in Nat /\ Append(q, e) \in Seq(AudioFrame)
        /\ Len(Append(q, e)) = Len(q) + 1 /\ Append(q, e)[Len(q) + 1] = e
        /\ \A i \in 1 .. Len(q) : Append(q, e)[i] = q[i] /\ q[i] \in AudioFrame
    OBVIOUS
  <1>2. Append(q, e) # <<>>
    BY <1>1, EmptySeq
  <1>3. q # <<>> => Len(q) \in 1 .. Len(q) /\ 1 \in 1 .. Len(q)
    BY <1>1, EmptySeq
  <1>4. q = <<>> => Len(q) = 0
    BY EmptySeq
  <1>. QED
    BY <1>1, <1>2, <1>3, <1>4

LEMMA Shorter ==
    ASSUME NEW q \in Seq(AudioFrame), q # <<>>
    PROVE  /\ Len(q) \in Nat /\ Len(q) >= 1 /\ Len(Tail(q)) = Len(q) - 1
           /\ Head(q) = q[1] /\ Tail(q) \in Seq(AudioFrame)
           /\ \A i \in 1 .. Len(q) - 1 : Tail(q)[i] = q[i + 1] /\ q[i + 1] \in AudioFrame
           /\ \A i \in 1 .. Len(q) : q[i] \in AudioFrame
  <1>1. Len(q) \in Nat /\ Len(q) >= 1
    BY EmptySeq
  <1>2. /\ Len(Tail(q)) = Len(q) - 1 /\ Head(q) = q[1] /\ Tail(q) \in Seq(AudioFrame)
        /\ \A i \in 1 .. Len(q) - 1 : Tail(q)[i] = q[i + 1]
    BY <1>1, HeadTailProperties
  <1>3. \A i \in 1 .. Len(q) : q[i] \in AudioFrame
    BY ElementOfSeq
  <1>4. \A i \in 1 .. Len(q) - 1 : i + 1 \in 1 .. Len(q)
    BY <1>1
  <1>. QED
    BY <1>1, <1>2, <1>3, <1>4

\* What is added at the end is at most a chunk further from those before.
LEMMA SpreadGrows ==
    ASSUME TypeOK, NEW q \in Seq(AudioFrame), NEW e \in AudioFrame, Spread(q),
           q # <<>> => e.timestamp <= EndOf(q[Len(q)]) \/ e.timestamp <= now
    PROVE  Spread(Append(q, e))
  <1>1. /\ Len(q) \in Nat /\ Len(Append(q, e)) = Len(q) + 1
        /\ Append(q, e)[Len(q) + 1] = e
        /\ \A i \in 1 .. Len(q) : Append(q, e)[i] = q[i] /\ q[i] \in AudioFrame
    BY Longer
  <1>2. SUFFICES ASSUME NEW i \in 1 .. Len(q)
                 PROVE  Apart(q[i], e, (Len(q) + 1) - i - 1)
    BY <1>1 DEF Spread
  <1>3. now \in Nat /\ Chunk \in Nat
    BY SourceAssumption DEF TypeOK
  <1>4. PICK l \in AudioFrame : l = q[Len(q)]
    BY <1>1
  <1>5. e.timestamp <= EndOf(l) \/ e.timestamp <= now
    BY <1>1, <1>4, EmptySeq
  <1>6. l.timestamp \in Nat /\ e.timestamp \in Nat /\ EndOf(l) \in Nat
        /\ EndOf(l) <= l.timestamp + Chunk /\ EndOf(q[i]) \in Nat
    BY <1>1, FrameIs
  <1>7. CASE i = Len(q)
    <2>1. (Len(q) + 1) - i - 1 = 0 /\ 0 * Chunk = 0
      BY <1>1, <1>3, <1>7
    <2>. QED
      BY <1>3, <1>4, <1>5, <1>6, <1>7, <2>1 DEF Apart
  <1>8. CASE i # Len(q)
    <2>. DEFINE n == Len(q) - i - 1
    <2>1. n \in Nat /\ (Len(q) + 1) - i - 1 = n + 1 /\ i < Len(q) /\ Len(q) \in 1 .. Len(q)
      BY <1>1, <1>8
    <2>2. Apart(q[i], l, n)
      BY <1>4, <2>1 DEF Spread
    <2>. HIDE DEF n
    <2>3. (n + 1) * Chunk = n * Chunk + Chunk /\ n * Chunk \in Nat
      BY <1>3, <2>1
    <2>4. PICK m \in Nat : m = n * Chunk
      BY <2>3
    <2>5. l.timestamp <= EndOf(q[i]) + m \/ l.timestamp <= now + m
      BY <2>2, <2>4 DEF Apart
    <2>6. PICK x \in Nat, y \in Nat, z \in Nat, w \in Nat :
             x = EndOf(q[i]) /\ y = l.timestamp /\ z = EndOf(l) /\ w = e.timestamp
      BY <1>6
    <2>7. w <= x + (m + Chunk) \/ w <= now + (m + Chunk)
      <3>1. CASE w <= now
        BY <1>3, <2>6, <3>1
      <3>2. CASE w <= z
        <4>1. w <= y + Chunk
          BY <1>3, <1>6, <2>6, <3>2
        <4>2. y <= x + m \/ y <= now + m
          BY <2>5, <2>6
        <4>3. now \in Nat /\ Chunk \in Nat /\ m \in Nat
          BY <1>3
        <4>. QED
          BY <4>1, <4>2, <4>3
      <3>. QED
        BY <1>5, <2>6, <3>1, <3>2
    <2>. QED
      BY <2>1, <2>3, <2>4, <2>6, <2>7 DEF Apart
  <1>. QED
    BY <1>7, <1>8

\* A turn of send's loop, or flush: a chunk is cut from where the last one ended, or from
\* now, and joins those on their way; or none is.
LEMMA CutAhead ==
    ASSUME TypeOK, TypeOK', TickPaced,
           NEW have, NEW ts \in ChunkTimestamper \cup {None}, NEW len \in Nat, Cut(have, ts, len),
           NEW q, q = tx', OnTheWay(q), Follows(ts), pending' # None, UNCHANGED <<now, next_tick, encoding>>
    PROVE  AheadInv'
  <1>. DEFINE stamper == IF ts = None THEN [start |-> now, samples_written |-> 0] ELSE ts
  <1>1. PICK s \in ChunkTimestamper : s = stamper
    <2>1. stamper \in ChunkTimestamper
      BY NoneAssumption, SourceAssumption DEF ChunkTimestamper, TypeOK
    <2>. QED
      BY <2>1
  <1>2. /\ anchor' = [s EXCEPT !.samples_written = @ + len]
        /\ pending'.len = len /\ pending'.timestamp = Stamps(s) /\ last' = pending'
    BY <1>1 DEF Cut, Stamps
  <1>3. Stamps(s) <= now \/ (last # None /\ Stamps(s) <= EndOf(last))
    <2>1. CASE ts = None
      BY <1>1, <2>1 DEF Stamps, TypeOK
    <2>2. CASE ts # None
      BY <1>1, <2>2 DEF Follows
    <2>. QED
      BY <2>1, <2>2
  <1>. HIDE DEF stamper
  <1>4. PICK e \in AudioFrame : e = pending'
    BY DEF TypeOK
  <1>5. q \in Seq(AudioFrame) /\ Way' = Append(q, e) /\ Append(q, e) # <<>>
        /\ Append(q, e)[Len(Append(q, e))] = e
        /\ IF q = <<>> THEN Append(q, e)[1] = e ELSE Append(q, e)[1] = q[1]
    <2>1. q \in Seq(AudioFrame) /\ Way' = Append(q, e)
      BY <1>4 DEF Way, TypeOK
    <2>. QED
      BY <2>1, Longer
  <1>6. Spread(Append(q, e))'
    <2>1. Spread(Append(q, e))
      BY <1>2, <1>3, <1>4, <1>5, SpreadGrows DEF OnTheWay
    <2>. QED
      BY <2>1 DEF Spread, Apart, EndOf
  <1>7. Reached(Append(q, e)[1].timestamp)'
    <2>1. CASE q = <<>>
      <3>1. Append(q, e)[1].timestamp = Stamps(s) /\ Stamps(s) \in Nat
        BY <1>2, <1>4, <1>5, <2>1, FrameIs
      <3>2. last # None => EndOf(last) \in Nat /\ Reached(EndOf(last))
        BY <2>1, FrameIs DEF OnTheWay, TypeOK
      <3>3. now \in Nat /\ Gap \in Nat /\ Chunk \in Nat /\ (next_tick # None => next_tick \in Nat)
        BY SourceAssumption DEF TypeOK
      <3>4. Reached(Stamps(s))
        BY <1>3, <3>1, <3>2, <3>3 DEF Reached
      <3>. QED
        BY <3>1, <3>4 DEF Reached
    <2>2. CASE q # <<>>
      BY <1>5, <2>2 DEF OnTheWay, Reached
    <2>. QED
      BY <2>1, <2>2
  <1>8. OnTheWay(Way)'
    BY <1>2, <1>4, <1>5, <1>6, <1>7 DEF OnTheWay
  <1>9. Follows(anchor)'
    <2>1. anchor'.start = s.start /\ anchor'.samples_written = s.samples_written + len
      BY <1>2 DEF ChunkTimestamper
    <2>2. s.start \in Nat /\ s.samples_written \in Nat
      BY DEF ChunkTimestamper
    <2>3. Stamps(anchor)' = EndOf(last)'
      BY <1>2, <2>1, <2>2 DEF Stamps, EndOf
    <2>4. EndOf(last)' \in Nat
      BY <1>2, <1>4, SourceAssumption DEF EndOf, AudioFrame
    <2>. QED
      BY <1>2, <2>3, <2>4 DEF Follows
  <1>. QED
    BY <1>8, <1>9 DEF AheadInv, TickPaced

LEMMA EmitAhead ==
    ASSUME SampleInv, TypeOK', TickPaced,
           NEW have \in Nat, have <= given',
           NEW ts \in ChunkTimestamper \cup {None}, NEW dropped, Emit(have, ts, dropped),
           NEW q, q = tx', OnTheWay(q), Follows(ts), UNCHANGED <<now, next_tick, encoding>>
    PROVE  AheadInv'
  <1>1. CASE have >= Chunk /\ Cut(have, ts, Chunk)
    <2>1. Chunk \in Nat /\ Chunk \in 1 .. Chunk /\ Chunk <= have
      BY <1>1, SourceAssumption
    <2>2. given' \in Nat
      BY SourceAssumption DEF TypeOK
    <2>3. pending' # None
      BY <1>1, <2>1, <2>2, CutStep, NoneAssumption
    <2>. QED
      BY <1>1, <2>1, <2>3, CutAhead DEF SampleInv
  <1>2. CASE anchor' = ts /\ pending' = None /\ UNCHANGED last
    <2>1. Way' = q
      BY <1>2 DEF Way
    <2>2. OnTheWay(q)'
      BY <1>2 DEF OnTheWay, Spread, Apart, Reached, EndOf
    <2>3. OnTheWay(Way)'
      BY <2>1, <2>2 DEF OnTheWay, Spread, Apart, Reached, EndOf
    <2>. QED
      BY <1>2, <2>3 DEF AheadInv, TickPaced, Follows, Stamps, EndOf
  <1>. QED
    BY <1>1, <1>2 DEF Emit

LEMMA SenderAhead ==
    ASSUME SampleInv, TypeOK', AheadInv, (\E n \in SendSize : Send(n)) \/ Flush \/ Hand
    PROVE  AheadInv'
  <1>1. TickPaced /\ OnTheWay(Way) /\ Follows(anchor) /\ Follows(None)
    BY DEF AheadInv, Follows
  <1>2. UNCHANGED <<now, next_tick, encoding>>
    BY DEF Send, Flush, Hand, encoderVars
  <1>3. PICK q : q = tx'
    OBVIOUS
  <1>4. /\ anchor \in ChunkTimestamper \cup {None} /\ None \in ChunkTimestamper \cup {None}
        /\ buffered \in Nat /\ given \in Nat /\ buffered <= given
    BY BufferedGiven, SourceAssumption DEF SampleInv, TypeOK
  <1>5. Way = q
    BY <1>3 DEF Way, Send, Flush, Hand
  <1>6. OnTheWay(q)
    BY <1>1, <1>5
  <1>7. ASSUME NEW n \in SendSize, Send(n)
        PROVE  AheadInv'
    <2>0. /\ n \in Nat /\ buffered + n \in Nat
          /\ n <= given' /\ buffered + n <= given'
      BY <1>4, <1>7, SourceAssumption DEF Send
    <2>1. CASE now - last_send > Gap
      <3>1. Emit(n, None, skipped + buffered)
        BY <1>7, <2>1 DEF Send
      <3>. QED
        BY <1>1, <1>2, <1>3, <1>4, <1>6, <2>0, <3>1, EmitAhead
    <2>2. CASE ~ (now - last_send > Gap)
      <3>1. Emit(buffered + n, anchor, skipped)
        BY <1>7, <2>2 DEF Send
      <3>. QED
        BY <1>1, <1>2, <1>3, <1>4, <1>6, <2>0, <3>1, EmitAhead
    <2>. QED
      BY <2>1, <2>2
  <1>8. CASE Flush
    <2>1. /\ Cut(buffered, anchor, buffered) /\ buffered \in 1 .. Chunk
          /\ buffered <= buffered /\ buffered <= given' /\ given' \in Nat
      BY <1>4, <1>8, SourceAssumption DEF Flush, SampleInv, TypeOK
    <2>2. pending' # None
      BY <1>4, <2>1, CutStep, NoneAssumption
    <2>. QED
      BY <1>1, <1>2, <1>3, <1>4, <1>6, <2>1, <2>2, CutAhead DEF SampleInv
  <1>9. CASE Hand
    <2>1. Emit(buffered, anchor, skipped) /\ buffered <= given'
      BY <1>4, <1>9 DEF Hand
    <2>. QED
      BY <1>1, <1>2, <1>3, <1>4, <1>6, <2>1, EmitAhead
  <1>. QED
    BY <1>7, <1>8, <1>9

\* What the thread receives has reached its tick, and so has what comes after it.
LEMMA ReceiveAhead ==
    ASSUME TypeOK, TypeOK', AheadInv, Receive
    PROVE  AheadInv'
  <1>1. PICK q : q = Way
    OBVIOUS
  <1>2. PICK h \in AudioFrame : h = tx[1]
    BY DEF Receive, TypeOK
  <1>3. /\ encoding = None /\ encoding' = h /\ next_tick' = Tick(h.len)
        /\ UNCHANGED <<now, anchor, last, pending>> /\ tx' = Tail(tx) /\ tx # <<>>
    BY <1>2 DEF Receive, senderVars, TypeOK
  <1>4. /\ q \in Seq(AudioFrame) /\ q # <<>> /\ q[1] = h /\ Way' = Tail(q)
        /\ Len(q) \in Nat /\ Len(q) >= 1 /\ Len(Tail(q)) = Len(q) - 1
        /\ \A i \in 1 .. Len(q) - 1 : Tail(q)[i] = q[i + 1] /\ q[i + 1] \in AudioFrame
    <2>1. tx \in Seq(AudioFrame) /\ pending \in AudioFrame \cup {None}
      BY DEF TypeOK
    <2>2. /\ q \in Seq(AudioFrame) /\ q # <<>> /\ q[1] = h
          /\ Way' = Tail(q)
      <3>1. CASE pending = None
        BY <1>1, <1>2, <1>3, <2>1, <3>1 DEF Way
      <3>2. CASE pending # None
        <4>1. q = Append(tx, pending) /\ Way' = Append(Tail(tx), pending)
          BY <1>1, <1>3, <3>2 DEF Way
        <4>2. q \in Seq(AudioFrame) /\ q # <<>> /\ q[1] = h
          BY <1>2, <1>3, <2>1, <3>2, <4>1, Longer
        <4>3. Tail(Append(tx, pending)) = Append(Tail(tx), pending)
          BY <1>3, <2>1, <3>2
        <4>. QED
          BY <4>1, <4>2, <4>3
      <3>. QED
        BY <3>1, <3>2
    <2>. QED
      BY <2>2, Shorter
  <1>5. OnTheWay(q) /\ Reached(h.timestamp) /\ last = q[Len(q)]
    BY <1>1, <1>4 DEF AheadInv, OnTheWay
  <1>6. /\ h.len \in Nat /\ h.len <= Chunk /\ h.timestamp \in Nat
        /\ EndOf(h) = h.timestamp + h.len
        /\ now \in Nat /\ Chunk \in Nat /\ Gap \in Nat
    BY FrameIs, SourceAssumption DEF TypeOK
  <1>7. next_tick # None => next_tick \in Nat /\ next_tick <= now
    BY <1>3 DEF AheadInv, TickPaced, TypeOK
  <1>8. /\ next_tick' \in Nat /\ next_tick' # None /\ next_tick' <= now + Chunk
        /\ now <= next_tick' + Gap
        /\ next_tick # None => next_tick + h.len <= next_tick'
    <2>1. CASE next_tick = None
      BY <1>3, <1>6, <2>1, NoneAssumption DEF Tick
    <2>2. CASE next_tick # None
      BY <1>3, <1>6, <1>7, <2>2, NoneAssumption, SMTT(60) DEF Tick
    <2>. QED
      BY <2>1, <2>2
  <1>9. TickPaced'
    BY <1>3, <1>8, NoneAssumption DEF TickPaced
  <1>10. EndOf(h) <= next_tick' + Gap + Chunk
    <2>0. PICK l \in Nat, b \in Nat, t \in Nat : l = h.len /\ b = h.timestamp /\ t = next_tick'
      BY <1>6, <1>8
    <2>1. CASE h.timestamp <= now
      <3>1. b <= now /\ now <= t + Gap /\ l <= Chunk
        BY <1>6, <1>8, <2>0, <2>1
      <3>2. b + l <= t + Gap + Chunk
        BY <1>6, <3>1
      <3>. QED
        BY <1>6, <2>0, <3>2
    <2>2. CASE next_tick # None /\ h.timestamp <= next_tick + Gap + Chunk
      BY <1>6, <1>7, <1>8, <2>2
    <2>. QED
      BY <1>5, <2>1, <2>2 DEF Reached
  <1>11. Spread(Tail(q))'
    <2>1. Spread(Tail(q))
      <3>1. SUFFICES ASSUME NEW i \in 1 .. Len(q) - 1, NEW j \in 1 .. Len(q) - 1, i < j
                     PROVE  Apart(q[i + 1], q[j + 1], j - i - 1)
        BY <1>4 DEF Spread
      <3>2. /\ i + 1 \in 1 .. Len(q) /\ j + 1 \in 1 .. Len(q) /\ i + 1 < j + 1
            /\ (j + 1) - (i + 1) - 1 = j - i - 1
        BY <1>4, <3>1
      <3>. QED
        BY <1>5, <3>2 DEF OnTheWay, Spread
    <2>. QED
      BY <1>3, <2>1 DEF Spread, Apart, EndOf
  <1>12. CASE Len(q) = 1
    <2>1. Tail(q) = <<>>
      BY <1>4, <1>12
    <2>2. Reached(EndOf(last))'
      BY <1>3, <1>4, <1>5, <1>8, <1>10, <1>12 DEF Reached, EndOf
    <2>. QED
      BY <1>3, <1>4, <1>5, <1>9, <1>11, <2>1, <2>2
         DEF AheadInv, OnTheWay, Follows, Stamps, EndOf
  <1>13. CASE Len(q) # 1
    <2>1. /\ Tail(q) # <<>> /\ Tail(q)[1] = q[2] /\ q[2] \in AudioFrame
          /\ Tail(q)[Len(Tail(q))] = q[Len(q)]
      <3>1. 1 \in 1 .. Len(q) - 1 /\ Len(q) - 1 \in 1 .. Len(q) - 1 /\ Len(q) - 1 + 1 = Len(q)
        BY <1>4, <1>13
      <3>2. Tail(q) = <<>> => Len(Tail(q)) = 0
        BY EmptySeq
      <3>3. Len(Tail(q)) # 0
        BY <1>4, <1>13
      <3>4. 1 + 1 = 2
        OBVIOUS
      <3>. QED
        BY <1>4, <3>1, <3>2, <3>3, <3>4
    <2>2. Apart(h, q[2], 0)
      <3>1. 1 \in 1 .. Len(q) /\ 2 \in 1 .. Len(q) /\ 2 - 1 - 1 = 0 /\ 1 < 2
        BY <1>4, <1>13
      <3>. QED
        BY <1>4, <1>5, <3>1 DEF OnTheWay, Spread
    <2>3. q[2].timestamp <= EndOf(h) \/ q[2].timestamp <= now
      <3>1. 0 * Chunk = 0 /\ EndOf(h) \in Nat
        BY <1>6
      <3>. QED
        BY <1>6, <2>2, <3>1 DEF Apart
    <2>4. Reached(q[2].timestamp)'
      <3>1. EndOf(h) \in Nat /\ q[2].timestamp \in Nat
        BY <2>1, FrameIs
      <3>. QED
        BY <1>3, <1>6, <1>8, <1>10, <2>3, <3>1 DEF Reached
    <2>. QED
      BY <1>3, <1>4, <1>5, <1>9, <1>11, <2>1, <2>4
         DEF AheadInv, OnTheWay, Follows, Stamps, EndOf, Reached
  <1>. QED
    BY <1>12, <1>13

\* The clock only brings what is ahead closer.
LEMMA ClockAhead ==
    ASSUME TypeOK, TypeOK', AheadInv, Broadcast \/ Pass
    PROVE  AheadInv'
  <1>1. PICK q : q = Way
    OBVIOUS
  <1>2. /\ now \in Nat /\ now' \in Nat /\ now <= now' /\ Chunk \in Nat /\ Gap \in Nat
        /\ UNCHANGED <<anchor, last, pending, tx, next_tick>>
    BY SourceAssumption DEF Broadcast, Pass, senderVars, TypeOK
  <1>3. /\ q \in Seq(AudioFrame) /\ Way' = q /\ OnTheWay(q)
        /\ \A i \in 1 .. Len(q) : q[i] \in AudioFrame
    <2>1. q \in Seq(AudioFrame)
      BY <1>1, Longer DEF Way, TypeOK
    <2>2. Way' = q /\ OnTheWay(q)
      BY <1>1, <1>2 DEF Way, AheadInv
    <2>. QED
      BY <2>1, <2>2, ElementOfSeq
  <1>4. TickPaced'
    <2>1. next_tick # None => next_tick \in Nat
      BY DEF TypeOK
    <2>2. CASE Broadcast
      BY <1>2, <2>1, <2>2 DEF TickPaced, Broadcast, Due
    <2>3. CASE Pass
      BY <1>2, <2>1, <2>3 DEF AheadInv, TickPaced, Pass
    <2>. QED
      BY <2>2, <2>3
  <1>5. Spread(q)'
    <2>1. SUFFICES ASSUME NEW i \in 1 .. Len(q), NEW j \in 1 .. Len(q), i < j
                   PROVE  Apart(q[i], q[j], j - i - 1)'
      BY <1>2 DEF Spread
    <2>2. Apart(q[i], q[j], j - i - 1)
      BY <1>3, <2>1 DEF OnTheWay, Spread
    <2>3. q[j].timestamp \in Nat /\ EndOf(q[i]) \in Nat
      BY <1>3, FrameIs
    <2>4. PICK m \in Int : m = (j - i - 1) * Chunk
      <3>1. j - i - 1 \in Int /\ Chunk \in Int
        BY <1>2, <1>3
      <3>. QED
        BY <3>1
    <2>5. q[j].timestamp <= EndOf(q[i]) + m \/ q[j].timestamp <= now' + m
      BY <1>2, <2>2, <2>3, <2>4 DEF Apart
    <2>. QED
      BY <2>4, <2>5 DEF Apart, EndOf
  <1>6. ASSUME NEW t \in Nat, Reached(t)
        PROVE  Reached(t)'
    BY <1>2, <1>6 DEF Reached
  <1>7. OnTheWay(q)'
    <2>1. CASE q # <<>>
      <3>1. q[1].timestamp \in Nat
        BY <1>3, <2>1, Shorter, FrameIs
      <3>2. Reached(q[1].timestamp)'
        BY <1>3, <1>6, <2>1, <3>1 DEF OnTheWay
      <3>. QED
        BY <1>2, <1>3, <1>5, <2>1, <3>2 DEF OnTheWay
    <2>2. CASE q = <<>>
      <3>1. last # None => EndOf(last) \in Nat
        BY FrameIs DEF TypeOK
      <3>2. last # None => Reached(EndOf(last))'
        BY <1>2, <1>3, <1>6, <2>2, <3>1 DEF OnTheWay, EndOf, Reached
      <3>. QED
        BY <1>2, <1>5, <2>2, <3>2 DEF OnTheWay
    <2>. QED
      BY <2>1, <2>2
  <1>8. Follows(anchor)'
    <2>1. anchor # None => Stamps(anchor) \in Nat
      BY DEF Stamps, ChunkTimestamper, TypeOK
    <2>. QED
      BY <1>2, <2>1 DEF AheadInv, Follows, Stamps, EndOf
  <1>. QED
    BY <1>3, <1>4, <1>7, <1>8 DEF AheadInv, OnTheWay, Spread, Apart, Reached, EndOf

LEMMA AheadInvNext == SampleInv /\ TypeOK' /\ AheadInv /\ [Next]_vars => AheadInv'
  <1>. SUFFICES ASSUME SampleInv, TypeOK', AheadInv, [Next]_vars
                PROVE  AheadInv'
    OBVIOUS
  <1>1. CASE UNCHANGED vars
    BY <1>1 DEF vars, senderVars, encoderVars, AheadInv, TickPaced, OnTheWay, Way, Spread,
                Apart, Reached, Follows, Stamps, EndOf
  <1>. QED
    BY <1>1, SenderAhead, ReceiveAhead, ClockAhead DEF Next, SampleInv

LEMMA AheadBounds == TypeOK /\ AheadInv => StampedAheadAtMost
  <1>. SUFFICES ASSUME TypeOK, AheadInv, last # None
                PROVE  EndOf(last) <= now + Gap + (ChannelSize + 3) * Chunk
    BY DEF StampedAheadAtMost
  <1>1. now \in Nat /\ Chunk \in Nat /\ Gap \in Nat /\ ChannelSize \in Nat /\ ChannelSize >= 1
    BY SourceAssumption DEF TypeOK
  <1>2. ASSUME NEW t \in Nat, Reached(t)
        PROVE  t <= now + Gap + 2 * Chunk
    BY <1>1, <1>2 DEF Reached, AheadInv, TickPaced, TypeOK
  <1>3. PICK z \in Nat : z = ChannelSize * Chunk
    BY <1>1
  <1>4. (ChannelSize + 3) * Chunk = z + 3 * Chunk /\ z >= Chunk
    BY <1>1, <1>3
  <1>5. PICK q : q = Way
    OBVIOUS
  <1>6. /\ q \in Seq(AudioFrame) /\ OnTheWay(q)
        /\ Len(q) \in Nat /\ Len(q) <= ChannelSize + 1
    <2>1. tx \in Seq(AudioFrame) /\ Len(tx) <= ChannelSize /\ Len(tx) \in Nat
      BY DEF TypeOK
    <2>2. CASE pending = None
      BY <1>1, <1>5, <2>1, <2>2 DEF Way, AheadInv
    <2>3. CASE pending # None
      <3>1. pending \in AudioFrame /\ q = Append(tx, pending)
        BY <1>5, <2>3 DEF Way, TypeOK
      <3>2. q \in Seq(AudioFrame) /\ Len(q) = Len(tx) + 1
        BY <2>1, <3>1, Longer
      <3>. QED
        BY <1>1, <1>5, <2>1, <3>2 DEF AheadInv
    <2>. QED
      BY <2>2, <2>3
  <1>7. CASE q = <<>>
    <2>1. EndOf(last) \in Nat
      BY FrameIs DEF TypeOK
    <2>2. EndOf(last) <= now + Gap + 2 * Chunk
      BY <1>2, <1>6, <1>7, <2>1 DEF OnTheWay
    <2>. QED
      BY <1>1, <1>4, <2>1, <2>2
  <1>8. CASE q # <<>>
    <2>1. Len(q) >= 1 /\ last = q[Len(q)] /\ last \in AudioFrame /\ q[1] \in AudioFrame
      BY <1>6, <1>8, Shorter DEF OnTheWay, TypeOK
    <2>2. PICK a \in Nat, b \in Nat : a = q[1].timestamp /\ b = last.timestamp
      BY <2>1, FrameIs
    <2>3. EndOf(last) \in Nat /\ EndOf(last) <= b + Chunk /\ EndOf(q[1]) \in Nat
          /\ EndOf(q[1]) <= a + Chunk /\ a <= now + Gap + 2 * Chunk
      BY <1>2, <1>6, <1>8, <2>1, <2>2, FrameIs DEF OnTheWay
    <2>4. CASE Len(q) = 1
      BY <1>1, <1>4, <2>1, <2>2, <2>3, <2>4
    <2>5. CASE Len(q) # 1
      <3>. DEFINE n == Len(q) - 1 - 1
      <3>1. n \in Nat /\ n + 1 <= ChannelSize /\ 1 < Len(q)
        <4>1. PICK l \in Nat : l = Len(q)
          BY <1>6
        <4>2. l >= 1 /\ l # 1 /\ l <= ChannelSize + 1
          BY <1>6, <2>1, <2>5, <4>1
        <4>. QED
          BY <1>1, <4>1, <4>2
      <3>2. Apart(q[1], q[Len(q)], n)
        <4>1. 1 \in 1 .. Len(q) /\ Len(q) \in 1 .. Len(q)
          BY <1>6, <3>1
        <4>. QED
          BY <1>6, <3>1, <4>1 DEF OnTheWay, Spread
      <3>. HIDE DEF n
      <3>3. PICK m \in Nat : m = n * Chunk
        BY <1>1, <3>1
      <3>4. m + Chunk <= z
        BY <1>1, <1>3, <3>1, <3>3
      <3>5. b <= EndOf(q[1]) + m \/ b <= now + m
        BY <2>1, <2>2, <3>2, <3>3 DEF Apart
      <3>. QED
        BY <1>1, <1>4, <2>2, <2>3, <3>4, <3>5
    <2>. QED
      BY <2>4, <2>5
  <1>. QED
    BY <1>7, <1>8

\* However fast an application pushes and however late the thread runs, no chunk is
\* stamped to end further in the future than a gap and the chunks on their way, for any
\* chunk, gap and channel.
THEOREM StampsStayNear == Spec => []StampedAheadAtMost
  <1>1. Init => AheadInv
    BY DEF Init, AheadInv, TickPaced, OnTheWay, Way, Spread, Follows
  <1>2. SampleInv => TypeOK
    BY DEF SampleInv
  <1>. QED
    BY <1>1, <1>2, SampleInvInit, SampleInvNext, AheadInvNext, AheadBounds, PTL DEF Spec
=============================================================================
