---------------------------- MODULE MediaPath_proofs ----------------------------
(* For any configurations, header, blocks, channels and bounds: the state      *)
(* keeps its types, a file is paced, no sample is put together from two, a     *)
(* chunk carries the time of its first sample, and what is not dropped is      *)
(* decoded in the order of the source, without a gap.                          *)
EXTENDS MediaPath, SequenceTheorems, TLAPS

-----------------------------------------------------------------------------
(* Arithmetic and sequences.                                                  *)

LEMMA Division ==
    ASSUME NEW a \in Nat, NEW n \in Nat \ {0}
    PROVE  /\ a \div n \in Nat /\ (a \div n) * n \in Nat
           /\ (a \div n) * n <= a /\ a < (a \div n) * n + n
           /\ a % n = a - (a \div n) * n
  OBVIOUS

\* The part j of q parts of length n begins and ends inside of them.
LEMMA PartInside ==
    ASSUME NEW a \in Nat, NEW n \in Nat \ {0}, NEW q \in Nat, NEW j \in 1 .. q, q * n <= a
    PROVE  /\ (j - 1) * n \in Nat /\ j * n \in Nat
           /\ j * n <= a /\ (j - 1) * n + n = j * n
  OBVIOUS

\* What a part of a sequence holds.
LEMMA Part ==
    ASSUME NEW S, NEW s \in Seq(S), NEW m \in Nat, NEW n \in Nat, m <= n, n <= Len(s)
    PROVE  /\ SubSeq(s, m + 1, n) \in Seq(S)
           /\ Len(SubSeq(s, m + 1, n)) = n - m
           /\ \A i \in 1 .. n - m : SubSeq(s, m + 1, n)[i] = s[m + i]
  <1>1. \A i \in m + 1 .. n : s[i] \in S
    BY ElementOfSeq
  <1>2. m + 1 \in Int /\ n \in Int /\ n - (m + 1) + 1 = n - m
    OBVIOUS
  <1>3. \A i \in 1 .. n - m : m + 1 + i - 1 = m + i
    OBVIOUS
  <1>. QED
    BY <1>1, <1>2, <1>3, SubSeqProperties

LEMMA LenIs ==
    ASSUME NEW S, NEW n \in Nat, NEW s \in [1 .. n -> S]
    PROVE  s \in Seq(S) /\ Len(s) = n
  OBVIOUS

LEMMA TailIs ==
    ASSUME NEW S, NEW q \in Seq(S), q # <<>>
    PROVE  /\ Tail(q) \in Seq(S) /\ Head(q) = q[1] /\ q[1] \in S
           /\ Len(q) \in Nat /\ Len(q) >= 1 /\ Len(Tail(q)) = Len(q) - 1
           /\ \A i \in 1 .. Len(q) - 1 : Tail(q)[i] = q[i + 1]
  <1>1. Len(q) \in Nat /\ Len(q) >= 1
    BY EmptySeq
  <1>2. 1 \in 1 .. Len(q)
    BY <1>1
  <1>. QED
    BY <1>1, <1>2, HeadTailProperties, ElementOfSeq

LEMMA AppendIs ==
    ASSUME NEW S, NEW q \in Seq(S), NEW e \in S
    PROVE  /\ Append(q, e) \in Seq(S) /\ Append(q, e) # <<>>
           /\ Len(q) \in Nat /\ Len(Append(q, e)) = Len(q) + 1
           /\ Append(q, e)[Len(q) + 1] = e
           /\ \A i \in 1 .. Len(q) : Append(q, e)[i] = q[i]
  OBVIOUS

-----------------------------------------------------------------------------
(* The encoders.                                                              *)

\* The blocks that fit into s, and what is left of it.
LEMMA BlocksAre ==
    ASSUME NEW S, NEW s \in Seq(S), NEW n \in Nat \ {0}
    PROVE  /\ Blocks(s, n) \in Seq(Seq(S)) /\ Len(Blocks(s, n)) = Len(s) \div n
           /\ Blocks(s, n) # <<>> => n <= Len(s) /\ Blocks(s, n)[1] = SubSeq(s, 1, n)
           /\ Rest(s, n) \in Seq(S) /\ Len(Rest(s, n)) < n /\ Len(Rest(s, n)) = Len(s) % n
           /\ Rest(s, n) = SubSeq(s, (Len(s) \div n) * n + 1, Len(s))
  <1>. DEFINE q == Len(s) \div n
              m == q * n
  <1>1. /\ Len(s) \in Nat /\ q \in Nat /\ m \in Nat
        /\ m <= Len(s) /\ Len(s) < m + n /\ Len(s) % n = Len(s) - m
    <2>1. Len(s) \in Nat
      BY LenProperties
    <2>. QED
      BY <2>1, Division
  <1>2. \A j \in 1 .. q : SubSeq(s, (j - 1) * n + 1, j * n) \in Seq(S)
    <2>. SUFFICES ASSUME NEW j \in 1 .. q
                  PROVE  SubSeq(s, (j - 1) * n + 1, j * n) \in Seq(S)
      OBVIOUS
    <2>. HIDE DEF q
    <2>1. /\ (j - 1) * n \in Nat /\ j * n \in Nat /\ j * n <= Len(s)
          /\ (j - 1) * n <= j * n
      <3>1. q * n <= Len(s)
        BY <1>1
      <3>2. q \in Nat /\ Len(s) \in Nat
        BY <1>1
      <3>3. /\ (j - 1) * n \in Nat /\ j * n \in Nat
            /\ j * n <= Len(s) /\ (j - 1) * n + n = j * n
        BY <3>1, <3>2, PartInside
      <3>. HIDE DEF m
      <3>. QED
        BY <3>3
    <2>. QED
      BY <2>1, Part
  <1>3. Blocks(s, n) = [j \in 1 .. q |-> SubSeq(s, (j - 1) * n + 1, j * n)]
    BY DEF Blocks
  <1>. HIDE DEF q
  <1>4. Blocks(s, n) \in Seq(Seq(S)) /\ Len(Blocks(s, n)) = q
    <2>1. Blocks(s, n) \in [1 .. q -> Seq(S)]
      BY <1>2, <1>3
    <2>. QED
      BY <1>1, <2>1, LenIs
  <1>5. ASSUME Blocks(s, n) # <<>>
        PROVE  n <= Len(s) /\ Blocks(s, n)[1] = SubSeq(s, 1, n)
    <2>1. q >= 1
      BY <1>1, <1>4, <1>5
    <2>2. n <= Len(s)
      BY <1>1, <2>1
    <2>3. Blocks(s, n)[1] = SubSeq(s, (1 - 1) * n + 1, 1 * n)
      BY <1>1, <1>3, <2>1
    <2>4. (1 - 1) * n + 1 = 1 /\ 1 * n = n
      OBVIOUS
    <2>. QED
      BY <2>2, <2>3, <2>4
  <1>6. Rest(s, n) = SubSeq(s, m + 1, Len(s))
    BY DEF Rest, q
  <1>. HIDE DEF m
  <1>7. Rest(s, n) \in Seq(S) /\ Len(Rest(s, n)) < n /\ Len(Rest(s, n)) = Len(s) % n
    <2>1. Rest(s, n) \in Seq(S) /\ Len(Rest(s, n)) = Len(s) - m
      BY <1>1, <1>6, Part
    <2>. QED
      BY <1>1, <2>1
  <1>. QED
    BY <1>4, <1>5, <1>6, <1>7 DEF q, m

Chunk == [stamp: Nat, opening: 1 .. MaxOpenings, first: 0 .. MaxUnits]

Packet == [stamp: Nat, blocks: Seq(Seq(Sample))]

\* The samples of a chunk that lies in what was written.
LEMMA SamplesAre ==
    ASSUME config \in Config, NEW c \in Chunk, c.first + ChunkUnits <= MaxUnits
    PROVE  /\ ChunkUnits \in Nat /\ ChunkUnits >= config.chunk
           /\ Samples(c) \in Seq(Sample)
           /\ Len(Samples(c)) = ChunkUnits \div config.server
           /\ config.source = config.server => Len(Samples(c)) = config.chunk
           /\ \A i \in 1 .. Len(Samples(c)) :
                 Samples(c)[i] = [opening |-> c.opening,
                                  unit    |-> c.first + (i - 1) * config.server,
                                  stamp   |-> c.stamp + i - 1]
  <1>. DEFINE n == ChunkUnits \div config.server
              f(i) == [opening |-> c.opening, unit |-> c.first + (i - 1) * config.server,
                       stamp |-> c.stamp + i - 1]
  <1>1. /\ config.server \in {1, 2} /\ config.source \in {1, 2} /\ config.chunk \in Nat \ {0}
    BY MediaAssumption DEF Configs
  <1>2. /\ ChunkUnits = config.chunk * config.source /\ ChunkUnits \in Nat
        /\ ChunkUnits >= config.chunk
    BY <1>1 DEF ChunkUnits
  <1>3. n \in Nat /\ n * config.server <= ChunkUnits
    BY <1>1, <1>2, Division
  <1>4. config.source = config.server => n = config.chunk
    BY <1>1, <1>2
  <1>5. \A i \in 1 .. n : f(i) \in Sample
    <2>. SUFFICES ASSUME NEW i \in 1 .. n
                  PROVE  f(i) \in Sample
      OBVIOUS
    <2>. HIDE DEF n
    <2>1. c.first \in 0 .. MaxUnits /\ c.stamp \in Nat /\ c.opening \in 1 .. MaxOpenings
      BY DEF Chunk
    <2>2. (i - 1) * config.server \in Nat /\ (i - 1) * config.server <= ChunkUnits
      BY <1>1, <1>2, <1>3
    <2>3. c.first + (i - 1) * config.server \in 0 .. MaxUnits
      BY <1>2, <2>1, <2>2, MediaAssumption
    <2>4. c.stamp + i - 1 \in Nat
      BY <1>3, <2>1
    <2>. QED
      BY <2>1, <2>3, <2>4 DEF Sample
  <1>6. Samples(c) = [i \in 1 .. n |-> f(i)]
    BY DEF Samples
  <1>. HIDE DEF n, f
  <1>7. Samples(c) \in Seq(Sample) /\ Len(Samples(c)) = n
    BY <1>3, <1>5, <1>6
  <1>8. \A i \in 1 .. n : Samples(c)[i] = f(i)
    BY <1>6
  <1>. QED
    BY <1>2, <1>4, <1>7, <1>8 DEF n, f

-----------------------------------------------------------------------------
(* Types.  A chunk lies in what was written, and only FLAC holds samples back. *)

SourceInv ==
    /\ source.open => source.opening >= 1
    /\ reader.pumping => source.open
    /\ reader.read <= source.given
    /\ \A i \in 1 .. Len(tx) : tx[i].first + ChunkUnits <= MaxUnits
    /\ \A i \in 1 .. Len(wire) : wire[i].blocks # <<>>
    /\ config.codec # "flac" => pending = <<>>

Types == TypeOK /\ SourceInv

\* What is known of the configuration.
LEMMA ConfigIs ==
    ASSUME config \in Config
    PROVE  /\ config.scheme \in Schemes /\ config.codec \in {"pcm", "f32lz4", "flac", "opus"}
           /\ config.wav \in BOOLEAN /\ config.chunk \in Nat \ {0}
           /\ config.source \in {1, 2} /\ config.server \in {1, 2}
           /\ ChunkUnits \in Nat /\ ChunkUnits >= config.chunk
           /\ config.source = 1 => ChunkUnits = config.chunk
           /\ config.source = 2 => ChunkUnits = 2 * config.chunk
           /\ Skipped \in Nat
           /\ Block["flac"] \in Nat \ {0} /\ Block["opus"] \in Nat \ {0}
  <1>1. config \in Configs
    BY MediaAssumption
  <1>2. /\ config.source \in {1, 2} /\ config.chunk \in Nat \ {0}
    BY <1>1 DEF Configs
  <1>3. /\ ChunkUnits \in Nat /\ ChunkUnits >= config.chunk
        /\ config.source = 1 => ChunkUnits = config.chunk
        /\ config.source = 2 => ChunkUnits = 2 * config.chunk
    BY <1>2 DEF ChunkUnits
  <1>4. Skipped \in Nat
    BY MediaAssumption DEF Skipped
  <1>5. Block["flac"] \in Nat \ {0} /\ Block["opus"] \in Nat \ {0}
    BY MediaAssumption
  <1>. QED
    BY <1>1, <1>3, <1>4, <1>5 DEF Configs

\* The chunk that is encoded next.
LEMMA HeadIs ==
    ASSUME Types, tx # <<>>
    PROVE  /\ Head(tx) = tx[1] /\ tx[1] \in Chunk /\ tx[1].first + ChunkUnits <= MaxUnits
           /\ Tail(tx) \in Seq(Chunk) /\ Len(tx) \in Nat /\ Len(tx) >= 1
           /\ Len(Tail(tx)) = Len(tx) - 1
           /\ \A i \in 1 .. Len(tx) - 1 : Tail(tx)[i] = tx[i + 1]
  <1>1. tx \in Seq(Chunk)
    BY DEF Types, TypeOK, Chunk
  <1>2. /\ Head(tx) = tx[1] /\ tx[1] \in Chunk
        /\ Tail(tx) \in Seq(Chunk) /\ Len(tx) \in Nat /\ Len(tx) >= 1
        /\ Len(Tail(tx)) = Len(tx) - 1
        /\ \A i \in 1 .. Len(tx) - 1 : Tail(tx)[i] = tx[i + 1]
    BY <1>1, TailIs
  <1>3. tx[1].first + ChunkUnits <= MaxUnits
    BY <1>2 DEF Types, SourceInv
  <1>. QED
    BY <1>2, <1>3

Waiting(c) == pending \o Samples(c)

\* The samples an encoder takes a chunk with: those that wait and those of the chunk.
LEMMA WaitingIs ==
    ASSUME Types, NEW c \in Chunk, c.first + ChunkUnits <= MaxUnits
    PROVE  /\ Samples(c) \in Seq(Sample) /\ Len(Samples(c)) \in Nat
           /\ pending \in Seq(Sample) /\ Len(pending) \in Nat
           /\ Waiting(c) \in Seq(Sample)
           /\ Len(Waiting(c)) = Len(pending) + Len(Samples(c))
           /\ \A i \in 1 .. Len(pending) : Waiting(c)[i] = pending[i]
           /\ \A i \in 1 .. Len(Samples(c)) : Waiting(c)[Len(pending) + i] = Samples(c)[i]
           /\ config.codec # "flac" => Waiting(c) = Samples(c)
  <1>1. pending \in Seq(Sample) /\ config \in Config
    BY DEF Types, TypeOK
  <1>2. Samples(c) \in Seq(Sample)
    BY <1>1, SamplesAre
  <1>3. Len(pending) \in Nat /\ Len(Samples(c)) \in Nat
    BY <1>1, <1>2, LenProperties
  <1>4. /\ Waiting(c) \in Seq(Sample)
        /\ Len(Waiting(c)) = Len(pending) + Len(Samples(c))
        /\ \A i \in 1 .. Len(pending) + Len(Samples(c)) :
              Waiting(c)[i] = IF i <= Len(pending) THEN pending[i] ELSE Samples(c)[i - Len(pending)]
    BY <1>1, <1>2, ConcatProperties DEF Waiting
  <1>5. \A i \in 1 .. Len(pending) : Waiting(c)[i] = pending[i]
    BY <1>3, <1>4
  <1>6. ASSUME NEW i \in 1 .. Len(Samples(c))
        PROVE  Waiting(c)[Len(pending) + i] = Samples(c)[i]
    <2>. DEFINE k == Len(pending) + i
    <2>1. k \in 1 .. Len(pending) + Len(Samples(c)) /\ ~ (k <= Len(pending)) /\ k - Len(pending) = i
      BY <1>3
    <2>. HIDE DEF k
    <2>2. Waiting(c)[k] = Samples(c)[k - Len(pending)]
      BY <1>4, <2>1
    <2>. QED
      BY <2>1, <2>2 DEF k
  <1>7. config.codec # "flac" => Waiting(c) = Samples(c)
    BY <1>2, ConcatEmptySeq DEF Types, SourceInv, Waiting
  <1>. QED
    BY <1>1, <1>2, <1>3, <1>4, <1>5, <1>6, <1>7

\* What an encoder makes of all the samples it has: the first len are its first block,
\* and what it keeps begins behind the first taken.
Parts(e, all, len, taken) ==
    /\ e.pending = SubSeq(all, taken + 1, Len(all))
    /\ e.blocks = <<>> =>
          \/ config.codec = "flac" /\ taken = 0
          \/ config.codec = "opus" /\ Len(all) < Block["opus"]
    /\ e.blocks # <<>> =>
          /\ e.blocks[1] = SubSeq(all, 1, len)
          /\ len = IF config.codec \in {"flac", "opus"} THEN Block[config.codec] ELSE Len(all)
    /\ Len(e.blocks) = 1 =>
          taken = len \/ (config.codec = "opus" /\ Len(all) % Block["opus"] # 0)

LEMMA EncodedIs ==
    ASSUME Types, NEW c \in Chunk, c.first + ChunkUnits <= MaxUnits
    PROVE  /\ Encoded(c).blocks \in Seq(Seq(Sample)) /\ Encoded(c).pending \in Seq(Sample)
           /\ Len(Encoded(c).pending) < Block["flac"]
           /\ config.codec # "flac" => Encoded(c).pending = <<>>
           /\ config.codec = "flac" => Len(Encoded(c).pending) = Len(Waiting(c)) % Block["flac"]
           /\ \E len, taken \in 0 .. Len(Waiting(c)) : Parts(Encoded(c), Waiting(c), len, taken)
  <1>. DEFINE all == Waiting(c)
              n   == Len(all)
  <1>1. /\ all \in Seq(Sample) /\ n \in Nat
        /\ config.codec # "flac" => all = Samples(c)
    BY WaitingIs, LenProperties
  <1>2. /\ config.codec \in {"pcm", "f32lz4", "flac", "opus"}
        /\ Block["flac"] \in Nat \ {0} /\ Block["opus"] \in Nat \ {0}
    BY ConfigIs DEF Types, TypeOK
  <1>3. CASE config.codec = "flac"
    <2>. DEFINE b == Block["flac"]
                q == n \div b
                t == q * b
    <2>1. /\ Encoded(c).blocks = Blocks(all, b) /\ Encoded(c).pending = Rest(all, b)
      BY <1>3 DEF Encoded, FlacEncode, Waiting
    <2>2. /\ Blocks(all, b) \in Seq(Seq(Sample)) /\ Len(Blocks(all, b)) = q
          /\ Blocks(all, b) # <<>> => b <= n /\ Blocks(all, b)[1] = SubSeq(all, 1, b)
          /\ Rest(all, b) \in Seq(Sample) /\ Len(Rest(all, b)) < b
          /\ Len(Rest(all, b)) = Len(all) % b
          /\ Rest(all, b) = SubSeq(all, t + 1, n)
      <3>. HIDE DEF all
      <3>. QED
        BY <1>1, <1>2, BlocksAre, ZenonT(60)
    <2>3. q \in Nat /\ t \in Nat /\ t <= n
      BY <1>1, <1>2, Division
    <2>4. (q = 0 => t = 0) /\ (q = 1 => t = b)
      BY <1>2
    <2>. HIDE DEF all, n, q, t
    <2>5. Blocks(all, b) = <<>> => q = 0
      BY <2>2, <2>3
    <2>6. PICK len \in 0 .. n : Blocks(all, b) # <<>> => len = b
      BY <1>1, <1>2, <2>2
    <2>7. Parts(Encoded(c), all, len, t)
      <3>1. Encoded(c).blocks = <<>> => t = 0
        BY <2>1, <2>4, <2>5
      <3>2. Encoded(c).blocks # <<>> => Encoded(c).blocks[1] = SubSeq(all, 1, len) /\ len = b
        BY <2>1, <2>2, <2>6
      <3>3. Len(Encoded(c).blocks) = 1 => t = len
        <4>1. Len(<<>>) = 0
          OBVIOUS
        <4>2. Blocks(all, b) = <<>> => q = 0
          BY <2>2, <4>1
        <4>3. ASSUME q = 1
              PROVE  t = len
          BY <2>4, <2>6, <4>2, <4>3
        <4>. QED
          BY <2>1, <2>2, <4>3
      <3>. QED
        BY <1>3, <2>1, <2>2, <3>1, <3>2, <3>3 DEF Parts, n
    <2>8. len \in 0 .. Len(all) /\ t \in 0 .. Len(all)
      BY <1>1, <2>3 DEF n
    <2>. QED
      BY <1>3, <2>1, <2>2, <2>7, <2>8 DEF all
  <1>4. CASE config.codec = "opus"
    <2>. DEFINE b == Block["opus"]
                q == n \div b
                t == q * b
    <2>1. /\ Encoded(c).blocks = Blocks(all, b) /\ Encoded(c).pending = <<>>
      BY <1>1, <1>4 DEF Encoded, OpusEncode
    <2>2. /\ Blocks(all, b) \in Seq(Seq(Sample)) /\ Len(Blocks(all, b)) = q
          /\ Blocks(all, b) # <<>> => b <= n /\ Blocks(all, b)[1] = SubSeq(all, 1, b)
      <3>. HIDE DEF all
      <3>. QED
        BY <1>1, <1>2, BlocksAre, ZenonT(60)
    <2>3. q \in Nat /\ t \in Nat /\ t <= n /\ n < t + b
      BY <1>1, <1>2, Division
    <2>4. (q = 0 => t = 0) /\ (q = 1 => t = b)
      BY <1>2
    <2>5. n % b # 0 \/ n = t
      BY <1>1, <1>2
    <2>. HIDE DEF all, n, q, t
    <2>6. Blocks(all, b) = <<>> => q = 0
      BY <2>2, <2>3
    <2>7. PICK len \in 0 .. n : Blocks(all, b) # <<>> => len = b
      BY <1>1, <1>2, <2>2
    <2>8. Parts(Encoded(c), all, len, n)
      <3>1. Encoded(c).blocks = <<>> => n < b
        BY <1>2, <2>1, <2>3, <2>4, <2>6
      <3>2. Encoded(c).blocks # <<>> => Encoded(c).blocks[1] = SubSeq(all, 1, len) /\ len = b
        BY <2>1, <2>2, <2>7
      <3>3. Len(Encoded(c).blocks) = 1 => n = len \/ n % b # 0
        BY <1>2, <2>1, <2>2, <2>4, <2>5, <2>7
      <3>4. SubSeq(all, n + 1, n) = <<>>
        BY <1>1, SubSeqEmpty
      <3>. QED
        BY <1>4, <2>1, <3>1, <3>2, <3>3, <3>4 DEF Parts, n
    <2>9. len \in 0 .. Len(all) /\ n \in 0 .. Len(all)
      BY <1>1 DEF n
    <2>10. <<>> \in Seq(Sample) /\ Len(<<>>) = 0
      OBVIOUS
    <2>. QED
      BY <1>2, <1>4, <2>1, <2>2, <2>8, <2>9, <2>10 DEF all
  <1>5. CASE config.codec \notin {"flac", "opus"}
    <2>. HIDE DEF all, n
    <2>1. Encoded(c).blocks = <<all>> /\ Encoded(c).pending = <<>>
      BY <1>1, <1>2, <1>5 DEF Encoded, PcmEncode, Lz4Encode
    <2>2. Parts(Encoded(c), all, n, n)
      <3>1. SubSeq(all, n + 1, n) = <<>>
        BY <1>1, SubSeqEmpty
      <3>2. SubSeq(all, 1, n) = all
        BY <1>1, SubSeqFull DEF n
      <3>3. Encoded(c).blocks # <<>> /\ Encoded(c).blocks[1] = all
        BY <2>1
      <3>. QED
        BY <1>5, <2>1, <3>1, <3>2, <3>3 DEF Parts, n
    <2>3. n \in 0 .. Len(all)
      BY <1>1 DEF n
    <2>4. <<>> \in Seq(Sample) /\ Len(<<>>) = 0 /\ <<all>> \in Seq(Seq(Sample))
      BY <1>1
    <2>. QED
      BY <1>2, <1>5, <2>1, <2>2, <2>3, <2>4 DEF all
  <1>. QED
    BY <1>3, <1>4, <1>5

\* The bounds are numbers, and so is what they bound.
LEMMA BoundsAre ==
    /\ AudioMax \in Nat \ {0} /\ WireMax \in Nat \ {0}
    /\ Header \in Nat /\ Second \in Nat
    /\ MaxTime \in Nat /\ MaxUnits \in Nat /\ MaxOpenings \in Nat
  BY MediaAssumption

LEMMA NumbersAre ==
    ASSUME Types
    PROVE  /\ now \in Nat /\ now <= MaxTime
           /\ source.opening \in Nat /\ source.opening <= MaxOpenings
           /\ source.given \in Nat /\ source.given <= MaxUnits
           /\ reader.read \in Nat /\ reader.read <= source.given /\ reader.wake \in Nat
           /\ ts.start \in Nat /\ ts.written \in Nat /\ Stamp \in Nat
  <1>1. /\ now \in Nat /\ now <= MaxTime
        /\ source.opening \in Nat /\ source.opening <= MaxOpenings
        /\ source.given \in Nat /\ source.given <= MaxUnits
        /\ reader.read \in Nat /\ reader.read <= source.given /\ reader.wake \in Nat
        /\ ts.start \in Nat /\ ts.written \in Nat
    BY BoundsAre DEF Types, TypeOK, SourceInv
  <1>2. Stamp \in Nat
    BY <1>1 DEF Stamp
  <1>. QED
    BY <1>1, <1>2

\* The parts of the state that neither the encoder nor the decoder touches.
LEMMA ReaderTypes ==
    ASSUME Types, UNCHANGED <<config, encoderVars>>, now' \in 0 .. MaxTime,
           source' \in [open: BOOLEAN, opening: 0 .. MaxOpenings, given: 0 .. MaxUnits, ended: BOOLEAN],
           reader' \in [pumping: BOOLEAN, read: 0 .. MaxUnits, wake: Nat, opened: 0 .. MaxTime],
           ts' \in [start: 0 .. MaxTime, written: Nat], UNCHANGED tx,
           source'.open => source'.opening >= 1, reader'.pumping => source'.open,
           reader'.read <= source'.given
    PROVE  Types'
  <1>1. TypeOK'
    BY DEF Types, TypeOK, encoderVars
  <1>2. SourceInv'
    BY DEF Types, SourceInv, encoderVars, ChunkUnits
  <1>. QED
    BY <1>1, <1>2 DEF Types

LEMMA InitTypes ==
    ASSUME Init
    PROVE  Types
  <1>1. TypeOK
    <2>1. <<>> \in Seq(Chunk) /\ <<>> \in Seq(Sample) /\ <<>> \in Seq(Packet) /\ Len(<<>>) = 0
      OBVIOUS
    <2>2. config \in Config /\ Block["flac"] \in Nat \ {0}
      BY ConfigIs DEF Init
    <2>3. /\ source \in [open: BOOLEAN, opening: 0 .. MaxOpenings, given: 0 .. MaxUnits, ended: BOOLEAN]
          /\ reader \in [pumping: BOOLEAN, read: 0 .. MaxUnits, wake: Nat, opened: 0 .. MaxTime]
          /\ ts \in [start: 0 .. MaxTime, written: Nat] /\ now \in 0 .. MaxTime
      BY BoundsAre DEF Init, Anchored
    <2>4. /\ tx = <<>> /\ pending = <<>> /\ wire = <<>> /\ lost \in BOOLEAN
          /\ decoded \in [stamp: Nat, samples: Seq(Sample)]
      BY <2>1 DEF Init
    <2>5. /\ tx \in Seq(Chunk) /\ pending \in Seq(Sample) /\ wire \in Seq(Packet)
          /\ Len(tx) <= AudioMax /\ Len(wire) <= WireMax /\ Len(pending) < Block["flac"]
      BY <2>1, <2>2, <2>4, BoundsAre
    <2>. QED
      BY <2>2, <2>3, <2>4, <2>5 DEF TypeOK, Chunk, Packet
  <1>2. SourceInv
    BY DEF Init, SourceInv
  <1>. QED
    BY <1>1, <1>2 DEF Types

LEMMA TickTypes ==
    ASSUME Types, Tick
    PROVE  Types'
  <1>1. now' \in 0 .. MaxTime
    BY BoundsAre, NumbersAre DEF Tick
  <1>. QED
    BY <1>1, ReaderTypes DEF Tick, readerVars, Types, TypeOK, SourceInv

LEMMA WriteTypes ==
    ASSUME Types, NEW n \in 1 .. MaxUnits, Write(n)
    PROVE  Types'
  <1>1. source.given \in 0 .. MaxUnits /\ reader.read \in 0 .. MaxUnits
    BY DEF Types, TypeOK
  <1>2. source.given + n \in 0 .. MaxUnits /\ reader.read <= source.given + n
    BY <1>1, MediaAssumption DEF Write, Types, SourceInv
  <1>3. source' = [source EXCEPT !.given = source.given + n]
    BY DEF Write
  <1>4. /\ source' \in [open: BOOLEAN, opening: 0 .. MaxOpenings, given: 0 .. MaxUnits, ended: BOOLEAN]
        /\ source'.open = source.open /\ source'.opening = source.opening
        /\ source'.given = source.given + n
    BY <1>2, <1>3 DEF Types, TypeOK
  <1>. QED
    BY <1>2, <1>4, ReaderTypes DEF Write, Types, TypeOK, SourceInv

LEMMA EndOfSourceTypes ==
    ASSUME Types, EndOfSource
    PROVE  Types'
  <1>1. /\ source' \in [open: BOOLEAN, opening: 0 .. MaxOpenings, given: 0 .. MaxUnits, ended: BOOLEAN]
        /\ source'.open = source.open /\ source'.opening = source.opening
        /\ source'.given = source.given
    BY DEF EndOfSource, Types, TypeOK
  <1>. QED
    BY <1>1, ReaderTypes DEF EndOfSource, Types, TypeOK, SourceInv

LEMMA OpenTypes ==
    ASSUME Types, Open
    PROVE  Types'
  <1>1. /\ source.opening + 1 \in 0 .. MaxOpenings /\ source.opening + 1 >= 1
        /\ now \in 0 .. MaxTime /\ now \in Nat /\ 0 \in 0 .. MaxUnits
    BY BoundsAre, NumbersAre DEF Open
  <1>2. /\ source' \in [open: BOOLEAN, opening: 0 .. MaxOpenings, given: 0 .. MaxUnits, ended: BOOLEAN]
        /\ source'.open /\ source'.opening = source.opening + 1 /\ source'.given = 0
    BY <1>1 DEF Open
  <1>3. /\ reader' \in [pumping: BOOLEAN, read: 0 .. MaxUnits, wake: Nat, opened: 0 .. MaxTime]
        /\ reader'.read = 0
    BY <1>1 DEF Open
  <1>4. ts' \in [start: 0 .. MaxTime, written: Nat]
    BY <1>1 DEF Open, Anchored, Types, TypeOK
  <1>5. now' = now /\ UNCHANGED <<config, tx, encoderVars>>
    BY DEF Open
  <1>. QED
    BY <1>1, <1>2, <1>3, <1>4, <1>5, ReaderTypes

LEMMA SkipHeaderTypes ==
    ASSUME Types, SkipHeader
    PROVE  Types'
  <1>. DEFINE read == IF source.given >= Skipped THEN Skipped ELSE source.given
  <1>1. /\ now \in 0 .. MaxTime /\ now \in Nat /\ source.given \in 0 .. MaxUnits
        /\ Skipped \in Nat
    BY MediaAssumption, ConfigIs DEF Types, TypeOK
  <1>2. read \in 0 .. MaxUnits /\ read <= source.given
    BY <1>1, MediaAssumption
  <1>3. reader' = [reader EXCEPT !.pumping = TRUE, !.wake = now, !.read = read]
    BY DEF SkipHeader
  <1>. HIDE DEF read
  <1>4. /\ reader' \in [pumping: BOOLEAN, read: 0 .. MaxUnits, wake: Nat, opened: 0 .. MaxTime]
        /\ reader'.read = read
    BY <1>1, <1>2, <1>3 DEF Types, TypeOK
  <1>. QED
    BY <1>1, <1>2, <1>4, ReaderTypes DEF SkipHeader, Types, TypeOK, SourceInv

LEMMA EndedTypes ==
    ASSUME Types, NEW scheme, NEW pause \in Nat, Ended(scheme, pause),
           ts' = ts \/ ts' = Anchored(now)
    PROVE  Types'
  <1>1. now \in 0 .. MaxTime /\ now + pause \in Nat
    BY MediaAssumption DEF Types, TypeOK
  <1>2. /\ source' \in [open: BOOLEAN, opening: 0 .. MaxOpenings, given: 0 .. MaxUnits, ended: BOOLEAN]
        /\ ~ source'.open /\ source'.given = source.given
    BY DEF Ended, Types, TypeOK
  <1>3. /\ reader' \in [pumping: BOOLEAN, read: 0 .. MaxUnits, wake: Nat, opened: 0 .. MaxTime]
        /\ ~ reader'.pumping /\ reader'.read = reader.read
    BY <1>1 DEF Ended, Types, TypeOK
  <1>4. ts' \in [start: 0 .. MaxTime, written: Nat]
    BY <1>1 DEF Anchored, Types, TypeOK
  <1>. QED
    BY <1>1, <1>2, <1>3, <1>4, ReaderTypes DEF Ended, Types, TypeOK, SourceInv

\* The chunk that is pumped, and what is left of the state.
Pumped == [stamp |-> Stamp, opening |-> source.opening, first |-> reader.read]

LEMMA PumpIs ==
    ASSUME Types, Pump
    PROVE  /\ Pumped \in Chunk /\ tx \in Seq(Chunk) /\ tx' = Append(tx, Pumped)
           /\ Pumped.first + ChunkUnits <= source.given /\ Len(tx) < AudioMax
           /\ source.open /\ reader.pumping /\ reader'.pumping
           /\ reader'.read = reader.read + ChunkUnits /\ reader'.read <= source.given
           /\ reader'.wake = reader.wake + config.chunk
           /\ Stamp \in Nat /\ Stamp' = Stamp + config.chunk
           /\ UNCHANGED <<now, config, source, encoderVars>>
  <1>1. /\ ts.start \in 0 .. MaxTime /\ ts.written \in Nat /\ Stamp \in Nat
    BY BoundsAre, NumbersAre DEF Types, TypeOK
  <1>2. /\ source.open /\ source.opening \in 1 .. MaxOpenings
        /\ reader.read \in 0 .. MaxUnits /\ source.given \in 0 .. MaxUnits
    BY MediaAssumption DEF Types, TypeOK, SourceInv, Pump
  <1>3. Pumped \in Chunk
    BY <1>1, <1>2 DEF Pumped, Chunk
  <1>4. ChunkUnits \in Nat /\ config.chunk \in Nat
    BY ConfigIs DEF Types, TypeOK
  <1>5. reader' = [reader EXCEPT !.read = reader.read + ChunkUnits, !.wake = reader.wake + config.chunk]
    BY DEF Pump
  <1>6. /\ reader'.pumping = reader.pumping /\ reader'.read = reader.read + ChunkUnits
        /\ reader'.wake = reader.wake + config.chunk
    BY <1>5 DEF Types, TypeOK
  <1>7. reader.read + ChunkUnits <= source.given
    BY <1>2, <1>4 DEF Pump
  <1>8. Stamp' = Stamp + config.chunk
    BY <1>1, <1>4, SMTT(60) DEF Pump, Advance, Stamp, Types, TypeOK
  <1>. QED
    BY <1>1, <1>2, <1>3, <1>6, <1>7, <1>8 DEF Pump, Pumped, Types, TypeOK, Chunk

LEMMA PumpTypes ==
    ASSUME Types, Pump
    PROVE  Types'
  <1>1. /\ Pumped \in Chunk /\ tx \in Seq(Chunk) /\ tx' = Append(tx, Pumped)
        /\ Pumped.first + ChunkUnits <= source.given /\ Len(tx) < AudioMax
        /\ reader'.read = reader.read + ChunkUnits /\ reader'.read <= source.given
        /\ UNCHANGED <<now, config, source, encoderVars>>
    BY PumpIs
  <1>2. source.given \in 0 .. MaxUnits /\ AudioMax \in Nat
    BY MediaAssumption DEF Types, TypeOK
  <1>3. /\ tx' \in Seq(Chunk) /\ Len(tx) \in Nat /\ Len(tx') = Len(tx) + 1
        /\ tx'[Len(tx) + 1] = Pumped /\ \A i \in 1 .. Len(tx) : tx'[i] = tx[i]
    <2>. HIDE DEF Chunk
    <2>. QED
      BY <1>1, AppendIs
  <1>4. /\ reader' \in [pumping: BOOLEAN, read: 0 .. MaxUnits, wake: Nat, opened: 0 .. MaxTime]
    <2>1. ChunkUnits \in Nat /\ config.chunk \in Nat /\ reader.wake \in Nat /\ reader.read \in Nat
      BY ConfigIs, NumbersAre DEF Types, TypeOK
    <2>2. reader.read + ChunkUnits <= MaxUnits
      <3>1. reader.read + ChunkUnits <= source.given /\ source.given <= MaxUnits
        BY <1>1, NumbersAre
      <3>. QED
        BY <2>1, <3>1, BoundsAre, NumbersAre
    <2>3. reader.read + ChunkUnits \in 0 .. MaxUnits /\ reader.wake + config.chunk \in Nat
      BY <2>1, <2>2, BoundsAre
    <2>. QED
      BY <2>3 DEF Pump, Types, TypeOK
  <1>5. ts' \in [start: 0 .. MaxTime, written: Nat]
    <2>1. config.chunk \in Nat /\ ts.written \in Nat
      BY ConfigIs DEF Types, TypeOK
    <2>2. ts.written + config.chunk \in Nat
      BY <2>1
    <2>. QED
      BY <2>2 DEF Pump, Advance, Types, TypeOK
  <1>6. Len(tx') <= AudioMax
    BY <1>1, <1>2, <1>3
  <1>7. TypeOK'
    BY <1>1, <1>3, <1>4, <1>5, <1>6 DEF Types, TypeOK, encoderVars, Chunk
  <1>8. \A i \in 1 .. Len(tx') : tx'[i].first + ChunkUnits' <= MaxUnits
    <2>1. Pumped.first + ChunkUnits <= MaxUnits
      <3>1. Pumped.first \in Nat /\ ChunkUnits \in Nat
        BY <1>1, ConfigIs DEF Chunk, Types, TypeOK
      <3>. QED
        BY <1>1, <1>2, <3>1, MediaAssumption
    <2>2. ChunkUnits' = ChunkUnits
      BY <1>1 DEF ChunkUnits
    <2>. QED
      BY <1>3, <2>1, <2>2 DEF Types, SourceInv
  <1>9. SourceInv'
    <2>1. reader'.pumping => source'.open
      BY <1>1 DEF Pump
    <2>. QED
      BY <1>1, <1>8, <2>1 DEF Types, SourceInv, encoderVars
  <1>. QED
    BY <1>7, <1>9 DEF Types

\* The chunk that is encoded, and what is sent of it.
Broadcast(c) ==
    IF Encoded(c).blocks = <<>> THEN wire
    ELSE Append(wire, [stamp |-> c.stamp, blocks |-> Encoded(c).blocks])

LEMMA BroadcastIs ==
    ASSUME Types, NEW c \in Chunk, c.first + ChunkUnits <= MaxUnits
    PROVE  /\ wire \in Seq(Packet) /\ Len(wire) \in Nat /\ Len(wire) <= WireMax
           /\ Encoded(c).blocks = <<>> => Broadcast(c) = wire
           /\ Encoded(c).blocks # <<>> =>
                 /\ Encoded(c).blocks \in Seq(Seq(Sample))
                 /\ Broadcast(c) \in Seq(Packet) /\ Len(Broadcast(c)) = Len(wire) + 1
                 /\ Broadcast(c)[Len(wire) + 1] = [stamp |-> c.stamp, blocks |-> Encoded(c).blocks]
                 /\ \A i \in 1 .. Len(wire) : Broadcast(c)[i] = wire[i]
  <1>. DEFINE blocks == Encoded(c).blocks
              packet == [stamp |-> c.stamp, blocks |-> blocks]
  <1>1. blocks \in Seq(Seq(Sample))
    BY EncodedIs
  <1>2. wire \in Seq(Packet) /\ Len(wire) <= WireMax /\ Len(wire) \in Nat
    BY DEF Types, TypeOK, Packet
  <1>3. packet \in Packet
    <2>1. c.stamp \in Nat
      BY DEF Chunk
    <2>. HIDE DEF blocks
    <2>. QED
      BY <1>1, <2>1 DEF Packet
  <1>4. Broadcast(c) = IF blocks = <<>> THEN wire ELSE Append(wire, packet)
    BY DEF Broadcast
  <1>5. /\ Append(wire, packet) \in Seq(Packet) /\ Len(Append(wire, packet)) = Len(wire) + 1
        /\ Append(wire, packet)[Len(wire) + 1] = packet
        /\ \A i \in 1 .. Len(wire) : Append(wire, packet)[i] = wire[i]
    <2>. HIDE DEF packet
    <2>. QED
      BY <1>2, <1>3, AppendIs
  <1>6. packet = [stamp |-> c.stamp, blocks |-> Encoded(c).blocks]
    OBVIOUS
  <1>. HIDE DEF packet
  <1>7. blocks # <<>> => Broadcast(c) = Append(wire, packet)
    BY <1>4
  <1>8. blocks = <<>> => Broadcast(c) = wire
    BY <1>4
  <1>. QED
    BY <1>1, <1>2, <1>5, <1>6, <1>7, <1>8

\* Encode sends what it makes of c, and drops the k oldest packets.
Sent(c, k) ==
    /\ tx # <<>> /\ c = tx[1] /\ c.first + ChunkUnits <= MaxUnits
    /\ tx' = Tail(tx) /\ pending' = Encoded(c).pending
    /\ wire' \in Seq(Packet) /\ Len(wire') <= WireMax
    /\ Broadcast(c) \in Seq(Packet) /\ Len(Broadcast(c)) \in Nat
    /\ Len(wire') = Len(Broadcast(c)) - k /\ Len(wire') \in Nat
    /\ \A i \in 1 .. Len(wire') : wire'[i] = Broadcast(c)[i + k]
    /\ UNCHANGED <<now, config, source, reader, ts, decoded>>

LEMMA EncodeIs ==
    ASSUME Types, Encode
    PROVE  /\ \E c \in Chunk, k \in {0, 1} : Sent(c, k) /\ (k = 0 \/ lost')
           /\ lost => lost'
           /\ lost' \in BOOLEAN
  <1>. DEFINE c   == tx[1]
              all == Broadcast(c)
  <1>1. /\ c \in Chunk /\ Head(tx) = c /\ c.first + ChunkUnits <= MaxUnits /\ tx # <<>>
    BY HeadIs DEF Encode
  <1>2. /\ tx' = Tail(tx) /\ pending' = Encoded(c).pending
        /\ wire' = IF Len(all) > WireMax THEN Tail(all) ELSE all
        /\ lost' = (lost \/ Len(all) > WireMax)
        /\ UNCHANGED <<now, config, source, reader, ts, decoded>>
    BY <1>1 DEF Encode, Broadcast
  <1>. HIDE DEF c, all
  <1>3. /\ all \in Seq(Packet) /\ Len(all) \in Nat /\ Len(all) <= WireMax + 1
    <2>. HIDE DEF Chunk, Packet
    <2>1. wire \in Seq(Packet) /\ Len(wire) \in Nat /\ Len(wire) <= WireMax /\ WireMax \in Nat
      BY <1>1, BroadcastIs, BoundsAre
    <2>2. CASE Encoded(c).blocks = <<>>
      <3>1. all = wire
        BY <1>1, <2>2, BroadcastIs DEF all
      <3>. QED
        BY <2>1, <3>1
    <2>3. CASE Encoded(c).blocks # <<>>
      <3>1. all \in Seq(Packet) /\ Len(all) = Len(wire) + 1
        BY <1>1, <2>3, BroadcastIs DEF all
      <3>. QED
        BY <2>1, <3>1
    <2>. QED
      BY <2>2, <2>3
  <1>4. WireMax \in Nat \ {0}
    BY BoundsAre
  <1>5. lost \in BOOLEAN
    BY DEF Types, TypeOK
  <1>6. lost' \in BOOLEAN
    <2>1. CASE Len(all) > WireMax
      BY <1>2, <2>1, Zenon
    <2>2. CASE ~ (Len(all) > WireMax)
      BY <1>2, <1>5, <2>2, Zenon
    <2>. QED
      BY <2>1, <2>2, Zenon
  <1>7. ASSUME Len(all) > WireMax
        PROVE  \E d \in Chunk, k \in {0, 1} : Sent(d, k) /\ (k = 0 \/ lost')
    <2>1. all # <<>>
      BY <1>3, <1>4, <1>7
    <2>2. /\ Tail(all) \in Seq(Packet) /\ Len(Tail(all)) = Len(all) - 1
          /\ \A i \in 1 .. Len(all) - 1 : Tail(all)[i] = all[i + 1]
      <3>. HIDE DEF Packet
      <3>. QED
        BY <1>3, <2>1, TailIs
    <2>3. wire' = Tail(all) /\ lost'
      BY <1>2, <1>7
    <2>4. Len(wire') <= WireMax /\ Len(wire') \in Nat /\ Len(wire') = Len(all) - 1
      BY <1>3, <1>4, <1>7, <2>2, <2>3
    <2>5. wire' \in Seq(Packet) /\ \A i \in 1 .. Len(wire') : wire'[i] = all[i + 1]
      BY <2>2, <2>3
    <2>6. Sent(c, 1)
      BY <1>1, <1>2, <1>3, <2>3, <2>4, <2>5 DEF Sent, all
    <2>. QED
      BY <1>1, <1>6, <2>3, <2>6, Zenon
  <1>8. ASSUME ~ (Len(all) > WireMax)
        PROVE  \E d \in Chunk, k \in {0, 1} : Sent(d, k) /\ (k = 0 \/ lost')
    <2>1. wire' = all
      BY <1>2, <1>8
    <2>3. Len(wire') <= WireMax /\ Len(wire') = Len(all) - 0 /\ Len(wire') \in Nat
      BY <1>3, <1>4, <1>8, <2>1
    <2>4. \A i \in 1 .. Len(wire') : wire'[i] = all[i + 0]
      BY <1>3, <2>1
    <2>5. Sent(c, 0)
      <3>1. wire' \in Seq(Packet) /\ Broadcast(c) \in Seq(Packet) /\ Len(Broadcast(c)) \in Nat
        BY <1>3, <2>1 DEF all
      <3>2. /\ Len(wire') = Len(Broadcast(c)) - 0
            /\ \A i \in 1 .. Len(wire') : wire'[i] = Broadcast(c)[i + 0]
        BY <2>3, <2>4 DEF all
      <3>3. UNCHANGED <<now, config, source, reader, ts, decoded>>
        BY <1>2
      <3>. QED
        BY <1>1, <1>2, <2>3, <3>1, <3>2, <3>3, Zenon DEF Sent, c
    <2>. QED
      BY <1>1, <1>6, <2>5, Zenon
  <1>9. lost => lost'
    BY <1>2, Zenon
  <1>. QED
    BY <1>6, <1>7, <1>8, <1>9, Zenon

LEMMA EncodeTypes ==
    ASSUME Types, Encode
    PROVE  Types'
  <1>0. PICK c \in Chunk, k \in {0, 1} : Sent(c, k)
    BY EncodeIs
  <1>1. /\ tx # <<>> /\ c = tx[1] /\ c.first + ChunkUnits <= MaxUnits
        /\ tx' = Tail(tx) /\ pending' = Encoded(c).pending
        /\ wire' \in Seq(Packet) /\ Len(wire') <= WireMax
        /\ Len(wire') = Len(Broadcast(c)) - k /\ Len(Broadcast(c)) \in Nat
        /\ \A i \in 1 .. Len(wire') : wire'[i] = Broadcast(c)[i + k]
        /\ lost' \in BOOLEAN
        /\ UNCHANGED <<now, config, source, reader, ts, decoded>>
    BY <1>0, EncodeIs DEF Sent
  <1>2. /\ tx' \in Seq(Chunk) /\ Len(tx) \in Nat /\ Len(tx') = Len(tx) - 1
        /\ \A i \in 1 .. Len(tx) - 1 : tx'[i] = tx[i + 1]
    BY <1>1, HeadIs
  <1>3. /\ pending' \in Seq(Sample) /\ Len(pending') < Block["flac"]
        /\ config.codec # "flac" => pending' = <<>>
    BY <1>1, EncodedIs
  <1>4. Len(tx) <= AudioMax /\ AudioMax \in Nat
    BY BoundsAre DEF Types, TypeOK
  <1>5. Len(tx') <= AudioMax
    BY <1>2, <1>4
  <1>6. TypeOK'
    BY <1>1, <1>2, <1>3, <1>5 DEF Types, TypeOK, Chunk, Packet
  <1>7. \A i \in 1 .. Len(tx') : tx'[i].first + ChunkUnits' <= MaxUnits
    BY <1>1, <1>2 DEF Types, SourceInv, ChunkUnits
  <1>8. \A i \in 1 .. Len(Broadcast(c)) : Broadcast(c)[i].blocks # <<>>
    <2>1. CASE Encoded(c).blocks = <<>>
      BY <1>1, <2>1, BroadcastIs DEF Types, SourceInv
    <2>2. CASE Encoded(c).blocks # <<>>
      <3>1. /\ Len(Broadcast(c)) = Len(wire) + 1 /\ Len(wire) \in Nat
            /\ Broadcast(c)[Len(wire) + 1] = [stamp |-> c.stamp, blocks |-> Encoded(c).blocks]
            /\ \A i \in 1 .. Len(wire) : Broadcast(c)[i] = wire[i]
        BY <1>1, <2>2, BroadcastIs
      <3>2. Broadcast(c)[Len(wire) + 1].blocks = Encoded(c).blocks
        BY <3>1
      <3>. QED
        BY <2>2, <3>1, <3>2 DEF Types, SourceInv
    <2>. QED
      BY <2>1, <2>2
  <1>9. \A i \in 1 .. Len(wire') : wire'[i].blocks # <<>>
    BY <1>1, <1>8
  <1>10. SourceInv'
    BY <1>1, <1>3, <1>7, <1>9 DEF Types, SourceInv
  <1>. QED
    BY <1>6, <1>10 DEF Types

\* What the client decodes, and what is left on its way.
LEMMA DecodeIs ==
    ASSUME Types, Decode
    PROVE  /\ wire # <<>> /\ wire[1] \in Packet /\ wire[1].blocks # <<>>
           /\ Head(wire[1].blocks) = wire[1].blocks[1] /\ wire[1].blocks[1] \in Seq(Sample)
           /\ decoded' = [stamp |-> wire[1].stamp, samples |-> Head(wire[1].blocks)]
           /\ lost' = (Len(wire[1].blocks) > 1)
           /\ wire' \in Seq(Packet) /\ Len(wire) \in Nat /\ Len(wire) >= 1
           /\ Len(wire') = Len(wire) - 1 /\ Len(wire) <= WireMax
           /\ \A i \in 1 .. Len(wire) - 1 : wire'[i] = wire[i + 1]
           /\ UNCHANGED <<now, config, readerVars, pending>>
  <1>1. wire \in Seq(Packet) /\ wire # <<>> /\ Len(wire) <= WireMax
    BY DEF Decode, Types, TypeOK, Packet
  <1>2. /\ Tail(wire) \in Seq(Packet) /\ Head(wire) = wire[1] /\ wire[1] \in Packet
        /\ Len(wire) \in Nat /\ Len(wire) >= 1 /\ Len(Tail(wire)) = Len(wire) - 1
        /\ \A i \in 1 .. Len(wire) - 1 : Tail(wire)[i] = wire[i + 1]
    <2>. HIDE DEF Packet
    <2>. QED
      BY <1>1, TailIs
  <1>3. wire[1].blocks # <<>>
    BY <1>2 DEF Types, SourceInv
  <1>4. wire[1].blocks \in Seq(Seq(Sample))
    BY <1>2 DEF Packet
  <1>5. Head(wire[1].blocks) = wire[1].blocks[1] /\ wire[1].blocks[1] \in Seq(Sample)
    BY <1>3, <1>4, TailIs
  <1>. QED
    BY <1>1, <1>2, <1>3, <1>5 DEF Decode

LEMMA DecodeTypes ==
    ASSUME Types, Decode
    PROVE  Types'
  <1>1. /\ wire # <<>> /\ wire[1] \in Packet
        /\ Head(wire[1].blocks) \in Seq(Sample)
        /\ decoded' = [stamp |-> wire[1].stamp, samples |-> Head(wire[1].blocks)]
        /\ lost' = (Len(wire[1].blocks) > 1)
        /\ wire' \in Seq(Packet) /\ Len(wire) \in Nat /\ Len(wire) >= 1
        /\ Len(wire') = Len(wire) - 1 /\ Len(wire) <= WireMax
        /\ \A i \in 1 .. Len(wire) - 1 : wire'[i] = wire[i + 1]
        /\ UNCHANGED <<now, config, readerVars, pending>>
    BY DecodeIs
  <1>2. decoded' \in [stamp: Nat, samples: Seq(Sample)]
    BY <1>1 DEF Packet
  <1>3. lost' \in BOOLEAN
    <2>1. (Len(wire[1].blocks) > 1) \in BOOLEAN
      OBVIOUS
    <2>2. lost' = (Len(wire[1].blocks) > 1)
      BY <1>1
    <2>. QED
      BY <2>1, <2>2, Zenon
  <1>4. Len(wire') <= WireMax
    BY <1>1, BoundsAre
  <1>5. TypeOK'
    BY <1>1, <1>2, <1>3, <1>4 DEF Types, TypeOK, readerVars, Packet
  <1>6. \A i \in 1 .. Len(wire') : wire'[i].blocks # <<>>
    BY <1>1 DEF Types, SourceInv
  <1>7. SourceInv'
    BY <1>1, <1>6 DEF Types, SourceInv, readerVars, ChunkUnits
  <1>. QED
    BY <1>5, <1>7 DEF Types

LEMMA StepTypes ==
    ASSUME Types, [Next]_vars
    PROVE  Types'
  <1>1. CASE Tick
    BY <1>1, TickTypes
  <1>2. CASE \E n \in 1 .. MaxUnits : Write(n)
    BY <1>2, WriteTypes
  <1>3. CASE EndOfSource
    BY <1>3, EndOfSourceTypes
  <1>4. CASE Open
    BY <1>4, OpenTypes
  <1>5. CASE SkipHeader
    BY <1>5, SkipHeaderTypes
  <1>6. CASE Pump
    BY <1>6, PumpTypes
  <1>7. CASE \/ PipeEnded \/ FileEnded \/ TcpEnded
             \/ ProcessEnded \/ LibrespotEnded \/ AirplayEnded
    <2>1. Second \in Nat /\ 0 \in Nat /\ 2 * Second \in Nat
      BY BoundsAre
    <2>. QED
      BY <1>7, <2>1, EndedTypes DEF PipeEnded, FileEnded, TcpEnded,
         ProcessEnded, LibrespotEnded, AirplayEnded
  <1>8. CASE Encode
    BY <1>8, EncodeTypes
  <1>9. CASE Decode
    BY <1>9, DecodeTypes
  <1>10. CASE UNCHANGED vars
    BY <1>10 DEF vars, readerVars, encoderVars, Types, TypeOK, SourceInv, ChunkUnits
  <1>. QED
    BY <1>1, <1>2, <1>3, <1>4, <1>5, <1>6, <1>7, <1>8, <1>9, <1>10 DEF Next

\* What every variable of the pipeline holds, the bounded channel to the encoder and the
\* broadcast among them, and that FLAC never keeps a whole block back (pump_pcm,
\* FlacEncoder::encode, spawn_stream_encoder).
THEOREM MediaTypeCorrect == Spec => []TypeOK
  <1>1. Init => Types
    BY InitTypes
  <1>2. Types /\ [Next]_vars => Types'
    BY StepTypes
  <1>3. Types => TypeOK
    BY DEF Types
  <1>. QED
    BY <1>1, <1>2, <1>3, PTL DEF Spec

-----------------------------------------------------------------------------
(* The pace of a file.  Its stamps count the same frames as its interval, and    *)
(* begin no later: where the reader wakes next when it pumps, now otherwise.     *)

PacedInv ==
    config.scheme = "file" =>
        /\ \A i \in 1 .. Len(tx) : tx[i].stamp <= now
        /\ Stamp <= IF reader.pumping THEN reader.wake ELSE now

\* A step that leaves the reader's pace alone, and tx or takes the first chunk of it.
LEMMA PaceKept ==
    ASSUME Types, PacedInv, now' \in Nat, now <= now', UNCHANGED <<config, ts>>,
           reader'.pumping = reader.pumping, reader'.wake = reader.wake,
           tx' = tx \/ (tx # <<>> /\ tx' = Tail(tx))
    PROVE  PacedInv'
  <1>1. /\ Len(tx) \in Nat /\ \A i \in 1 .. Len(tx) : tx[i].stamp \in Nat
        /\ now \in Nat /\ Stamp \in Nat /\ reader.wake \in Nat
    <2>1. tx \in Seq(Chunk)
      BY DEF Types, TypeOK, Chunk
    <2>2. \A i \in 1 .. Len(tx) : tx[i] \in Chunk
      BY <2>1, ElementOfSeq
    <2>. QED
      BY <2>1, <2>2, NumbersAre, LenProperties DEF Chunk
  <1>2. /\ Len(tx') \in Nat
        /\ \A i \in 1 .. Len(tx') : \E k \in 1 .. Len(tx) : tx'[i] = tx[k]
    <2>1. CASE tx' = tx
      BY <1>1, <2>1
    <2>2. CASE tx # <<>> /\ tx' = Tail(tx)
      <3>1. /\ Len(tx') = Len(tx) - 1 /\ Len(tx) >= 1
            /\ \A i \in 1 .. Len(tx) - 1 : tx'[i] = tx[i + 1]
        BY <2>2, HeadIs
      <3>2. \A i \in 1 .. Len(tx') : i + 1 \in 1 .. Len(tx) /\ tx'[i] = tx[i + 1]
        BY <1>1, <3>1
      <3>. QED
        BY <1>1, <3>1, <3>2
    <2>. QED
      BY <2>1, <2>2
  <1>3. Stamp' = Stamp
    BY DEF Stamp
  <1>4. ASSUME config'.scheme = "file", NEW i \in 1 .. Len(tx')
        PROVE  tx'[i].stamp <= now'
    <2>1. PICK k \in 1 .. Len(tx) : tx'[i] = tx[k]
      BY <1>2
    <2>2. tx[k].stamp <= now /\ tx[k].stamp \in Nat
      BY <1>1, <1>4 DEF PacedInv
    <2>. QED
      BY <1>1, <2>1, <2>2
  <1>5. ASSUME config'.scheme = "file"
        PROVE  Stamp' <= IF reader'.pumping THEN reader'.wake ELSE now'
    BY <1>1, <1>3, <1>5 DEF PacedInv
  <1>. QED
    BY <1>4, <1>5 DEF PacedInv

LEMMA PaceStarts ==
    ASSUME Init
    PROVE  PacedInv
  BY DEF Init, PacedInv, Stamp, Anchored

LEMMA OpenPaces ==
    ASSUME Types, PacedInv, Open
    PROVE  PacedInv'
  <1>1. SUFFICES ASSUME config.scheme = "file"
                 PROVE  PacedInv'
    BY DEF Open, PacedInv
  <1>2. Stamp' = Stamp /\ ~ reader'.pumping /\ UNCHANGED <<now, config, tx>>
    BY <1>1 DEF Open, Stamp
  <1>3. ~ reader.pumping
    BY DEF Open, Types, SourceInv
  <1>. QED
    BY <1>1, <1>2, <1>3 DEF PacedInv

LEMMA SkipHeaderPaces ==
    ASSUME Types, PacedInv, SkipHeader
    PROVE  PacedInv'
  <1>1. Stamp' = Stamp /\ reader'.wake = now /\ UNCHANGED <<now, config, tx>> /\ ~ reader.pumping
    BY DEF SkipHeader, Stamp, Types, TypeOK
  <1>. QED
    BY <1>1 DEF PacedInv

LEMMA PumpPaces ==
    ASSUME Types, PacedInv, Pump
    PROVE  PacedInv'
  <1>1. SUFFICES ASSUME config.scheme = "file"
                 PROVE  PacedInv'
    BY DEF Pump, PacedInv
  <1>2. /\ tx \in Seq(Chunk) /\ Pumped \in Chunk /\ tx' = Append(tx, Pumped)
        /\ reader.pumping /\ reader'.pumping /\ reader'.wake = reader.wake + config.chunk
        /\ Stamp \in Nat /\ Stamp' = Stamp + config.chunk
        /\ UNCHANGED <<now, config>>
    BY PumpIs
  <1>3. now >= reader.wake /\ Stamp <= reader.wake
    BY <1>1, <1>2 DEF Pump, PacedInv
  <1>4. now \in Nat /\ reader.wake \in Nat /\ config.chunk \in Nat
    BY NumbersAre, ConfigIs DEF Types, TypeOK
  <1>5. Pumped.stamp <= now
    BY <1>2, <1>3, <1>4 DEF Pumped
  <1>6. /\ Len(tx) \in Nat /\ Len(tx') = Len(tx) + 1
        /\ tx'[Len(tx) + 1] = Pumped /\ \A i \in 1 .. Len(tx) : tx'[i] = tx[i]
    <2>. HIDE DEF Chunk
    <2>. QED
      BY <1>2, AppendIs
  <1>7. \A i \in 1 .. Len(tx') : tx'[i].stamp <= now'
    BY <1>1, <1>2, <1>5, <1>6 DEF PacedInv
  <1>8. Stamp' <= reader'.wake
    BY <1>2, <1>3, <1>4
  <1>. QED
    BY <1>2, <1>7, <1>8 DEF PacedInv

LEMMA EndedPaces ==
    ASSUME Types, PacedInv,
           \/ PipeEnded \/ FileEnded \/ TcpEnded \/ ProcessEnded \/ LibrespotEnded \/ AirplayEnded
    PROVE  PacedInv'
  <1>1. SUFFICES ASSUME config.scheme = "file"
                 PROVE  PacedInv'
    BY DEF PipeEnded, FileEnded, TcpEnded, ProcessEnded, LibrespotEnded, AirplayEnded,
           Ended, PacedInv
  <1>2. FileEnded
    BY <1>1 DEF PipeEnded, TcpEnded, ProcessEnded, LibrespotEnded, AirplayEnded, Ended
  <1>3. ts' = Anchored(now) /\ UNCHANGED <<now, config, tx>>
    BY <1>2 DEF FileEnded, Ended
  <1>4. ~ reader'.pumping
    BY <1>2 DEF FileEnded, Ended, Types, TypeOK
  <1>5. Stamp' = now
    BY <1>3, NumbersAre DEF Stamp, Anchored
  <1>6. now <= now
    BY NumbersAre
  <1>. QED
    BY <1>1, <1>3, <1>4, <1>5, <1>6 DEF PacedInv

LEMMA StepPaces ==
    ASSUME Types, PacedInv, [Next]_vars
    PROVE  PacedInv'
  <1>1. now \in Nat /\ now <= now /\ now <= now + 1 /\ now + 1 \in Nat
    BY NumbersAre
  <1>2. CASE Tick
    BY <1>1, <1>2, PaceKept DEF Tick, readerVars
  <1>3. CASE \E n \in 1 .. MaxUnits : Write(n)
    BY <1>1, <1>3, PaceKept DEF Write
  <1>4. CASE EndOfSource
    BY <1>1, <1>4, PaceKept DEF EndOfSource
  <1>5. CASE Open
    BY <1>5, OpenPaces
  <1>6. CASE SkipHeader
    BY <1>6, SkipHeaderPaces
  <1>7. CASE Pump
    BY <1>7, PumpPaces
  <1>8. CASE \/ PipeEnded \/ FileEnded \/ TcpEnded
             \/ ProcessEnded \/ LibrespotEnded \/ AirplayEnded
    BY <1>8, EndedPaces
  <1>9. CASE Encode
    BY <1>1, <1>9, PaceKept DEF Encode
  <1>10. CASE Decode
    BY <1>1, <1>10, PaceKept DEF Decode, readerVars
  <1>11. CASE UNCHANGED vars
    BY <1>1, <1>11, PaceKept DEF vars, readerVars
  <1>. QED
    BY <1>2, <1>3, <1>4, <1>5, <1>6, <1>7, <1>8, <1>9, <1>10, <1>11 DEF Next

\* No chunk of a file is stamped ahead of the clock, however late the reader's interval
\* ticks and however often the file is opened again (pump_pcm, ChunkTimestamper::reset).
THEOREM FilePaced == Spec => []PacedBehind
  <1>1. Init => Types /\ PacedInv
    BY InitTypes, PaceStarts
  <1>2. Types /\ PacedInv /\ [Next]_vars => (Types /\ PacedInv)'
    BY StepTypes, StepPaces
  <1>3. Types /\ PacedInv => PacedBehind
    <2>1. Types => DOMAIN tx = 1 .. Len(tx)
      BY LenProperties DEF Types, TypeOK
    <2>. QED
      BY <2>1 DEF PacedInv, PacedBehind
  <1>. QED
    BY <1>1, <1>2, <1>3, PTL DEF Spec

-----------------------------------------------------------------------------
(* Frames.  Everything on the way begins where a frame of the source does; the  *)
(* reader stands on one too, unless the source ended inside of the header.      *)

Whole(u)    == u >= Skipped /\ (u - Skipped) % config.source = 0
WholeAll(s) == \A i \in 1 .. Len(s) : Whole(s[i].unit)

FramesInv ==
    Configured =>
        /\ reader.pumping => Whole(reader.read) \/ (source.ended /\ reader.read = source.given)
        /\ \A i \in 1 .. Len(tx) : Whole(tx[i].first)
        /\ WholeAll(pending)
        /\ \A i \in 1 .. Len(wire) : WholeAll(Head(wire[i].blocks))
        /\ WholeAll(decoded.samples)

\* No step configures the source anew.
LEMMA ConfigKept ==
    ASSUME [Next]_vars
    PROVE  config' = config
  BY DEF Next, vars, readerVars, encoderVars, Tick, Write, EndOfSource, Open, SkipHeader, Pump,
         PipeEnded, FileEnded, TcpEnded, ProcessEnded, LibrespotEnded, AirplayEnded, Ended,
         Encode, Decode

LEMMA WholeKept ==
    ASSUME config' = config
    PROVE  /\ Configured' = Configured /\ Skipped' = Skipped /\ ChunkUnits' = ChunkUnits
           /\ \A u : Whole(u) => (u >= Skipped' /\ (u - Skipped') % config'.source = 0)
  <1>1. Configured' = Configured /\ Skipped' = Skipped /\ ChunkUnits' = ChunkUnits
    BY DEF Configured, Skipped, ChunkUnits
  <1>. QED
    BY <1>1 DEF Whole

\* Some frames behind a whole one begins a whole one.
LEMMA FramesOn ==
    ASSUME config \in Config, NEW u \in Nat, Whole(u), NEW k \in Nat
    PROVE  Whole(u + k * config.source)
  <1>1. config.source \in {1, 2} /\ Skipped \in Nat
    BY ConfigIs
  <1>2. CASE config.source = 1
    BY <1>1, <1>2 DEF Whole
  <1>3. CASE config.source = 2
    BY <1>1, <1>3 DEF Whole
  <1>. QED
    BY <1>1, <1>2, <1>3

LEMMA WholePart ==
    ASSUME NEW s \in Seq(Sample), WholeAll(s), NEW m \in Nat, NEW n \in Nat, m <= n, n <= Len(s)
    PROVE  WholeAll(SubSeq(s, m + 1, n))
  <1>1. /\ Len(SubSeq(s, m + 1, n)) = n - m
        /\ \A i \in 1 .. n - m : SubSeq(s, m + 1, n)[i] = s[m + i]
    BY Part
  <1>2. \A i \in 1 .. n - m : m + i \in 1 .. Len(s)
    BY LenProperties
  <1>. QED
    BY <1>1, <1>2 DEF WholeAll

\* What an encoder makes of whole frames.
LEMMA EncodedWhole ==
    ASSUME Types, Configured, NEW c \in Chunk, c.first + ChunkUnits <= MaxUnits,
           Whole(c.first), WholeAll(pending)
    PROVE  /\ WholeAll(Encoded(c).pending)
           /\ Encoded(c).blocks # <<>> => WholeAll(Head(Encoded(c).blocks))
  <1>. DEFINE all == Waiting(c)
  <1>1. /\ all \in Seq(Sample) /\ Len(all) \in Nat
        /\ Len(pending) \in Nat /\ Len(Samples(c)) \in Nat
        /\ Len(all) = Len(pending) + Len(Samples(c))
        /\ \A i \in 1 .. Len(pending) : all[i] = pending[i]
        /\ \A i \in 1 .. Len(Samples(c)) : all[Len(pending) + i] = Samples(c)[i]
    BY WaitingIs, LenProperties
  <1>2. \A i \in 1 .. Len(Samples(c)) : Whole(Samples(c)[i].unit)
    <2>. SUFFICES ASSUME NEW i \in 1 .. Len(Samples(c))
                  PROVE  Whole(Samples(c)[i].unit)
      OBVIOUS
    <2>1. config \in Config
      BY DEF Types, TypeOK
    <2>2. Samples(c)[i].unit = c.first + (i - 1) * config.server
      <3>1. Samples(c)[i] = [opening |-> c.opening, unit |-> c.first + (i - 1) * config.server,
                             stamp |-> c.stamp + i - 1]
        BY <2>1, SamplesAre
      <3>. QED
        BY <3>1
    <2>3. config.server = config.source
      BY DEF Configured
    <2>4. c.first \in Nat /\ i - 1 \in Nat
      BY <1>1 DEF Chunk
    <2>. QED
      BY <2>1, <2>2, <2>3, <2>4, FramesOn
  <1>. HIDE DEF all
  <1>3. WholeAll(all)
    <2>. SUFFICES ASSUME NEW i \in 1 .. Len(all)
                  PROVE  Whole(all[i].unit)
      BY DEF WholeAll
    <2>1. CASE i <= Len(pending)
      BY <1>1, <2>1 DEF WholeAll
    <2>2. CASE i > Len(pending)
      <3>. DEFINE k == i - Len(pending)
      <3>1. k \in 1 .. Len(Samples(c)) /\ Len(pending) + k = i
        BY <1>1, <2>2
      <3>. HIDE DEF k
      <3>2. all[i] = Samples(c)[k]
        BY <1>1, <3>1
      <3>. QED
        BY <1>2, <3>1, <3>2
    <2>. QED
      BY <1>1, <2>1, <2>2
  <1>4. PICK len \in 0 .. Len(all), taken \in 0 .. Len(all) : Parts(Encoded(c), all, len, taken)
    BY EncodedIs DEF all
  <1>. /\ len \in Nat /\ len <= Len(all) /\ taken \in Nat /\ taken <= Len(all)
       /\ 0 \in Nat /\ 0 <= len /\ Len(all) <= Len(all)
    BY <1>1
  <1>5. WholeAll(Encoded(c).pending)
    <2>1. Encoded(c).pending = SubSeq(all, taken + 1, Len(all))
      BY <1>4 DEF Parts
    <2>. QED
      BY <1>1, <1>3, <2>1, WholePart
  <1>6. ASSUME Encoded(c).blocks # <<>>
        PROVE  WholeAll(Head(Encoded(c).blocks))
    <2>1. Head(Encoded(c).blocks) = Encoded(c).blocks[1]
      BY <1>6, EncodedIs, TailIs
    <2>2. Encoded(c).blocks[1] = SubSeq(all, 1, len)
      BY <1>4, <1>6 DEF Parts
    <2>3. WholeAll(SubSeq(all, 0 + 1, len))
      BY <1>1, <1>3, WholePart
    <2>4. 0 + 1 = 1
      OBVIOUS
    <2>. QED
      BY <2>1, <2>2, <2>3, <2>4
  <1>. QED
    BY <1>5, <1>6

LEMMA FramesStart ==
    ASSUME Init
    PROVE  FramesInv
  BY DEF Init, FramesInv, WholeAll

\* A step of the reader that sends nothing.
LEMMA FramesKept ==
    ASSUME FramesInv, config' = config, UNCHANGED <<tx, encoderVars>>,
           Configured => (reader'.pumping =>
                              Whole(reader'.read) \/ (source'.ended /\ reader'.read = source'.given))
    PROVE  FramesInv'
  BY WholeKept DEF FramesInv, WholeAll, Whole, encoderVars

LEMMA ReaderFrames ==
    ASSUME Types, FramesInv,
           \/ Tick \/ (\E n \in 1 .. MaxUnits : Write(n)) \/ EndOfSource \/ Open \/ SkipHeader
           \/ PipeEnded \/ FileEnded \/ TcpEnded \/ ProcessEnded \/ LibrespotEnded \/ AirplayEnded
    PROVE  FramesInv'
  <1>1. config \in Config /\ Skipped \in Nat /\ config.source \in {1, 2} /\ Whole(Skipped)
    <2>1. config \in Config
      BY DEF Types, TypeOK
    <2>. QED
      BY <2>1, ConfigIs DEF Whole
  <1>2. CASE Tick
    BY <1>2, FramesKept DEF Tick, readerVars, FramesInv
  <1>3. CASE \E n \in 1 .. MaxUnits : Write(n)
    BY <1>3, FramesKept DEF Write, FramesInv
  <1>4. CASE EndOfSource
    <2>1. source'.ended /\ source'.given = source.given
      BY <1>4 DEF EndOfSource, Types, TypeOK
    <2>2. Configured /\ reader.pumping => Whole(reader.read)
      BY <1>4 DEF EndOfSource, FramesInv
    <2>. QED
      BY <1>4, <2>1, <2>2, FramesKept DEF EndOfSource
  <1>5. CASE Open
    <2>1. reader'.pumping => config.scheme # "file"
      BY <1>5 DEF Open
    <2>2. reader'.read = 0
      BY <1>5 DEF Open
    <2>3. config.scheme # "file" => Whole(0)
      BY <1>1 DEF Skipped, Whole
    <2>. QED
      BY <1>5, <2>1, <2>2, <2>3, FramesKept DEF Open
  <1>6. CASE SkipHeader
    <2>1. reader'.read = IF source.given >= Skipped THEN Skipped ELSE source.given
      BY <1>6 DEF SkipHeader, Types, TypeOK
    <2>2. Whole(reader'.read) \/ (source.ended /\ reader'.read = source.given)
      BY <1>1, <1>6, <2>1 DEF SkipHeader
    <2>. QED
      BY <1>6, <2>2, FramesKept DEF SkipHeader
  <1>7. CASE \/ PipeEnded \/ FileEnded \/ TcpEnded
             \/ ProcessEnded \/ LibrespotEnded \/ AirplayEnded
    <2>1. /\ ~ reader'.pumping /\ UNCHANGED <<config, tx, encoderVars>>
      BY <1>7 DEF PipeEnded, FileEnded, TcpEnded, ProcessEnded, LibrespotEnded, AirplayEnded,
                  Ended, Types, TypeOK
    <2>. QED
      BY <2>1, FramesKept
  <1>. QED
    BY <1>2, <1>3, <1>4, <1>5, <1>6, <1>7

LEMMA PumpFrames ==
    ASSUME Types, FramesInv, Pump
    PROVE  FramesInv'
  <1>1. /\ tx \in Seq(Chunk) /\ Pumped \in Chunk /\ tx' = Append(tx, Pumped)
        /\ Pumped.first + ChunkUnits <= source.given
        /\ reader.pumping /\ reader'.read = reader.read + ChunkUnits
        /\ UNCHANGED <<now, config, source, encoderVars>>
    BY PumpIs
  <1>2. SUFFICES ASSUME Configured
                 PROVE  FramesInv'
    BY <1>1, WholeKept DEF FramesInv
  <1>3. config \in Config /\ config.chunk \in Nat \ {0} /\ ChunkUnits \in Nat /\ ChunkUnits >= config.chunk
    BY ConfigIs DEF Types, TypeOK
  <1>4. reader.read \in Nat /\ source.given \in Nat /\ Pumped.first = reader.read
    BY NumbersAre DEF Pumped
  <1>5. Whole(reader.read)
    BY <1>1, <1>2, <1>3, <1>4 DEF FramesInv
  <1>6. Whole(reader.read + ChunkUnits)
    <2>1. ChunkUnits = config.chunk * config.source
      BY DEF ChunkUnits
    <2>. QED
      BY <1>3, <1>4, <1>5, <2>1, FramesOn
  <1>7. /\ Len(tx) \in Nat /\ Len(tx') = Len(tx) + 1
        /\ tx'[Len(tx) + 1] = Pumped /\ \A i \in 1 .. Len(tx) : tx'[i] = tx[i]
    <2>. HIDE DEF Chunk
    <2>. QED
      BY <1>1, AppendIs
  <1>8. \A i \in 1 .. Len(tx') : Whole(tx'[i].first)
    BY <1>2, <1>4, <1>5, <1>7 DEF FramesInv
  <1>. QED
    BY <1>1, <1>2, <1>6, <1>8, WholeKept DEF FramesInv, WholeAll, Whole, encoderVars

LEMMA EncodeFrames ==
    ASSUME Types, FramesInv, Encode
    PROVE  FramesInv'
  <1>1. PICK c \in Chunk, k \in {0, 1} : Sent(c, k)
    BY EncodeIs
  <1>2. /\ tx # <<>> /\ c = tx[1] /\ c.first + ChunkUnits <= MaxUnits
        /\ tx' = Tail(tx) /\ pending' = Encoded(c).pending
        /\ Len(wire') = Len(Broadcast(c)) - k /\ Len(Broadcast(c)) \in Nat
        /\ \A i \in 1 .. Len(wire') : wire'[i] = Broadcast(c)[i + k]
        /\ UNCHANGED <<now, config, source, reader, ts, decoded>>
    BY <1>1 DEF Sent
  <1>3. SUFFICES ASSUME Configured
                 PROVE  FramesInv'
    BY <1>2, WholeKept DEF FramesInv
  <1>4. /\ Len(tx) \in Nat /\ Len(tx) >= 1 /\ Len(tx') = Len(tx) - 1
        /\ \A i \in 1 .. Len(tx) - 1 : tx'[i] = tx[i + 1]
    BY <1>2, HeadIs
  <1>5. Whole(c.first) /\ WholeAll(pending)
    BY <1>2, <1>3, <1>4 DEF FramesInv
  <1>6. /\ WholeAll(Encoded(c).pending)
        /\ Encoded(c).blocks # <<>> => WholeAll(Head(Encoded(c).blocks))
    BY <1>2, <1>3, <1>5, EncodedWhole
  <1>7. \A i \in 1 .. Len(Broadcast(c)) : WholeAll(Head(Broadcast(c)[i].blocks))
    <2>1. \A i \in 1 .. Len(wire) : WholeAll(Head(wire[i].blocks))
      BY <1>3 DEF FramesInv
    <2>2. CASE Encoded(c).blocks = <<>>
      BY <1>2, <2>1, <2>2, BroadcastIs
    <2>3. CASE Encoded(c).blocks # <<>>
      <3>1. /\ Len(Broadcast(c)) = Len(wire) + 1 /\ Len(wire) \in Nat
            /\ Broadcast(c)[Len(wire) + 1] = [stamp |-> c.stamp, blocks |-> Encoded(c).blocks]
            /\ \A i \in 1 .. Len(wire) : Broadcast(c)[i] = wire[i]
        BY <1>2, <2>3, BroadcastIs
      <3>2. Broadcast(c)[Len(wire) + 1].blocks = Encoded(c).blocks
        BY <3>1
      <3>. QED
        BY <1>6, <2>1, <2>3, <3>1, <3>2
    <2>. QED
      BY <2>2, <2>3
  <1>8. \A i \in 1 .. Len(wire') : WholeAll(Head(wire'[i].blocks))
    <2>1. \A i \in 1 .. Len(wire') : i + k \in 1 .. Len(Broadcast(c))
      BY <1>2
    <2>. QED
      BY <1>2, <1>7, <2>1
  <1>9. \A i \in 1 .. Len(tx') : Whole(tx'[i].first)
    <2>1. \A i \in 1 .. Len(tx') : i + 1 \in 1 .. Len(tx) /\ tx'[i] = tx[i + 1]
      BY <1>4
    <2>. QED
      BY <1>3, <2>1 DEF FramesInv
  <1>10. WholeAll(pending') /\ WholeAll(decoded'.samples)
    BY <1>2, <1>3, <1>6 DEF FramesInv
  <1>11. reader'.pumping => Whole(reader'.read) \/ (source'.ended /\ reader'.read = source'.given)
    BY <1>2, <1>3 DEF FramesInv
  <1>. QED
    BY <1>2, <1>8, <1>9, <1>10, <1>11, WholeKept DEF FramesInv, WholeAll, Whole

LEMMA DecodeFrames ==
    ASSUME Types, FramesInv, Decode
    PROVE  FramesInv'
  <1>1. /\ decoded' = [stamp |-> wire[1].stamp, samples |-> Head(wire[1].blocks)]
        /\ Len(wire) \in Nat /\ Len(wire) >= 1 /\ Len(wire') = Len(wire) - 1
        /\ \A i \in 1 .. Len(wire) - 1 : wire'[i] = wire[i + 1]
        /\ UNCHANGED <<now, config, readerVars, pending>>
    BY DecodeIs
  <1>2. SUFFICES ASSUME Configured
                 PROVE  FramesInv'
    BY <1>1, WholeKept DEF FramesInv
  <1>3. decoded'.samples = Head(wire[1].blocks)
    BY <1>1
  <1>4. WholeAll(decoded'.samples)
    BY <1>1, <1>2, <1>3 DEF FramesInv
  <1>5. \A i \in 1 .. Len(wire') : WholeAll(Head(wire'[i].blocks))
    <2>1. \A i \in 1 .. Len(wire') : i + 1 \in 1 .. Len(wire) /\ wire'[i] = wire[i + 1]
      BY <1>1
    <2>. QED
      BY <1>2, <2>1 DEF FramesInv
  <1>. QED
    BY <1>1, <1>2, <1>4, <1>5, WholeKept DEF FramesInv, WholeAll, Whole, readerVars

LEMMA StepFrames ==
    ASSUME Types, FramesInv, [Next]_vars
    PROVE  FramesInv'
  <1>1. CASE UNCHANGED vars
    BY <1>1 DEF vars, readerVars, encoderVars, FramesInv, WholeAll, Whole, Skipped, Configured
  <1>. QED
    BY <1>1, ReaderFrames, PumpFrames, EncodeFrames, DecodeFrames DEF Next

\* No sample a client decodes is put together from two frames, whatever the lengths of
\* header, chunks and blocks and wherever the source ended (pump_pcm, pcm_to_i32).
THEOREM FramesStayWhole == Spec => []WholeFrames
  <1>1. Init => Types /\ FramesInv
    BY InitTypes, FramesStart
  <1>2. Types /\ FramesInv /\ [Next]_vars => (Types /\ FramesInv)'
    BY StepTypes, StepFrames
  <1>3. Types /\ FramesInv => WholeFrames
    <2>1. Types => DOMAIN decoded.samples = 1 .. Len(decoded.samples)
      BY LenProperties DEF Types, TypeOK
    <2>. QED
      BY <2>1 DEF FramesInv, WholeFrames, WholeAll, Whole
  <1>. QED
    BY <1>1, <1>2, <1>3, PTL DEF Spec

-----------------------------------------------------------------------------
(* Stamps.  Within one opening of the source everything between the reader and  *)
(* the encoder is stamped without a gap, so the samples FLAC holds back lie      *)
(* directly before the next chunk.                                               *)

\* The samples of p lead up to the time stamp in an opening, and none is of a later one.
Continues(p, opening, stamp) ==
    \A i \in 1 .. Len(p) :
        /\ p[i].opening <= opening
        /\ p[i].opening = opening => p[i].stamp = stamp - (Len(p) + 1 - i)

\* StampClose of a block and the stamp it goes under.
Close(stamp, s) ==
    s # <<>> /\ s[1].opening = s[Len(s)].opening =>
        IF config.codec = "flac" /\ config.chunk % Block["flac"] # 0
        THEN stamp - s[1].stamp \in 0 .. Block["flac"] - 1
        ELSE stamp = s[1].stamp

Fitting == config.codec # "flac" \/ config.chunk % Block["flac"] = 0

\* What the encoder holds back leads up to what it gets next.
HeldInv ==
    /\ Fitting => pending = <<>>
    /\ \A i \in 1 .. Len(pending) : pending[i].opening <= source.opening
    /\ tx # <<>> => Continues(pending, tx[1].opening, tx[1].stamp)
    /\ tx = <<>> /\ source.open => Continues(pending, source.opening, Stamp)

\* A chunk leads up to the next one, and the last one to where the reader is.
QueueInv ==
    /\ \A i \in 1 .. Len(tx) : tx[i].opening <= source.opening
    /\ \A i \in 1 .. Len(tx) - 1 :
          /\ tx[i].opening <= tx[i + 1].opening
          /\ tx[i].opening = tx[i + 1].opening => tx[i + 1].stamp = tx[i].stamp + config.chunk
    /\ tx # <<>> /\ source.open /\ tx[Len(tx)].opening = source.opening =>
          Stamp = tx[Len(tx)].stamp + config.chunk

CloseInv ==
    /\ \A i \in 1 .. Len(wire) : Close(wire[i].stamp, Head(wire[i].blocks))
    /\ Close(decoded.stamp, decoded.samples)

StampInv == Configured => HeldInv /\ QueueInv /\ CloseInv

\* The types of what is on the way to the encoder.
LEMMA OnTheWay ==
    ASSUME Types
    PROVE  /\ tx \in Seq(Chunk) /\ Len(tx) \in Nat /\ (tx # <<>> => Len(tx) >= 1)
           /\ \A i \in 1 .. Len(tx) : tx[i].stamp \in Nat /\ tx[i].opening \in Nat
           /\ pending \in Seq(Sample) /\ Len(pending) \in Nat
           /\ \A i \in 1 .. Len(pending) : pending[i].stamp \in Nat /\ pending[i].opening \in Nat
  <1>1. tx \in Seq(Chunk) /\ pending \in Seq(Sample)
    BY DEF Types, TypeOK, Chunk
  <1>2. \A i \in 1 .. Len(tx) : tx[i] \in Chunk
    BY <1>1, ElementOfSeq
  <1>3. \A i \in 1 .. Len(pending) : pending[i] \in Sample
    BY <1>1, ElementOfSeq
  <1>4. Len(tx) \in Nat /\ Len(pending) \in Nat /\ (tx # <<>> => Len(tx) >= 1)
    BY <1>1, LenProperties, EmptySeq
  <1>5. \A e \in Chunk : e.stamp \in Nat /\ e.opening \in Nat
    BY BoundsAre DEF Chunk
  <1>6. \A e \in Sample : e.stamp \in Nat /\ e.opening \in Nat
    BY BoundsAre DEF Sample
  <1>. QED
    BY <1>1, <1>2, <1>3, <1>4, <1>5, <1>6

LEMMA StampsStart ==
    ASSUME Init
    PROVE  StampInv
  <1>1. tx = <<>> /\ pending = <<>> /\ wire = <<>> /\ decoded.samples = <<>> /\ ~ source.open
    BY DEF Init
  <1>2. Len(<<>>) = 0
    OBVIOUS
  <1>. QED
    BY <1>1, <1>2 DEF StampInv, HeldInv, QueueInv, CloseInv, Close

\* A step that leaves both queues, the clock of the stamps and the openings alone.
LEMMA StampsKept ==
    ASSUME StampInv, UNCHANGED <<config, ts, tx, encoderVars>>,
           source'.open = source.open, source'.opening = source.opening
    PROVE  StampInv'
  BY DEF StampInv, HeldInv, QueueInv, CloseInv, Close, Continues, Fitting, Stamp, Configured,
         encoderVars

\* The source is opened or has ended: what is on the way is of earlier openings.
LEMMA StampsCut ==
    ASSUME Types, StampInv, UNCHANGED <<config, tx, encoderVars>>,
           \/ ~ source'.open /\ source'.opening = source.opening
           \/ source'.opening = source.opening + 1
    PROVE  StampInv'
  <1>1. SUFFICES ASSUME Configured
                 PROVE  StampInv'
    BY DEF StampInv, Configured
  <1>2. source.opening \in Nat
    BY NumbersAre
  <1>3. HeldInv /\ QueueInv /\ CloseInv
    BY <1>1 DEF StampInv
  <1>4. HeldInv'
    BY <1>2, <1>3, OnTheWay DEF HeldInv, Fitting, Continues, encoderVars
  <1>5. QueueInv'
    BY <1>2, <1>3, OnTheWay DEF QueueInv, encoderVars
  <1>6. CloseInv'
    BY <1>3 DEF CloseInv, Close, encoderVars
  <1>. QED
    BY <1>4, <1>5, <1>6 DEF StampInv

LEMMA ReaderStamps ==
    ASSUME Types, StampInv,
           \/ Tick \/ (\E n \in 1 .. MaxUnits : Write(n)) \/ EndOfSource \/ Open \/ SkipHeader
           \/ PipeEnded \/ FileEnded \/ TcpEnded \/ ProcessEnded \/ LibrespotEnded \/ AirplayEnded
    PROVE  StampInv'
  <1>1. CASE Tick
    BY <1>1, StampsKept DEF Tick, readerVars
  <1>2. CASE \E n \in 1 .. MaxUnits : Write(n)
    <2>1. source'.open = source.open /\ source'.opening = source.opening
      BY <1>2 DEF Write, Types, TypeOK
    <2>. QED
      BY <1>2, <2>1, StampsKept DEF Write
  <1>3. CASE EndOfSource
    <2>1. source'.open = source.open /\ source'.opening = source.opening
      BY <1>3 DEF EndOfSource, Types, TypeOK
    <2>. QED
      BY <1>3, <2>1, StampsKept DEF EndOfSource
  <1>4. CASE Open
    <2>1. source'.opening = source.opening + 1
      BY <1>4 DEF Open
    <2>. QED
      BY <1>4, <2>1, StampsCut DEF Open
  <1>5. CASE SkipHeader
    BY <1>5, StampsKept DEF SkipHeader
  <1>6. CASE \/ PipeEnded \/ FileEnded \/ TcpEnded
             \/ ProcessEnded \/ LibrespotEnded \/ AirplayEnded
    <2>1. /\ ~ source'.open /\ source'.opening = source.opening
          /\ UNCHANGED <<config, tx, encoderVars>>
      BY <1>6 DEF PipeEnded, FileEnded, TcpEnded, ProcessEnded, LibrespotEnded, AirplayEnded,
                  Ended, Types, TypeOK
    <2>. QED
      BY <2>1, StampsCut
  <1>. QED
    BY <1>1, <1>2, <1>3, <1>4, <1>5, <1>6

LEMMA PumpStamps ==
    ASSUME Types, StampInv, Pump
    PROVE  StampInv'
  <1>1. /\ tx \in Seq(Chunk) /\ Pumped \in Chunk /\ tx' = Append(tx, Pumped)
        /\ source.open /\ Stamp \in Nat /\ Stamp' = Stamp + config.chunk
        /\ UNCHANGED <<now, config, source, encoderVars>>
    BY PumpIs
  <1>2. SUFFICES ASSUME Configured
                 PROVE  StampInv'
    BY <1>1 DEF StampInv, Configured
  <1>3. HeldInv /\ QueueInv /\ CloseInv
    BY <1>2 DEF StampInv
  <1>4. /\ Len(tx) \in Nat /\ Len(tx') = Len(tx) + 1 /\ tx' # <<>>
        /\ tx'[Len(tx) + 1] = Pumped /\ \A i \in 1 .. Len(tx) : tx'[i] = tx[i]
    <2>. HIDE DEF Chunk
    <2>. QED
      BY <1>1, AppendIs
  <1>5. /\ Pumped.opening = source.opening /\ Pumped.stamp = Stamp /\ source.opening \in Nat
        /\ config.chunk \in Nat
    BY NumbersAre, ConfigIs DEF Pumped, Types, TypeOK
  <1>6. HeldInv'
    <2>1. CASE tx = <<>>
      <3>1. tx'[1] = Pumped
        BY <1>4, <2>1
      <3>2. Continues(pending, tx'[1].opening, tx'[1].stamp)
        BY <1>1, <1>3, <1>5, <2>1, <3>1 DEF HeldInv
      <3>. QED
        BY <1>1, <1>3, <1>4, <3>2 DEF HeldInv, Fitting, Continues, encoderVars
    <2>2. CASE tx # <<>>
      <3>1. tx'[1] = tx[1]
        BY <1>4, <2>2, OnTheWay
      <3>. QED
        BY <1>1, <1>3, <1>4, <2>2, <3>1 DEF HeldInv, Fitting, Continues, encoderVars
    <2>. QED
      BY <2>1, <2>2
  <1>7. QueueInv'
    <2>1. \A i \in 1 .. Len(tx') : tx'[i].opening <= source.opening
      BY <1>3, <1>4, <1>5 DEF QueueInv
    <2>2. ASSUME NEW i \in 1 .. Len(tx') - 1
          PROVE  /\ tx'[i].opening <= tx'[i + 1].opening
                 /\ tx'[i].opening = tx'[i + 1].opening =>
                        tx'[i + 1].stamp = tx'[i].stamp + config.chunk
      <3>1. CASE i = Len(tx)
        <4>1. tx'[i] = tx[i] /\ tx'[i + 1] = Pumped /\ tx # <<>> /\ i \in 1 .. Len(tx)
          BY <1>4, <2>2, <3>1
        <4>. QED
          BY <1>1, <1>3, <1>5, <3>1, <4>1 DEF QueueInv
      <3>2. CASE i # Len(tx)
        <4>1. i \in 1 .. Len(tx) - 1 /\ i + 1 \in 1 .. Len(tx) /\ i \in 1 .. Len(tx)
          BY <1>4, <2>2, <3>2
        <4>. QED
          BY <1>3, <1>4, <4>1 DEF QueueInv
      <3>. QED
        BY <3>1, <3>2
    <2>3. Stamp' = tx'[Len(tx')].stamp + config.chunk
      BY <1>1, <1>4, <1>5
    <2>. QED
      BY <1>1, <2>1, <2>2, <2>3 DEF QueueInv
  <1>8. CloseInv'
    BY <1>1, <1>3 DEF CloseInv, Close, encoderVars
  <1>. QED
    BY <1>6, <1>7, <1>8 DEF StampInv

\* The samples the encoder takes a chunk with lead up to the end of the chunk.
LEMMA WaitingContinues ==
    ASSUME Types, Configured, NEW c \in Chunk, c.first + ChunkUnits <= MaxUnits,
           Continues(pending, c.opening, c.stamp)
    PROVE  /\ Len(Waiting(c)) = Len(pending) + config.chunk
           /\ Continues(Waiting(c), c.opening, c.stamp + config.chunk)
           /\ \A i \in 1 .. Len(Waiting(c)) : i > Len(pending) => Waiting(c)[i].opening = c.opening
           /\ \A i \in 1 .. Len(Waiting(c)) : Waiting(c)[i].stamp \in Nat /\ Waiting(c)[i].opening \in Nat
  <1>. DEFINE all == Waiting(c)
              n   == Len(pending)
  <1>1. /\ all \in Seq(Sample) /\ n \in Nat
        /\ Len(all) = n + Len(Samples(c)) /\ Len(Samples(c)) \in Nat
        /\ \A i \in 1 .. n : all[i] = pending[i]
        /\ \A i \in 1 .. Len(Samples(c)) : all[n + i] = Samples(c)[i]
    BY WaitingIs
  <1>2. config \in Config /\ config.chunk \in Nat /\ config.source = config.server
    BY ConfigIs DEF Types, TypeOK, Configured
  <1>3. Len(Samples(c)) = config.chunk
    BY <1>2, SamplesAre
  <1>4. c.stamp \in Nat /\ c.opening \in Nat
    BY BoundsAre DEF Chunk
  <1>5. ASSUME NEW i \in 1 .. Len(Samples(c))
        PROVE  Samples(c)[i].stamp = c.stamp + i - 1 /\ Samples(c)[i].opening = c.opening
    <2>1. Samples(c)[i] = [opening |-> c.opening, unit |-> c.first + (i - 1) * config.server,
                           stamp |-> c.stamp + i - 1]
      BY <1>2, SamplesAre
    <2>. QED
      BY <2>1
  <1>. HIDE DEF all, n
  <1>6. ASSUME NEW i \in 1 .. Len(all), i > n
        PROVE  all[i].opening = c.opening /\ all[i].stamp = c.stamp + (i - n) - 1
    <2>. DEFINE k == i - n
    <2>1. k \in 1 .. Len(Samples(c)) /\ n + k = i
      BY <1>1, <1>6
    <2>. HIDE DEF k
    <2>2. all[i] = Samples(c)[k]
      BY <1>1, <2>1
    <2>3. all[i].opening = c.opening /\ all[i].stamp = c.stamp + k - 1
      BY <1>5, <2>1, <2>2
    <2>. QED
      BY <2>3 DEF k
  <1>7. ASSUME NEW i \in 1 .. Len(all)
        PROVE  /\ all[i].opening <= c.opening
               /\ all[i].opening = c.opening =>
                      all[i].stamp = (c.stamp + config.chunk) - (Len(all) + 1 - i)
    <2>1. CASE i > n
      <3>1. all[i].opening = c.opening /\ all[i].stamp = c.stamp + (i - n) - 1
        BY <1>6, <2>1
      <3>2. c.stamp + (i - n) - 1 = (c.stamp + config.chunk) - (Len(all) + 1 - i)
        BY <1>1, <1>2, <1>3, <1>4
      <3>3. all[i].opening <= c.opening
        BY <1>4, <3>1
      <3>. QED
        BY <3>1, <3>2, <3>3
    <2>2. CASE i <= n
      <3>1. i \in 1 .. n /\ all[i] = pending[i]
        BY <1>1, <2>2
      <3>2. /\ pending[i].opening <= c.opening
            /\ pending[i].opening = c.opening => pending[i].stamp = c.stamp - (n + 1 - i)
        BY <3>1 DEF Continues, n
      <3>3. c.stamp - (n + 1 - i) = (c.stamp + config.chunk) - (Len(all) + 1 - i)
        BY <1>1, <1>2, <1>3, <1>4
      <3>. QED
        BY <3>1, <3>2, <3>3
    <2>. QED
      BY <1>1, <2>1, <2>2
  <1>8. \A i \in 1 .. Len(all) : all[i].stamp \in Nat /\ all[i].opening \in Nat
    <2>1. \A i \in 1 .. Len(all) : all[i] \in Sample
      BY <1>1, ElementOfSeq
    <2>. QED
      BY <2>1, BoundsAre DEF Sample
  <1>. QED
    BY <1>1, <1>3, <1>6, <1>7, <1>8 DEF Continues, all, n

LEMMA ContinuesLater ==
    ASSUME NEW p \in Seq(Sample), NEW o \in Nat, NEW t, Continues(p, o, t),
           NEW o2 \in Nat, NEW t2, o <= o2, o = o2 => t2 = t
    PROVE  Continues(p, o2, t2)
  <1>1. \A i \in 1 .. Len(p) : p[i] \in Sample
    BY ElementOfSeq
  <1>2. \A e \in Sample : e.opening \in Nat
    BY BoundsAre DEF Sample
  <1>. QED
    BY <1>1, <1>2 DEF Continues

LEMMA ContinuesRest ==
    ASSUME NEW p \in Seq(Sample), NEW o \in Nat, NEW t \in Nat, Continues(p, o, t),
           NEW m \in 0 .. Len(p)
    PROVE  Continues(SubSeq(p, m + 1, Len(p)), o, t)
  <1>1. Len(p) \in Nat /\ m \in Nat
    BY LenProperties
  <1>. DEFINE r == SubSeq(p, m + 1, Len(p))
  <1>2. Len(r) = Len(p) - m /\ \A i \in 1 .. Len(p) - m : r[i] = p[m + i]
    BY <1>1, Part
  <1>. HIDE DEF r
  <1>3. ASSUME NEW i \in 1 .. Len(r)
        PROVE  /\ r[i].opening <= o
               /\ r[i].opening = o => r[i].stamp = t - (Len(r) + 1 - i)
    <2>. DEFINE k == m + i
    <2>1. k \in 1 .. Len(p) /\ r[i] = p[k] /\ Len(p) + 1 - k = Len(r) + 1 - i
      BY <1>1, <1>2
    <2>. HIDE DEF k
    <2>. QED
      BY <2>1 DEF Continues
  <1>. QED
    BY <1>3 DEF Continues, r

\* The first block is stamped as its first sample, or later by what FLAC held back.
LEMMA EncodedClose ==
    ASSUME Types, Configured, NEW c \in Chunk, c.first + ChunkUnits <= MaxUnits,
           Continues(pending, c.opening, c.stamp), Fitting => pending = <<>>,
           Encoded(c).blocks # <<>>
    PROVE  Close(c.stamp, Head(Encoded(c).blocks))
  <1>. DEFINE all == Waiting(c)
              s   == Head(Encoded(c).blocks)
  <1>1. /\ Len(all) = Len(pending) + config.chunk
        /\ Continues(all, c.opening, c.stamp + config.chunk)
        /\ \A i \in 1 .. Len(all) : i > Len(pending) => all[i].opening = c.opening
        /\ \A i \in 1 .. Len(all) : all[i].stamp \in Nat /\ all[i].opening \in Nat
    BY WaitingContinues
  <1>2. /\ all \in Seq(Sample) /\ Len(all) \in Nat /\ Len(pending) \in Nat
    BY WaitingIs, LenProperties
  <1>3. PICK len \in 0 .. Len(all), taken \in 0 .. Len(all) : Parts(Encoded(c), all, len, taken)
    BY EncodedIs
  <1>4. s = Encoded(c).blocks[1]
    BY EncodedIs, TailIs
  <1>. HIDE DEF all, s
  <1>5. /\ s = SubSeq(all, 1, len)
        /\ config.codec = "flac" => len = Block["flac"]
    BY <1>3, <1>4 DEF Parts
  <1>6. SUFFICES ASSUME s # <<>>, s[1].opening = s[Len(s)].opening
                 PROVE  IF config.codec = "flac" /\ config.chunk % Block["flac"] # 0
                        THEN c.stamp - s[1].stamp \in 0 .. Block["flac"] - 1
                        ELSE c.stamp = s[1].stamp
    BY DEF Close, s
  <1>7. /\ config.chunk \in Nat \ {0} /\ Block["flac"] \in Nat \ {0} /\ c.stamp \in Nat
        /\ Len(pending) < Block["flac"]
    BY ConfigIs DEF Types, TypeOK, Chunk
  <1>8. Len(s) = len /\ \A i \in 1 .. len : s[i] = all[i]
    <2>1. len \in Nat /\ len <= Len(all) /\ 0 <= len /\ 0 \in Nat
      BY <1>2
    <2>2. /\ Len(SubSeq(all, 0 + 1, len)) = len - 0
          /\ \A i \in 1 .. len - 0 : SubSeq(all, 0 + 1, len)[i] = all[0 + i]
      BY <1>2, <2>1, Part
    <2>3. 0 + 1 = 1 /\ len - 0 = len /\ \A i \in 1 .. len : 0 + i = i
      BY <2>1
    <2>. QED
      BY <1>5, <2>2, <2>3
  <1>9. len >= 1
    <2>1. SubSeq(all, 1, 0) = <<>>
      BY SubSeqEmpty
    <2>. QED
      BY <1>2, <1>5, <1>6, <2>1
  <1>10. len > Len(pending)
    <2>1. CASE config.codec = "flac"
      BY <1>5, <1>7, <2>1
    <2>2. CASE config.codec # "flac"
      BY <1>9, <2>2 DEF Types, SourceInv
    <2>. QED
      BY <2>1, <2>2
  <1>11. s[Len(s)].opening = c.opening /\ 1 \in 1 .. Len(all)
    BY <1>1, <1>2, <1>8, <1>9, <1>10
  <1>12. s[1] = all[1] /\ all[1].opening = c.opening
    BY <1>6, <1>8, <1>9, <1>11
  <1>13. all[1].stamp = (c.stamp + config.chunk) - (Len(all) + 1 - 1)
    BY <1>1, <1>11, <1>12 DEF Continues
  <1>14. c.stamp - s[1].stamp = Len(pending) /\ s[1].stamp \in Nat
    <2>1. s[1].stamp \in Nat /\ s[1].stamp = (c.stamp + config.chunk) - (Len(all) + 1 - 1)
      BY <1>1, <1>11, <1>12, <1>13
    <2>2. c.stamp - ((c.stamp + config.chunk) - (Len(all) + 1 - 1)) = Len(pending)
      BY <1>1, <1>2, <1>7
    <2>. QED
      BY <2>1, <2>2
  <1>15. Fitting => Len(pending) = 0
    <2>1. Len(<<>>) = 0
      OBVIOUS
    <2>. QED
      BY <2>1
  <1>16. CASE Fitting
    BY <1>7, <1>14, <1>15, <1>16 DEF Fitting
  <1>17. CASE ~ Fitting
    BY <1>2, <1>7, <1>14, <1>17 DEF Fitting
  <1>. QED
    BY <1>16, <1>17

LEMMA EncodeStamps ==
    ASSUME Types, StampInv, Encode
    PROVE  StampInv'
  <1>1. PICK c \in Chunk, k \in {0, 1} : Sent(c, k)
    BY EncodeIs
  <1>2. /\ tx # <<>> /\ c = tx[1] /\ c.first + ChunkUnits <= MaxUnits
        /\ tx' = Tail(tx) /\ pending' = Encoded(c).pending
        /\ Len(wire') = Len(Broadcast(c)) - k /\ Len(Broadcast(c)) \in Nat
        /\ \A i \in 1 .. Len(wire') : wire'[i] = Broadcast(c)[i + k]
        /\ UNCHANGED <<now, config, source, reader, ts, decoded>>
    BY <1>1 DEF Sent
  <1>3. SUFFICES ASSUME Configured
                 PROVE  StampInv'
    BY <1>2 DEF StampInv, Configured
  <1>4. HeldInv /\ QueueInv /\ CloseInv
    BY <1>3 DEF StampInv
  <1>5. /\ tx' \in Seq(Chunk) /\ Len(tx) \in Nat /\ Len(tx) >= 1 /\ Len(tx') = Len(tx) - 1
        /\ \A i \in 1 .. Len(tx) - 1 : tx'[i] = tx[i + 1]
        /\ tx' # <<>> => Len(tx') >= 1
    <2>1. /\ tx' \in Seq(Chunk) /\ Len(tx) \in Nat /\ Len(tx) >= 1 /\ Len(tx') = Len(tx) - 1
          /\ \A i \in 1 .. Len(tx) - 1 : tx'[i] = tx[i + 1]
      BY <1>2, HeadIs
    <2>. QED
      BY <2>1, EmptySeq
  <1>6. Continues(pending, c.opening, c.stamp) /\ (Fitting => pending = <<>>)
    BY <1>2, <1>4 DEF HeldInv
  <1>7. /\ config.chunk \in Nat \ {0} /\ Block["flac"] \in Nat \ {0}
        /\ c.stamp \in Nat /\ c.opening \in Nat /\ c.opening <= source.opening
        /\ source.opening \in Nat /\ Stamp \in Nat
    <2>1. c.opening <= source.opening
      BY <1>2, <1>4, <1>5 DEF QueueInv
    <2>2. config.chunk \in Nat \ {0} /\ Block["flac"] \in Nat \ {0}
      BY ConfigIs DEF Types, TypeOK
    <2>3. c.stamp \in Nat /\ c.opening \in Nat
      BY BoundsAre DEF Chunk
    <2>. QED
      BY <2>1, <2>2, <2>3, NumbersAre
  <1>8. /\ pending' \in Seq(Sample)
        /\ Continues(pending', c.opening, c.stamp + config.chunk)
    <2>. DEFINE all == Waiting(c)
    <2>1. /\ all \in Seq(Sample) /\ Continues(all, c.opening, c.stamp + config.chunk)
      BY <1>2, <1>3, <1>6, WaitingIs, WaitingContinues
    <2>2. PICK len \in 0 .. Len(all), taken \in 0 .. Len(all) : Parts(Encoded(c), all, len, taken)
      BY <1>2, EncodedIs
    <2>. HIDE DEF all
    <2>3. pending' = SubSeq(all, taken + 1, Len(all)) /\ pending' \in Seq(Sample)
      BY <1>2, <2>2, EncodedIs DEF Parts
    <2>4. Continues(SubSeq(all, taken + 1, Len(all)), c.opening, c.stamp + config.chunk)
      BY <1>7, <2>1, ContinuesRest
    <2>. QED
      BY <2>3, <2>4
  <1>9. Fitting => pending' = <<>>
    <2>1. CASE config.codec # "flac"
      BY <1>2, <2>1, EncodedIs
    <2>2. CASE config.codec = "flac" /\ config.chunk % Block["flac"] = 0
      <3>1. Len(pending) = 0
        BY <1>6, <2>2 DEF Fitting
      <3>2. Len(Waiting(c)) = config.chunk
        BY <1>2, <1>3, <1>6, <1>7, <3>1, WaitingContinues
      <3>3. Len(pending') = 0
        BY <1>2, <2>2, <3>2, EncodedIs
      <3>. QED
        BY <1>8, <3>3, EmptySeq
    <2>. QED
      BY <2>1, <2>2 DEF Fitting
  <1>10. HeldInv'
    <2>1. \A i \in 1 .. Len(pending') : pending'[i].opening <= source.opening
      <3>1. Continues(pending', source.opening, IF c.opening = source.opening
                                                THEN c.stamp + config.chunk ELSE Stamp)
        BY <1>7, <1>8, ContinuesLater
      <3>. QED
        BY <3>1 DEF Continues
    <2>2. ASSUME tx' # <<>>
          PROVE  Continues(pending', tx'[1].opening, tx'[1].stamp)
      <3>1. 1 \in 1 .. Len(tx) - 1 /\ tx'[1] = tx[2] /\ 2 \in 1 .. Len(tx)
        BY <1>5, <2>2
      <3>2. /\ c.opening <= tx[2].opening
            /\ c.opening = tx[2].opening => tx[2].stamp = c.stamp + config.chunk
        BY <1>2, <1>4, <3>1 DEF QueueInv
      <3>3. tx[2].opening \in Nat
        BY <3>1, OnTheWay
      <3>. QED
        BY <1>7, <1>8, <3>1, <3>2, <3>3, ContinuesLater
    <2>3. ASSUME tx' = <<>>, source.open
          PROVE  Continues(pending', source.opening, Stamp)
      <3>1. Len(tx) = 1
        BY <1>5, <2>3
      <3>2. c.opening = source.opening => Stamp = c.stamp + config.chunk
        BY <1>2, <1>4, <2>3, <3>1 DEF QueueInv
      <3>. QED
        BY <1>7, <1>8, <3>2, ContinuesLater
    <2>4. Stamp' = Stamp /\ source' = source /\ (Fitting' <=> Fitting)
      BY <1>2 DEF Stamp, Fitting
    <2>. QED
      BY <1>9, <2>1, <2>2, <2>3, <2>4 DEF HeldInv, Continues
  <1>11. QueueInv'
    <2>1. \A i \in 1 .. Len(tx') : i + 1 \in 1 .. Len(tx) /\ tx'[i] = tx[i + 1]
      BY <1>5
    <2>2. \A i \in 1 .. Len(tx') : tx'[i].opening <= source.opening
      BY <1>4, <2>1 DEF QueueInv
    <2>3. ASSUME NEW i \in 1 .. Len(tx') - 1
          PROVE  /\ tx'[i].opening <= tx'[i + 1].opening
                 /\ tx'[i].opening = tx'[i + 1].opening =>
                        tx'[i + 1].stamp = tx'[i].stamp + config.chunk
      <3>. DEFINE j == i + 1
      <3>1. j \in 1 .. Len(tx) - 1 /\ tx'[i] = tx[j] /\ tx'[i + 1] = tx[j + 1]
        BY <1>5, <2>3
      <3>. HIDE DEF j
      <3>. QED
        BY <1>4, <3>1 DEF QueueInv
    <2>4. tx' # <<>> => tx'[Len(tx')] = tx[Len(tx)]
      BY <1>5
    <2>5. Stamp' = Stamp
      BY <1>2 DEF Stamp
    <2>. QED
      BY <1>2, <1>4, <2>2, <2>3, <2>4, <2>5 DEF QueueInv
  <1>12. \A i \in 1 .. Len(Broadcast(c)) : Close(Broadcast(c)[i].stamp, Head(Broadcast(c)[i].blocks))
    <2>1. \A i \in 1 .. Len(wire) : Close(wire[i].stamp, Head(wire[i].blocks))
      BY <1>4 DEF CloseInv
    <2>2. CASE Encoded(c).blocks = <<>>
      BY <1>2, <2>1, <2>2, BroadcastIs
    <2>3. CASE Encoded(c).blocks # <<>>
      <3>1. /\ Len(Broadcast(c)) = Len(wire) + 1 /\ Len(wire) \in Nat
            /\ Broadcast(c)[Len(wire) + 1] = [stamp |-> c.stamp, blocks |-> Encoded(c).blocks]
            /\ \A i \in 1 .. Len(wire) : Broadcast(c)[i] = wire[i]
        BY <1>2, <2>3, BroadcastIs
      <3>2. /\ Broadcast(c)[Len(wire) + 1].blocks = Encoded(c).blocks
            /\ Broadcast(c)[Len(wire) + 1].stamp = c.stamp
        BY <3>1
      <3>3. Close(c.stamp, Head(Encoded(c).blocks))
        BY <1>2, <1>3, <1>6, <2>3, EncodedClose
      <3>. QED
        BY <2>1, <3>1, <3>2, <3>3
    <2>. QED
      BY <2>2, <2>3
  <1>13. CloseInv'
    <2>1. \A i \in 1 .. Len(wire') : i + k \in 1 .. Len(Broadcast(c))
      BY <1>2
    <2>2. \A i \in 1 .. Len(wire') : Close(wire'[i].stamp, Head(wire'[i].blocks))
      BY <1>2, <1>12, <2>1
    <2>. QED
      BY <1>2, <1>4, <2>2 DEF CloseInv, Close
  <1>. QED
    BY <1>10, <1>11, <1>13 DEF StampInv

LEMMA DecodeStamps ==
    ASSUME Types, StampInv, Decode
    PROVE  StampInv'
  <1>1. /\ decoded' = [stamp |-> wire[1].stamp, samples |-> Head(wire[1].blocks)]
        /\ Len(wire) \in Nat /\ Len(wire) >= 1 /\ Len(wire') = Len(wire) - 1
        /\ \A i \in 1 .. Len(wire) - 1 : wire'[i] = wire[i + 1]
        /\ UNCHANGED <<now, config, readerVars, pending>>
    BY DecodeIs
  <1>2. SUFFICES ASSUME Configured
                 PROVE  StampInv'
    BY <1>1 DEF StampInv, Configured
  <1>3. HeldInv /\ QueueInv /\ CloseInv
    BY <1>2 DEF StampInv
  <1>4. HeldInv' /\ QueueInv'
    BY <1>1, <1>3 DEF HeldInv, QueueInv, Fitting, Continues, Stamp, readerVars
  <1>5. decoded'.stamp = wire[1].stamp /\ decoded'.samples = Head(wire[1].blocks)
    BY <1>1
  <1>6. Close(decoded'.stamp, decoded'.samples)
    BY <1>1, <1>3, <1>5 DEF CloseInv
  <1>7. \A i \in 1 .. Len(wire') : Close(wire'[i].stamp, Head(wire'[i].blocks))
    <2>1. \A i \in 1 .. Len(wire') : i + 1 \in 1 .. Len(wire) /\ wire'[i] = wire[i + 1]
      BY <1>1
    <2>. QED
      BY <1>3, <2>1 DEF CloseInv
  <1>8. CloseInv'
    BY <1>1, <1>6, <1>7 DEF CloseInv, Close
  <1>. QED
    BY <1>4, <1>8 DEF StampInv

LEMMA StepStamps ==
    ASSUME Types, StampInv, [Next]_vars
    PROVE  StampInv'
  <1>1. CASE UNCHANGED vars
    BY <1>1, StampsKept DEF vars, readerVars
  <1>. QED
    BY <1>1, ReaderStamps, PumpStamps, EncodeStamps, DecodeStamps DEF Next

\* What a client decodes carries the time of its first sample; with blocks that do not fit
\* the chunks it is late by less than a block (spawn_stream_encoder, FlacEncoder::encode).
THEOREM StampsStayClose == Spec => []StampClose
  <1>1. Init => Types /\ StampInv
    BY InitTypes, StampsStart
  <1>2. Types /\ StampInv /\ [Next]_vars => (Types /\ StampInv)'
    BY StepTypes, StepStamps
  <1>3. Types /\ StampInv => StampClose
    BY DEF StampInv, CloseInv, Close, StampClose, LastOf
  <1>. QED
    BY <1>1, <1>2, <1>3, PTL DEF Spec

-----------------------------------------------------------------------------
(* Continuity.  Each thing on the way leads to the next one: the last decoded   *)
(* sample to the first packet, that to the next one if it is of one block, the   *)
(* last packet to what FLAC holds back, that to the chunks and these to where    *)
(* the reader is.                                                                *)

Unbroken == Configured /\ (config.codec = "opus" => config.chunk % Block["opus"] = 0)

\* The sample a is directly before a unit of an opening.
LeadsTo(a, opening, unit) ==
    IF a.opening = opening THEN unit = a.unit + config.server
    ELSE a.opening < opening /\ unit = Skipped

Chained(s) == \A i \in 1 .. Len(s) - 1 : Follows(s[i], s[i + 1])

\* The last sample of a chunk.
EndOf(c) == [opening |-> c.opening, unit |-> c.first + ChunkUnits - config.server]

\* What a client plays of a packet.
Plays(p) == Head(p.blocks)

ToReader(a) ==
    /\ a.opening <= source.opening
    /\ source.open /\ ~reader.pumping => a.opening < source.opening
    /\ reader.pumping =>
          LeadsTo(a, source.opening, reader.read) \/ (source.ended /\ reader.read = source.given)
ToQueue(a) == IF tx # <<>> THEN LeadsTo(a, tx[1].opening, tx[1].first) ELSE ToReader(a)
ToHeld(a)  == IF pending # <<>> THEN Follows(a, pending[1]) ELSE ToQueue(a)
ToWire(a)  == IF wire # <<>> THEN Follows(a, Plays(wire[1])[1]) ELSE ToHeld(a)

ChunksInv ==
    /\ \A i \in 1 .. Len(tx) - 1 : LeadsTo(EndOf(tx[i]), tx[i + 1].opening, tx[i + 1].first)
    /\ tx # <<>> => ToReader(EndOf(tx[Len(tx)]))
KeptInv == Chained(pending) /\ (pending # <<>> => ToQueue(LastOf(pending)))
Packets(w) ==
    /\ \A i \in 1 .. Len(w) : Plays(w[i]) # <<>> /\ Chained(Plays(w[i]))
    /\ \A i \in 1 .. Len(w) - 1 :
          Len(w[i].blocks) = 1 => Follows(LastOf(Plays(w[i])), Plays(w[i + 1])[1])
PacketsInv ==
    /\ Packets(wire)
    /\ wire # <<>> /\ Len(wire[Len(wire)].blocks) = 1 => ToHeld(LastOf(Plays(wire[Len(wire)])))
DecodedInv == ~lost /\ decoded.samples # <<>> => ToWire(LastOf(decoded.samples))

ChainInv == Unbroken => ChunksInv /\ KeptInv /\ PacketsInv /\ DecodedInv

LEMMA SampleIs ==
    ASSUME NEW s \in Seq(Sample), s # <<>>
    PROVE  /\ Len(s) \in Nat /\ Len(s) >= 1 /\ LastOf(s) = s[Len(s)]
           /\ LastOf(s) \in Sample /\ LastOf(s).opening \in Nat /\ LastOf(s).unit \in Nat
           /\ s[1] \in Sample /\ s[1].opening \in Nat /\ s[1].unit \in Nat
  <1>1. Len(s) \in Nat /\ Len(s) >= 1
    BY EmptySeq
  <1>2. s[Len(s)] \in Sample /\ s[1] \in Sample
    BY <1>1, ElementOfSeq
  <1>3. \A e \in Sample : e.opening \in Nat /\ e.unit \in Nat
    BY BoundsAre DEF Sample
  <1>. QED
    BY <1>1, <1>2, <1>3 DEF LastOf

LEMMA PlaysIs ==
    ASSUME Types
    PROVE  /\ wire \in Seq(Packet) /\ Len(wire) \in Nat /\ (wire # <<>> => Len(wire) >= 1)
           /\ \A i \in 1 .. Len(wire) : Plays(wire[i]) \in Seq(Sample)
           /\ decoded.samples \in Seq(Sample) /\ pending \in Seq(Sample)
  <1>1. wire \in Seq(Packet) /\ decoded.samples \in Seq(Sample) /\ pending \in Seq(Sample)
    BY DEF Types, TypeOK, Packet
  <1>2. Len(wire) \in Nat /\ (wire # <<>> => Len(wire) >= 1)
    BY <1>1, EmptySeq, LenProperties
  <1>3. ASSUME NEW i \in 1 .. Len(wire)
        PROVE  Plays(wire[i]) \in Seq(Sample)
    <2>1. wire[i] \in Packet /\ wire[i].blocks # <<>>
      BY <1>1, ElementOfSeq DEF Types, SourceInv
    <2>2. wire[i].blocks \in Seq(Seq(Sample))
      BY <2>1 DEF Packet
    <2>. QED
      BY <2>1, <2>2, TailIs DEF Plays
  <1>. QED
    BY <1>1, <1>2, <1>3

LEMMA ChainStarts ==
    ASSUME Init
    PROVE  ChainInv
  <1>1. tx = <<>> /\ pending = <<>> /\ wire = <<>> /\ decoded.samples = <<>>
    BY DEF Init
  <1>2. Len(<<>>) = 0
    OBVIOUS
  <1>. QED
    BY <1>1, <1>2 DEF ChainInv, ChunksInv, KeptInv, PacketsInv, Packets, DecodedInv, Chained

\* A step of the reader that leaves everything behind it alone.
LEMMA ReaderKeeps ==
    ASSUME Types, ChainInv, UNCHANGED <<config, tx, encoderVars>>,
           \A a : a.opening \in Nat /\ ToReader(a) => ToReader(a)'
    PROVE  ChainInv'
  <1>1. SUFFICES ASSUME Unbroken
                 PROVE  ChainInv'
    BY DEF ChainInv, Unbroken, Configured
  <1>2. ChunksInv /\ KeptInv /\ PacketsInv /\ DecodedInv
    BY <1>1 DEF ChainInv
  <1>3. \A a : a.opening \in Nat /\ ToQueue(a) => ToQueue(a)'
    BY DEF ToQueue, LeadsTo, Skipped
  <1>4. \A a : a.opening \in Nat /\ ToHeld(a) => ToHeld(a)'
    BY <1>3 DEF ToHeld, Follows, Skipped, encoderVars
  <1>5. \A a : a.opening \in Nat /\ ToWire(a) => ToWire(a)'
    BY <1>4 DEF ToWire, Follows, Skipped, Plays, encoderVars
  <1>6. ChunksInv'
    <2>1. ASSUME tx # <<>>
          PROVE  ToReader(EndOf(tx[Len(tx)]))'
      <3>1. PICK e : e = EndOf(tx[Len(tx)])
        OBVIOUS
      <3>2. e.opening \in Nat
        BY <2>1, <3>1, OnTheWay DEF EndOf
      <3>3. ToReader(e)'
        BY <1>2, <2>1, <3>1, <3>2 DEF ChunksInv
      <3>4. EndOf(tx[Len(tx)])' = e
        BY <3>1 DEF EndOf, ChunkUnits
      <3>. QED
        BY <3>3, <3>4 DEF ToReader, LeadsTo
    <2>. QED
      BY <1>2, <2>1 DEF ChunksInv, LeadsTo, EndOf, ChunkUnits, Skipped
  <1>7. KeptInv'
    <2>1. ASSUME pending # <<>>
          PROVE  ToQueue(LastOf(pending))'
      <3>1. PICK e : e = LastOf(pending)
        OBVIOUS
      <3>2. e.opening \in Nat
        BY <2>1, <3>1, SampleIs, PlaysIs
      <3>3. ToQueue(e)'
        BY <1>2, <1>3, <2>1, <3>1, <3>2 DEF KeptInv
      <3>4. LastOf(pending)' = e
        BY <3>1 DEF LastOf, encoderVars
      <3>. QED
        BY <3>3, <3>4 DEF ToQueue, ToReader, LeadsTo
    <2>. QED
      BY <1>2, <2>1 DEF KeptInv, Chained, Follows, Skipped, encoderVars
  <1>8. PacketsInv'
    <2>1. ASSUME wire # <<>>, Len(wire[Len(wire)].blocks) = 1
          PROVE  ToHeld(LastOf(Plays(wire[Len(wire)])))'
      <3>1. PICK e : e = LastOf(Plays(wire[Len(wire)]))
        OBVIOUS
      <3>2. e.opening \in Nat
        BY <1>2, <2>1, <3>1, SampleIs, PlaysIs, SMTT(60) DEF PacketsInv, Packets
      <3>3. ToHeld(e)'
        BY <1>2, <1>4, <2>1, <3>1, <3>2 DEF PacketsInv
      <3>4. LastOf(Plays(wire[Len(wire)]))' = e
        BY <3>1 DEF LastOf, Plays, encoderVars
      <3>. QED
        BY <3>3, <3>4 DEF ToHeld, ToQueue, ToReader, LeadsTo, Follows
    <2>2. Packets(wire)'
      BY <1>2 DEF PacketsInv, Packets, Chained, Follows, Skipped, LastOf, Plays, encoderVars
    <2>. QED
      BY <2>1, <2>2 DEF PacketsInv, encoderVars
  <1>9. DecodedInv'
    <2>1. ASSUME ~ lost, decoded.samples # <<>>
          PROVE  ToWire(LastOf(decoded.samples))'
      <3>1. PICK e : e = LastOf(decoded.samples)
        OBVIOUS
      <3>2. e.opening \in Nat
        BY <2>1, <3>1, SampleIs, PlaysIs
      <3>3. ToWire(e)'
        BY <1>2, <1>5, <2>1, <3>1, <3>2 DEF DecodedInv
      <3>4. LastOf(decoded.samples)' = e
        BY <3>1 DEF LastOf, encoderVars
      <3>. QED
        BY <3>3, <3>4 DEF ToWire, ToHeld, ToQueue, ToReader, LeadsTo, Follows
    <2>. QED
      BY <2>1 DEF DecodedInv, encoderVars
  <1>. QED
    BY <1>6, <1>7, <1>8, <1>9 DEF ChainInv

LEMMA ReaderChain ==
    ASSUME Types, ChainInv,
           \/ Tick \/ (\E n \in 1 .. MaxUnits : Write(n)) \/ EndOfSource \/ Open \/ SkipHeader
           \/ PipeEnded \/ FileEnded \/ TcpEnded \/ ProcessEnded \/ LibrespotEnded \/ AirplayEnded
    PROVE  ChainInv'
  <1>1. /\ source.opening \in Nat /\ source.given \in Nat /\ reader.read \in Nat
        /\ reader.pumping => source.open
    BY NumbersAre DEF Types, SourceInv
  <1>2. CASE Tick
    BY <1>2, ReaderKeeps DEF Tick, readerVars, ToReader, LeadsTo, Skipped
  <1>3. CASE \E n \in 1 .. MaxUnits : Write(n)
    <2>1. /\ source'.open = source.open /\ source'.opening = source.opening
          /\ ~ source.ended /\ UNCHANGED <<config, reader, tx, encoderVars>>
      BY <1>3 DEF Write, Types, TypeOK
    <2>. QED
      BY <2>1, ReaderKeeps DEF ToReader, LeadsTo, Skipped
  <1>4. CASE EndOfSource
    <2>1. /\ source'.open = source.open /\ source'.opening = source.opening
          /\ source'.given = source.given
          /\ ~ source.ended /\ UNCHANGED <<config, reader, tx, encoderVars>>
      BY <1>4 DEF EndOfSource, Types, TypeOK
    <2>. QED
      BY <2>1, ReaderKeeps DEF ToReader, LeadsTo, Skipped
  <1>5. CASE Open
    <2>1. /\ ~ source.open /\ source'.open /\ source'.opening = source.opening + 1
          /\ reader'.read = 0 /\ (reader'.pumping => config.scheme # "file")
          /\ UNCHANGED <<config, tx, encoderVars>>
      BY <1>5 DEF Open
    <2>2. config.scheme # "file" => Skipped' = 0
      BY <2>1 DEF Skipped
    <2>3. ASSUME NEW a, a.opening \in Nat, ToReader(a)
          PROVE  ToReader(a)'
      <3>1. a.opening <= source.opening
        BY <2>3 DEF ToReader
      <3>2. a.opening < source'.opening /\ a.opening # source'.opening
        BY <1>1, <2>1, <2>3, <3>1
      <3>3. reader'.pumping => reader'.read = Skipped'
        BY <2>1, <2>2
      <3>4. a.opening <= source'.opening
        BY <1>1, <2>1, <2>3, <3>1
      <3>. QED
        BY <3>2, <3>3, <3>4 DEF ToReader, LeadsTo
    <2>. QED
      BY <2>1, <2>3, ReaderKeeps
  <1>6. CASE SkipHeader
    <2>1. /\ source.open /\ ~ reader.pumping
          /\ reader'.read = IF source.given >= Skipped THEN Skipped ELSE source.given
          /\ source.given >= Skipped \/ source.ended
          /\ UNCHANGED <<config, source, tx, encoderVars>>
      BY <1>6 DEF SkipHeader, Types, TypeOK
    <2>2. ASSUME NEW a, a.opening \in Nat, ToReader(a)
          PROVE  ToReader(a)'
      <3>1. a.opening < source.opening
        BY <2>1, <2>2 DEF ToReader
      <3>2. Skipped' = Skipped
        BY <2>1 DEF Skipped
      <3>. QED
        BY <1>1, <2>1, <2>2, <3>1, <3>2 DEF ToReader, LeadsTo
    <2>. QED
      BY <2>1, <2>2, ReaderKeeps
  <1>7. CASE \/ PipeEnded \/ FileEnded \/ TcpEnded
             \/ ProcessEnded \/ LibrespotEnded \/ AirplayEnded
    <2>1. /\ ~ source'.open /\ source'.opening = source.opening /\ ~ reader'.pumping
          /\ UNCHANGED <<config, tx, encoderVars>>
      BY <1>7 DEF PipeEnded, FileEnded, TcpEnded, ProcessEnded, LibrespotEnded, AirplayEnded,
                  Ended, Types, TypeOK
    <2>. QED
      BY <2>1, ReaderKeeps DEF ToReader
  <1>. QED
    BY <1>2, <1>3, <1>4, <1>5, <1>6, <1>7

\* The last sample of a chunk that is pumped is where the reader goes on.
LEMMA PumpChain ==
    ASSUME Types, ChainInv, Pump
    PROVE  ChainInv'
  <1>1. /\ tx \in Seq(Chunk) /\ Pumped \in Chunk /\ tx' = Append(tx, Pumped)
        /\ Pumped.first + ChunkUnits <= source.given
        /\ source.open /\ reader.pumping /\ reader'.pumping
        /\ reader'.read = reader.read + ChunkUnits
        /\ UNCHANGED <<now, config, source, encoderVars>>
    BY PumpIs
  <1>2. SUFFICES ASSUME Unbroken
                 PROVE  ChainInv'
    BY <1>1 DEF ChainInv, Unbroken, Configured
  <1>3. ChunksInv /\ KeptInv /\ PacketsInv /\ DecodedInv
    BY <1>2 DEF ChainInv
  <1>4. /\ Len(tx) \in Nat /\ Len(tx') = Len(tx) + 1 /\ tx' # <<>>
        /\ tx'[Len(tx) + 1] = Pumped /\ \A i \in 1 .. Len(tx) : tx'[i] = tx[i]
    <2>. HIDE DEF Chunk
    <2>. QED
      BY <1>1, AppendIs
  <1>5. /\ Pumped.opening = source.opening /\ Pumped.first = reader.read
        /\ source.opening \in Nat /\ reader.read \in Nat /\ source.given \in Nat
        /\ config.chunk \in Nat \ {0} /\ config.server \in {1, 2}
        /\ ChunkUnits \in Nat /\ ChunkUnits >= config.chunk
    <2>1. config.chunk \in Nat \ {0} /\ config.server \in {1, 2} /\ ChunkUnits \in Nat /\ ChunkUnits >= config.chunk
      BY ConfigIs DEF Types, TypeOK
    <2>. QED
      BY <2>1, NumbersAre DEF Pumped
  <1>6. ~ (source.ended /\ reader.read = source.given)
    BY <1>1, <1>5
  <1>7. \A a : ToReader(a) => LeadsTo(a, Pumped.opening, Pumped.first)
    BY <1>1, <1>5, <1>6 DEF ToReader
  <1>8. /\ EndOf(Pumped).opening = source.opening
        /\ EndOf(Pumped).unit + config.server = reader'.read
    BY <1>1, <1>5 DEF EndOf
  <1>9. tx # <<>> => tx'[1] = tx[1]
    BY <1>4, OnTheWay
  <1>10. tx = <<>> => tx'[1] = Pumped
    BY <1>4
  <1>11. \A a : ToQueue(a) => ToQueue(a)'
    BY <1>1, <1>4, <1>7, <1>9, <1>10 DEF ToQueue, LeadsTo, Skipped
  <1>12. \A a : ToHeld(a) => ToHeld(a)'
    BY <1>1, <1>11 DEF ToHeld, Follows, Skipped, encoderVars
  <1>13. ChunksInv'
    <2>1. ASSUME NEW i \in 1 .. Len(tx') - 1
          PROVE  LeadsTo(EndOf(tx'[i]), tx'[i + 1].opening, tx'[i + 1].first)
      <3>1. CASE i = Len(tx)
        <4>1. tx'[i] = tx[i] /\ tx'[i + 1] = Pumped /\ tx # <<>>
          BY <1>4, <2>1, <3>1
        <4>2. ToReader(EndOf(tx[i]))
          BY <1>3, <3>1, <4>1 DEF ChunksInv
        <4>. QED
          BY <1>7, <4>1, <4>2
      <3>2. CASE i # Len(tx)
        <4>1. i \in 1 .. Len(tx) - 1 /\ tx'[i] = tx[i] /\ tx'[i + 1] = tx[i + 1]
          BY <1>4, <2>1, <3>2
        <4>. QED
          BY <1>3, <4>1 DEF ChunksInv
      <3>. QED
        BY <3>1, <3>2
    <2>2. tx'[Len(tx')] = Pumped
      BY <1>4
    <2>3. \A e : EndOf(e)' = EndOf(e)
      BY <1>1 DEF EndOf, ChunkUnits
    <2>4. PICK p : p = Pumped
      OBVIOUS
    <2>5. ToReader(EndOf(p))'
      <3>1. EndOf(p).opening = source'.opening /\ EndOf(p).unit + config'.server = reader'.read
        BY <1>1, <1>8, <2>4
      <3>2. source'.opening <= source'.opening
        BY <1>1, <1>5
      <3>. QED
        BY <1>1, <2>3, <3>1, <3>2 DEF ToReader, LeadsTo
    <2>6. tx'[Len(tx')] = p
      BY <2>2, <2>4
    <2>7. ToReader(EndOf(tx[Len(tx)]))'
      BY <2>5, <2>6 DEF ToReader, LeadsTo, EndOf
    <2>. QED
      BY <1>1, <2>1, <2>7 DEF ChunksInv, LeadsTo, EndOf, ChunkUnits, Skipped
  <1>14. KeptInv'
    <2>1. ASSUME pending # <<>>
          PROVE  ToQueue(LastOf(pending))'
      <3>1. PICK e : e = LastOf(pending)
        OBVIOUS
      <3>2. ToQueue(e)'
        BY <1>3, <1>11, <2>1, <3>1 DEF KeptInv
      <3>3. LastOf(pending)' = e
        BY <1>1, <3>1 DEF LastOf, encoderVars
      <3>. QED
        BY <3>2, <3>3 DEF ToQueue, ToReader, LeadsTo
    <2>. QED
      BY <1>1, <1>3, <2>1 DEF KeptInv, Chained, Follows, Skipped, encoderVars
  <1>15. PacketsInv'
    <2>1. ASSUME wire # <<>>, Len(wire[Len(wire)].blocks) = 1
          PROVE  ToHeld(LastOf(Plays(wire[Len(wire)])))'
      <3>1. PICK e : e = LastOf(Plays(wire[Len(wire)]))
        OBVIOUS
      <3>2. ToHeld(e)'
        BY <1>3, <1>12, <2>1, <3>1 DEF PacketsInv
      <3>3. LastOf(Plays(wire[Len(wire)]))' = e
        BY <1>1, <3>1 DEF LastOf, Plays, encoderVars
      <3>. QED
        BY <3>2, <3>3 DEF ToHeld, ToQueue, ToReader, LeadsTo, Follows
    <2>2. Packets(wire)'
      BY <1>1, <1>3, SMTT(60) DEF PacketsInv, Packets, Chained, Follows, Skipped, LastOf, Plays, encoderVars
    <2>. QED
      BY <1>1, <2>1, <2>2 DEF PacketsInv, encoderVars
  <1>16. DecodedInv'
    <2>1. ASSUME ~ lost, decoded.samples # <<>>
          PROVE  ToWire(LastOf(decoded.samples))'
      <3>1. PICK e : e = LastOf(decoded.samples)
        OBVIOUS
      <3>2. ToWire(e)'
        BY <1>1, <1>3, <1>12, <2>1, <3>1
           DEF DecodedInv, ToWire, Follows, Skipped, Plays, encoderVars
      <3>3. LastOf(decoded.samples)' = e
        BY <1>1, <3>1 DEF LastOf, encoderVars
      <3>. QED
        BY <3>2, <3>3 DEF ToWire, ToHeld, ToQueue, ToReader, LeadsTo, Follows
    <2>. QED
      BY <1>1, <2>1 DEF DecodedInv, encoderVars
  <1>. QED
    BY <1>13, <1>14, <1>15, <1>16 DEF ChainInv

\* The samples an encoder takes a chunk with follow one another to the end of the chunk.
LEMMA WaitingChained ==
    ASSUME Types, Unbroken, NEW c \in Chunk, c.first + ChunkUnits <= MaxUnits, Chained(pending),
           pending # <<>> => LeadsTo(LastOf(pending), c.opening, c.first)
    PROVE  /\ Waiting(c) \in Seq(Sample) /\ Waiting(c) # <<>> /\ Chained(Waiting(c))
           /\ Len(Waiting(c)) = Len(pending) + config.chunk
           /\ LastOf(Waiting(c)).opening = EndOf(c).opening
           /\ LastOf(Waiting(c)).unit = EndOf(c).unit
           /\ pending # <<>> => Waiting(c)[1] = pending[1]
           /\ pending = <<>> => Waiting(c)[1].opening = c.opening /\ Waiting(c)[1].unit = c.first
  <1>. DEFINE all == Waiting(c)
              n   == Len(pending)
              m   == Len(Samples(c))
  <1>1. /\ all \in Seq(Sample) /\ n \in Nat /\ m \in Nat /\ Len(all) = n + m
        /\ \A i \in 1 .. n : all[i] = pending[i]
        /\ \A i \in 1 .. m : all[n + i] = Samples(c)[i]
        /\ pending \in Seq(Sample)
    BY WaitingIs
  <1>2. /\ config \in Config /\ config.chunk \in Nat \ {0} /\ config.source = config.server
        /\ config.server \in {1, 2}
        /\ config.server = 1 => ChunkUnits = config.chunk
        /\ config.server = 2 => ChunkUnits = 2 * config.chunk
    BY ConfigIs DEF Types, TypeOK, Unbroken, Configured
  <1>3. m = config.chunk
    BY <1>2, SamplesAre
  <1>4. c.first \in Nat /\ c.opening \in Nat
    BY BoundsAre DEF Chunk
  <1>5. ASSUME NEW i \in 1 .. m
        PROVE  /\ Samples(c)[i].unit = c.first + (i - 1) * config.server
               /\ Samples(c)[i].opening = c.opening
    <2>1. Samples(c)[i] = [opening |-> c.opening, unit |-> c.first + (i - 1) * config.server,
                           stamp |-> c.stamp + i - 1]
      BY <1>2, SamplesAre
    <2>. QED
      BY <2>1
  <1>. HIDE DEF all, n, m
  <1>6. ASSUME NEW i \in 1 .. Len(all), i > n
        PROVE  all[i].opening = c.opening /\ all[i].unit = c.first + (i - n - 1) * config.server
    <2>. DEFINE k == i - n
    <2>1. k \in 1 .. m /\ n + k = i
      BY <1>1, <1>6
    <2>. HIDE DEF k
    <2>2. all[i] = Samples(c)[k]
      BY <1>1, <2>1
    <2>3. all[i].opening = c.opening /\ all[i].unit = c.first + (k - 1) * config.server
      BY <1>5, <2>1, <2>2
    <2>. QED
      BY <2>3 DEF k
  <1>7. ASSUME NEW i \in 1 .. Len(all) - 1
        PROVE  Follows(all[i], all[i + 1])
    <2>1. i \in 1 .. Len(all) /\ i + 1 \in 1 .. Len(all) /\ i \in Nat
      BY <1>1
    <2>2. CASE i > n
      <3>1. /\ all[i].opening = c.opening /\ all[i].unit = c.first + (i - n - 1) * config.server
            /\ all[i + 1].opening = c.opening
            /\ all[i + 1].unit = c.first + ((i + 1) - n - 1) * config.server
        BY <1>1, <1>6, <2>1, <2>2
      <3>2. (c.first + (i - n - 1) * config.server) + config.server
                = c.first + ((i + 1) - n - 1) * config.server
        <4>1. CASE config.server = 1
          BY <1>1, <1>4, <2>1, <4>1
        <4>2. CASE config.server = 2
          BY <1>1, <1>4, <2>1, <4>2
        <4>. QED
          BY <1>2, <4>1, <4>2
      <3>. QED
        BY <3>1, <3>2 DEF Follows
    <2>3. CASE i = n
      <3>1. i \in 1 .. n /\ pending # <<>>
        <4>1. Len(<<>>) = 0
          OBVIOUS
        <4>. QED
          BY <1>1, <2>3, <4>1 DEF n
      <3>2. all[i] = LastOf(pending)
        BY <1>1, <2>3, <3>1 DEF LastOf, n
      <3>3. /\ all[i + 1].opening = c.opening
            /\ all[i + 1].unit = c.first + ((i + 1) - n - 1) * config.server
        BY <1>1, <1>6, <2>1, <2>3, SMTT(60)
      <3>4. c.first + ((i + 1) - n - 1) * config.server = c.first
        <4>1. (i + 1) - n - 1 = 0
          BY <1>1, <2>3
        <4>. QED
          BY <1>2, <1>4, <4>1
      <3>. QED
        BY <3>1, <3>2, <3>3, <3>4 DEF Follows, LeadsTo
    <2>4. CASE i < n
      <3>1. i \in 1 .. n - 1 /\ all[i] = pending[i] /\ all[i + 1] = pending[i + 1]
        <4>1. i \in 1 .. n - 1 /\ i \in 1 .. n /\ i + 1 \in 1 .. n
          BY <1>1, <2>1, <2>4
        <4>. QED
          BY <1>1, <4>1
      <3>. QED
        BY <3>1 DEF Chained, n
    <2>. QED
      BY <1>1, <2>1, <2>2, <2>3, <2>4
  <1>8. Len(all) \in 1 .. Len(all) /\ Len(all) > n /\ 1 \in 1 .. Len(all) /\ Len(all) = n + config.chunk
    BY <1>1, <1>2, <1>3
  <1>9. /\ LastOf(all).opening = c.opening
        /\ LastOf(all).unit = c.first + (config.chunk - 1) * config.server
    <2>1. /\ all[Len(all)].opening = c.opening
          /\ all[Len(all)].unit = c.first + (Len(all) - n - 1) * config.server
      BY <1>6, <1>8
    <2>2. Len(all) - n - 1 = config.chunk - 1
      BY <1>1, <1>2, <1>8
    <2>. QED
      BY <2>1, <2>2 DEF LastOf
  <1>10. c.first + (config.chunk - 1) * config.server = c.first + ChunkUnits - config.server
    <2>1. CASE config.server = 1
      BY <1>2, <1>4, <2>1
    <2>2. CASE config.server = 2
      BY <1>2, <1>4, <2>2
    <2>. QED
      BY <1>2, <2>1, <2>2
  <1>11. pending # <<>> => all[1] = pending[1]
    <2>1. pending # <<>> => n >= 1
      BY <1>1, EmptySeq DEF n
    <2>. QED
      BY <1>1, <2>1
  <1>12. pending = <<>> => all[1].opening = c.opening /\ all[1].unit = c.first
    <2>1. ASSUME pending = <<>>
          PROVE  n = 0
      BY <2>1 DEF n
    <2>2. ASSUME n = 0
          PROVE  all[1].opening = c.opening /\ all[1].unit = c.first
      <3>1. all[1].opening = c.opening /\ all[1].unit = c.first + (1 - n - 1) * config.server
        BY <1>6, <1>8, <2>2
      <3>2. 1 - n - 1 = 0 /\ c.first + 0 * config.server = c.first
        BY <1>2, <1>4, <2>2
      <3>. QED
        BY <3>1, <3>2
    <2>. QED
      BY <2>1, <2>2
  <1>13. all # <<>>
    <2>1. Len(<<>>) = 0
      OBVIOUS
    <2>. QED
      BY <1>1, <1>2, <1>8, <2>1
  <1>14. EndOf(c).opening = c.opening /\ EndOf(c).unit = c.first + ChunkUnits - config.server
    BY DEF EndOf
  <1>. QED
    BY <1>1, <1>7, <1>8, <1>9, <1>10, <1>11, <1>12, <1>13, <1>14 DEF Chained, all, n

LEMMA ChainedPart ==
    ASSUME NEW s \in Seq(Sample), Chained(s), NEW m \in Nat, NEW n \in Nat, m < n, n <= Len(s)
    PROVE  /\ Chained(SubSeq(s, m + 1, n)) /\ SubSeq(s, m + 1, n) # <<>>
           /\ SubSeq(s, m + 1, n)[1] = s[m + 1]
           /\ LastOf(SubSeq(s, m + 1, n)) = s[n]
  <1>. DEFINE r == SubSeq(s, m + 1, n)
  <1>1. Len(r) = n - m /\ \A i \in 1 .. n - m : r[i] = s[m + i]
    BY Part
  <1>2. Len(s) \in Nat
    BY LenProperties
  <1>. HIDE DEF r
  <1>3. ASSUME NEW i \in 1 .. Len(r) - 1
        PROVE  Follows(r[i], r[i + 1])
    <2>. DEFINE k == m + i
    <2>1. k \in 1 .. Len(s) - 1 /\ r[i] = s[k] /\ r[i + 1] = s[k + 1]
      BY <1>1, <1>2
    <2>. HIDE DEF k
    <2>. QED
      BY <2>1 DEF Chained
  <1>4. r # <<>>
    <2>1. Len(<<>>) = 0
      OBVIOUS
    <2>. QED
      BY <1>1, <2>1
  <1>5. 1 \in 1 .. n - m /\ n - m \in 1 .. n - m /\ m + (n - m) = n
    OBVIOUS
  <1>. QED
    BY <1>1, <1>3, <1>4, <1>5 DEF Chained, LastOf, r

\* What an encoder sends and keeps of them follows one another, nothing of it is missing
\* unless it fills several blocks.
LEMMA EncodedChained ==
    ASSUME Types, Unbroken, NEW c \in Chunk, c.first + ChunkUnits <= MaxUnits,
           NEW all, all = Waiting(c), all \in Seq(Sample), all # <<>>, Chained(all),
           Len(all) = Len(pending) + config.chunk,
           NEW blocks, blocks = Encoded(c).blocks, NEW kept, kept = Encoded(c).pending
    PROVE  /\ blocks = <<>> => kept = all
           /\ blocks # <<>> => Head(blocks) # <<>> /\ Chained(Head(blocks)) /\ Head(blocks)[1] = all[1]
           /\ kept # <<>> => Chained(kept) /\ LastOf(kept) = LastOf(all)
           /\ kept = <<>> => Chained(kept)
           /\ Len(blocks) = 1 =>
                 IF kept # <<>> THEN Follows(LastOf(Head(blocks)), kept[1])
                 ELSE LastOf(Head(blocks)) = LastOf(all)
  <1>1. PICK len \in 0 .. Len(all), taken \in 0 .. Len(all) : Parts(Encoded(c), all, len, taken)
    BY EncodedIs
  <1>2. /\ Len(all) \in Nat /\ Len(all) >= 1 /\ len \in Nat /\ len <= Len(all)
        /\ taken \in Nat /\ taken <= Len(all)
    BY EmptySeq
  <1>3. /\ config.codec \in {"pcm", "f32lz4", "flac", "opus"} /\ config.chunk \in Nat \ {0}
        /\ Block["flac"] \in Nat \ {0} /\ Block["opus"] \in Nat \ {0}
    BY ConfigIs DEF Types, TypeOK
  <1>4. kept = SubSeq(all, taken + 1, Len(all)) /\ kept \in Seq(Sample)
    BY <1>1, EncodedIs DEF Parts
  <1>5. blocks \in Seq(Seq(Sample)) /\ (blocks # <<>> => Head(blocks) = blocks[1])
    BY EncodedIs, TailIs
  <1>6. config.codec = "opus" => Len(all) = config.chunk /\ Len(all) % Block["opus"] = 0
    <2>1. ASSUME config.codec = "opus"
          PROVE  Len(pending) = 0
      <3>1. Len(<<>>) = 0
        OBVIOUS
      <3>. QED
        BY <2>1, <3>1 DEF Types, SourceInv
    <2>. QED
      BY <1>3, <2>1 DEF Unbroken
  <1>7. ASSUME blocks = <<>>
        PROVE  kept = all
    <2>1. taken = 0
      <3>1. CASE config.codec = "opus"
        <4>1. Len(all) < Block["opus"]
          BY <1>1, <1>7, <3>1 DEF Parts
        <4>2. Len(all) % Block["opus"] = Len(all)
          <5>1. \A a, b \in Nat : a < b => a % b = a
            OBVIOUS
          <5>. QED
            BY <1>2, <1>3, <4>1, <5>1
        <4>. QED
          BY <1>2, <1>6, <3>1, <4>2
      <3>2. CASE config.codec # "opus"
        BY <1>1, <1>7, <3>2 DEF Parts
      <3>. QED
        BY <3>1, <3>2
    <2>2. SubSeq(all, 1, Len(all)) = all
      BY SubSeqFull
    <2>3. 0 + 1 = 1
      OBVIOUS
    <2>. QED
      BY <1>4, <2>1, <2>2, <2>3
  <1>8. ASSUME blocks # <<>>
        PROVE  /\ Head(blocks) # <<>> /\ Chained(Head(blocks)) /\ Head(blocks)[1] = all[1]
               /\ len >= 1 /\ LastOf(Head(blocks)) = all[len]
    <2>1. Head(blocks) = SubSeq(all, 1, len)
      BY <1>1, <1>5, <1>8 DEF Parts
    <2>2. len >= 1
      BY <1>1, <1>2, <1>3, <1>8, SMTT(60) DEF Parts
    <2>3. /\ Chained(SubSeq(all, 0 + 1, len)) /\ SubSeq(all, 0 + 1, len) # <<>>
          /\ SubSeq(all, 0 + 1, len)[1] = all[0 + 1]
          /\ LastOf(SubSeq(all, 0 + 1, len)) = all[len]
      <3>1. 0 \in Nat /\ 0 < len
        BY <1>2, <2>2
      <3>. QED
        BY <1>2, <3>1, ChainedPart
    <2>4. 0 + 1 = 1
      OBVIOUS
    <2>. QED
      BY <2>1, <2>2, <2>3, <2>4
  <1>9. CASE taken = Len(all)
    <2>1. kept = <<>>
      BY <1>2, <1>4, <1>9, SubSeqEmpty
    <2>2. Len(blocks) = 1 => LastOf(Head(blocks)) = LastOf(all)
      <3>1. Len(blocks) = 1 => blocks # <<>>
        <4>1. Len(<<>>) = 0
          OBVIOUS
        <4>2. blocks = <<>> => Len(blocks) = 0
          BY <4>1
        <4>. QED
          BY <4>2
      <3>2. Len(blocks) = 1 => taken = len
        BY <1>1, <1>6 DEF Parts
      <3>. QED
        BY <1>8, <1>9, <3>1, <3>2 DEF LastOf
    <2>3. Chained(<<>>)
      <3>1. Len(<<>>) = 0
        OBVIOUS
      <3>. QED
        BY <3>1 DEF Chained
    <2>. QED
      BY <1>7, <1>8, <2>1, <2>2, <2>3
  <1>10. CASE taken < Len(all)
    <2>1. /\ Chained(kept) /\ kept # <<>> /\ kept[1] = all[taken + 1] /\ LastOf(kept) = all[Len(all)]
      BY <1>2, <1>4, <1>10, ChainedPart
    <2>2. Len(blocks) = 1 => Follows(LastOf(Head(blocks)), kept[1])
      <3>1. Len(blocks) = 1 => blocks # <<>>
        <4>1. Len(<<>>) = 0
          OBVIOUS
        <4>2. blocks = <<>> => Len(blocks) = 0
          BY <4>1
        <4>. QED
          BY <4>2
      <3>2. Len(blocks) = 1 => taken = len
        BY <1>1, <1>6 DEF Parts
      <3>3. taken >= 1 => Follows(all[taken], all[taken + 1])
        <4>1. taken >= 1 => taken \in 1 .. Len(all) - 1
          BY <1>2, <1>10
        <4>. QED
          BY <4>1 DEF Chained
      <3>. QED
        BY <1>8, <2>1, <3>1, <3>2, <3>3
    <2>. QED
      BY <1>7, <1>8, <2>1, <2>2 DEF LastOf
  <1>. QED
    BY <1>2, <1>9, <1>10

\* A sample that leads to what the encoder holds, or to the chunk it gets, leads to the first
\* of them; the last of them leads to what is in the channel then.
LEMMA EncodeLeads ==
    ASSUME Types, Unbroken, ChunksInv, NEW c \in Chunk, NEW k, Sent(c, k),
           NEW all, all # <<>>, NEW last, last = LastOf(all),
           last.opening = EndOf(c).opening, last.unit = EndOf(c).unit,
           pending # <<>> => all[1] = pending[1],
           pending = <<>> => all[1].opening = c.opening /\ all[1].unit = c.first
    PROVE  /\ \A a : ToHeld(a) => Follows(a, all[1])
           /\ ToQueue(last)'
  <1>1. /\ tx # <<>> /\ c = tx[1] /\ tx' = Tail(tx)
        /\ UNCHANGED <<now, config, source, reader, ts, decoded>>
    BY DEF Sent
  <1>2. \A a : ToHeld(a) => Follows(a, all[1])
    BY <1>1 DEF ToHeld, ToQueue, Follows, LeadsTo
  <1>3. /\ Len(tx) \in Nat /\ Len(tx) >= 1 /\ Len(tx') = Len(tx) - 1
        /\ \A i \in 1 .. Len(tx) - 1 : tx'[i] = tx[i + 1]
        /\ tx' \in Seq(Chunk)
    BY <1>1, HeadIs
  <1>4. ASSUME tx' # <<>>
        PROVE  ToQueue(last)'
    <2>1. Len(tx') >= 1
      BY <1>3, <1>4, EmptySeq
    <2>2. 1 \in 1 .. Len(tx) - 1 /\ tx'[1] = tx[1 + 1]
      BY <1>3, <2>1
    <2>3. LeadsTo(EndOf(tx[1]), tx[1 + 1].opening, tx[1 + 1].first)
      BY <2>2 DEF ChunksInv
    <2>4. LeadsTo(last, tx'[1].opening, tx'[1].first)
      BY <1>1, <2>2, <2>3 DEF LeadsTo
    <2>. QED
      BY <1>1, <1>4, <2>4 DEF ToQueue, LeadsTo, Skipped
  <1>5. ASSUME tx' = <<>>
        PROVE  ToQueue(last)'
    <2>1. Len(tx) = 1
      <3>1. Len(<<>>) = 0
        OBVIOUS
      <3>. QED
        BY <1>3, <1>5, <3>1
    <2>2. ToReader(EndOf(c))
      BY <1>1, <2>1 DEF ChunksInv
    <2>3. ToReader(last)
      BY <2>2 DEF ToReader, LeadsTo
    <2>. QED
      BY <1>1, <1>5, <2>3 DEF ToQueue, ToReader, LeadsTo, Skipped
  <1>. QED
    BY <1>2, <1>4, <1>5

\* What is sent follows what was, and leads to what the encoder holds then; when
\* the oldest packet is dropped, lost says so.
LEMMA EncodeChain ==
    ASSUME Types, ChainInv, Encode
    PROVE  ChainInv'
  <1>1. PICK c \in Chunk, k \in {0, 1} : Sent(c, k) /\ (k = 0 \/ lost')
    BY EncodeIs
  <1>2. /\ tx # <<>> /\ c = tx[1] /\ c.first + ChunkUnits <= MaxUnits
        /\ tx' = Tail(tx) /\ pending' = Encoded(c).pending
        /\ wire' \in Seq(Packet) /\ Len(wire') \in Nat
        /\ Len(wire') = Len(Broadcast(c)) - k /\ Len(Broadcast(c)) \in Nat
        /\ \A i \in 1 .. Len(wire') : wire'[i] = Broadcast(c)[i + k]
        /\ UNCHANGED <<now, config, source, reader, ts, decoded>>
    BY <1>1 DEF Sent
  <1>3. SUFFICES ASSUME Unbroken
                 PROVE  ChainInv'
    BY <1>2 DEF ChainInv, Unbroken, Configured
  <1>4. ChunksInv /\ KeptInv /\ PacketsInv /\ DecodedInv
    BY <1>3 DEF ChainInv
  <1>5. PICK all : all = Waiting(c)
    OBVIOUS
  <1>6. PICK blocks : blocks = Encoded(c).blocks
    OBVIOUS
  <1>7. PICK kept : kept = Encoded(c).pending
    OBVIOUS
  <1>8. PICK w : w = Broadcast(c)
    OBVIOUS
  <1>9. PICK last : last = LastOf(all)
    OBVIOUS
  <1>10. pending # <<>> => LeadsTo(LastOf(pending), c.opening, c.first)
    BY <1>2, <1>4 DEF KeptInv, ToQueue
  <1>11. /\ all \in Seq(Sample) /\ all # <<>> /\ Chained(all)
         /\ Len(all) = Len(pending) + config.chunk
         /\ last.opening = EndOf(c).opening /\ last.unit = EndOf(c).unit
         /\ pending # <<>> => all[1] = pending[1]
         /\ pending = <<>> => all[1].opening = c.opening /\ all[1].unit = c.first
    BY <1>2, <1>3, <1>4, <1>5, <1>9, <1>10, WaitingChained DEF KeptInv
  <1>12. /\ \A a : ToHeld(a) => Follows(a, all[1])
         /\ ToQueue(last)'
    BY <1>1, <1>3, <1>4, <1>9, <1>11, EncodeLeads
  <1>13. /\ blocks = <<>> => kept = all
         /\ blocks # <<>> => Head(blocks) # <<>> /\ Chained(Head(blocks)) /\ Head(blocks)[1] = all[1]
         /\ kept # <<>> => Chained(kept) /\ LastOf(kept) = LastOf(all)
         /\ kept = <<>> => Chained(kept)
         /\ Len(blocks) = 1 =>
               IF kept # <<>> THEN Follows(LastOf(Head(blocks)), kept[1])
               ELSE LastOf(Head(blocks)) = LastOf(all)
    BY <1>2, <1>3, <1>5, <1>6, <1>7, <1>11, EncodedChained
  <1>14. /\ Packets(w)
         /\ w # <<>> /\ Len(w[Len(w)].blocks) = 1 =>
               \A a : a = LastOf(Plays(w[Len(w)])) => ToHeld(a)'
         /\ \A a : ToWire(a) => IF w # <<>> THEN Follows(a, Plays(w[1])[1]) ELSE ToHeld(a)'
    <2>1. pending' = kept /\ config' = config /\ c.first + ChunkUnits <= MaxUnits /\ all # <<>>
      BY <1>2, <1>7, <1>11
    <2>2. ToQueue(last)' /\ PacketsInv /\ \A a : ToHeld(a) => Follows(a, all[1])
      BY <1>4, <1>12
    <2>. USE <1>3, <1>6, <1>7, <1>8, <1>13, <2>1, <2>2
    <2>3. wire \in Seq(Packet) /\ Len(wire) \in Nat /\ (wire # <<>> => Len(wire) >= 1)
      BY PlaysIs
    <2>4. \A a, b : Follows(a, b) => Follows(a, b)'
      BY DEF Follows, Skipped
    <2>5. CASE blocks = <<>>
      <3>1. w = wire
        BY <2>5, BroadcastIs
      <3>2. kept # <<>> /\ kept = all
        BY <2>5
      <3>3. \A a : ToHeld(a) => ToHeld(a)'
        BY <2>4, <3>2 DEF ToHeld
      <3>. QED
        BY <3>1, <3>3 DEF PacketsInv, ToWire
    <2>6. CASE blocks # <<>>
      <3>1. /\ Len(w) = Len(wire) + 1
            /\ w[Len(wire) + 1] = [stamp |-> c.stamp, blocks |-> blocks]
            /\ \A i \in 1 .. Len(wire) : w[i] = wire[i]
        BY <2>6, BroadcastIs
      <3>2. w[Len(wire) + 1].blocks = blocks /\ Plays(w[Len(wire) + 1]) = Head(blocks)
        BY <3>1 DEF Plays
      <3>3. w # <<>>
        <4>1. Len(<<>>) = 0
          OBVIOUS
        <4>2. w = <<>> => Len(w) = 0
          BY <4>1
        <4>. QED
          BY <2>3, <3>1, <4>2
      <3>4. \A i \in 1 .. Len(w) : Plays(w[i]) # <<>> /\ Chained(Plays(w[i]))
        BY <2>3, <2>6, <3>1, <3>2 DEF PacketsInv, Packets
      <3>5. ASSUME NEW i \in 1 .. Len(w) - 1, Len(w[i].blocks) = 1
            PROVE  Follows(LastOf(Plays(w[i])), Plays(w[i + 1])[1])
        <4>1. CASE i = Len(wire)
          <5>1. w[i] = wire[i] /\ wire # <<>> /\ Plays(w[i + 1]) = Head(blocks)
            <6>1. wire = <<>> => Len(wire) = 0
              OBVIOUS
            <6>. QED
              BY <2>3, <3>1, <3>2, <3>5, <4>1, <6>1
          <5>2. ToHeld(LastOf(Plays(wire[Len(wire)])))
            BY <3>5, <4>1, <5>1 DEF PacketsInv
          <5>. QED
            BY <2>6, <4>1, <5>1, <5>2
        <4>2. CASE i # Len(wire)
          <5>1. i \in 1 .. Len(wire) - 1 /\ w[i] = wire[i] /\ w[i + 1] = wire[i + 1]
            BY <2>3, <3>1, <3>5, <4>2
          <5>. QED
            BY <3>5, <5>1 DEF PacketsInv, Packets
        <4>. QED
          BY <4>1, <4>2
      <3>6. ASSUME Len(w[Len(w)].blocks) = 1, NEW a, a = LastOf(Plays(w[Len(w)]))
            PROVE  ToHeld(a)'
        <4>1. Len(blocks) = 1 /\ a = LastOf(Head(blocks))
          BY <3>1, <3>2, <3>6
        <4>2. CASE kept # <<>>
          <5>1. Follows(a, kept[1])
            BY <4>1, <4>2
          <5>. QED
            BY <2>4, <4>2, <5>1 DEF ToHeld
        <4>3. CASE kept = <<>>
          <5>1. a = last
            BY <4>1, <4>3, <1>9
          <5>. QED
            BY <4>3, <5>1 DEF ToHeld
        <4>. QED
          BY <4>2, <4>3
      <3>7. ASSUME NEW a, ToWire(a)
            PROVE  Follows(a, Plays(w[1])[1])
        <4>1. CASE wire = <<>>
          <5>1. Plays(w[1]) = Head(blocks)
            <6>1. Len(<<>>) = 0
              OBVIOUS
            <6>2. Len(wire) = 0
              BY <4>1, <6>1
            <6>. QED
              BY <3>2, <6>2
          <5>. QED
            BY <2>6, <3>7, <4>1, <5>1 DEF ToWire
        <4>2. CASE wire # <<>>
          <5>1. w[1] = wire[1]
            BY <2>3, <3>1, <4>2
          <5>. QED
            BY <3>7, <4>2, <5>1 DEF ToWire
        <4>. QED
          BY <4>1, <4>2
      <3>. QED
        BY <3>3, <3>4, <3>5, <3>6, <3>7 DEF Packets
    <2>. QED
      BY <2>5, <2>6
  <1>15. ChunksInv'
    <2>1. /\ Len(tx) \in Nat /\ Len(tx) >= 1 /\ Len(tx') = Len(tx) - 1 /\ tx' \in Seq(Chunk)
          /\ \A i \in 1 .. Len(tx) - 1 : tx'[i] = tx[i + 1]
      BY <1>2, HeadIs
    <2>2. ASSUME NEW i \in 1 .. Len(tx') - 1
          PROVE  LeadsTo(EndOf(tx'[i]), tx'[i + 1].opening, tx'[i + 1].first)
      <3>. DEFINE j == i + 1
      <3>1. j \in 1 .. Len(tx) - 1 /\ tx'[i] = tx[j] /\ tx'[i + 1] = tx[j + 1]
        BY <2>1
      <3>. HIDE DEF j
      <3>. QED
        BY <1>4, <3>1 DEF ChunksInv
    <2>3. ASSUME tx' # <<>>
          PROVE  ToReader(EndOf(tx[Len(tx)]))'
      <3>1. PICK e : e = EndOf(tx[Len(tx)])
        OBVIOUS
      <3>2. ToReader(e)
        BY <1>2, <1>4, <3>1 DEF ChunksInv
      <3>3. ToReader(e)'
        BY <1>2, <3>2 DEF ToReader, LeadsTo, Skipped
      <3>4. Len(tx') >= 1
        BY <2>1, <2>3, EmptySeq
      <3>5. tx'[Len(tx')] = tx[Len(tx)]
        BY <2>1, <3>4
      <3>6. EndOf(tx[Len(tx)])' = e
        BY <1>2, <3>1, <3>5 DEF EndOf, ChunkUnits
      <3>. QED
        BY <3>3, <3>6 DEF ToReader, LeadsTo
    <2>. QED
      BY <1>2, <2>2, <2>3 DEF ChunksInv, LeadsTo, EndOf, ChunkUnits, Skipped
  <1>16. KeptInv'
    <2>1. ASSUME kept # <<>>
          PROVE  ToQueue(LastOf(pending))'
      <3>1. LastOf(pending)' = last
        BY <1>2, <1>7, <1>9, <1>13, <2>1 DEF LastOf
      <3>. QED
        BY <1>12, <3>1 DEF ToQueue, ToReader, LeadsTo
    <2>2. Chained(kept)
      BY <1>13
    <2>. QED
      BY <1>2, <1>7, <2>1, <2>2 DEF KeptInv, Chained, Follows, Skipped
  <1>17. \A i \in 1 .. Len(wire') : i + k \in 1 .. Len(w) /\ wire'[i] = w[i + k]
    BY <1>2, <1>8
  <1>18. Packets(wire')
    <2>1. ASSUME NEW i \in 1 .. Len(wire') - 1, Len(wire'[i].blocks) = 1
          PROVE  Follows(LastOf(Plays(wire'[i])), Plays(wire'[i + 1])[1])
      <3>. DEFINE j == i + k
      <3>1. i \in 1 .. Len(wire') /\ i + 1 \in 1 .. Len(wire') /\ (i + 1) + k = j + 1
        BY <1>2
      <3>2. j \in 1 .. Len(w) - 1 /\ wire'[i] = w[j] /\ wire'[i + 1] = w[j + 1]
        BY <1>2, <1>8, <1>17, <3>1
      <3>. HIDE DEF j
      <3>. QED
        BY <1>14, <2>1, <3>2 DEF Packets
    <2>2. \A i \in 1 .. Len(wire') : Plays(wire'[i]) # <<>> /\ Chained(Plays(wire'[i]))
      BY <1>14, <1>17 DEF Packets
    <2>. QED
      BY <2>1, <2>2 DEF Packets
  <1>19. PacketsInv'
    <2>1. ASSUME wire' # <<>>, Len(wire'[Len(wire')].blocks) = 1
          PROVE  ToHeld(LastOf(Plays(wire[Len(wire)])))'
      <3>1. Len(wire') >= 1
        BY <1>2, <2>1, EmptySeq
      <3>2. wire'[Len(wire')] = w[Len(w)] /\ Len(w) >= 1
        <4>1. Len(wire') \in 1 .. Len(wire') /\ Len(wire') + k = Len(w)
          BY <1>2, <1>8, <3>1
        <4>. QED
          BY <1>2, <1>17, <3>1, <4>1
      <3>3. w # <<>>
        <4>1. Len(<<>>) = 0
          OBVIOUS
        <4>2. w = <<>> => Len(w) = 0
          BY <4>1
        <4>. QED
          BY <3>2, <4>2
      <3>4. PICK e : e = LastOf(Plays(w[Len(w)]))
        OBVIOUS
      <3>5. ToHeld(e)'
        BY <1>14, <2>1, <3>2, <3>3, <3>4
      <3>6. LastOf(Plays(wire[Len(wire)]))' = e
        BY <3>2, <3>4 DEF LastOf, Plays
      <3>. QED
        BY <3>5, <3>6 DEF ToHeld, ToQueue, ToReader, LeadsTo, Follows
    <2>. QED
      BY <1>2, <1>18, <2>1 DEF PacketsInv, Packets, Chained, Follows, Skipped, LastOf, Plays
  <1>20. DecodedInv'
    <2>1. ASSUME ~ lost', decoded.samples # <<>>
          PROVE  ToWire(LastOf(decoded.samples))'
      <3>1. ~ lost /\ k = 0
        BY <1>1, <2>1, EncodeIs
      <3>2. PICK e : e = LastOf(decoded.samples)
        OBVIOUS
      <3>3. ToWire(e)
        BY <1>4, <2>1, <3>1, <3>2 DEF DecodedInv
      <3>4. IF w # <<>> THEN Follows(e, Plays(w[1])[1]) ELSE ToHeld(e)'
        BY <1>14, <3>3
      <3>5. CASE wire' # <<>>
        <4>1. Len(wire') >= 1
          BY <1>2, <3>5, EmptySeq
        <4>2. 1 \in 1 .. Len(wire') /\ wire'[1] = w[1] /\ Len(w) >= 1
          <5>1. 1 \in 1 .. Len(wire') /\ 1 + k = 1 /\ Len(w) = Len(wire')
            BY <1>2, <1>8, <3>1, <4>1
          <5>. QED
            BY <1>17, <4>1, <5>1
        <4>3. w # <<>>
          <5>1. Len(<<>>) = 0
            OBVIOUS
          <5>2. w = <<>> => Len(w) = 0
            BY <5>1
          <5>. QED
            BY <4>2, <5>2
        <4>4. ToWire(e)'
          BY <1>2, <3>4, <3>5, <4>2, <4>3 DEF ToWire, Follows, Skipped, Plays
        <4>5. LastOf(decoded.samples)' = e
          BY <1>2, <3>2 DEF LastOf
        <4>. QED
          BY <4>4, <4>5 DEF ToWire, ToHeld, ToQueue, ToReader, LeadsTo, Follows
      <3>6. CASE wire' = <<>>
        <4>1. w = <<>>
          <5>1. Len(<<>>) = 0
            OBVIOUS
          <5>2. Len(w) = 0
            BY <1>2, <1>8, <3>1, <3>6, <5>1
          <5>3. w \in Seq(Packet)
            BY <1>1, <1>8 DEF Sent
          <5>. QED
            BY <5>2, <5>3, EmptySeq
        <4>2. ToWire(e)'
          BY <3>4, <3>6, <4>1 DEF ToWire
        <4>3. LastOf(decoded.samples)' = e
          BY <1>2, <3>2 DEF LastOf
        <4>. QED
          BY <4>2, <4>3 DEF ToWire, ToHeld, ToQueue, ToReader, LeadsTo, Follows
      <3>. QED
        BY <3>5, <3>6
    <2>. QED
      BY <1>2, <2>1 DEF DecodedInv
  <1>. QED
    BY <1>15, <1>16, <1>19, <1>20 DEF ChainInv

\* What is decoded leads to what is behind it, unless parts of it are lost.
LEMMA DecodeChain ==
    ASSUME Types, ChainInv, Decode
    PROVE  ChainInv'
  <1>1. /\ wire # <<>> /\ decoded' = [stamp |-> wire[1].stamp, samples |-> Head(wire[1].blocks)]
        /\ lost' = (Len(wire[1].blocks) > 1)
        /\ wire' \in Seq(Packet) /\ Len(wire) \in Nat /\ Len(wire) >= 1
        /\ Len(wire') = Len(wire) - 1
        /\ \A i \in 1 .. Len(wire) - 1 : wire'[i] = wire[i + 1]
        /\ UNCHANGED <<now, config, readerVars, pending>>
    BY DecodeIs
  <1>2. SUFFICES ASSUME Unbroken
                 PROVE  ChainInv'
    BY <1>1 DEF ChainInv, Unbroken, Configured
  <1>3. ChunksInv /\ KeptInv /\ PacketsInv /\ DecodedInv
    BY <1>2 DEF ChainInv
  <1>4. ChunksInv' /\ KeptInv'
    BY <1>1, <1>3 DEF ChunksInv, KeptInv, Chained, Follows, ToQueue, ToReader, LeadsTo, EndOf,
                      LastOf, ChunkUnits, Skipped, readerVars
  <1>5. \A a : ToHeld(a) => ToHeld(a)'
    BY <1>1 DEF ToHeld, ToQueue, ToReader, LeadsTo, Follows, Skipped, readerVars
  <1>6. \A i \in 1 .. Len(wire') : i + 1 \in 1 .. Len(wire) /\ wire'[i] = wire[i + 1]
    BY <1>1
  <1>7. Packets(wire')
    <2>1. ASSUME NEW i \in 1 .. Len(wire') - 1, Len(wire'[i].blocks) = 1
          PROVE  Follows(LastOf(Plays(wire'[i])), Plays(wire'[i + 1])[1])
      <3>. DEFINE j == i + 1
      <3>1. j \in 1 .. Len(wire) - 1 /\ wire'[i] = wire[j] /\ wire'[i + 1] = wire[j + 1]
        BY <1>1
      <3>. HIDE DEF j
      <3>. QED
        BY <1>3, <2>1, <3>1 DEF PacketsInv, Packets
    <2>2. \A i \in 1 .. Len(wire') : Plays(wire'[i]) # <<>> /\ Chained(Plays(wire'[i]))
      BY <1>3, <1>6 DEF PacketsInv, Packets
    <2>. QED
      BY <2>1, <2>2 DEF Packets
  <1>8. PacketsInv'
    <2>1. ASSUME wire' # <<>>, Len(wire'[Len(wire')].blocks) = 1
          PROVE  ToHeld(LastOf(Plays(wire[Len(wire)])))'
      <3>1. Len(wire') >= 1
        BY <1>1, <2>1, EmptySeq
      <3>2. wire'[Len(wire')] = wire[Len(wire)]
        BY <1>1, <3>1
      <3>3. PICK e : e = LastOf(Plays(wire[Len(wire)]))
        OBVIOUS
      <3>4. ToHeld(e)'
        BY <1>1, <1>3, <1>5, <2>1, <3>2, <3>3 DEF PacketsInv
      <3>5. LastOf(Plays(wire[Len(wire)]))' = e
        BY <3>2, <3>3 DEF LastOf, Plays
      <3>. QED
        BY <3>4, <3>5 DEF ToHeld, ToQueue, ToReader, LeadsTo, Follows
    <2>. QED
      BY <1>1, <1>7, <2>1 DEF PacketsInv, Packets, Chained, Follows, Skipped, LastOf, Plays
  <1>9. DecodedInv'
    <2>1. ASSUME ~ lost'
          PROVE  ToWire(LastOf(decoded.samples))'
      <3>1. Len(wire[1].blocks) = 1
        <4>1. ~ (Len(wire[1].blocks) > 1)
          <5>1. PICK many : many = (Len(wire[1].blocks) > 1)
            OBVIOUS
          <5>2. lost' = many
            BY <1>1, <5>1
          <5>3. ~ many
            BY <2>1, <5>2, Zenon
          <5>. QED
            BY <5>1, <5>3
        <4>2. Len(wire[1].blocks) \in Nat /\ Len(wire[1].blocks) >= 1
          <5>1. wire[1].blocks \in Seq(Seq(Sample)) /\ wire[1].blocks # <<>>
            BY DecodeIs DEF Packet
          <5>. QED
            BY <5>1, EmptySeq
        <4>3. \A n \in Nat : n >= 1 /\ ~ (n > 1) => n = 1
          OBVIOUS
        <4>. QED
          BY <4>1, <4>2, <4>3
      <3>2. PICK e : e = LastOf(Plays(wire[1]))
        OBVIOUS
      <3>3. LastOf(decoded.samples)' = e
        BY <1>1, <3>2 DEF LastOf, Plays
      <3>4. ToWire(e)'
        <4>1. CASE wire' # <<>>
          <5>1. Len(wire') >= 1
            BY <1>1, <4>1, EmptySeq
          <5>2. 1 \in 1 .. Len(wire) - 1 /\ wire'[1] = wire[1 + 1]
            BY <1>1, <5>1
          <5>3. Follows(e, Plays(wire[1 + 1])[1])
            BY <1>3, <3>1, <3>2, <5>2 DEF PacketsInv, Packets
          <5>. QED
            BY <1>1, <4>1, <5>2, <5>3 DEF ToWire, Follows, Skipped, Plays
        <4>2. CASE wire' = <<>>
          <5>1. Len(wire) = 1
            <6>1. Len(<<>>) = 0
              OBVIOUS
            <6>. QED
              BY <1>1, <4>2, <6>1
          <5>2. ToHeld(e)'
            BY <1>1, <1>3, <1>5, <3>1, <3>2, <5>1 DEF PacketsInv
          <5>. QED
            BY <4>2, <5>2 DEF ToWire
        <4>. QED
          BY <4>1, <4>2
      <3>. QED
        BY <3>3, <3>4 DEF ToWire, ToHeld, ToQueue, ToReader, LeadsTo, Follows
    <2>. QED
      BY <2>1 DEF DecodedInv
  <1>. QED
    BY <1>4, <1>8, <1>9 DEF ChainInv

LEMMA StepChain ==
    ASSUME Types, ChainInv, [Next]_vars
    PROVE  ChainInv'
  <1>1. CASE UNCHANGED vars
    BY <1>1, ReaderKeeps DEF vars, readerVars, ToReader, LeadsTo, Skipped
  <1>. QED
    BY <1>1, ReaderChain, PumpChain, EncodeChain, DecodeChain DEF Next

\* Only Decode hands samples to the client, and these follow those before.
LEMMA StepContiguous ==
    ASSUME Types, ChainInv, [Next]_vars, decoded' # decoded, decoded.samples # <<>>, Configured,
           ~ lost, config.codec = "opus" => config.chunk % Block["opus"] = 0
    PROVE  /\ Follows(LastOf(decoded.samples), decoded'.samples[1])
           /\ \A i \in 1 .. Len(decoded'.samples) - 1 :
                 Follows(decoded'.samples[i], decoded'.samples[i + 1])
  <1>1. Decode
    BY DEF Next, vars, readerVars, encoderVars, Tick, Write, EndOfSource, Open, SkipHeader, Pump,
           PipeEnded, FileEnded, TcpEnded, ProcessEnded, LibrespotEnded, AirplayEnded, Ended, Encode
  <1>2. PacketsInv /\ DecodedInv
    BY DEF ChainInv, Unbroken
  <1>3. /\ wire # <<>> /\ decoded'.samples = Plays(wire[1])
        /\ Len(wire) \in Nat /\ Len(wire) >= 1
    BY <1>1, DecodeIs DEF Plays
  <1>4. Follows(LastOf(decoded.samples), Plays(wire[1])[1])
    BY <1>2, <1>3 DEF DecodedInv, ToWire
  <1>5. Chained(Plays(wire[1]))
    BY <1>2, <1>3 DEF PacketsInv, Packets
  <1>. QED
    BY <1>3, <1>4, <1>5 DEF Chained

\* No sample is skipped, repeated or reordered on the way to the client, however blocks and
\* chunks meet and however often the source is opened, except where packets are dropped or
\* hold more than one block (pump_pcm, the encoders, spawn_stream_encoder).
THEOREM SamplesContiguous == Spec => Contiguous
  <1>1. Init => Types /\ ChainInv
    BY InitTypes, ChainStarts
  <1>2. Types /\ ChainInv /\ [Next]_vars => (Types /\ ChainInv)'
    BY StepTypes, StepChain
  <1>. DEFINE Step ==
            decoded' # decoded /\ decoded.samples # <<>> /\ Configured /\ ~lost
            /\ (config.codec = "opus" => config.chunk % Block["opus"] = 0) =>
                 /\ Follows(LastOf(decoded.samples), decoded'.samples[1])
                 /\ \A i \in 1 .. Len(decoded'.samples) - 1 :
                       Follows(decoded'.samples[i], decoded'.samples[i + 1])
  <1>3. Types /\ ChainInv /\ [Next]_vars => [Step]_vars
    BY StepContiguous
  <1>4. Spec => [][Step]_vars
    <2>. HIDE DEF Step
    <2>. QED
      BY <1>1, <1>2, <1>3, PTL DEF Spec
  <1>. QED
    BY <1>4 DEF Contiguous

=============================================================================
