------------------------- MODULE PlaybackStream_proofs -------------------------
(* For any lengths, thresholds and bounds: the rate is only corrected against   *)
(* the drift that was last seen, what was heard is never still to be read, and  *)
(* a hard sync ends with the frame that is due.  Soft sync is smooth where a    *)
(* callback crosses one gap at most.                                           *)
EXTENDS PlaybackStream, FiniteSetTheorems, SequenceTheorems, WellFoundedInduction, TLAPS

-----------------------------------------------------------------------------
(* Induction.  The library's induction theorems are about an operator; that    *)
(* every set of naturals has a least element is about a set, and does as well.  *)

Below == OpToRel(<, Nat)

LEMMA LeastOf ==
    ASSUME NEW T \in SUBSET Nat, T # {}
    PROVE  \E m \in T : \A k \in T : m <= k
  <1>1. IsWellFoundedOn(Below, Nat)
    BY NatLessThanWellFounded DEF Below
  <1>2. \A i, j : <<i, j>> \in Below <=> i \in Nat /\ j \in Nat /\ i < j
    BY DEF Below, OpToRel
  <1>3. PICK m \in T : \A k \in T : ~ (<<k, m>> \in Below)
    BY <1>1, WFMin
  <1>4. ASSUME NEW k \in T
        PROVE  m <= k
    <2>1. ~ (k < m) /\ k \in Nat /\ m \in Nat
      BY <1>2, <1>3
    <2>. QED
      BY <2>1
  <1>. QED
    BY <1>4

LEMMA Induct ==
    ASSUME NEW T \in SUBSET Nat, 0 \in T, \A n \in T : n + 1 \in T
    PROVE  T = Nat
  <1>1. SUFFICES ASSUME Nat \ T # {}
                 PROVE  FALSE
    OBVIOUS
  <1>2. PICK m \in Nat \ T : \A k \in Nat \ T : m <= k
    BY <1>1, LeastOf
  <1>3. m # 0 /\ m - 1 \in Nat /\ m - 1 \notin Nat \ T
    BY <1>2
  <1>. QED
    BY <1>2, <1>3

-----------------------------------------------------------------------------
(* The median.  Some value of a history is in the middle of it: the least one   *)
(* that more than half of the values do not exceed.                             *)

\* Of the values at some indices one is the greatest.
LEMMA GreatestAt ==
    ASSUME NEW L \in Nat, NEW D \in SUBSET (1 .. L), D # {}, NEW h, \A i \in D : h[i] \in Int
    PROVE  \E i \in D : \A j \in D : h[j] <= h[i]
  <1>. DEFINE At(n)   == D \cap (1 .. n)
              Good(n) == At(n) = {} \/ \E i \in At(n) : \A j \in At(n) : h[j] <= h[i]
              T       == {n \in Nat : Good(n)}
  <1>1. 0 \in T
    OBVIOUS
  <1>2. ASSUME NEW n \in T
        PROVE  n + 1 \in T
    <2>1. n \in Nat /\ Good(n)
      OBVIOUS
    <2>2. n + 1 \in Nat /\ At(n + 1) \subseteq At(n) \cup {n + 1} /\ At(n) \subseteq At(n + 1)
      BY <2>1
    <2>3. CASE n + 1 \notin D
      <3>1. At(n + 1) = At(n)
        BY <2>2, <2>3
      <3>. HIDE DEF At
      <3>. QED
        BY <2>1, <2>2, <3>1
    <2>4. CASE n + 1 \in D
      <3>1. At(n + 1) = At(n) \cup {n + 1} /\ \A j \in At(n + 1) : h[j] \in Int
        BY <2>1, <2>2, <2>4
      <3>. HIDE DEF At
      <3>2. CASE At(n) = {}
        BY <2>2, <3>1, <3>2
      <3>3. CASE \E i \in At(n) : \A j \in At(n) : h[j] <= h[i]
        <4>1. PICK i \in At(n) : \A j \in At(n) : h[j] <= h[i]
          BY <3>3
        <4>2. CASE h[n + 1] <= h[i]
          BY <2>2, <3>1, <4>1, <4>2
        <4>3. CASE h[i] <= h[n + 1]
          <5>1. \A j \in At(n + 1) : h[j] <= h[n + 1]
            BY <3>1, <4>1, <4>3
          <5>. QED
            BY <2>2, <3>1, <5>1
        <4>. QED
          BY <3>1, <4>2, <4>3
      <3>. QED
        BY <2>1, <3>2, <3>3
    <2>. QED
      BY <2>3, <2>4
  <1>3. T = Nat
    <2>. HIDE DEF T
    <2>1. T \in SUBSET Nat
      BY DEF T
    <2>. QED
      BY <1>1, <1>2, <2>1, Induct
  <1>4. Good(L)
    BY <1>3
  <1>5. At(L) = D
    OBVIOUS
  <1>. QED
    BY <1>4, <1>5

\* Of the values at some indices one is the least.
LEMMA LeastAt ==
    ASSUME NEW L \in Nat, NEW D \in SUBSET (1 .. L), D # {}, NEW h, \A i \in D : h[i] \in Int
    PROVE  \E i \in D : \A j \in D : h[i] <= h[j]
  <1>. DEFINE g == [i \in D |-> 0 - h[i]]
  <1>1. \A i \in D : g[i] \in Int /\ g[i] = 0 - h[i]
    OBVIOUS
  <1>. HIDE DEF g
  <1>2. PICK i \in D : \A j \in D : g[j] <= g[i]
    BY <1>1, GreatestAt
  <1>3. \A j \in D : h[i] <= h[j]
    BY <1>1, <1>2
  <1>. QED
    BY <1>3

\* The median of a history is one of its values; no more than half of the others are below
\* it, and more than half do not exceed it.
LEMMA MedianIs ==
    ASSUME NEW h \in Seq(Int), h # <<>>
    PROVE  /\ Median(h) \in {h[i] : i \in DOMAIN h} /\ Median(h) \in Int
           /\ Cardinality({i \in DOMAIN h : h[i] < Median(h)}) <= Len(h) \div 2
           /\ Cardinality({i \in DOMAIN h : h[i] <= Median(h)}) > Len(h) \div 2
  <1>1. PICK L \in Nat \ {0} : L = Len(h)
    BY EmptySeq
  <1>2. DOMAIN h = 1 .. L /\ \A i \in 1 .. L : h[i] \in Int
    BY <1>1
  <1>. DEFINE Upto(v) == {i \in 1 .. L : h[i] <= v}
              Under(v) == {i \in 1 .. L : h[i] < v}
              Half == L \div 2
              D == {i \in 1 .. L : Cardinality(Upto(h[i])) > Half}
  <1>3. /\ Half \in Nat /\ Half < L
        /\ Cardinality(1 .. L) = L
        /\ \A v : Upto(v) \in SUBSET (1 .. L) /\ Under(v) \in SUBSET (1 .. L)
        /\ \A I \in SUBSET (1 .. L) : Cardinality(I) \in Nat
    <2>1. IsFiniteSet(1 .. L) /\ Cardinality(1 .. L) = L
      BY FS_Interval
    <2>2. \A I \in SUBSET (1 .. L) : Cardinality(I) \in Nat
      BY <2>1, FS_Subset, FS_CardinalityType
    <2>. QED
      BY <2>1, <2>2
  <1>4. D # {}
    <2>1. 1 .. L # {}
      <3>1. 1 \in 1 .. L
        OBVIOUS
      <3>. QED
        BY <3>1
    <2>2. PICK i \in 1 .. L : \A j \in 1 .. L : h[j] <= h[i]
      BY <1>2, <2>1, GreatestAt
    <2>3. Upto(h[i]) = 1 .. L
      BY <2>2
    <2>. QED
      BY <1>3, <2>3
  <1>. HIDE DEF Half
  <1>5. PICK m \in D : \A j \in D : h[m] <= h[j]
    <2>1. D \in SUBSET (1 .. L)
      OBVIOUS
    <2>. HIDE DEF D
    <2>. QED
      BY <1>2, <1>4, <2>1, LeastAt
  <1>6. Cardinality(Upto(h[m])) > Half
    OBVIOUS
  <1>7. Cardinality(Under(h[m])) <= Half
    <2>1. SUFFICES ASSUME Cardinality(Under(h[m])) > Half
                   PROVE  FALSE
      BY <1>3
    <2>2. Under(h[m]) # {}
      <3>1. Cardinality({}) = 0
        BY FS_EmptySet
      <3>2. Cardinality(Under(h[m])) # 0
        BY <1>3, <2>1
      <3>. HIDE DEF Under
      <3>. QED
        BY <3>1, <3>2
    <2>3. PICK k \in Under(h[m]) : \A j \in Under(h[m]) : h[j] <= h[k]
      <3>1. Under(h[m]) \in SUBSET (1 .. L) /\ \A j \in Under(h[m]) : h[j] \in Int
        BY <1>2
      <3>. HIDE DEF Under
      <3>. QED
        BY <2>2, <3>1, GreatestAt
    <2>4. Upto(h[k]) = Under(h[m])
      BY <1>2, <2>3
    <2>5. k \in D /\ h[k] < h[m]
      BY <2>1, <2>4
    <2>. QED
      BY <1>2, <1>5, <2>5
  <1>. DEFINE S == {h[i] : i \in DOMAIN h}
              Middle(v) == /\ Cardinality({i \in DOMAIN h : h[i] < v}) <= Len(h) \div 2
                           /\ Cardinality({i \in DOMAIN h : h[i] <= v}) > Len(h) \div 2
  <1>8. h[m] \in S /\ Middle(h[m])
    BY <1>1, <1>2, <1>6, <1>7 DEF Half
  <1>9. Median(h) = CHOOSE v \in S : Middle(v)
    BY DEF Median
  <1>10. Median(h) \in S /\ Middle(Median(h))
    <2>. HIDE DEF S, Middle
    <2>. QED
      BY <1>8, <1>9
  <1>11. S \subseteq Int
    BY <1>2
  <1>. QED
    BY <1>10, <1>11

-----------------------------------------------------------------------------
(* Types and histories.                                                        *)

Types ==
    /\ now \in Nat /\ next \in Nat \ {0} /\ buffer \in Nat
    /\ ages \in Seq(Int) /\ median \in Int /\ short_median \in Int
    /\ played_frames \in Nat /\ correct_after \in Int /\ hard_sync \in BOOLEAN

LEMMA Constants ==
    /\ Frames \in Nat \ {0} /\ ChunkLen \in Nat \ {0} /\ MiniSize \in Nat \ {0}
    /\ ShortSize \in Nat \ {0} /\ LongSize \in Nat \ {0} /\ Fastest \in Nat \ {0}
    /\ Scale \in Nat \ {0} /\ SoftShort \in Nat /\ SoftAge \in Nat
    /\ DefaultBuffer \in Nat /\ Buffers \subseteq Nat /\ Elapsed \subseteq Nat /\ Gap \subseteq Nat
  BY PlaybackAssumption

LEMMA Division ==
    ASSUME NEW a \in Nat, NEW n \in Nat \ {0}
    PROVE  /\ a \div n \in Nat /\ (a \div n) * n \in Nat
           /\ (a \div n) * n <= a /\ a < (a \div n) * n + n
           /\ a % n = a - (a \div n) * n
  OBVIOUS

\* The newest values of a history are a history, with the same newest value.
LEMMA NewestIs ==
    ASSUME NEW h \in Seq(Int), h # <<>>, NEW n \in Nat \ {0}
    PROVE  /\ Newest(h, n) \in Seq(Int) /\ Newest(h, n) # <<>>
           /\ Newest(h, n)[Len(Newest(h, n))] = h[Len(h)]
  <1>1. Len(h) \in Nat \ {0} /\ \A i \in 1 .. Len(h) : h[i] \in Int
    BY EmptySeq, ElementOfSeq
  <1>2. CASE Len(h) <= n
    BY <1>2 DEF Newest
  <1>3. CASE Len(h) > n
    <2>. DEFINE s == SubSeq(h, Len(h) - n + 1, Len(h))
    <2>1. /\ Len(h) - n + 1 \in 1 .. Len(h) /\ Len(h) \in 1 .. Len(h)
          /\ Len(h) - (Len(h) - n + 1) + 1 = n
      BY <1>1, <1>3
    <2>2. \A i \in Len(h) - n + 1 .. Len(h) : h[i] \in Int
      BY <1>1, <2>1
    <2>3. /\ s \in Seq(Int) /\ Len(s) = n
          /\ \A i \in 1 .. n : s[i] = h[(Len(h) - n + 1) + i - 1]
      BY <1>1, <2>1, <2>2, SubSeqProperties
    <2>4. s[n] = h[Len(h)]
      <3>1. n \in 1 .. n /\ (Len(h) - n + 1) + n - 1 = Len(h)
        BY <1>1
      <3>. QED
        BY <2>3, <3>1
    <2>5. Newest(h, n) = s
      BY <1>1, <1>3 DEF Newest
    <2>6. s # <<>>
      BY <2>3, EmptySeq
    <2>. HIDE DEF s
    <2>. QED
      BY <2>3, <2>4, <2>5, <2>6
  <1>. QED
    BY <1>1, <1>2, <1>3

LEMMA MedianType ==
    ASSUME NEW h \in Seq(Int)
    PROVE  Median(h) \in Int
  <1>1. CASE h = <<>>
    BY <1>1 DEF Median
  <1>2. CASE h # <<>>
    BY <1>2, MedianIs
  <1>. QED
    BY <1>1, <1>2

LEMMA AddIs ==
    ASSUME NEW h \in Seq(Int), NEW age \in Int
    PROVE  /\ Add(h, age) \in Seq(Int) /\ Add(h, age) # <<>>
           /\ Add(h, age)[Len(Add(h, age))] = age
  <1>. DEFINE a == Append(h, age)
  <1>1. a \in Seq(Int) /\ a # <<>> /\ a[Len(a)] = age
    <2>1. a \in Seq(Int) /\ Len(a) = Len(h) + 1 /\ a[Len(h) + 1] = age /\ Len(h) \in Nat
      OBVIOUS
    <2>2. a # <<>>
      BY <2>1, EmptySeq
    <2>. QED
      BY <2>1, <2>2
  <1>. HIDE DEF a
  <1>2. /\ Newest(a, LongSize) \in Seq(Int) /\ Newest(a, LongSize) # <<>>
        /\ Newest(a, LongSize)[Len(Newest(a, LongSize))] = age
    BY <1>1, NewestIs, Constants
  <1>. QED
    BY <1>2 DEF Add, a

\* A rate is corrected every so many frames: at least one.
LEMMA IntervalIs ==
    ASSUME NEW a \in Nat \ {0}
    PROVE  Interval(a) \in Nat \ {0}
  <1>1. 2 * Scale + a \in Nat /\ 2 * a \in Nat \ {0}
    BY Constants
  <1>2. (2 * Scale + a) \div (2 * a) \in Nat
    BY <1>1, Division
  <1>. QED
    BY <1>2, Constants DEF Interval

\* The rate that is set is against the drift seen now.
LEMMA SoftSyncIs ==
    ASSUME Types, NEW age \in Int
    PROVE  /\ SoftSync(age) \in Int
           /\ Lost(age) => SoftSync(age) = 0
           /\ SoftSync(age) > 0 => age > SoftAge
           /\ SoftSync(age) < 0 => age < -SoftAge
  <1>1. short_median \in Int /\ SoftShort \in Nat /\ SoftAge \in Nat
    BY Constants DEF Types
  <1>. DEFINE mini == Median(Newest(ages, MiniSize))
  <1>2. CASE short_median > SoftShort /\ mini > SoftAge /\ age > SoftAge
    <2>1. Interval(short_median) \in Nat \ {0}
      BY <1>1, <1>2, IntervalIs
    <2>. HIDE DEF mini
    <2>. QED
      BY <1>1, <1>2, <2>1 DEF SoftSync, mini
  <1>3. CASE short_median < -SoftShort /\ mini < -SoftAge /\ age < -SoftAge
    <2>1. -short_median \in Nat \ {0} /\ ~ (short_median > SoftShort)
      BY <1>1, <1>3
    <2>2. Interval(-short_median) \in Nat \ {0}
      BY <2>1, IntervalIs
    <2>3. PICK z \in Nat \ {0} : z = Interval(-short_median)
      BY <2>2
    <2>. HIDE DEF mini
    <2>4. SoftSync(age) \in {0, -z} /\ (Lost(age) => SoftSync(age) = 0)
      BY <1>3, <2>1, <2>3 DEF SoftSync, mini
    <2>. QED
      BY <1>1, <1>3, <2>3, <2>4
  <1>4. CASE /\ ~ (short_median > SoftShort /\ mini > SoftAge /\ age > SoftAge)
             /\ ~ (short_median < -SoftShort /\ mini < -SoftAge /\ age < -SoftAge)
    <2>1. SoftSync(age) = 0
      BY <1>4 DEF SoftSync
    <2>. QED
      BY <2>1
  <1>. QED
    BY <1>2, <1>3, <1>4

\* A correction leaves a callback at least one frame to read.
LEMMA CorrectionIs ==
    ASSUME Types
    PROVE  Correction \in Int /\ Frames + Correction \in Nat \ {0}
  <1>1. Frames \in Nat \ {0} /\ played_frames \in Nat /\ correct_after \in Int
    BY Constants DEF Types
  <1>2. CASE correct_after = 0
    BY <1>1, <1>2 DEF Correction
  <1>3. CASE correct_after # 0
    <2>1. Abs(correct_after) \in Nat \ {0} /\ played_frames + Frames \in Nat
      BY <1>1, <1>3 DEF Abs
    <2>2. PICK n \in Nat : n = (played_frames + Frames) \div Abs(correct_after)
      BY <2>1, Division
    <2>3. Correction = Clamp(IF correct_after < 0 THEN -n ELSE n)
      BY <1>3, <2>2 DEF Correction
    <2>. QED
      BY <1>1, <2>2, <2>3 DEF Clamp
  <1>. QED
    BY <1>2, <1>3

-----------------------------------------------------------------------------
(* The queue.  Chunks follow one another and do not overlap, and none of them   *)
(* reaches the stamp of the server's next one.                                  *)

Piece == [start: Nat \ {0}, pos: 0 .. ChunkLen]

\* A current chunk and those behind it.
Line(cur, q) ==
    /\ q \in Seq(Piece)
    /\ \A i \in 1 .. Len(q) : q[i].pos = 0 /\ q[i].start + ChunkLen <= next
    /\ \A i, j \in 1 .. Len(q) : i < j => q[i].start + ChunkLen <= q[j].start
    /\ cur # None => /\ cur \in Piece /\ cur.start + ChunkLen <= next
                     /\ \A i \in 1 .. Len(q) : cur.start + ChunkLen <= q[i].start

QueueInv == Line(current, chunks)

\* The start of the j-th chunk of a line, counted from the current one.
StartOf(cur, q, j) == IF j = 0 THEN cur.start ELSE q[j].start

LEMMA PieceIs ==
    ASSUME NEW c \in Piece
    PROVE  c.start \in Nat \ {0} /\ c.pos \in Nat /\ c.pos <= ChunkLen
  BY Constants DEF Piece

\* What is left of a sequence without its first k elements.
LEMMA Rest ==
    ASSUME NEW q \in Seq(Piece), NEW k \in 0 .. Len(q)
    PROVE  /\ SubSeq(q, k + 1, Len(q)) \in Seq(Piece) /\ Len(q) \in Nat
           /\ Len(SubSeq(q, k + 1, Len(q))) = Len(q) - k
           /\ \A i \in 1 .. Len(q) - k : SubSeq(q, k + 1, Len(q))[i] = q[k + i]
  <1>1. Len(q) \in Nat /\ \A i \in 1 .. Len(q) : q[i] \in Piece
    BY ElementOfSeq
  <1>2. \A i \in k + 1 .. Len(q) : q[i] \in Piece
    BY <1>1
  <1>3. k + 1 \in Int /\ Len(q) \in Int /\ Len(q) - (k + 1) + 1 = Len(q) - k
    BY <1>1
  <1>4. \A i \in 1 .. Len(q) - k : k + 1 + i - 1 = k + i
    BY <1>1
  <1>5. CASE k + 1 <= Len(q)
    BY <1>1, <1>2, <1>3, <1>4, <1>5, SubSeqProperties
  <1>6. CASE k = Len(q)
    <2>1. SubSeq(q, k + 1, Len(q)) = <<>>
      BY <1>1, <1>3, <1>6, SubSeqProperties, EmptySeq
    <2>. QED
      BY <1>1, <1>6, <2>1, EmptySeq
  <1>. QED
    BY <1>1, <1>5, <1>6

\* A line without its first chunks is a line, wherever its new first chunk is read.
LEMMA LineDrops ==
    ASSUME next \in Nat, NEW cur, NEW q, Line(cur, q), NEW k \in 0 .. Len(q),
           k = 0 => cur # None,
           NEW c \in Piece, c.start = StartOf(cur, q, k),
           NEW r \in Seq(Piece), Len(r) = Len(q) - k, \A i \in 1 .. Len(r) : r[i] = q[k + i]
    PROVE  Line(c, r)
  <1>1. q \in Seq(Piece) /\ Len(q) \in Nat /\ Len(r) \in Nat
    BY DEF Line
  <1>2. \A i \in 1 .. Len(r) : k + i \in 1 .. Len(q) /\ (k # 0 => k < k + i)
    BY <1>1
  <1>3. \A i, j \in 1 .. Len(r) : i < j => k + i < k + j
    BY <1>1
  <1>4. \A i \in 1 .. Len(r) : r[i].pos = 0 /\ r[i].start + ChunkLen <= next
    BY <1>2 DEF Line
  <1>5. \A i, j \in 1 .. Len(r) : i < j => r[i].start + ChunkLen <= r[j].start
    BY <1>2, <1>3 DEF Line
  <1>6. c.start + ChunkLen <= next /\ \A i \in 1 .. Len(r) : c.start + ChunkLen <= r[i].start
    <2>1. CASE k = 0
      BY <1>1, <1>2, <2>1 DEF StartOf, Line
    <2>2. CASE k # 0
      <3>1. k \in 1 .. Len(q)
        BY <1>1, <2>2
      <3>. QED
        BY <1>1, <1>2, <2>2, <3>1 DEF StartOf, Line
    <2>. QED
      BY <2>1, <2>2
  <1>. QED
    BY <1>4, <1>5, <1>6 DEF Line

\* get_player_chunk: a chunk that is used up makes room for the next one.
LEMMA Heads ==
    ASSUME next \in Nat, QueueInv
    PROVE  /\ Line(Current, Queue) /\ Queue \in Seq(Piece)
           /\ Current # None => Current \in Piece /\ Current.pos < ChunkLen
  <1>1. chunks \in Seq(Piece) /\ Len(chunks) \in Nat
    BY DEF QueueInv, Line
  <1>2. CASE ~ Ended(current)
    <2>1. Current = current /\ Queue = chunks /\ current # None /\ ~ (current.pos >= ChunkLen)
      BY <1>2 DEF Current, Queue, Ended
    <2>2. current \in Piece /\ current.pos \in Nat
      BY <2>1, PieceIs DEF QueueInv, Line
    <2>. QED
      BY <1>1, <2>1, <2>2, Constants DEF QueueInv
  <1>3. CASE Ended(current) /\ chunks = <<>>
    <2>1. Current = None /\ Queue = chunks
      BY <1>3 DEF Current, Queue
    <2>. QED
      BY <1>1, <2>1 DEF QueueInv, Line
  <1>4. CASE Ended(current) /\ chunks # <<>>
    <2>1. Current = Head(chunks) /\ Queue = Tail(chunks)
      BY <1>4 DEF Current, Queue
    <2>2. /\ Len(chunks) >= 1 /\ Head(chunks) = chunks[1] /\ 1 \in 1 .. Len(chunks)
          /\ Tail(chunks) \in Seq(Piece) /\ Len(Tail(chunks)) = Len(chunks) - 1
          /\ \A i \in 1 .. Len(chunks) - 1 : Tail(chunks)[i] = chunks[i + 1]
      BY <1>1, <1>4, EmptySeq, HeadTailProperties
    <2>3. \A i \in 1 .. Len(Tail(chunks)) : Tail(chunks)[i] = chunks[1 + i]
      BY <2>2
    <2>4. chunks[1] \in Piece /\ chunks[1].pos = 0
      BY <1>1, <2>2, ElementOfSeq DEF QueueInv, Line
    <2>5. 1 \in 0 .. Len(chunks) /\ chunks[1].start = StartOf(current, chunks, 1)
      BY <1>1, <2>2 DEF StartOf
    <2>6. Line(chunks[1], Tail(chunks))
      <3>1. PICK k \in 0 .. Len(chunks), c \in Piece, t \in Seq(Piece) :
                k = 1 /\ c = chunks[1] /\ t = Tail(chunks)
        BY <2>2, <2>4, <2>5
      <3>2. k # 0 /\ Len(t) = Len(chunks) - k /\ \A i \in 1 .. Len(t) : t[i] = chunks[k + i]
        BY <2>2, <2>3, <3>1
      <3>3. c.start = StartOf(current, chunks, k)
        BY <2>5, <3>1
      <3>4. Line(c, t)
        BY <3>2, <3>3, LineDrops DEF QueueInv
      <3>. QED
        BY <3>1, <3>4
    <2>. QED
      BY <2>1, <2>2, <2>4, <2>6, Constants
  <1>. QED
    BY <1>2, <1>3, <1>4

-----------------------------------------------------------------------------
(* Reading.  What is read is over: it comes before where the reading ends.      *)

\* A frame that comes before all there is to read, and all there will be.
Before(f, cur, q) ==
    /\ f \in Nat /\ f < next
    /\ cur # None => f < cur.start + cur.pos
    /\ \A j \in 1 .. Len(q) : f < q[j].start

\* Where a reading ends: in the u-th chunk of the line.
ReadTo(cur, q) ==
    \E u \in 0 .. Len(q) : /\ current' \in Piece /\ current'.start = StartOf(cur, q, u)
                            /\ chunks' = SubSeq(q, u + 1, Len(q))

LEMMA ReadKeeps ==
    ASSUME next \in Nat, NEW cur \in Piece, cur # None, cur.pos < ChunkLen,
           NEW q, Line(cur, q), NEW n \in Nat \ {0}, ReadNext(cur, q, n),
           NEW f, f = ReadFrames(cur, q, n)
    PROVE  /\ Line(current', chunks')
           /\ f \in Seq(Nat) /\ Len(f) \in Nat /\ Len(f) \in 1 .. n
           /\ \A i \in 1 .. Len(f) : Before(f[i], current', chunks')
           /\ f[1] = cur.start + cur.pos
           /\ ReadTo(cur, q)
  <1>1. PICK C \in Nat \ {0}, L \in Nat, p0 \in Nat :
            C = ChunkLen /\ L = Len(q) /\ p0 = cur.pos /\ q \in Seq(Piece) /\ p0 < C
    <2>1. q \in Seq(Piece)
      BY DEF Line
    <2>2. Len(q) \in Nat /\ ChunkLen \in Nat \ {0} /\ cur.pos \in Nat
      BY <2>1, Constants, PieceIs
    <2>. QED
      BY <2>1, <2>2
  <1>2. PICK z \in Nat : z = C * L
    OBVIOUS
  <1>3. PICK r \in 1 .. n : r = Least(n, Available(cur, q)) /\ r <= C - p0 + z
    BY <1>1, <1>2 DEF Least, Available
  <1>4. PICK last0 \in Nat : last0 = p0 + r - 1 /\ last0 < C + z
    BY <1>1, <1>3
  <1>5. PICK u \in 0 .. L : u = last0 \div C /\ u * C <= last0 /\ last0 < u * C + C
    <2>. DEFINE d == last0 \div C
    <2>1. d \in Nat /\ d * C <= last0 /\ last0 < d * C + C
      BY Division
    <2>. HIDE DEF d
    <2>2. d <= L
      <3>1. SUFFICES ASSUME d >= L + 1
                     PROVE  FALSE
        BY <2>1
      <3>2. d * C >= (L + 1) * C
        BY <2>1, <3>1
      <3>3. (L + 1) * C = z + C
        BY <1>2
      <3>. QED
        BY <1>4, <2>1, <3>2, <3>3
    <2>. QED
      BY <2>1, <2>2 DEF d
  <1>6. PICK w \in Nat : w = u * C
    OBVIOUS
  <1>7. PICK b : b = IF u = 0 THEN cur ELSE q[u]
    OBVIOUS
  <1>8. b \in Piece /\ b.start = StartOf(cur, q, u) /\ b.start \in Nat \ {0}
    <2>1. u # 0 => q[u] \in Piece
      BY <1>1, ElementOfSeq
    <2>. QED
      BY <1>7, <2>1, PieceIs DEF StartOf
  <1>9. /\ current' = [b EXCEPT !.pos = last0 + 1 - w]
        /\ chunks' = SubSeq(q, u + 1, Len(q))
        /\ last0 + 1 - w \in 1 .. C
    <2>1. r # 0 /\ cur.pos + r - 1 = last0 /\ cur.pos + r - w = last0 + 1 - w
      <3>1. r \in Nat \ {0} /\ w \in Int /\ last0 \in Nat
        BY <1>3, <1>4, <1>6
      <3>2. r # 0 /\ p0 + r - 1 = last0 /\ p0 + r - w = last0 + 1 - w
        BY <1>4, <3>1
      <3>. QED
        BY <1>1, <3>2
    <2>2. last0 + 1 - w \in 1 .. C
      BY <1>5, <1>6
    <2>3. (IF r = 0 THEN 0 ELSE (cur.pos + r - 1) \div ChunkLen) = u /\ u * ChunkLen = w
      BY <1>1, <1>5, <1>6, <2>1
    <2>4. /\ current' = [b EXCEPT !.pos = cur.pos + r - u * ChunkLen]
          /\ chunks' = SubSeq(q, u + 1, Len(q))
      BY <1>3, <1>7, <2>3 DEF ReadNext
    <2>. QED
      BY <2>1, <2>2, <2>3, <2>4
  <1>10. PICK c \in Piece : c = current' /\ c.start = b.start /\ c.pos = last0 + 1 - w
    <2>1. current' \in Piece /\ current'.start = b.start /\ current'.pos = last0 + 1 - w
      <3>1. PICK x \in 0 .. ChunkLen : x = last0 + 1 - w
        BY <1>1, <1>9
      <3>2. current' = [b EXCEPT !.pos = x]
        BY <1>9, <3>1
      <3>3. current' \in Piece /\ current'.start = b.start /\ current'.pos = x
        BY <1>8, <3>2 DEF Piece
      <3>. QED
        BY <3>1, <3>3
    <2>. QED
      BY <2>1
  <1>11. Line(c, chunks')
    <2>1. /\ chunks' \in Seq(Piece) /\ Len(chunks') = Len(q) - u
          /\ \A i \in 1 .. Len(q) - u : chunks'[i] = q[u + i]
      BY <1>1, <1>9, Rest
    <2>2. u \in 0 .. Len(q) /\ \A i \in 1 .. Len(chunks') : chunks'[i] = q[u + i]
      BY <1>1, <2>1
    <2>. QED
      BY <1>8, <1>10, <2>1, <2>2, LineDrops, SMTT(60)
  <1>12. PICK e \in Nat : e = b.start + (last0 + 1 - w)
    BY <1>8, <1>9, SMTT(60)
  <1>13. ASSUME NEW g \in Nat, g < e
         PROVE  Before(g, current', chunks')
    <2>1. c.start + ChunkLen >= e
      BY <1>1, <1>8, <1>9, <1>10, <1>12, SMTT(60)
    <2>2. g < next /\ (c # None => g < c.start + c.pos)
      <3>1. q \in Seq(Piece)
        BY <1>1
      <3>2. b.start + C <= next
        <4>1. CASE u = 0
          BY <1>1, <1>7, <4>1 DEF Line
        <4>2. CASE u # 0
          BY <1>1, <1>7, <4>2 DEF Line
        <4>. QED
          BY <4>1, <4>2
      <3>. QED
        BY <1>1, <1>8, <1>10, <1>12, <1>13, <2>1, <3>2
    <2>3. \A j \in 1 .. Len(chunks') : g < chunks'[j].start
      <3>1. ASSUME NEW j \in 1 .. Len(chunks')
            PROVE  g < chunks'[j].start
        <4>1. chunks' \in Seq(Piece) /\ chunks'[j] \in Piece
          BY <1>11, ElementOfSeq DEF Line
        <4>2. chunks'[j].start \in Nat
          BY <4>1, PieceIs
        <4>3. b.start + C <= chunks'[j].start
          <5>1. u + j \in 1 .. L /\ chunks'[j] = q[u + j] /\ u < u + j
            <6>1. /\ u \in 0 .. Len(q) /\ Len(chunks') = L - u
                  /\ \A i \in 1 .. L - u : chunks'[i] = q[u + i]
              BY <1>1, <1>9, Rest
            <6>. QED
              BY <1>1, <3>1, <6>1
          <5>2. CASE u = 0
            BY <1>1, <1>7, <5>1, <5>2 DEF Line
          <5>3. CASE u # 0
            BY <1>1, <1>7, <5>1, <5>3 DEF Line
          <5>. QED
            BY <5>2, <5>3
        <4>. QED
          BY <1>1, <1>8, <1>10, <1>12, <1>13, <2>1, <4>2, <4>3
      <3>. QED
        BY <3>1
    <2>. QED
      BY <1>10, <2>2, <2>3 DEF Before
  <1>14. f = [i \in 1 .. r |->
                LET p == p0 + i - 1
                    j == p \div C
                IN  StartOf(cur, q, j) + (p % C)]
    BY <1>1, <1>3 DEF ReadFrames, StartOf
  <1>15. Len(f) = r
    BY <1>14
  <1>16. ASSUME NEW i \in 1 .. r
         PROVE  f[i] \in Nat /\ f[i] < e
    <2>1. PICK p \in Nat : p = p0 + i - 1 /\ p <= last0
      BY <1>4
    <2>2. PICK j \in Nat : j = p \div C /\ j * C <= p /\ p < j * C + C /\ p % C = p - j * C
      BY <2>1, Division
    <2>3. PICK v \in Nat : v = j * C
      OBVIOUS
    <2>4. f[i] = StartOf(cur, q, j) + (p - v)
      BY <1>14, <2>1, <2>2, <2>3
    <2>5. p - v \in Nat /\ p - v < C
      BY <2>2, <2>3
    <2>6. j <= u
      <3>1. SUFFICES ASSUME j >= u + 1
                     PROVE  FALSE
        BY <2>2
      <3>2. j * C >= (u + 1) * C /\ (u + 1) * C = u * C + C
        BY <3>1
      <3>. QED
        BY <1>5, <2>1, <2>2, <3>2
    <2>7. CASE j = u
      BY <1>6, <1>8, <1>12, <2>1, <2>3, <2>4, <2>5, <2>7
    <2>8. CASE j < u
      <3>1. /\ StartOf(cur, q, j) \in Nat
            /\ StartOf(cur, q, j) + C <= b.start
        <4>1. CASE j = 0
          BY <1>1, <1>7, <2>8, <4>1, PieceIs DEF StartOf, Line
        <4>2. CASE j # 0
          <5>1. q[j] \in Piece /\ j \in 1 .. L /\ u \in 1 .. L
            BY <1>1, <2>8, <4>2, ElementOfSeq
          <5>. QED
            <6>1. StartOf(cur, q, j) = q[j].start /\ b.start = q[u].start /\ j < u
              BY <1>7, <2>8, <4>2, <5>1 DEF StartOf
            <6>2. q[j].start + C <= q[u].start
              BY <1>1, <5>1, <6>1 DEF Line
            <6>. QED
              BY <5>1, <6>1, <6>2, PieceIs
        <4>. QED
          BY <4>1, <4>2
      <3>2. PICK a \in Nat, x \in Nat, y \in Nat, y1 \in Nat \ {0} :
                /\ a = StartOf(cur, q, j) /\ x = p - v /\ y = b.start /\ y1 = last0 + 1 - w
        <4>1. StartOf(cur, q, j) \in Nat /\ p - v \in Nat /\ b.start \in Nat
          BY <1>8, <2>5, <3>1
        <4>2. last0 + 1 - w \in Nat \ {0}
          BY <1>9, SMTT(60)
        <4>. QED
          BY <4>1, <4>2
      <3>3. a + x \in Nat /\ a + x < y + y1
        BY <2>5, <3>1, <3>2
      <3>. QED
        BY <1>12, <2>4, <3>2, <3>3
    <2>. QED
      BY <2>6, <2>7, <2>8
  <1>17. f[1] = cur.start + cur.pos
    <2>1. 1 \in 1 .. r /\ p0 + 1 - 1 = p0 /\ p0 \div C = 0 /\ p0 % C = p0
      <3>1. /\ p0 \div C \in Nat /\ (p0 \div C) * C <= p0 /\ p0 < (p0 \div C) * C + C
            /\ p0 % C = p0 - (p0 \div C) * C
        BY Division
      <3>2. p0 \div C = 0
        <4>1. PICK d \in Nat : d = p0 \div C /\ d * C <= p0
          BY <3>1
        <4>2. d >= 1 => d * C >= C
          OBVIOUS
        <4>3. d * C \in Nat
          OBVIOUS
        <4>. QED
          BY <1>1, <4>1, <4>2, <4>3
      <3>. QED
        BY <3>1, <3>2
    <2>2. StartOf(cur, q, 0) = cur.start
      BY DEF StartOf
    <2>. QED
      BY <1>1, <1>14, <2>1, <2>2
  <1>18. f \in Seq(Nat)
    <2>1. f = [i \in 1 .. r |-> f[i]] /\ r \in Nat
      BY <1>14
    <2>2. f \in [1 .. r -> Nat]
      BY <1>16, <2>1
    <2>. QED
      BY <2>1, <2>2
  <1>19. ReadTo(cur, q)
    BY <1>1, <1>5, <1>8, <1>9, <1>10 DEF ReadTo
  <1>20. \A i \in 1 .. Len(f) : Before(f[i], current', chunks')
    BY <1>13, <1>15, <1>16
  <1>21. Line(current', chunks')
    BY <1>10, <1>11
  <1>22. Len(f) \in Nat /\ Len(f) \in 1 .. n
    BY <1>3, <1>15
  <1>. QED
    BY <1>17, <1>18, <1>19, <1>20, <1>21, <1>22

-----------------------------------------------------------------------------
(* What a callback gives the device.                                           *)

LEMMA ReadNothing ==
    ASSUME NEW cur \in Piece, cur.pos < ChunkLen, NEW q \in Seq(Piece),
           NEW f, f = ReadFrames(cur, q, 0)
    PROVE  f \in Seq(Nat) /\ Len(f) = 0
  <1>1. Available(cur, q) \in Nat
    <2>1. /\ ChunkLen \in Nat /\ Len(q) \in Nat /\ ChunkLen - cur.pos \in Nat
          /\ ChunkLen * Len(q) \in Nat
      BY Constants, PieceIs
    <2>. QED
      BY <2>1 DEF Available
  <1>2. Least(0, Available(cur, q)) = 0
    BY <1>1 DEF Least
  <1>. QED
    BY <1>2 DEF ReadFrames

\* Silence and what was read, laid over what the buffer held.
LEMMA OverIs ==
    ASSUME NEW s \in Nat, NEW f \in Seq(Nat), s + Len(f) <= Frames,
           NEW p, p = Over(Silent(s) \o f, Resize(pcm, Frames))
    PROVE  /\ DOMAIN p = 1 .. Frames
           /\ \A i \in 1 .. s : p[i] = 0
           /\ \A i \in 1 .. Len(f) : p[s + i] = f[i]
  <1>. DEFINE b == Silent(s) \o f
  <1>1. Silent(s) \in Seq(Nat) /\ Len(Silent(s)) = s /\ \A i \in 1 .. s : Silent(s)[i] = 0
    BY DEF Silent, Silence
  <1>2. /\ Len(b) = s + Len(f) /\ Len(f) \in Nat
        /\ \A i \in 1 .. s : b[i] = 0
        /\ \A i \in 1 .. Len(f) : b[s + i] = f[i]
    BY <1>1, SMTT(60)
  <1>3. Frames \in Nat
    BY Constants
  <1>. HIDE DEF b
  <1>4. /\ DOMAIN p = 1 .. Frames
        /\ \A i \in 1 .. Frames : i <= Len(b) => p[i] = b[i]
    BY <1>3 DEF Over, Resize, b
  <1>5. \A i \in 1 .. s : i \in 1 .. Frames /\ i <= Len(b)
    BY <1>2, <1>3
  <1>6. \A i \in 1 .. Len(f) : s + i \in 1 .. Frames /\ s + i <= Len(b)
    BY <1>2, <1>3
  <1>. QED
    BY <1>2, <1>4, <1>5, <1>6

\* Every frame of a corrected callback is one of those read.
LEMMA CorrectedIs ==
    ASSUME NEW n \in Nat \ {0}, NEW c \in Int \ {0}, n + c \in Nat \ {0}, NEW buf
    PROVE  /\ DOMAIN Corrected(buf, n, c) = 1 .. n
           /\ \A i \in 1 .. n : \E k \in 1 .. n + c : Corrected(buf, n, c)[i] = buf[k]
  <1>. DEFINE max    == IF c < 0 THEN n ELSE n + c
              slices == Least(Abs(c) + 1, max)
              size   == max \div slices
              step   == IF c < 0 THEN size ELSE size - 1
              Of(i)  == IF step = 0 THEN slices - 1 ELSE Least((i - 1) \div step, slices - 1)
  <1>1. Corrected(buf, n, c) = [i \in 1 .. n |-> IF c < 0 THEN buf[i - Of(i)] ELSE buf[i + Of(i)]]
    BY DEF Corrected
  <1>2. max \in Nat \ {0} /\ slices \in Nat \ {0} /\ slices <= max /\ slices <= Abs(c) + 1
    BY DEF Least, Abs
  <1>3. size \in Nat /\ size * slices <= max /\ size >= 1
    <2>. HIDE DEF slices, max
    <2>1. size \in Nat /\ size * slices <= max /\ max < size * slices + slices
      BY <1>2, Division
    <2>. HIDE DEF size
    <2>2. size # 0
      <3>1. 0 * slices = 0
        BY <1>2
      <3>. QED
        BY <1>2, <2>1, <3>1
    <2>. QED
      BY <2>1, <2>2
  <1>4. step \in Nat
    <2>. HIDE DEF size
    <2>. QED
      BY <1>3
  <1>5. ASSUME NEW i \in 1 .. n
        PROVE  Of(i) \in 0 .. slices - 1
    <2>. HIDE DEF slices, step
    <2>1. CASE step = 0
      BY <1>2, <2>1
    <2>2. CASE step # 0
      <3>1. (i - 1) \div step \in Nat
        BY <1>4, <2>2, Division
      <3>. QED
        BY <1>2, <2>2, <3>1 DEF Least
    <2>. QED
      BY <2>1, <2>2
  <1>6. ASSUME NEW i \in 1 .. n, c > 0
        PROVE  i + Of(i) \in 1 .. n + c
    <2>1. PICK o \in 0 .. slices - 1 : o = Of(i)
      BY <1>5
    <2>2. slices <= c + 1
      BY <1>2, <1>6 DEF Abs
    <2>. HIDE DEF slices, Of
    <2>. QED
      BY <1>2, <2>1, <2>2
  <1>7. ASSUME NEW i \in 1 .. n, c < 0
        PROVE  i - Of(i) \in 1 .. n + c
    <2>1. PICK o \in 0 .. slices - 1 : o = Of(i)
      BY <1>5
    <2>2. slices = 1 - c /\ max = n /\ step = size
      BY <1>7 DEF Least, Abs
    <2>3. PICK d \in Nat : d = (i - 1) \div size /\ d * size <= i - 1 /\ i - 1 < d * size + size
      <3>1. size \in Nat \ {0} /\ i - 1 \in Nat
        BY <1>3
      <3>. HIDE DEF size
      <3>. QED
        BY <3>1, Division
    <2>4. o = Least(d, slices - 1)
      BY <1>3, <2>1, <2>2, <2>3
    <2>5. PICK z \in Nat \ {0}, k \in Nat : z = size /\ k = 0 - c /\ slices = k + 1
      BY <1>3, <1>7, <2>2
    <2>6. z * (k + 1) <= n
      BY <1>3, <2>2, <2>5
    <2>. HIDE DEF size, slices, max, step, Of
    <2>7. CASE d >= k
      <3>1. o = k
        BY <2>1, <2>4, <2>5, <2>7 DEF Least
      <3>2. d * z >= d
        BY <2>5
      <3>3. i - 1 >= d
        BY <2>3, <2>5, <3>2
      <3>. QED
        BY <2>1, <2>5, <2>7, <3>1, <3>3
    <2>8. CASE d < k
      <3>1. o = d
        BY <2>1, <2>4, <2>5, <2>8 DEF Least
      <3>2. d * z >= d
        BY <2>5
      <3>3. i - 1 >= d
        BY <2>3, <2>5, <3>2
      <3>4. PICK g \in Nat : k = d + g /\ g # 0
        <4>1. k - d \in Nat /\ k = d + (k - d) /\ k - d # 0
          BY <2>5, <2>8
        <4>. QED
          BY <4>1
      <3>5. z * (k + 1) = d * z + g * z + z /\ g * z >= g
        BY <2>5, <3>4
      <3>6. PICK dz \in Nat, gz \in Nat : dz = d * z /\ gz = g * z
        BY <2>5
      <3>7. i - 1 < dz + z /\ dz + gz + z <= n /\ gz >= g
        BY <2>3, <2>5, <2>6, <3>5, <3>6
      <3>8. n + c = n - k /\ k = d + g
        BY <2>5, <3>4
      <3>9. i - d >= 1 /\ i - d <= n - k
        BY <3>3, <3>6, <3>7, <3>8
      <3>. QED
        BY <2>1, <3>1, <3>8, <3>9
    <2>. QED
      BY <2>5, <2>7, <2>8
  <1>. HIDE DEF Of
  <1>. QED
    BY <1>1, <1>6, <1>7

-----------------------------------------------------------------------------
(* The invariant.                                                              *)

HeardInv == Heard /\ last.complete => \A i \in DOMAIN pcm : Before(pcm[i], current, chunks)

\* A rate is only corrected while there is no hard sync to be done.
RateInv == (hard_sync => correct_after = 0) /\ CorrectsLastDrift

Inv == Types /\ QueueInv /\ HeardInv /\ RateInv

\* The network side: what is new comes after all there was.
LEMMA AddChunkKeeps ==
    ASSUME Inv, NEW gap \in Gap, AddChunk(gap)
    PROVE  Inv'
  <1>1. PICK x \in Nat \ {0} : x = next + gap
    BY Constants DEF Inv, Types
  <1>2. /\ chunks' = Append(chunks, NewChunk(x)) /\ next' = x + ChunkLen
        /\ UNCHANGED <<now, format, buffer, current, syncVars, rateVars, device, pcm, last>>
    BY <1>1 DEF AddChunk
  <1>3. PICK e \in Piece : e = NewChunk(x) /\ e.start = x /\ e.pos = 0
    <2>1. [start |-> x, pos |-> 0] \in Piece
      BY Constants DEF Piece
    <2>. QED
      BY <2>1 DEF NewChunk
  <1>4. next \in Nat /\ next <= x /\ x + ChunkLen \in Nat \ {0} /\ x <= x + ChunkLen
    BY <1>1, Constants DEF Inv, Types
  <1>5. chunks \in Seq(Piece) /\ Len(chunks) \in Nat
    BY DEF Inv, QueueInv, Line
  <1>6. PICK q \in Seq(Piece) : /\ q = chunks' /\ Len(q) = Len(chunks) + 1 /\ q[Len(q)] = e
                                /\ \A i \in 1 .. Len(chunks) : q[i] = chunks[i]
    BY <1>2, <1>3, <1>5
  <1>7. Types'
    BY <1>2, <1>4 DEF Inv, Types, syncVars, rateVars
  <1>8. \A i \in 1 .. Len(chunks) : /\ chunks[i].start \in Nat /\ chunks[i].pos = 0
                                    /\ chunks[i].start + ChunkLen <= next
    <2>1. \A i \in 1 .. Len(chunks) : chunks[i] \in Piece
      BY <1>5, ElementOfSeq
    <2>. QED
      BY <2>1, PieceIs DEF Inv, QueueInv, Line
  <1>9. \A i \in 1 .. Len(q) : i \in 1 .. Len(chunks) \/ i = Len(q)
    BY <1>5, <1>6
  <1>10. QueueInv'
    <2>1. \A i \in 1 .. Len(q) : q[i].pos = 0 /\ q[i].start + ChunkLen <= next'
      BY <1>2, <1>3, <1>4, <1>6, <1>8, <1>9, Constants
    <2>2. ASSUME NEW i \in 1 .. Len(q), NEW j \in 1 .. Len(q), i < j
          PROVE  q[i].start + ChunkLen <= q[j].start
      <3>1. i \in 1 .. Len(chunks)
        BY <1>5, <1>6, <2>2
      <3>2. CASE j = Len(q)
        BY <1>3, <1>4, <1>6, <1>8, <3>1, <3>2, Constants
      <3>3. CASE j \in 1 .. Len(chunks)
        BY <1>6, <2>2, <3>1, <3>3 DEF Inv, QueueInv, Line
      <3>. QED
        BY <1>9, <3>2, <3>3
    <2>3. ASSUME current # None
          PROVE  /\ current \in Piece /\ current.start + ChunkLen <= next'
                 /\ \A i \in 1 .. Len(q) : current.start + ChunkLen <= q[i].start
      <3>1. /\ current \in Piece /\ current.start + ChunkLen <= next
            /\ \A i \in 1 .. Len(chunks) : current.start + ChunkLen <= chunks[i].start
        BY <2>3 DEF Inv, QueueInv, Line
      <3>2. current.start \in Nat
        BY <3>1, PieceIs
      <3>3. current.start + ChunkLen <= x
        BY <1>4, <3>1, <3>2, Constants
      <3>4. current.start + ChunkLen <= next'
        BY <1>2, <1>4, <3>2, <3>3, Constants
      <3>. QED
        BY <1>3, <1>6, <1>9, <3>1, <3>3, <3>4
    <2>4. Line(current, q)'
      BY <1>2, <2>1, <2>2, <2>3 DEF Line
    <2>. QED
      BY <1>6, <2>4 DEF QueueInv, Line
  <1>11. HeardInv'
    <2>1. SUFFICES ASSUME Heard, last.complete, NEW i \in DOMAIN pcm
                   PROVE  Before(pcm[i], current, q)'
      BY <1>2, <1>6 DEF HeardInv, Heard, Before
    <2>2. Before(pcm[i], current, chunks)
      BY <2>1 DEF Inv, HeardInv
    <2>3. PICK f \in Nat : f = pcm[i] /\ f < next
      BY <2>2 DEF Before
    <2>4. f < x /\ f < next'
      BY <1>2, <1>4, <2>3, Constants
    <2>5. \A j \in 1 .. Len(q) : f < q[j].start
      BY <1>3, <1>6, <1>9, <2>2, <2>3, <2>4 DEF Before
    <2>. QED
      BY <1>2, <2>2, <2>3, <2>4, <2>5 DEF Before
  <1>12. RateInv'
    BY <1>2 DEF Inv, RateInv, CorrectsLastDrift, syncVars, rateVars
  <1>. QED
    BY <1>7, <1>10, <1>11, <1>12 DEF Inv

LEMMA NoLine == Line(None, <<>>)
  BY EmptySeq DEF Line

LEMMA StreamKeeps ==
    ASSUME Inv,
           \/ \E f \in Format, b \in Buffers \cup {DefaultBuffer} : Replace(f, b)
           \/ \E b \in Buffers : SetBuffer(b)
           \/ OpenDevice \/ SeeChange \/ UNCHANGED vars
    PROVE  Inv'
  <1>1. ASSUME NEW f \in Format, NEW b \in Buffers \cup {DefaultBuffer}, Replace(f, b)
        PROVE  Inv'
    <2>1. /\ chunks' = <<>> /\ current' = None /\ hard_sync' = TRUE /\ ages' = <<>>
          /\ median' = 0 /\ short_median' = 0 /\ played_frames' = 0 /\ correct_after' = 0
          /\ buffer' = b /\ UNCHANGED <<now, next, device, pcm, last>>
      BY <1>1 DEF Replace
    <2>2. Types'
      BY <2>1, Constants, EmptySeq DEF Inv, Types
    <2>3. QueueInv' /\ RateInv'
      BY <2>1, EmptySeq DEF QueueInv, Line, RateInv, CorrectsLastDrift
    <2>4. HeardInv'
      BY <2>1, EmptySeq DEF Inv, HeardInv, Heard, Before
    <2>. QED
      BY <2>2, <2>3, <2>4 DEF Inv
  <1>2. ASSUME NEW b \in Buffers, SetBuffer(b)
        PROVE  Inv'
    BY <1>2, Constants
       DEF SetBuffer, Inv, Types, QueueInv, Line, HeardInv, Heard, Before, RateInv,
           CorrectsLastDrift, queueVars, syncVars, rateVars
  <1>3. CASE OpenDevice \/ SeeChange
    <2>1. pcm' = <<>> /\ UNCHANGED <<now, next, buffer, queueVars, syncVars, rateVars, last>>
      BY <1>3 DEF OpenDevice, SeeChange
    <2>2. DOMAIN <<>> = {}
      OBVIOUS
    <2>3. HeardInv'
      BY <2>1, <2>2 DEF HeardInv
    <2>. QED
      BY <2>1, <2>3
         DEF Inv, Types, QueueInv, Line, RateInv, CorrectsLastDrift, queueVars, syncVars, rateVars
  <1>4. CASE UNCHANGED vars
    BY <1>4
       DEF vars, Inv, Types, QueueInv, Line, HeardInv, Heard, Before, RateInv,
           CorrectsLastDrift, queueVars, syncVars, rateVars
  <1>. QED
    BY <1>1, <1>2, <1>3, <1>4

\* A callback of silence only moves the queue on.
LEMMA SilentKeeps ==
    ASSUME Inv, NEW t \in Nat, NEW mode, mode \notin {"aligned", "played"}, Called(t, mode),
           UNCHANGED <<syncVars, rateVars>>, QueueInv'
    PROVE  Inv'
  <1>1. /\ now' = t /\ UNCHANGED <<next, buffer>>
        /\ last' = [mode |-> mode, correction |-> 0, complete |-> TRUE]
    BY DEF Called
  <1>2. ~ Heard'
    BY <1>1 DEF Heard
  <1>. QED
    BY <1>1, <1>2 DEF Inv, Types, HeardInv, RateInv, CorrectsLastDrift, syncVars, rateVars

\* A chunk that the search of a late hard sync finds.
LEMMA FirstIs ==
    ASSUME Inv, NEW t \in Nat, NEW i \in First(t), NEW c \in Piece, c.start = Queue[i].start
    PROVE  /\ Queue[i] \in Piece /\ Queue[i].pos = 0
           /\ Line(c, Behind(i))
           /\ Age(t, Queue[i].start) < ChunkLen
  <1>1. Line(Current, Queue) /\ Queue \in Seq(Piece) /\ next \in Nat
    BY Heads DEF Inv, Types
  <1>2. i \in 1 .. Len(Queue) /\ Len(Queue) \in Nat /\ Age(t, Queue[i].start) < ChunkLen
    BY <1>1 DEF First
  <1>3. Queue[i] \in Piece /\ Queue[i].pos = 0
    BY <1>1, <1>2, ElementOfSeq DEF Line
  <1>4. PICK q \in Seq(Piece), k \in 0 .. Len(Queue) : q = Queue /\ k = i /\ k # 0
    BY <1>1, <1>2
  <1>5. PICK cur : cur = Current
    OBVIOUS
  <1>6. PICK r : r = SubSeq(q, k + 1, Len(q))
    OBVIOUS
  <1>7. /\ r \in Seq(Piece) /\ Len(r) = Len(q) - k
        /\ \A j \in 1 .. Len(r) : r[j] = q[k + j]
    <2>1. k \in 0 .. Len(q)
      BY <1>4
    <2>2. r \in Seq(Piece) /\ Len(r) = Len(q) - k /\ \A j \in 1 .. Len(q) - k : r[j] = q[k + j]
      BY <1>6, <2>1, Rest
    <2>. QED
      BY <2>2
  <1>8. c.start = StartOf(cur, q, k)
    BY <1>4, <1>5 DEF StartOf
  <1>9. Line(c, r)
    BY <1>1, <1>4, <1>5, <1>7, <1>8, LineDrops
  <1>10. r = Behind(i)
    BY <1>4, <1>6 DEF Behind
  <1>. QED
    BY <1>2, <1>3, <1>9, <1>10

LEMMA SilentStep ==
    ASSUME Inv, NEW t \in Nat,
           Mismatch(t) \/ Empty(t) \/ TooEarly(t) \/ LateEmpty(t) \/ LateSkip(t)
    PROVE  Inv'
  <1>1. Line(Current, Queue) /\ next \in Nat /\ t \in Nat /\ buffer \in Nat
    BY Heads DEF Inv, Types
  <1>2. CASE Mismatch(t)
    <2>1. QueueInv'
      BY <1>2 DEF Mismatch, Called, Inv, QueueInv, Line, queueVars
    <2>. QED
      BY <1>2, <2>1, SilentKeeps DEF Mismatch
  <1>3. CASE Empty(t)
    <2>1. QueueInv'
      BY <1>1, <1>3 DEF Empty, Called, QueueInv, Line
    <2>. QED
      BY <1>3, <2>1, SilentKeeps DEF Empty
  <1>4. CASE TooEarly(t)
    <2>1. QueueInv'
      BY <1>1, <1>4 DEF TooEarly, Called, QueueInv, Line
    <2>. QED
      BY <1>4, <2>1, SilentKeeps DEF TooEarly
  <1>5. CASE LateEmpty(t)
    <2>1. QueueInv'
      BY <1>5, EmptySeq DEF LateEmpty, QueueInv, Line
    <2>. QED
      BY <1>5, <2>1, SilentKeeps DEF LateEmpty
  <1>6. CASE LateSkip(t)
    <2>1. PICK i \in First(t) : /\ Age(t, Queue[i].start) > 0
                                /\ current' = [Queue[i] EXCEPT !.pos = Age(t, Queue[i].start)]
                                /\ chunks' = Behind(i)
      BY <1>6 DEF LateSkip
    <2>2. /\ Queue[i] \in Piece /\ Age(t, Queue[i].start) < ChunkLen
      <3>1. Queue \in Seq(Piece) /\ i \in 1 .. Len(Queue) /\ Age(t, Queue[i].start) < ChunkLen
        BY <2>1, Heads DEF First, Inv, Types
      <3>. QED
        BY <3>1, ElementOfSeq
    <2>3. PICK x \in 0 .. ChunkLen : x = Age(t, Queue[i].start)
      <3>1. Queue[i].start \in Nat
        BY <2>2, PieceIs
      <3>2. Age(t, Queue[i].start) \in Int
        BY <1>1, <3>1 DEF Age
      <3>. QED
        BY <2>1, <2>2, <3>2, Constants
    <2>4. PICK c \in Piece : c = current' /\ c.start = Queue[i].start
      <3>1. current' = [Queue[i] EXCEPT !.pos = x]
        BY <2>1, <2>3
      <3>2. current' \in Piece /\ current'.start = Queue[i].start
        BY <2>2, <3>1 DEF Piece
      <3>. QED
        BY <3>2
    <2>5. Line(c, Behind(i))
      BY <2>4, FirstIs
    <2>6. QueueInv'
      BY <1>6, <2>1, <2>4, <2>5 DEF LateSkip, Called, QueueInv, Line
    <2>. QED
      BY <1>6, <2>6, SilentKeeps DEF LateSkip
  <1>. QED
    BY <1>2, <1>3, <1>4, <1>5, <1>6

\* Silence until a chunk is due, and then the chunk: hard sync is over, unless the
\* callback was too short.
LEMMA AlignKeeps ==
    ASSUME Inv, hard_sync, NEW t \in Nat, NEW cur \in Piece, cur # None, cur.pos < ChunkLen,
           NEW q, Line(cur, q), Age(t, cur.start) <= 0, Align(t, cur, q)
    PROVE  /\ Inv'
           /\ ~hard_sync' => \E i \in 1 .. Frames :
                  /\ \A j \in 1 .. i - 1 : pcm'[j] = Silence
                  /\ pcm'[i] = cur.start + cur.pos /\ now' + i - 1 = cur.start + buffer
  <1>1. /\ next \in Nat /\ next # 0 /\ buffer \in Nat /\ Frames \in Nat \ {0}
        /\ cur.start \in Nat \ {0} /\ q \in Seq(Piece)
    BY Constants, PieceIs DEF Inv, Types, Line
  <1>2. PICK s \in 0 .. Frames : /\ s = Least(-Age(t, cur.start), Frames)
                                 /\ s < Frames => t + s = cur.start + buffer
    <2>1. PICK a \in Int : a = Age(t, cur.start) /\ a = t - cur.start - buffer /\ a <= 0
      BY <1>1 DEF Age
    <2>2. Least(-a, Frames) \in 0 .. Frames /\ (Least(-a, Frames) < Frames => Least(-a, Frames) = -a)
      BY <1>1, <2>1 DEF Least
    <2>3. Least(-a, Frames) < Frames => t + Least(-a, Frames) = cur.start + buffer
      BY <1>1, <2>1, <2>2, SMTT(60)
    <2>. QED
      BY <2>1, <2>2, <2>3
  <1>3. PICK f : f = ReadFrames(cur, q, Frames - s)
    OBVIOUS
  <1>4. /\ IF s < Frames THEN ReadNext(cur, q, Frames - s) ELSE current' = cur /\ chunks' = q
        /\ pcm' = Over(Silent(s) \o f, Resize(pcm, Frames))
        /\ hard_sync' = (s = Frames)
        /\ ages' = IF s < Frames THEN <<>> ELSE ages
        /\ now' = t
        /\ last' = [mode |-> "aligned", correction |-> 0, complete |-> Len(f) = Frames - s]
        /\ UNCHANGED <<next, format, buffer, device, median, short_median, last_log, rateVars>>
    BY <1>2, <1>3 DEF Align
  <1>5. /\ Line(current', chunks') /\ f \in Seq(Nat) /\ Len(f) \in 0 .. Frames - s
        /\ \A i \in 1 .. Len(f) : Before(f[i], current', chunks')
        /\ s < Frames => Len(f) >= 1 /\ f[1] = cur.start + cur.pos
    <2>1. CASE s < Frames
      <3>1. Frames - s \in Nat \ {0}
        BY <1>1, <1>2, <2>1
      <3>2. /\ Line(current', chunks')
            /\ f \in Seq(Nat) /\ Len(f) \in Nat /\ Len(f) \in 1 .. Frames - s
            /\ \A i \in 1 .. Len(f) : Before(f[i], current', chunks')
            /\ f[1] = cur.start + cur.pos
        BY <1>1, <1>3, <1>4, <2>1, <3>1, ReadKeeps
      <3>. QED
        BY <3>1, <3>2
    <2>2. CASE s = Frames
      <3>1. Frames - s = 0
        BY <1>1, <2>2
      <3>2. f \in Seq(Nat) /\ Len(f) = 0
        BY <1>1, <1>3, <3>1, ReadNothing
      <3>. QED
        BY <1>1, <1>4, <2>2, <3>1, <3>2
    <2>. QED
      BY <1>1, <1>2, <2>1, <2>2
  <1>6. /\ DOMAIN pcm' = 1 .. Frames
        /\ \A i \in 1 .. s : pcm'[i] = 0
        /\ \A i \in 1 .. Len(f) : pcm'[s + i] = f[i]
    <2>1. s \in Nat /\ s + Len(f) <= Frames
      BY <1>1, <1>2, <1>5
    <2>2. PICK p : p = pcm'
      OBVIOUS
    <2>. QED
      BY <1>4, <1>5, <2>1, <2>2, OverIs
  <1>7. Types'
    BY <1>4, EmptySeq DEF Inv, Types, rateVars
  <1>8. QueueInv'
    BY <1>4, <1>5 DEF QueueInv, Line
  <1>9. RateInv'
    BY <1>4 DEF Inv, RateInv, CorrectsLastDrift, rateVars
  <1>10. HeardInv'
    <2>1. SUFFICES ASSUME Len(f) = Frames - s, NEW i \in 1 .. Frames
                   PROVE  Before(pcm'[i], current', chunks')
      BY <1>4, <1>6 DEF HeardInv, Before
    <2>2. CASE i \in 1 .. s
      <3>1. pcm'[i] = 0
        BY <1>6, <2>2
      <3>2. current' # None => 0 < current'.start + current'.pos
        <4>1. current' # None => current' \in Piece
          BY <1>5 DEF Line
        <4>2. PICK c : c = current'
          OBVIOUS
        <4>3. c \in Piece => c.start \in Nat \ {0} /\ c.pos \in Nat
          BY PieceIs
        <4>. QED
          BY <4>1, <4>2, <4>3
      <3>3. \A j \in 1 .. Len(chunks') : 0 < chunks'[j].start
        <4>1. PICK r : r = chunks'
          OBVIOUS
        <4>2. \A j \in 1 .. Len(r) : r[j] \in Piece
          BY <1>5, <4>1, ElementOfSeq DEF Line
        <4>3. \A j \in 1 .. Len(r) : r[j].start \in Nat \ {0}
          BY <4>2, PieceIs
        <4>. QED
          BY <4>1, <4>3
      <3>. QED
        BY <1>1, <3>1, <3>2, <3>3 DEF Before
    <2>3. CASE i \notin 1 .. s
      <3>1. PICK k \in 1 .. Len(f) : i = s + k
        <4>1. i - s \in 1 .. Len(f) /\ i = s + (i - s)
          BY <1>1, <1>2, <2>1, <2>3
        <4>. QED
          BY <4>1
      <3>. QED
        BY <1>5, <1>6, <3>1
    <2>. QED
      BY <2>2, <2>3
  <1>11. ASSUME ~hard_sync'
         PROVE  \E i \in 1 .. Frames :
                    /\ \A j \in 1 .. i - 1 : pcm'[j] = Silence
                    /\ pcm'[i] = cur.start + cur.pos /\ now' + i - 1 = cur.start + buffer
    <2>1. s < Frames /\ s + 1 \in 1 .. Frames /\ (s + 1) - 1 = s /\ now' + (s + 1) - 1 = t + s
      <3>1. s # Frames /\ now' = t
        BY <1>4, <1>11
      <3>2. s < Frames /\ s + 1 \in 1 .. Frames /\ (s + 1) - 1 = s /\ t + (s + 1) - 1 = t + s
        BY <1>1, <1>2, <3>1
      <3>. QED
        BY <3>1, <3>2
    <2>2. pcm'[s + 1] = cur.start + cur.pos
      <3>1. 1 \in 1 .. Len(f)
        BY <1>5, <2>1
      <3>. QED
        BY <1>5, <1>6, <2>1, <3>1
    <2>3. \A j \in 1 .. (s + 1) - 1 : pcm'[j] = Silence
      BY <1>6, <2>1 DEF Silence
    <2>. QED
      BY <1>2, <2>1, <2>2, <2>3
  <1>. QED
    BY <1>7, <1>8, <1>9, <1>10, <1>11 DEF Inv

LEMMA DueStep ==
    ASSUME Inv, NEW t \in Nat, Due(t) \/ LateDue(t)
    PROVE  /\ Inv'
           /\ ~hard_sync' /\ (Current.pos = 0 \/ Age(t, Current.start) > 0) =>
                 \E i \in 1 .. Frames :
                     /\ \A j \in 1 .. i - 1 : pcm'[j] = Silence
                     /\ now' + i - 1 = pcm'[i] + buffer
  <1>1. /\ Line(Current, Queue) /\ next \in Nat /\ buffer \in Nat /\ Frames \in Nat
        /\ Current # None => Current \in Piece /\ Current.pos < ChunkLen
    BY Heads, Constants DEF Inv, Types
  <1>2. CASE Due(t)
    <2>1. /\ hard_sync /\ Current # None /\ Age(t, Current.start) \in -Frames .. 0
          /\ Align(t, Current, Queue)
      BY <1>2 DEF Due
    <2>2. Age(t, Current.start) <= 0 /\ ~ (Age(t, Current.start) > 0)
      BY <1>1, <2>1
    <2>3. PICK cur \in Piece : cur = Current
      BY <1>1, <2>1
    <2>4. PICK q : q = Queue
      OBVIOUS
    <2>5. /\ Inv'
          /\ ~hard_sync' => \E i \in 1 .. Frames :
                 /\ \A j \in 1 .. i - 1 : pcm'[j] = Silence
                 /\ pcm'[i] = cur.start + cur.pos /\ now' + i - 1 = cur.start + buffer
      BY <1>1, <2>1, <2>2, <2>3, <2>4, AlignKeeps
    <2>6. cur.pos = 0 => cur.start + cur.pos = cur.start
      BY <2>3, PieceIs
    <2>. QED
      BY <2>2, <2>3, <2>5, <2>6
  <1>3. CASE LateDue(t)
    <2>1. hard_sync /\ \E i \in First(t) : /\ Age(t, Queue[i].start) <= 0
                                           /\ Align(t, Queue[i], Behind(i))
      BY <1>3 DEF LateDue, Late
    <2>2. PICK i \in First(t) : Age(t, Queue[i].start) <= 0 /\ Align(t, Queue[i], Behind(i))
      BY <2>1
    <2>3. Queue[i] \in Piece
      <3>1. Queue \in Seq(Piece) /\ i \in 1 .. Len(Queue)
        BY <1>1 DEF First, Line
      <3>. QED
        BY <3>1, ElementOfSeq
    <2>4. PICK cur \in Piece : cur = Queue[i]
      BY <2>3
    <2>5. PICK q : q = Behind(i)
      OBVIOUS
    <2>6. cur.pos = 0 /\ Line(cur, q)
      BY <2>4, <2>5, FirstIs
    <2>7. cur # None
      <3>1. cur \in [start: Nat, pos: Nat]
        BY Constants DEF Piece
      <3>. QED
        BY <3>1, PlaybackAssumption
    <2>8. /\ Inv'
          /\ ~hard_sync' => \E j \in 1 .. Frames :
                 /\ \A k \in 1 .. j - 1 : pcm'[k] = Silence
                 /\ pcm'[j] = cur.start + cur.pos /\ now' + j - 1 = cur.start + buffer
      BY <1>1, <2>1, <2>2, <2>4, <2>5, <2>6, <2>7, Constants, AlignKeeps
    <2>9. cur.start + cur.pos = cur.start
      BY <2>6, PieceIs
    <2>. QED
      BY <2>8, <2>9
  <1>. QED
    BY <1>2, <1>3

\* Normal playback: what is played was read, and was before what is left.
LEMMA PlayStep ==
    ASSUME Inv, NEW t \in Nat, Play(t)
    PROVE  Inv'
  <1>1. /\ ~hard_sync /\ Current # None
        /\ Line(Current, Queue) /\ next \in Nat /\ buffer \in Nat /\ Frames \in Nat \ {0}
        /\ Current \in Piece /\ Current.pos < ChunkLen /\ Queue \in Seq(Piece)
    BY Heads, Constants DEF Play, Inv, Types
  <1>2. PICK c \in Int : c = Correction /\ Frames + c \in Nat \ {0}
    BY CorrectionIs DEF Inv
  <1>3. PICK cur \in Piece, q \in Seq(Piece) : cur = Current /\ q = Queue
    BY <1>1
  <1>4. PICK age \in Int : age = Age(t, cur.start + cur.pos)
    <2>1. cur.start + cur.pos \in Nat
      BY PieceIs
    <2>. QED
      BY <1>1, <2>1 DEF Age
  <1>5. PICK f : f = ReadFrames(cur, q, Frames + c)
    OBVIOUS
  <1>6. PICK buf : buf = Over(f, Resize(read_buf, Frames + c))
    OBVIOUS
  <1>7. /\ ReadNext(cur, q, Frames + c)
        /\ pcm' = IF Abs(age) >= HardAge THEN Silent(Frames)
                  ELSE IF c = 0 THEN Over(f, Resize(pcm, Frames))
                  ELSE Corrected(buf, Frames, c)
        /\ played_frames' = IF correct_after = 0 THEN played_frames
                            ELSE (played_frames + Frames) % Abs(correct_after)
        /\ correct_after' = SoftSync(age)
        /\ hard_sync' = Lost(age)
        /\ ages' = Add(ages, age)
        /\ Statistics(t)
        /\ now' = t
        /\ last' = [mode |-> IF Abs(age) >= HardAge THEN "off" ELSE "played",
                    correction |-> c, complete |-> Len(f) = Frames + c]
        /\ UNCHANGED <<next, format, buffer, device>>
    BY <1>2, <1>3, <1>4, <1>5, <1>6 DEF Play
  <1>8. /\ Line(current', chunks')
        /\ f \in Seq(Nat) /\ Len(f) \in Nat /\ Len(f) \in 1 .. Frames + c
        /\ \A i \in 1 .. Len(f) : Before(f[i], current', chunks')
    <2>1. Line(cur, q) /\ cur # None /\ cur.pos < ChunkLen
      BY <1>1, <1>3
    <2>. QED
      BY <1>1, <1>2, <1>5, <1>7, <2>1, ReadKeeps
  <1>9. /\ ages \in Seq(Int) /\ median \in Int /\ short_median \in Int
        /\ played_frames \in Nat /\ correct_after \in Int
    BY DEF Inv, Types
  <1>10. ages' \in Seq(Int) /\ ages' # <<>> /\ ages'[Len(ages')] = age
    BY <1>7, <1>9, AddIs
  <1>11. median' \in Int /\ short_median' \in Int
    <2>1. Newest(ages', ShortSize) \in Seq(Int)
      BY <1>10, NewestIs, Constants
    <2>2. Median(ages') \in Int /\ Median(Newest(ages', ShortSize)) \in Int
      BY <1>10, <2>1, MedianType
    <2>. QED
      BY <1>7, <1>9, <2>2 DEF Statistics
  <1>12. played_frames' \in Nat
    <2>1. CASE correct_after = 0
      BY <1>7, <1>9, <2>1
    <2>2. CASE correct_after # 0
      <3>1. Abs(correct_after) \in Nat \ {0} /\ played_frames + Frames \in Nat
        BY <1>1, <1>9, <2>2 DEF Abs
      <3>2. PICK n \in Nat \ {0}, a \in Nat : n = Abs(correct_after) /\ a = played_frames + Frames
        BY <3>1
      <3>3. a % n \in Nat
        OBVIOUS
      <3>. QED
        BY <1>7, <2>2, <3>2, <3>3
    <2>. QED
      BY <2>1, <2>2
  <1>13. /\ SoftSync(age) \in Int /\ SoftAge \in Nat
         /\ Lost(age) => SoftSync(age) = 0
         /\ SoftSync(age) > 0 => age > SoftAge
         /\ SoftSync(age) < 0 => age < -SoftAge
    BY SoftSyncIs, Constants DEF Inv
  <1>14. Types'
    <2>1. hard_sync' \in BOOLEAN
      BY <1>7 DEF Lost
    <2>2. next \in Nat \ {0}
      BY DEF Inv, Types
    <2>. QED
      BY <1>1, <1>7, <1>10, <1>11, <1>12, <1>13, <2>1, <2>2 DEF Types
  <1>15. QueueInv'
    BY <1>7, <1>8 DEF QueueInv, Line
  <1>16. RateInv'
    <2>1. PICK r \in Int : r = SoftSync(age)
      BY <1>13
    <2>2. hard_sync' => correct_after' = 0
      BY <1>7, <1>13
    <2>3. r # 0 => /\ (r > 0 <=> age > SoftAge) /\ (r < 0 <=> age < -SoftAge)
      BY <1>13, <2>1
    <2>4. CorrectsLastDrift'
      BY <1>7, <1>10, <2>1, <2>3 DEF CorrectsLastDrift
    <2>. QED
      BY <2>2, <2>4 DEF RateInv
  <1>17. HeardInv'
    <2>1. SUFFICES ASSUME Heard', last'.complete, NEW i \in DOMAIN pcm'
                   PROVE  Before(pcm'[i], current', chunks')
      BY <1>7 DEF HeardInv, Before
    <2>2. ~ (Abs(age) >= HardAge) /\ Len(f) = Frames + c
      BY <1>7, <2>1 DEF Heard
    <2>3. \E k \in 1 .. Len(f) : pcm'[i] = f[k]
      <3>1. CASE c = 0
        <4>1. pcm' = Over(f, Resize(pcm, Frames)) /\ Len(f) = Frames
          BY <1>1, <1>7, <2>2, <3>1
        <4>2. DOMAIN pcm' = 1 .. Frames /\ \A k \in 1 .. Frames : pcm'[k] = f[k]
          BY <1>1, <4>1 DEF Over, Resize
        <4>. QED
          BY <2>1, <4>1, <4>2
      <3>2. CASE c # 0
        <4>1. pcm' = Corrected(buf, Frames, c)
          BY <1>7, <2>2, <3>2
        <4>2. i \in 1 .. Frames /\ \E k \in 1 .. Frames + c : pcm'[i] = buf[k]
          <5>1. Frames \in Nat \ {0} /\ c \in Int \ {0} /\ Frames + c \in Nat \ {0}
            BY <1>1, <1>2, <3>2
          <5>2. DOMAIN Corrected(buf, Frames, c) = 1 .. Frames
            BY <5>1, CorrectedIs
          <5>3. \A j \in 1 .. Frames : \E k \in 1 .. Frames + c :
                    Corrected(buf, Frames, c)[j] = buf[k]
            BY <5>1, CorrectedIs
          <5>. QED
            BY <2>1, <4>1, <5>2, <5>3
        <4>3. \A k \in 1 .. Frames + c : buf[k] = f[k]
          BY <1>2, <1>6, <1>8, <2>2 DEF Over, Resize
        <4>. QED
          BY <2>2, <4>2, <4>3
      <3>. QED
        BY <3>1, <3>2
    <2>. QED
      BY <1>8, <2>3
  <1>. QED
    BY <1>14, <1>15, <1>16, <1>17 DEF Inv

LEMMA InvInit == Init => Inv
  <1>. SUFFICES ASSUME Init PROVE Inv
    OBVIOUS
  <1>1. Types
    BY Constants, EmptySeq DEF Init, Types
  <1>2. QueueInv
    BY NoLine DEF Init, QueueInv
  <1>3. HeardInv /\ RateInv
    BY DEF Init, HeardInv, Heard, RateInv, CorrectsLastDrift
  <1>. QED
    BY <1>1, <1>2, <1>3 DEF Inv

LEMMA InvNext == Inv /\ [Next]_vars => Inv'
  <1>. SUFFICES ASSUME Inv, [Next]_vars
                PROVE  Inv'
    OBVIOUS
  <1>1. ASSUME NEW e \in Elapsed
        PROVE  now + e \in Nat
    BY Constants DEF Inv, Types
  <1>. QED
    BY <1>1, AddChunkKeeps, StreamKeeps, SilentStep, DueStep, PlayStep DEF Next

-----------------------------------------------------------------------------
(* The theorems.                                                               *)

\* No frame that was heard completely comes at or after one still to be read, through
\* corrections, hard syncs, new streams and gaps, for any lengths and thresholds.
THEOREM HeardIsOver == Spec => []PendingIsAhead
  <1>1. Inv => PendingIsAhead
    <2>1. SUFFICES ASSUME Inv, Heard, last.complete, NEW i \in DOMAIN pcm
                   PROVE  /\ current # None => pcm[i] < current.start + current.pos
                          /\ \A j \in DOMAIN chunks : pcm[i] < chunks[j].start
      BY DEF PendingIsAhead
    <2>2. Before(pcm[i], current, chunks)
      BY <2>1 DEF Inv, HeardInv
    <2>3. DOMAIN chunks = 1 .. Len(chunks)
      BY <2>1 DEF Inv, QueueInv, Line
    <2>. QED
      BY <2>2, <2>3 DEF Before
  <1>. QED
    BY <1>1, InvInit, InvNext, PTL DEF Spec

\* The rate is only corrected against the drift the last callback saw, for any
\* histories and thresholds.
THEOREM RateFollowsDrift == Spec => []CorrectsLastDrift
  <1>1. Inv => CorrectsLastDrift
    BY DEF Inv, RateInv
  <1>. QED
    BY <1>1, InvInit, InvNext, PTL DEF Spec

\* Only Due and LateDue end a hard sync.
LEMMA SyncEnds ==
    ASSUME Inv, [Next]_vars, hard_sync, ~hard_sync',
           Current.pos = 0 \/ Age(now', Current.start) > 0
    PROVE  \E i \in 1 .. Frames :
               /\ \A j \in 1 .. i - 1 : pcm'[j] = Silence
               /\ now' + i - 1 = pcm'[i] + buffer
  <1>1. ~ \E f \in Format, b \in Buffers \cup {DefaultBuffer} : Replace(f, b)
    BY DEF Replace
  <1>2. PICK e \in Elapsed : Due(now + e) \/ LateDue(now + e)
    BY <1>1 DEF Next, vars, syncVars, AddChunk, SetBuffer, OpenDevice, SeeChange, Mismatch, Empty,
                TooEarly, LateEmpty, LateSkip, Play
  <1>3. now + e \in Nat
    BY Constants DEF Inv, Types
  <1>4. now' = now + e
    BY <1>2 DEF Due, LateDue, Align
  <1>. QED
    BY <1>2, <1>3, <1>4, DueStep

\* A hard sync that ends with a chunk nothing was read of ends with the frame that is due,
\* for any lengths, however late the callback and whatever was thrown away.
THEOREM HardSyncOnTime == Spec => StartsOnTime
  <1>. DEFINE Step ==
            hard_sync /\ ~hard_sync' /\ (Current.pos = 0 \/ Age(now', Current.start) > 0) =>
                \E i \in 1 .. Frames :
                    /\ \A j \in 1 .. i - 1 : pcm'[j] = Silence
                    /\ now' + i - 1 = pcm'[i] + buffer
  <1>1. Inv /\ [Next]_vars => [Step]_vars
    BY SyncEnds
  <1>2. Spec => [][Step]_vars
    <2>. HIDE DEF Step
    <2>. QED
      BY <1>1, InvInit, InvNext, PTL DEF Spec
  <1>. QED
    BY <1>2 DEF StartsOnTime

-----------------------------------------------------------------------------
(* Links.  For smoothness it is not enough that chunks do not overlap: each      *)
(* begins a gap after the one before it, through all that moves the queue.      *)

\* Each chunk of a line begins a gap after the end of the one before it, and the
\* server's next one is stamped with the end of the last.
Linked(cur, q) ==
    \A j \in 0 .. Len(q) : j # 0 \/ cur # None =>
        IF j = Len(q) THEN StartOf(cur, q, j) + ChunkLen = next
        ELSE StartOf(cur, q, j + 1) - (StartOf(cur, q, j) + ChunkLen) \in Gap

LinkInv == Linked(current, chunks)

\* The first chunks of a line go: what is left is linked.
LEMMA LinkDrops ==
    ASSUME NEW cur, NEW q \in Seq(Piece), Linked(cur, q), NEW k \in 0 .. Len(q),
           k = 0 => cur # None,
           NEW c, c.start = StartOf(cur, q, k),
           NEW r, r = SubSeq(q, k + 1, Len(q))
    PROVE  Linked(c, r)
  <1>1. /\ Len(q) \in Nat /\ Len(r) = Len(q) - k /\ Len(r) \in Nat
        /\ \A i \in 1 .. Len(q) - k : r[i] = q[k + i]
    <2>1. /\ Len(q) \in Nat /\ Len(r) = Len(q) - k
          /\ \A i \in 1 .. Len(q) - k : r[i] = q[k + i]
      BY Rest
    <2>. QED
      BY <2>1
  <1>2. ASSUME NEW j \in 0 .. Len(r)
        PROVE  StartOf(c, r, j) = StartOf(cur, q, k + j)
    <2>1. CASE j = 0
      <3>1. k + 0 = k
        OBVIOUS
      <3>. QED
        BY <2>1, <3>1 DEF StartOf
    <2>2. CASE j # 0
      <3>1. j \in 1 .. Len(q) - k /\ k + j # 0
        BY <1>1, <2>2
      <3>. QED
        BY <1>1, <2>2, <3>1 DEF StartOf
    <2>. QED
      BY <2>1, <2>2
  <1>3. ASSUME NEW j \in 0 .. Len(r)
        PROVE  IF j = Len(r) THEN StartOf(c, r, j) + ChunkLen = next
               ELSE StartOf(c, r, j + 1) - (StartOf(c, r, j) + ChunkLen) \in Gap
    <2>1. k + j \in 0 .. Len(q) /\ (k + j # 0 \/ cur # None) /\ (k + j = Len(q) <=> j = Len(r))
      BY <1>1
    <2>2. IF k + j = Len(q) THEN StartOf(cur, q, k + j) + ChunkLen = next
          ELSE StartOf(cur, q, (k + j) + 1) - (StartOf(cur, q, k + j) + ChunkLen) \in Gap
      BY <2>1 DEF Linked
    <2>3. CASE j = Len(r)
      BY <1>2, <2>1, <2>2, <2>3
    <2>4. CASE j # Len(r)
      <3>1. j + 1 \in 0 .. Len(r) /\ k + (j + 1) = (k + j) + 1
        BY <1>1, <2>4
      <3>2. StartOf(c, r, j + 1) = StartOf(cur, q, (k + j) + 1)
        BY <1>2, <3>1
      <3>. QED
        BY <1>2, <2>1, <2>2, <2>4, <3>2
    <2>. QED
      BY <2>3, <2>4
  <1>. QED
    BY <1>3 DEF Linked

LEMMA LinkHeads ==
    ASSUME QueueInv, LinkInv
    PROVE  Linked(Current, Queue)
  <1>1. chunks \in Seq(Piece)
    BY DEF QueueInv, Line
  <1>2. CASE ~ Ended(current)
    BY <1>2 DEF Current, Queue, LinkInv
  <1>3. CASE Ended(current) /\ chunks = <<>>
    <2>1. Current = None /\ Queue = <<>> /\ Len(<<>>) = 0
      BY <1>3 DEF Current, Queue
    <2>. QED
      BY <2>1 DEF Linked
  <1>4. CASE Ended(current) /\ chunks # <<>>
    <2>1. Current = Head(chunks) /\ Queue = Tail(chunks)
      BY <1>4 DEF Current, Queue
    <2>2. /\ Head(chunks) = chunks[1] /\ Tail(chunks) = SubSeq(chunks, 1 + 1, Len(chunks))
          /\ 1 \in 0 .. Len(chunks)
      BY <1>1, <1>4, EmptySeq
    <2>3. PICK k \in 0 .. Len(chunks) : k = 1
      BY <2>2
    <2>4. PICK c, r : c = chunks[1] /\ r = SubSeq(chunks, k + 1, Len(chunks))
      OBVIOUS
    <2>5. c.start = StartOf(current, chunks, k) /\ k # 0
      BY <2>3, <2>4 DEF StartOf
    <2>6. Linked(c, r)
      BY <1>1, <2>4, <2>5, LinkDrops DEF LinkInv
    <2>. QED
      BY <2>1, <2>2, <2>3, <2>4, <2>6
  <1>. QED
    BY <1>2, <1>3, <1>4

\* A reading leaves the line linked, wherever it ends.
LEMMA LinkReads ==
    ASSUME NEW cur, cur # None, NEW q \in Seq(Piece), Linked(cur, q), ReadTo(cur, q), next' = next
    PROVE  LinkInv'
  <1>1. PICK u \in 0 .. Len(q) : /\ current'.start = StartOf(cur, q, u)
                                 /\ chunks' = SubSeq(q, u + 1, Len(q))
    BY DEF ReadTo
  <1>2. Linked(current', chunks')
    BY <1>1, LinkDrops
  <1>. QED
    BY <1>2 DEF LinkInv, Linked, StartOf

LEMMA LinkAdds ==
    ASSUME Inv, LinkInv, NEW gap \in Gap, AddChunk(gap)
    PROVE  LinkInv'
  <1>1. PICK x \in Nat \ {0} : x = next + gap
    BY Constants DEF Inv, Types
  <1>2. chunks' = Append(chunks, NewChunk(x)) /\ next' = x + ChunkLen /\ current' = current
    BY <1>1 DEF AddChunk
  <1>3. chunks \in Seq(Piece) /\ Len(chunks) \in Nat
    BY DEF Inv, QueueInv, Line
  <1>4. PICK e \in Piece : e = NewChunk(x) /\ e.start = x
    <2>1. [start |-> x, pos |-> 0] \in Piece
      BY Constants DEF Piece
    <2>. QED
      BY <2>1 DEF NewChunk
  <1>5. PICK q \in Seq(Piece), n \in Nat :
            /\ q = chunks' /\ n = Len(chunks) /\ Len(q) = n + 1 /\ q[n + 1] = e
            /\ \A i \in 1 .. n : q[i] = chunks[i]
    BY <1>2, <1>3, <1>4
  <1>6. /\ \A j \in 0 .. n : StartOf(current, q, j) = StartOf(current, chunks, j)
        /\ StartOf(current, q, n + 1) = x
    BY <1>4, <1>5 DEF StartOf
  <1>7. ASSUME NEW j \in 0 .. n + 1, j # 0 \/ current # None
        PROVE  IF j = n + 1 THEN StartOf(current, q, j) + ChunkLen = next'
               ELSE StartOf(current, q, j + 1) - (StartOf(current, q, j) + ChunkLen) \in Gap
    <2>1. CASE j = n + 1
      BY <1>2, <1>6, <2>1
    <2>2. CASE j = n
      <3>1. StartOf(current, chunks, j) + ChunkLen = next
        BY <1>5, <1>7, <2>2 DEF LinkInv, Linked
      <3>2. x - next = gap /\ n # n + 1
        BY <1>1, Constants DEF Inv, Types
      <3>. QED
        BY <1>6, <2>2, <3>1, <3>2
    <2>3. CASE j \in 0 .. n - 1
      <3>1. j \in 0 .. n /\ j + 1 \in 0 .. n /\ j # n /\ j # n + 1
        BY <2>3
      <3>2. StartOf(current, chunks, j + 1) - (StartOf(current, chunks, j) + ChunkLen) \in Gap
        BY <1>5, <1>7, <3>1 DEF LinkInv, Linked
      <3>. QED
        BY <1>6, <3>1, <3>2
    <2>4. j = n + 1 \/ j = n \/ j \in 0 .. n - 1
      OBVIOUS
    <2>. QED
      BY <2>1, <2>2, <2>3, <2>4
  <1>8. current' = current /\ chunks' = q /\ Len(q) = n + 1
    BY <1>2, <1>5
  <1>. QED
    BY <1>7, <1>8 DEF LinkInv, Linked, StartOf

LEMMA LinkAligns ==
    ASSUME Inv, NEW t \in Nat, NEW cur \in Piece, cur # None, cur.pos < ChunkLen,
           NEW q, Line(cur, q), Linked(cur, q), Age(t, cur.start) <= 0, Align(t, cur, q)
    PROVE  LinkInv'
  <1>1. next \in Nat /\ buffer \in Nat /\ Frames \in Nat \ {0} /\ cur.start \in Nat
    BY Constants, PieceIs DEF Inv, Types
  <1>2. PICK s \in Nat : s = Least(-Age(t, cur.start), Frames) /\ s <= Frames
    BY <1>1 DEF Age, Least
  <1>3. /\ IF s < Frames THEN ReadNext(cur, q, Frames - s) ELSE current' = cur /\ chunks' = q
        /\ next' = next
    BY <1>2 DEF Align
  <1>4. CASE s < Frames
    <2>1. PICK n \in Nat \ {0} : n = Frames - s
      BY <1>1, <1>2, <1>4
    <2>2. PICK f : f = ReadFrames(cur, q, n)
      OBVIOUS
    <2>3. ReadTo(cur, q)
      BY <1>1, <1>3, <1>4, <2>1, <2>2, ReadKeeps
    <2>4. q \in Seq(Piece)
      BY DEF Line
    <2>. QED
      BY <1>3, <2>3, <2>4, LinkReads
  <1>5. CASE ~ (s < Frames)
    BY <1>3, <1>5 DEF LinkInv, Linked, StartOf
  <1>. QED
    BY <1>4, <1>5

LEMMA LinkFirst ==
    ASSUME Inv, LinkInv, NEW t \in Nat, NEW i \in First(t), NEW c, c.start = Queue[i].start
    PROVE  Linked(c, Behind(i))
  <1>1. Linked(Current, Queue) /\ Queue \in Seq(Piece)
    BY Heads, LinkHeads DEF Inv, Types
  <1>2. i \in 1 .. Len(Queue) /\ Len(Queue) \in Nat
    BY <1>1 DEF First
  <1>3. PICK q \in Seq(Piece), k \in 0 .. Len(Queue) : q = Queue /\ k = i /\ k # 0
    BY <1>1, <1>2
  <1>4. PICK cur : cur = Current
    OBVIOUS
  <1>5. PICK r : r = SubSeq(q, k + 1, Len(q))
    OBVIOUS
  <1>6. c.start = StartOf(cur, q, k)
    BY <1>3, <1>4 DEF StartOf
  <1>7. k \in 0 .. Len(q) /\ Linked(cur, q)
    BY <1>1, <1>3, <1>4
  <1>8. Linked(c, r)
    BY <1>3, <1>5, <1>6, <1>7, LinkDrops
  <1>. QED
    BY <1>3, <1>5, <1>8 DEF Behind

LEMMA LinkStep ==
    ASSUME Inv, LinkInv, [Next]_vars
    PROVE  LinkInv'
  <1>1. Line(Current, Queue) /\ Linked(Current, Queue) /\ next \in Nat
        /\ (Current # None => Current \in Piece /\ Current.pos < ChunkLen)
    BY Heads, LinkHeads DEF Inv, Types
  <1>2. ASSUME NEW gap \in Gap, AddChunk(gap)
        PROVE  LinkInv'
    BY <1>2, LinkAdds
  <1>3. ASSUME current' = None, chunks' = <<>>
        PROVE  LinkInv'
    <2>1. Len(<<>>) = 0
      OBVIOUS
    <2>. QED
      BY <1>3, <2>1 DEF LinkInv, Linked
  <1>4. ASSUME NEW f \in Format, NEW b \in Buffers \cup {DefaultBuffer}, Replace(f, b)
        PROVE  LinkInv'
    BY <1>3, <1>4 DEF Replace
  <1>5. CASE \/ \E b \in Buffers : SetBuffer(b)
             \/ OpenDevice \/ SeeChange \/ UNCHANGED vars
    BY <1>5 DEF SetBuffer, OpenDevice, SeeChange, vars, queueVars, LinkInv, Linked, StartOf
  <1>6. ASSUME NEW e \in Elapsed, NEW t \in Nat, t = now + e,
               \/ Mismatch(t) \/ Empty(t) \/ TooEarly(t) \/ Due(t)
               \/ LateEmpty(t) \/ LateDue(t) \/ LateSkip(t) \/ Play(t)
        PROVE  LinkInv'
    <2>1. CASE Mismatch(t)
      BY <2>1 DEF Mismatch, Called, queueVars, LinkInv, Linked, StartOf
    <2>2. CASE Empty(t)
      BY <1>1, <2>2 DEF Empty, Called, LinkInv, Linked, StartOf
    <2>3. CASE TooEarly(t)
      BY <1>1, <2>3 DEF TooEarly, Called, LinkInv, Linked, StartOf
    <2>4. CASE Due(t)
      <3>1. /\ Current # None /\ Age(t, Current.start) \in -Frames .. 0
            /\ Align(t, Current, Queue)
        BY <2>4 DEF Due
      <3>2. Age(t, Current.start) <= 0
        BY <3>1, Constants
      <3>3. PICK cur \in Piece : cur = Current
        BY <1>1, <3>1
      <3>4. PICK q : q = Queue
        OBVIOUS
      <3>. QED
        BY <1>1, <3>1, <3>2, <3>3, <3>4, LinkAligns
    <2>5. CASE LateEmpty(t)
      BY <1>3, <2>5 DEF LateEmpty
    <2>6. CASE LateDue(t)
      <3>1. PICK i \in First(t) : Age(t, Queue[i].start) <= 0 /\ Align(t, Queue[i], Behind(i))
        BY <2>6 DEF LateDue
      <3>2. Queue[i] \in Piece
        <4>1. Queue \in Seq(Piece) /\ i \in 1 .. Len(Queue)
          BY <1>1, <3>1 DEF First, Line
        <4>. QED
          BY <4>1, ElementOfSeq
      <3>3. PICK cur \in Piece : cur = Queue[i]
        BY <3>2
      <3>4. PICK q : q = Behind(i)
        OBVIOUS
      <3>5. cur.pos = 0 /\ Line(cur, q)
        BY <3>1, <3>3, <3>4, FirstIs
      <3>6. Linked(cur, q)
        BY <3>1, <3>3, <3>4, LinkFirst
      <3>7. cur # None
        <4>1. cur \in [start: Nat, pos: Nat]
          BY Constants DEF Piece
        <4>. QED
          BY <4>1, PlaybackAssumption
      <3>8. Age(t, cur.start) <= 0 /\ Align(t, cur, q) /\ cur.pos < ChunkLen
        BY <3>1, <3>3, <3>4, <3>5, Constants
      <3>. QED
        BY <3>5, <3>6, <3>7, <3>8, LinkAligns
    <2>7. CASE LateSkip(t)
      <3>1. PICK i \in First(t) : /\ current' = [Queue[i] EXCEPT !.pos = Age(t, Queue[i].start)]
                                  /\ chunks' = Behind(i) /\ next' = next
        BY <2>7 DEF LateSkip, Called
      <3>2. Queue[i] \in Piece
        <4>1. Queue \in Seq(Piece) /\ i \in 1 .. Len(Queue)
          BY <1>1, <3>1 DEF First, Line
        <4>. QED
          BY <4>1, ElementOfSeq
      <3>3. PICK c : c = current' /\ c.start = Queue[i].start
        BY <3>1, <3>2 DEF Piece
      <3>4. Linked(c, Behind(i))
        BY <3>1, <3>3, LinkFirst
      <3>5. c # None \/ current' = None
        BY <3>3
      <3>. QED
        BY <3>1, <3>3, <3>4 DEF LinkInv, Linked, StartOf
    <2>8. CASE Play(t)
      <3>1. Current # None /\ ReadNext(Current, Queue, Frames + Correction) /\ next' = next
        BY <2>8 DEF Play
      <3>2. PICK n \in Nat \ {0}, cur \in Piece : n = Frames + Correction /\ cur = Current
        BY <1>1, <3>1, CorrectionIs DEF Inv
      <3>3. PICK q, f : q = Queue /\ f = ReadFrames(cur, q, n)
        OBVIOUS
      <3>4. ReadTo(cur, q)
        BY <1>1, <3>1, <3>2, <3>3, ReadKeeps
      <3>5. q \in Seq(Piece)
        BY <1>1, <3>3 DEF Line
      <3>. QED
        BY <1>1, <3>1, <3>2, <3>3, <3>4, <3>5, LinkReads
    <2>. QED
      BY <1>6, <2>1, <2>2, <2>3, <2>4, <2>5, <2>6, <2>7, <2>8
  <1>7. ASSUME NEW e \in Elapsed
        PROVE  now + e \in Nat
    BY Constants DEF Inv, Types
  <1>. QED
    BY <1>2, <1>4, <1>5, <1>6, <1>7 DEF Next

-----------------------------------------------------------------------------
(* The rate.  A callback corrects by no more than the frames since the last      *)
(* correction allow.                                                           *)

\* A correction is the work of less than Slowest frames and this callback.
PaceInv ==
    /\ played_frames < Slowest
    /\ correct_after # 0 => Fastest <= Abs(correct_after) /\ Abs(correct_after) <= Slowest

LEMMA IntervalBounds ==
    ASSUME NEW a \in Nat \ {0}
    PROVE  Interval(a) \in Nat /\ Fastest <= Interval(a) /\ Interval(a) <= Slowest
  <1>1. PICK s \in Nat \ {0}, f \in Nat \ {0} : s = Scale /\ f = Fastest
    BY Constants
  <1>2. PICK n \in Nat : n = (2 * s + a) \div (2 * a) /\ n * (2 * a) <= 2 * s + a
    <2>1. 2 * s + a \in Nat /\ 2 * a \in Nat \ {0}
      OBVIOUS
    <2>. QED
      BY <2>1, Division
  <1>3. n <= s
    <2>1. SUFFICES ASSUME n >= s + 1
                   PROVE  FALSE
      BY <1>2
    <2>2. PICK m \in Nat : n = s + 1 + m
      <3>1. n - (s + 1) \in Nat /\ n = s + 1 + (n - (s + 1))
        BY <2>1
      <3>. QED
        BY <3>1
    <2>3. n * (2 * a) = 2 * (s * a) + 2 * a + 2 * (m * a)
      BY <2>2
    <2>4. PICK z \in Nat, y \in Nat : z = s * a /\ y = m * a
      OBVIOUS
    <2>5. z >= s
      <3>1. PICK b \in Nat : a = b + 1
        <4>1. a - 1 \in Nat /\ a = (a - 1) + 1
          OBVIOUS
        <4>. QED
          BY <4>1
      <3>2. s * a = s * b + s /\ s * b \in Nat
        BY <3>1
      <3>. QED
        BY <2>4, <3>2
    <2>. QED
      BY <1>2, <2>3, <2>4, <2>5
  <1>4. Interval(a) = IF n < f THEN f ELSE n
    BY <1>1, <1>2 DEF Interval
  <1>. QED
    BY <1>1, <1>3, <1>4 DEF Slowest

LEMMA SoftSyncBounds ==
    ASSUME Types, NEW age \in Int
    PROVE  SoftSync(age) # 0 =>
              Fastest <= Abs(SoftSync(age)) /\ Abs(SoftSync(age)) <= Slowest
  <1>1. short_median \in Int /\ SoftShort \in Nat
    BY Constants DEF Types
  <1>. DEFINE mini == Median(Newest(ages, MiniSize))
  <1>2. CASE short_median > SoftShort /\ mini > SoftAge /\ age > SoftAge
    <2>1. short_median \in Nat \ {0}
      BY <1>1, <1>2
    <2>2. PICK z \in Nat : z = Interval(short_median) /\ Fastest <= z /\ z <= Slowest
      BY <2>1, IntervalBounds
    <2>. HIDE DEF mini
    <2>3. SoftSync(age) \in {0, z}
      BY <1>2, <2>2 DEF SoftSync, mini
    <2>4. Abs(z) = z
      BY DEF Abs
    <2>. QED
      BY <2>2, <2>3, <2>4
  <1>3. CASE short_median < -SoftShort /\ mini < -SoftAge /\ age < -SoftAge
    <2>1. -short_median \in Nat \ {0} /\ ~ (short_median > SoftShort)
      BY <1>1, <1>3
    <2>2. PICK z \in Nat : z = Interval(-short_median) /\ Fastest <= z /\ z <= Slowest
      BY <2>1, IntervalBounds
    <2>. HIDE DEF mini
    <2>3. SoftSync(age) \in {0, -z}
      BY <1>3, <2>1, <2>2 DEF SoftSync, mini
    <2>4. Abs(-z) = z
      BY DEF Abs
    <2>. QED
      BY <2>2, <2>3, <2>4
  <1>4. CASE /\ ~ (short_median > SoftShort /\ mini > SoftAge /\ age > SoftAge)
             /\ ~ (short_median < -SoftShort /\ mini < -SoftAge /\ age < -SoftAge)
    <2>1. SoftSync(age) = 0
      BY <1>4 DEF SoftSync
    <2>. QED
      BY <2>1
  <1>. QED
    BY <1>2, <1>3, <1>4

LEMMA Quotients ==
    ASSUME NEW a \in Nat, NEW b \in Nat, a <= b, NEW m \in Nat \ {0}, NEW n \in Nat \ {0}, n <= m
    PROVE  a \div m <= b \div n
  <1>1. PICK d \in Nat : d = a \div m /\ d * m <= a
    BY Division
  <1>2. PICK e \in Nat : e = b \div n /\ b < e * n + n
    BY Division
  <1>3. SUFFICES ASSUME d >= e + 1
                 PROVE  FALSE
    BY <1>1, <1>2
  <1>4. PICK x \in Nat, y \in Nat : d = e + 1 + x /\ m = n + y
    <2>1. d - (e + 1) \in Nat /\ d = e + 1 + (d - (e + 1)) /\ m - n \in Nat /\ m = n + (m - n)
      BY <1>3
    <2>. QED
      BY <2>1
  <1>5. d * m = e * n + n + (x * n + (e + 1 + x) * y)
    BY <1>4
  <1>6. x * n \in Nat /\ (e + 1 + x) * y \in Nat /\ e * n \in Nat
    OBVIOUS
  <1>. QED
    BY <1>1, <1>2, <1>5, <1>6

LEMMA CorrectionBounds ==
    ASSUME Types, PaceInv
    PROVE  Correction <= Extra
  <1>1. /\ Frames \in Nat \ {0} /\ played_frames \in Nat /\ correct_after \in Int
        /\ Fastest \in Nat \ {0} /\ Slowest \in Nat \ {0}
    BY Constants DEF Types, Slowest
  <1>2. Extra \in Nat
    <2>1. Slowest - 1 + Frames \in Nat
      BY <1>1
    <2>. QED
      BY <1>1, <2>1, Division DEF Extra
  <1>3. CASE correct_after = 0
    BY <1>2, <1>3 DEF Correction
  <1>4. CASE correct_after # 0
    <2>1. PICK m \in Nat \ {0} : m = Abs(correct_after) /\ Fastest <= m
      BY <1>1, <1>4 DEF Abs, PaceInv
    <2>2. PICK a \in Nat, b \in Nat : /\ a = played_frames + Frames /\ b = Slowest - 1 + Frames
                                      /\ a <= b
      BY <1>1 DEF PaceInv
    <2>3. PICK n \in Nat : n = a \div m
      BY Division
    <2>4. n <= Extra
      BY <1>1, <2>1, <2>2, <2>3, Quotients DEF Extra
    <2>5. Correction = Clamp(IF correct_after < 0 THEN -n ELSE n)
      BY <1>4, <2>1, <2>2, <2>3 DEF Correction
    <2>. QED
      BY <1>1, <1>2, <2>4, <2>5 DEF Clamp
  <1>. QED
    BY <1>3, <1>4

LEMMA PaceStep ==
    ASSUME Inv, PaceInv, [Next]_vars
    PROVE  PaceInv'
  <1>1. /\ Frames \in Nat \ {0} /\ played_frames \in Nat /\ correct_after \in Int
        /\ Fastest \in Nat \ {0} /\ Slowest \in Nat \ {0}
    BY Constants DEF Inv, Types, Slowest
  <1>2. ASSUME NEW f \in Format, NEW b \in Buffers \cup {DefaultBuffer}, Replace(f, b)
        PROVE  PaceInv'
    BY <1>1, <1>2 DEF Replace, PaceInv
  <1>3. ASSUME NEW e \in Elapsed, NEW t \in Nat, t = now + e, Play(t)
        PROVE  PaceInv'
    <2>1. PICK age \in Int : age = Age(t, Current.start + Current.pos)
      <3>1. Current \in Piece /\ buffer \in Nat
        BY <1>3, Heads DEF Play, Inv, Types
      <3>. QED
        BY <3>1, PieceIs DEF Age
    <2>2. /\ played_frames' = IF correct_after = 0 THEN played_frames
                              ELSE (played_frames + Frames) % Abs(correct_after)
          /\ correct_after' = SoftSync(age)
      BY <1>3, <2>1 DEF Play
    <2>3. played_frames' < Slowest
      <3>1. CASE correct_after = 0
        BY <2>2, <3>1 DEF PaceInv
      <3>2. CASE correct_after # 0
        <4>1. PICK m \in Nat \ {0}, a \in Nat :
                  m = Abs(correct_after) /\ a = played_frames + Frames /\ m <= Slowest
          BY <1>1, <3>2 DEF Abs, PaceInv
        <4>2. a % m \in 0 .. m - 1
          OBVIOUS
        <4>. QED
          BY <1>1, <2>2, <3>2, <4>1, <4>2
      <3>. QED
        BY <3>1, <3>2
    <2>4. correct_after' # 0 => Fastest <= Abs(correct_after') /\ Abs(correct_after') <= Slowest
      BY <2>2, SoftSyncBounds DEF Inv
    <2>. QED
      BY <2>3, <2>4 DEF PaceInv, Abs
  <1>4. ASSUME NEW e \in Elapsed
        PROVE  now + e \in Nat
    BY Constants DEF Inv, Types
  <1>5. ASSUME UNCHANGED rateVars
        PROVE  PaceInv'
    BY <1>5 DEF rateVars, PaceInv, Abs
  <1>. QED
    BY <1>2, <1>3, <1>4, <1>5
       DEF Next, vars, AddChunk, SetBuffer, OpenDevice, SeeChange, Mismatch, Empty, TooEarly, Due,
           LateEmpty, LateDue, LateSkip, Align

-----------------------------------------------------------------------------
(* What is read, and what of it is played.                                     *)

\* Frames that follow one another, but for one gap.
GapAfter(f, n, base, m, g) ==
    \A i \in 1 .. n : f[i] = base + (i - 1) + (IF i <= m THEN 0 ELSE g)

OneGap(f, n, base) == \E g \in Gap \cup {0}, m \in Int : GapAfter(f, n, base, m, g)

\* A reading that spans two chunks at most crosses one gap.
LEMMA ReadOneGap ==
    ASSUME NEW cur \in Piece, cur # None, cur.pos < ChunkLen, NEW q \in Seq(Piece),
           next \in Nat, Linked(cur, q), NEW n \in Nat, cur.pos + n <= 2 * ChunkLen,
           NEW f, f = ReadFrames(cur, q, n), NEW r \in Nat, r = Len(f)
    PROVE  OneGap(f, r, cur.start + cur.pos)
  <1>1. PICK C \in Nat \ {0}, L \in Nat, p0 \in Nat, s \in Nat :
            C = ChunkLen /\ L = Len(q) /\ p0 = cur.pos /\ s = cur.start /\ p0 < C
    <2>1. ChunkLen \in Nat \ {0} /\ Len(q) \in Nat /\ cur.pos \in Nat /\ cur.start \in Nat
      BY Constants, PieceIs
    <2>. QED
      BY <2>1
  <1>2. PICK z \in Nat : z = C * L
    OBVIOUS
  <1>3. PICK k \in Nat : k = Least(n, Available(cur, q)) /\ k <= n /\ k <= C - p0 + z
    <2>1. PICK x \in Nat : x = Available(cur, q) /\ x = C - p0 + z
      <3>1. Available(cur, q) = C - p0 + z /\ C - p0 + z \in Nat
        BY <1>1, <1>2 DEF Available
      <3>. QED
        BY <3>1
    <2>2. Least(n, x) \in Nat /\ Least(n, x) <= n /\ Least(n, x) <= x
      BY DEF Least
    <2>. QED
      BY <2>1, <2>2
  <1>4. f = [i \in 1 .. k |->
                LET p == p0 + i - 1
                    j == p \div C
                IN  StartOf(cur, q, j) + (p % C)]
    BY <1>1, <1>3 DEF ReadFrames, StartOf
  <1>5. r = k
    BY <1>4
  <1>6. ASSUME NEW i \in 1 .. r
        PROVE  \/ p0 + i - 1 < C /\ f[i] = s + (p0 + i - 1)
               \/ p0 + i - 1 >= C /\ L >= 1 /\ f[i] = StartOf(cur, q, 1) + (p0 + i - 1 - C)
    <2>1. PICK p \in Nat : p = p0 + i - 1 /\ p < 2 * C /\ p < C + z
      <3>1. p0 + n <= 2 * C /\ i <= k
        BY <1>1, <1>5
      <3>2. p0 + i - 1 \in Nat /\ p0 + i - 1 < 2 * C /\ p0 + i - 1 < C + z
        BY <1>3, <3>1
      <3>. QED
        BY <3>2
    <2>2. PICK j \in Nat : j = p \div C /\ j * C <= p /\ p < j * C + C /\ p % C = p - j * C
      BY Division
    <2>3. f[i] = StartOf(cur, q, j) + (p - j * C)
      BY <1>4, <1>5, <2>1, <2>2
    <2>4. j < 2
      <3>1. SUFFICES ASSUME j >= 2
                     PROVE  FALSE
        BY <2>2
      <3>2. PICK x \in Nat : j = 2 + x
        <4>1. j - 2 \in Nat /\ j = 2 + (j - 2)
          BY <3>1
        <4>. QED
          BY <4>1
      <3>3. j * C = 2 * C + x * C
        BY <3>2
      <3>4. PICK v \in Nat, w \in Nat : v = j * C /\ w = x * C
        OBVIOUS
      <3>5. v = 2 * C + w /\ v <= p
        BY <2>2, <3>3, <3>4
      <3>. QED
        BY <2>1, <3>5
    <2>5. CASE j = 0
      <3>1. j * C = 0
        BY <2>5
      <3>2. p < C /\ p - j * C = p
        BY <2>2, <3>1
      <3>3. StartOf(cur, q, j) = s
        BY <1>1, <2>5 DEF StartOf
      <3>4. f[i] = s + p
        BY <2>3, <3>2, <3>3
      <3>. QED
        BY <2>1, <3>2, <3>4
    <2>6. CASE j = 1
      <3>1. j * C = C
        BY <2>6
      <3>2. L # 0
        BY <1>2, <2>1, <2>2, <3>1
      <3>. QED
        BY <2>1, <2>2, <2>3, <2>6, <3>1, <3>2
    <2>. QED
      BY <2>2, <2>4, <2>5, <2>6
  <1>7. CASE L = 0
    <2>1. GapAfter(f, r, s + p0, r, 0)
      BY <1>6, <1>7 DEF GapAfter
    <2>2. 0 \in Gap \cup {0} /\ r \in Int /\ s + p0 = cur.start + cur.pos
      BY <1>1
    <2>. QED
      BY <2>1, <2>2 DEF OneGap
  <1>8. CASE L # 0
    <2>1. PICK g \in Gap : StartOf(cur, q, 1) - (s + C) = g
      <3>1. 0 \in 0 .. Len(q) /\ 0 # Len(q) /\ 0 + 1 = 1
        BY <1>1, <1>8
      <3>2. StartOf(cur, q, 1) - (StartOf(cur, q, 0) + C) \in Gap
        BY <1>1, <3>1 DEF Linked
      <3>. QED
        BY <1>1, <3>2 DEF StartOf
    <2>2. StartOf(cur, q, 1) \in Nat /\ g \in Nat
      <3>1. 1 \in 1 .. Len(q)
        BY <1>1, <1>8
      <3>2. q[1] \in Piece
        BY <3>1, ElementOfSeq
      <3>. QED
        BY <2>1, <3>2, PieceIs, Constants DEF StartOf
    <2>3. PICK m \in Int : m = C - p0
      OBVIOUS
    <2>4. PICK a \in Nat : a = StartOf(cur, q, 1) /\ a = s + C + g
      BY <2>1, <2>2
    <2>5. GapAfter(f, r, s + p0, m, g)
      <3>1. ASSUME NEW i \in 1 .. r
            PROVE  f[i] = (s + p0) + (i - 1) + (IF i <= m THEN 0 ELSE g)
        <4>1. CASE p0 + i - 1 < C
          BY <1>6, <2>3, <4>1
        <4>2. CASE p0 + i - 1 >= C
          <5>1. f[i] = a + (p0 + i - 1 - C)
            BY <1>6, <2>4, <4>2
          <5>2. ~ (i <= m)
            BY <2>3, <4>2
          <5>3. a + (p0 + i - 1 - C) = (s + p0) + (i - 1) + g
            BY <2>2, <2>4
          <5>. QED
            BY <5>1, <5>2, <5>3
        <4>. QED
          BY <4>1, <4>2
      <3>. QED
        BY <3>1 DEF GapAfter
    <2>. QED
      <3>1. g \in Gap \cup {0} /\ s + p0 = cur.start + cur.pos
        BY <1>1
      <3>. QED
        BY <2>5, <3>1 DEF OneGap
  <1>. QED
    BY <1>7, <1>8

\* Which frame of those read each frame of a corrected callback is.
Picks(n, c, k) ==
    /\ \A i \in 1 .. n : k[i] \in 1 .. n + c
    /\ \A i \in 1 .. n - 1 : k[i + 1] - k[i] \in 0 .. 2
    /\ k[n] = n + c

Picked(p, f, n, k) == \A i \in 1 .. n : p[i] = f[k[i]]

\* The slices of n frames: each is at most one further than the one before.
Slices(o, n, top) ==
    /\ \A i \in 1 .. n : o[i] \in 0 .. top /\ o[i] <= i - 1
    /\ \A i \in 1 .. n - 1 : o[i + 1] - o[i] \in {0, 1}
    /\ o[n] = top

LEMMA SliceOf ==
    ASSUME NEW step \in Nat \ {0}, NEW top \in Nat, NEW n \in Nat \ {0}, step * top <= n - 1,
           NEW o, o = [i \in 1 .. n |-> Least((i - 1) \div step, top)]
    PROVE  Slices(o, n, top)
  <1>1. ASSUME NEW i \in 1 .. n
        PROVE  \E d \in Nat : /\ o[i] = Least(d, top) /\ d * step <= i - 1
                              /\ i - 1 < d * step + step
    <2>1. i - 1 \in Nat
      OBVIOUS
    <2>. QED
      BY <2>1, Division
  <1>2. ASSUME NEW i \in 1 .. n
        PROVE  o[i] \in 0 .. top /\ o[i] <= i - 1
    <2>1. PICK d \in Nat : o[i] = Least(d, top) /\ d * step <= i - 1
      BY <1>1
    <2>2. d <= d * step
      <3>1. PICK b \in Nat : step = b + 1
        <4>1. step - 1 \in Nat /\ step = (step - 1) + 1
          OBVIOUS
        <4>. QED
          BY <4>1
      <3>2. d * step = d * b + d /\ d * b \in Nat
        BY <3>1
      <3>. QED
        BY <3>2
    <2>3. d * step \in Nat
      OBVIOUS
    <2>4. d <= i - 1
      BY <2>1, <2>2, <2>3
    <2>. QED
      BY <2>1, <2>4 DEF Least
  <1>3. ASSUME NEW i \in 1 .. n - 1
        PROVE  o[i + 1] - o[i] \in {0, 1}
    <2>1. PICK d \in Nat : /\ o[i] = Least(d, top) /\ d * step <= i - 1
                           /\ i - 1 < d * step + step
      BY <1>1
    <2>2. PICK e \in Nat : /\ o[i + 1] = Least(e, top) /\ e * step <= i
                           /\ i < e * step + step
      <3>1. i + 1 \in 1 .. n /\ i + 1 - 1 = i
        OBVIOUS
      <3>2. PICK j \in 1 .. n : j = i + 1 /\ j - 1 = i
        BY <3>1
      <3>3. \E e \in Nat : /\ o[j] = Least(e, top) /\ e * step <= j - 1
                           /\ j - 1 < e * step + step
        BY <1>1
      <3>. QED
        BY <3>2, <3>3
    <2>3. d <= e
      <3>1. SUFFICES ASSUME d >= e + 1
                     PROVE  FALSE
        OBVIOUS
      <3>2. PICK x \in Nat : d = e + 1 + x
        <4>1. d - (e + 1) \in Nat /\ d = e + 1 + (d - (e + 1))
          BY <3>1
        <4>. QED
          BY <4>1
      <3>3. d * step = e * step + step + x * step
        BY <3>2
      <3>4. PICK ds \in Nat, es \in Nat, xs \in Nat :
                ds = d * step /\ es = e * step /\ xs = x * step
        OBVIOUS
      <3>5. ds = es + step + xs /\ ds <= i - 1 /\ i < es + step
        BY <2>1, <2>2, <3>3, <3>4
      <3>. QED
        BY <3>5
    <2>4. e <= d + 1
      <3>1. SUFFICES ASSUME e >= d + 2
                     PROVE  FALSE
        OBVIOUS
      <3>2. PICK x \in Nat : e = d + 2 + x
        <4>1. e - (d + 2) \in Nat /\ e = d + 2 + (e - (d + 2))
          BY <3>1
        <4>. QED
          BY <4>1
      <3>3. e * step = d * step + 2 * step + x * step
        BY <3>2
      <3>4. PICK ds \in Nat, es \in Nat, xs \in Nat :
                ds = d * step /\ es = e * step /\ xs = x * step
        OBVIOUS
      <3>5. es = ds + 2 * step + xs /\ es <= i /\ i - 1 < ds + step
        BY <2>1, <2>2, <3>3, <3>4
      <3>. QED
        BY <3>5
    <2>. QED
      BY <2>1, <2>2, <2>3, <2>4 DEF Least
  <1>4. o[n] = top
    <2>1. PICK d \in Nat : /\ o[n] = Least(d, top) /\ n - 1 < d * step + step
      <3>1. n \in 1 .. n
        OBVIOUS
      <3>. QED
        BY <1>1, <3>1
    <2>2. d >= top
      <3>1. SUFFICES ASSUME top >= d + 1
                     PROVE  FALSE
        OBVIOUS
      <3>2. PICK x \in Nat : top = d + 1 + x
        <4>1. top - (d + 1) \in Nat /\ top = d + 1 + (top - (d + 1))
          BY <3>1
        <4>. QED
          BY <4>1
      <3>3. step * top = d * step + step + x * step
        BY <3>2
      <3>4. PICK ds \in Nat, xs \in Nat, v \in Nat :
                ds = d * step /\ xs = x * step /\ v = step * top
        OBVIOUS
      <3>5. v = ds + step + xs /\ v <= n - 1 /\ n - 1 < ds + step
        BY <2>1, <3>3, <3>4
      <3>. QED
        BY <3>5
    <2>. QED
      BY <2>1, <2>2 DEF Least
  <1>. QED
    BY <1>2, <1>3, <1>4 DEF Slices

\* Without gaps all that is read follows one another, however many chunks it spans.
LEMMA ReadNoGap ==
    ASSUME Gap \subseteq {0},
           NEW cur \in Piece, cur # None, cur.pos < ChunkLen, NEW q \in Seq(Piece),
           next \in Nat, Linked(cur, q), NEW n \in Nat,
           NEW f, f = ReadFrames(cur, q, n), NEW r \in Nat, r = Len(f)
    PROVE  OneGap(f, r, cur.start + cur.pos)
  <1>1. PICK C \in Nat \ {0}, L \in Nat, p0 \in Nat, s \in Nat :
            C = ChunkLen /\ L = Len(q) /\ p0 = cur.pos /\ s = cur.start /\ p0 < C
    <2>1. ChunkLen \in Nat \ {0} /\ Len(q) \in Nat /\ cur.pos \in Nat /\ cur.start \in Nat
      BY Constants, PieceIs
    <2>. QED
      BY <2>1
  <1>2. PICK z \in Nat : z = C * L
    OBVIOUS
  <1>3. PICK k \in Nat : k = Least(n, Available(cur, q)) /\ k <= n /\ k <= C - p0 + z
    <2>1. PICK x \in Nat : x = Available(cur, q) /\ x = C - p0 + z
      <3>1. Available(cur, q) = C - p0 + z /\ C - p0 + z \in Nat
        BY <1>1, <1>2 DEF Available
      <3>. QED
        BY <3>1
    <2>2. Least(n, x) \in Nat /\ Least(n, x) <= n /\ Least(n, x) <= x
      BY DEF Least
    <2>. QED
      BY <2>1, <2>2
  <1>4. f = [i \in 1 .. k |->
                LET p == p0 + i - 1
                    j == p \div C
                IN  StartOf(cur, q, j) + (p % C)]
    BY <1>1, <1>3 DEF ReadFrames, StartOf
  <1>5. r = k
    BY <1>4
  <1>. DEFINE At(j) == j <= L => StartOf(cur, q, j) = s + j * C
              T     == {j \in Nat : At(j)}
  <1>6. 0 \in T
    BY <1>1 DEF StartOf
  <1>7. ASSUME NEW j \in T
        PROVE  j + 1 \in T
    <2>1. j \in Nat /\ At(j)
      OBVIOUS
    <2>2. SUFFICES ASSUME j + 1 <= L
                   PROVE  StartOf(cur, q, j + 1) = s + (j + 1) * C
      BY <2>1
    <2>3. j \in 0 .. Len(q) /\ j # Len(q) /\ j <= L
      BY <1>1, <2>1, <2>2
    <2>4. StartOf(cur, q, j + 1) - (StartOf(cur, q, j) + C) = 0
      BY <1>1, <2>3 DEF Linked
    <2>5. PICK a \in Nat : a = StartOf(cur, q, j + 1)
      <3>1. q[j + 1] \in Piece /\ j + 1 # 0
        BY <1>1, <2>1, <2>2, ElementOfSeq
      <3>. QED
        BY <3>1, PieceIs DEF StartOf
    <2>6. PICK v \in Nat : v = j * C /\ (j + 1) * C = v + C
      BY <2>1
    <2>7. StartOf(cur, q, j) = s + v
      BY <2>1, <2>3, <2>6
    <2>8. a - ((s + v) + C) = 0
      BY <2>4, <2>5, <2>7
    <2>9. a = s + (v + C)
      BY <2>8
    <2>. HIDE DEF At
    <2>. QED
      BY <2>5, <2>6, <2>9
  <1>8. \A j \in Nat : At(j)
    <2>. HIDE DEF At
    <2>1. T \in SUBSET Nat
      OBVIOUS
    <2>2. T = Nat
      <3>. HIDE DEF T
      <3>. QED
        BY <1>6, <1>7, <2>1, Induct
    <2>. QED
      BY <2>2
  <1>9. ASSUME NEW i \in 1 .. r
        PROVE  f[i] = (s + p0) + (i - 1) + (IF i <= r THEN 0 ELSE 0)
    <2>1. PICK p \in Nat : p = p0 + i - 1 /\ p < C + z
      <3>1. i <= k
        BY <1>5
      <3>2. p0 + i - 1 \in Nat /\ p0 + i - 1 < C + z
        BY <1>3, <3>1
      <3>. QED
        BY <3>2
    <2>2. PICK j \in Nat : j = p \div C /\ j * C <= p /\ p < j * C + C /\ p % C = p - j * C
      BY Division
    <2>3. f[i] = StartOf(cur, q, j) + (p - j * C)
      BY <1>4, <1>5, <2>1, <2>2
    <2>4. j <= L
      <3>1. SUFFICES ASSUME j >= L + 1
                     PROVE  FALSE
        OBVIOUS
      <3>2. PICK x \in Nat : j = L + 1 + x
        <4>1. j - (L + 1) \in Nat /\ j = L + 1 + (j - (L + 1))
          BY <3>1
        <4>. QED
          BY <4>1
      <3>3. j * C = C * L + C + x * C
        BY <3>2
      <3>4. PICK v \in Nat, w \in Nat : v = j * C /\ w = x * C
        OBVIOUS
      <3>5. v = z + C + w /\ v <= p
        BY <1>2, <2>2, <3>3, <3>4
      <3>. QED
        BY <2>1, <3>5
    <2>5. PICK v \in Nat : v = j * C
      OBVIOUS
    <2>6. StartOf(cur, q, j) = s + v
      BY <1>8, <2>4, <2>5
    <2>. QED
      BY <2>1, <2>3, <2>5, <2>6
  <1>10. 0 \in Gap \cup {0} /\ r \in Int /\ s + p0 = cur.start + cur.pos
    BY <1>1
  <1>. HIDE DEF At
  <1>11. GapAfter(f, r, s + p0, r, 0)
    BY <1>9 DEF GapAfter
  <1>. QED
    BY <1>10, <1>11 DEF OneGap

\* read_with_correction: each frame but the last of a slice is followed by the next one read.
LEMMA CorrectedPicks ==
    ASSUME NEW n \in Nat \ {0}, NEW c \in Int \ {0}, n + c \in Nat \ {0}, NEW buf
    PROVE  \E k : Picks(n, c, k) /\ Picked(Corrected(buf, n, c), buf, n, k)
  <1>. DEFINE max    == IF c < 0 THEN n ELSE n + c
              slices == Least(Abs(c) + 1, max)
              size   == max \div slices
              step   == IF c < 0 THEN size ELSE size - 1
              Of(i)  == IF step = 0 THEN slices - 1 ELSE Least((i - 1) \div step, slices - 1)
              k      == [i \in 1 .. n |-> IF c < 0 THEN i - Of(i) ELSE i + Of(i)]
  <1>1. Corrected(buf, n, c) = [i \in 1 .. n |-> IF c < 0 THEN buf[i - Of(i)] ELSE buf[i + Of(i)]]
    BY DEF Corrected
  <1>2. Picked(Corrected(buf, n, c), buf, n, k)
    <2>. HIDE DEF Of
    <2>. QED
      BY <1>1 DEF Picked
  <1>3. PICK a \in Nat \ {0}, M \in Nat \ {0} :
            /\ a = Abs(c) /\ M = max /\ slices = a + 1 /\ a + 1 <= M
            /\ (c < 0 => c = 0 - a /\ M = n) /\ (c > 0 => c = a /\ M = n + a)
    <2>1. CASE c < 0
      <3>1. Abs(c) = 0 - c /\ max = n /\ Abs(c) + 1 <= n
        BY <2>1 DEF Abs
      <3>. QED
        BY <2>1, <3>1 DEF Least
    <2>2. CASE c > 0
      <3>1. Abs(c) = c /\ max = n + c /\ Abs(c) + 1 <= n + c
        BY <2>2 DEF Abs
      <3>. QED
        BY <2>2, <3>1 DEF Least
    <2>. QED
      BY <2>1, <2>2
  <1>4. PICK z \in Nat : z = size /\ z * (a + 1) <= M /\ z >= 1
    <2>1. PICK d \in Nat : d = M \div (a + 1) /\ d * (a + 1) <= M /\ M < d * (a + 1) + (a + 1)
      <3>1. a + 1 \in Nat \ {0}
        OBVIOUS
      <3>. QED
        BY <3>1, Division
    <2>2. d # 0
      <3>1. SUFFICES ASSUME d = 0
                     PROVE  FALSE
        OBVIOUS
      <3>2. 0 * (a + 1) = 0
        OBVIOUS
      <3>3. M < 0 + (a + 1) /\ a + 1 <= M
        BY <1>3, <2>1, <3>1, <3>2
      <3>. QED
        BY <3>3
    <2>3. size = d
      BY <1>3, <2>1
    <2>. QED
      BY <2>1, <2>2, <2>3
  <1>5. PICK y \in Nat : y = z * a /\ y + z <= M
    <2>1. z * (a + 1) = z * a + z /\ z * a \in Nat
      OBVIOUS
    <2>. QED
      BY <1>4, <2>1
  <1>. HIDE DEF max, slices, size
  <1>6. CASE step = 0
    <2>1. c > 0
      BY <1>4, <1>6
    <2>2. \A i \in 1 .. n : k[i] = i + a
      BY <1>3, <1>6, <2>1
    <2>3. Picks(n, c, k)
      <3>. HIDE DEF k
      <3>. QED
        BY <1>3, <2>1, <2>2 DEF Picks
    <2>. QED
      BY <1>2, <2>3
  <1>7. CASE step # 0
    <2>1. PICK t \in Nat \ {0} : t = step /\ t * a <= n - 1 /\ (c < 0 => t = z)
      <3>1. CASE c < 0
        <4>1. step = z /\ z \in Nat \ {0}
          BY <1>4, <3>1
        <4>2. z * a <= n - 1
          BY <1>3, <1>4, <1>5, <3>1
        <4>. QED
          BY <3>1, <4>1, <4>2
      <3>2. CASE c > 0
        <4>1. step = z - 1 /\ z - 1 \in Nat \ {0}
          BY <1>4, <1>7, <3>2
        <4>2. (z - 1) * a = z * a - a
          OBVIOUS
        <4>3. (z - 1) * a <= n - 1
          BY <1>3, <1>4, <1>5, <3>2, <4>2
        <4>. QED
          BY <3>2, <4>1, <4>3
      <3>. QED
        BY <3>1, <3>2
    <2>2. PICK o : o = [i \in 1 .. n |-> Least((i - 1) \div t, a)]
      OBVIOUS
    <2>3. /\ \A i \in 1 .. n : o[i] \in 0 .. a /\ o[i] <= i - 1
          /\ \A i \in 1 .. n - 1 : o[i + 1] - o[i] \in {0, 1}
          /\ o[n] = a
      <3>1. t * a <= n - 1
        BY <2>1
      <3>2. Slices(o, n, a)
        BY <2>2, <3>1, SliceOf
      <3>. QED
        BY <3>2 DEF Slices
    <2>4. \A i \in 1 .. n : k[i] = IF c < 0 THEN i - o[i] ELSE i + o[i]
      <3>1. slices - 1 = a
        BY <1>3
      <3>2. \A i \in 1 .. n : Of(i) = o[i]
        BY <1>7, <2>1, <2>2, <3>1
      <3>. HIDE DEF Of
      <3>. QED
        BY <3>2
    <2>5. Picks(n, c, k)
      <3>. HIDE DEF k
      <3>1. ASSUME NEW i \in 1 .. n - 1
            PROVE  k[i + 1] - k[i] \in 0 .. 2
        <4>1. i \in 1 .. n /\ i + 1 \in 1 .. n
          OBVIOUS
        <4>2. PICK x \in Int, x1 \in Int : x = o[i] /\ x1 = o[i + 1] /\ x1 - x \in {0, 1}
          BY <2>3, <4>1
        <4>. QED
          BY <2>4, <4>1, <4>2
      <3>2. k[n] = n + c
        <4>1. n \in 1 .. n /\ o[n] = a
          BY <2>3
        <4>2. k[n] = IF c < 0 THEN n - a ELSE n + a
          BY <2>4, <4>1
        <4>. QED
          BY <1>3, <4>2
      <3>3. ASSUME NEW i \in 1 .. n
            PROVE  k[i] \in 1 .. n + c
        <4>1. PICK x \in 0 .. a : x = o[i] /\ x <= i - 1
          BY <2>3
        <4>2. CASE c > 0
          BY <1>3, <2>4, <4>1, <4>2
        <4>3. CASE c < 0
          <5>1. PICK d \in Nat : x = Least(d, a) /\ d * t <= i - 1 /\ i - 1 < d * t + t
            <6>1. i - 1 \in Nat
              OBVIOUS
            <6>. QED
              BY <2>2, <4>1, <6>1, Division
          <5>2. i - x <= n - a
            <6>1. CASE a <= d
              BY <5>1, <6>1, <1>3 DEF Least
            <6>2. CASE d < a
              <7>1. PICK e \in Nat : a = d + 1 + e
                <8>1. a - (d + 1) \in Nat /\ a = d + 1 + (a - (d + 1))
                  BY <6>2
                <8>. QED
                  BY <8>1
              <7>2. t * a = d * t + t + e * t
                BY <7>1
              <7>3. PICK dt \in Nat, et \in Nat : dt = d * t /\ et = e * t
                OBVIOUS
              <7>4. et >= e
                <8>1. PICK b \in Nat : t = b + 1
                  <9>1. t - 1 \in Nat /\ t = (t - 1) + 1
                    OBVIOUS
                  <9>. QED
                    BY <9>1
                <8>2. e * t = e * b + e /\ e * b \in Nat
                  BY <8>1
                <8>. QED
                  BY <7>3, <8>2
              <7>5. dt + t + et + t <= n
                <8>1. y = dt + t + et /\ t = z /\ M = n
                  BY <1>3, <1>5, <2>1, <4>3, <7>2, <7>3
                <8>. QED
                  BY <1>5, <8>1
              <7>6. x = d /\ i - 1 < dt + t
                BY <5>1, <6>2, <7>3 DEF Least
              <7>. QED
                BY <7>1, <7>4, <7>5, <7>6
            <6>. QED
              BY <6>1, <6>2
          <5>. QED
            BY <1>3, <2>4, <4>1, <4>3, <5>2
        <4>. QED
          BY <4>2, <4>3
      <3>. QED
        BY <3>1, <3>2, <3>3 DEF Picks
    <2>. QED
      BY <1>2, <2>5
  <1>. QED
    BY <1>6, <1>7

\* n frames that are heard as a smooth stretch of the stream that ends at end.
SmoothTo(p, n, end) ==
    /\ \A i \in 1 .. n - 1 : \E gap \in Gap \cup {0} : p[i + 1] - p[i] - gap \in 0 .. 2
    /\ \E gap \in Gap \cup {0} : p[n] = end + gap

LEMMA PickedSmooth ==
    ASSUME NEW n \in Nat \ {0}, NEW c \in Int, n + c \in Nat \ {0}, NEW k, Picks(n, c, k),
           NEW base \in Nat, NEW f, OneGap(f, n + c, base),
           NEW p, Picked(p, f, n, k)
    PROVE  SmoothTo(p, n, base + n + c - 1)
  <1>1. PICK g \in Gap \cup {0}, m \in Int : GapAfter(f, n + c, base, m, g)
    BY DEF OneGap
  <1>2. g \in Nat
    BY <1>1, Constants
  <1>3. ASSUME NEW i \in 1 .. n - 1
        PROVE  \E gap \in Gap \cup {0} : p[i + 1] - p[i] - gap \in 0 .. 2
    <2>1. i \in 1 .. n /\ i + 1 \in 1 .. n
      OBVIOUS
    <2>2. PICK x \in 1 .. n + c, y \in 1 .. n + c : x = k[i] /\ y = k[i + 1] /\ y - x \in 0 .. 2
      <3>1. k[i] \in 1 .. n + c /\ k[i + 1] \in 1 .. n + c /\ k[i + 1] - k[i] \in 0 .. 2
        BY <2>1 DEF Picks
      <3>. QED
        BY <3>1
    <2>3. /\ p[i] = base + (x - 1) + (IF x <= m THEN 0 ELSE g)
          /\ p[i + 1] = base + (y - 1) + (IF y <= m THEN 0 ELSE g)
      BY <1>1, <2>1, <2>2 DEF Picked, GapAfter
    <2>4. CASE x <= m /\ ~ (y <= m)
      <3>1. p[i + 1] - p[i] - g = y - x
        BY <1>2, <2>3, <2>4
      <3>. QED
        BY <1>1, <2>2, <3>1
    <2>5. CASE (x <= m /\ y <= m) \/ (~ (x <= m) /\ ~ (y <= m))
      <3>1. p[i + 1] - p[i] - 0 = y - x
        BY <1>2, <2>3, <2>5
      <3>. QED
        BY <2>2, <3>1
    <2>6. y <= m => x <= m
      BY <2>2
    <2>. QED
      BY <2>4, <2>5, <2>6
  <1>4. \E gap \in Gap \cup {0} : p[n] = base + n + c - 1 + gap
    <2>1. n \in 1 .. n /\ k[n] = n + c /\ n + c \in 1 .. n + c
      BY DEF Picks
    <2>2. p[n] = base + (n + c - 1) + (IF n + c <= m THEN 0 ELSE g)
      BY <1>1, <2>1 DEF Picked, GapAfter
    <2>3. CASE n + c <= m
      <3>1. p[n] = base + n + c - 1 + 0
        BY <2>2, <2>3
      <3>. QED
        BY <3>1
    <2>4. CASE ~ (n + c <= m)
      <3>1. p[n] = base + n + c - 1 + g
        BY <1>2, <2>2, <2>4
      <3>. QED
        BY <1>1, <3>1
    <2>. QED
      BY <2>3, <2>4
  <1>. QED
    BY <1>3, <1>4 DEF SmoothTo

LEMMA PlaySmooth ==
    ASSUME Inv, LinkInv, PaceInv, FewGaps, NEW t \in Nat, Play(t),
           last'.mode = "played", last'.complete
    PROVE  /\ \A i \in 1 .. Frames - 1 : \E gap \in Gap \cup {0} :
                  pcm'[i + 1] - pcm'[i] - gap \in 0 .. 2
           /\ \E gap \in Gap \cup {0} :
                  pcm'[Frames] = Current.start + Current.pos + Frames + last'.correction - 1
                                   + gap
  <1>1. /\ Current # None /\ Linked(Current, Queue)
        /\ next \in Nat /\ buffer \in Nat /\ Frames \in Nat \ {0} /\ ChunkLen \in Nat \ {0}
        /\ Current \in Piece /\ Current.pos < ChunkLen /\ Queue \in Seq(Piece)
    BY Heads, LinkHeads, Constants DEF Play, Inv, Types
  <1>2. PICK c \in Int : c = Correction /\ Frames + c \in Nat \ {0} /\ c <= Extra
    BY CorrectionIs, CorrectionBounds DEF Inv
  <1>3. PICK cur \in Piece, q \in Seq(Piece) : cur = Current /\ q = Queue
    BY <1>1
  <1>4. PICK age : age = Age(t, cur.start + cur.pos)
    OBVIOUS
  <1>5. PICK f : f = ReadFrames(cur, q, Frames + c)
    OBVIOUS
  <1>6. PICK buf : buf = Over(f, Resize(read_buf, Frames + c))
    OBVIOUS
  <1>7. /\ pcm' = IF Abs(age) >= HardAge THEN Silent(Frames)
                  ELSE IF c = 0 THEN Over(f, Resize(pcm, Frames))
                  ELSE Corrected(buf, Frames, c)
        /\ last' = [mode |-> IF Abs(age) >= HardAge THEN "off" ELSE "played",
                    correction |-> c, complete |-> Len(f) = Frames + c]
    BY <1>2, <1>3, <1>4, <1>5, <1>6 DEF Play
  <1>8. ~ (Abs(age) >= HardAge) /\ Len(f) = Frames + c /\ last'.correction = c
    BY <1>7
  <1>9. OneGap(f, Frames + c, cur.start + cur.pos)
    <2>1. PICK n \in Nat : n = Frames + c
      BY <1>2
    <2>2. CASE Frames + Extra <= ChunkLen + 1
      <3>1. cur.pos + n <= 2 * ChunkLen
        <4>1. PICK x \in Nat : x = cur.pos /\ x < ChunkLen
          BY <1>1, <1>3, PieceIs
        <4>2. Extra \in Int
          <5>1. Slowest - 1 + Frames \in Nat /\ Fastest \in Nat \ {0}
            BY <1>1, Constants DEF Slowest
          <5>. QED
            BY <5>1, Division DEF Extra
        <4>. QED
          BY <1>1, <1>2, <2>1, <2>2, <4>1, <4>2
      <3>. QED
        BY <1>1, <1>3, <1>5, <1>8, <2>1, <3>1, ReadOneGap
    <2>3. CASE Gap \subseteq {0}
      BY <1>1, <1>3, <1>5, <1>8, <2>1, <2>3, ReadNoGap
    <2>. QED
      BY <2>2, <2>3 DEF FewGaps
  <1>10. PICK k : Picks(Frames, c, k) /\ \A i \in 1 .. Frames : pcm'[i] = f[k[i]]
    <2>1. CASE c = 0
      <3>1. PICK k : k = [i \in 1 .. Frames |-> i]
        OBVIOUS
      <3>2. Picks(Frames, c, k)
        BY <1>1, <2>1, <3>1 DEF Picks
      <3>3. \A i \in 1 .. Frames : pcm'[i] = f[k[i]]
        BY <1>1, <1>7, <1>8, <2>1, <3>1 DEF Over, Resize
      <3>. QED
        BY <3>2, <3>3
    <2>2. CASE c # 0
      <3>1. pcm' = Corrected(buf, Frames, c)
        BY <1>7, <1>8, <2>2
      <3>2. PICK k : Picks(Frames, c, k) /\ Picked(Corrected(buf, Frames, c), buf, Frames, k)
        <4>1. Frames \in Nat \ {0} /\ c \in Int \ {0} /\ Frames + c \in Nat \ {0}
          BY <1>1, <1>2, <2>2
        <4>. QED
          BY <4>1, CorrectedPicks
      <3>3. \A i \in 1 .. Frames : k[i] \in 1 .. Frames + c
        BY <3>2 DEF Picks
      <3>4. \A j \in 1 .. Frames + c : buf[j] = f[j]
        BY <1>2, <1>6, <1>8 DEF Over, Resize
      <3>5. \A i \in 1 .. Frames : pcm'[i] = f[k[i]]
        BY <3>1, <3>2, <3>3, <3>4 DEF Picked
      <3>. QED
        BY <3>2, <3>5
    <2>. QED
      BY <2>1, <2>2
  <1>11. PICK base \in Nat : base = cur.start + cur.pos
    BY PieceIs
  <1>12. PICK p : p = pcm'
    OBVIOUS
  <1>13. SmoothTo(p, Frames, base + Frames + c - 1)
    <2>1. Picked(p, f, Frames, k)
      BY <1>10, <1>12 DEF Picked
    <2>2. Picks(Frames, c, k) /\ OneGap(f, Frames + c, base) /\ Frames \in Nat \ {0}
      BY <1>1, <1>9, <1>10, <1>11
    <2>. QED
      BY <1>2, <2>1, <2>2, PickedSmooth
  <1>14. base + Frames + c - 1 = Current.start + Current.pos + Frames + last'.correction - 1
    BY <1>3, <1>8, <1>11
  <1>. QED
    BY <1>12, <1>13, <1>14 DEF SmoothTo

\* With few gaps soft sync is smooth: what a callback plays is at most one left-out frame and
\* one gap apart, and it ends exactly the correction further on in the stream.
THEOREM SoftSyncSmooth ==
    ASSUME FewGaps
    PROVE  Spec => Smooth
  <1>. DEFINE Step ==
            Callback /\ last'.mode = "played" /\ last'.complete =>
                /\ \A i \in 1 .. Frames - 1 : \E gap \in Gap \cup {0} :
                        pcm'[i + 1] - pcm'[i] - gap \in 0 .. 2
                /\ \E gap \in Gap \cup {0} :
                        pcm'[Frames] = Current.start + Current.pos + Frames
                                         + last'.correction - 1 + gap
  <1>1. Init => LinkInv /\ PaceInv
    <2>1. Len(<<>>) = 0 /\ 0 < Slowest
      BY Constants DEF Slowest
    <2>. QED
      BY <2>1 DEF Init, LinkInv, Linked, PaceInv
  <1>2. Inv /\ LinkInv /\ PaceInv /\ [Next]_vars => [Step]_vars
    <2>1. SUFFICES ASSUME Inv, LinkInv, PaceInv, Next, Callback, last'.mode = "played",
                          last'.complete
                   PROVE  Step
      OBVIOUS
    <2>2. PICK e \in Elapsed : Play(now + e)
      BY <2>1
         DEF Next, Callback, AddChunk, Replace, SetBuffer, OpenDevice, SeeChange, Mismatch, Empty,
             TooEarly, Due, LateEmpty, LateDue, LateSkip, Align, Called
    <2>3. now + e \in Nat
      BY <2>1, Constants DEF Inv, Types
    <2>. QED
      BY <2>1, <2>2, <2>3, PlaySmooth
  <1>3. Spec => [][Step]_vars
    <2>. HIDE DEF Step
    <2>. QED
      BY <1>1, <1>2, InvInit, InvNext, LinkStep, PaceStep, PTL DEF Spec
  <1>. QED
    BY <1>3 DEF Smooth
=============================================================================
