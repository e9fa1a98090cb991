---------------------------- MODULE TimeSync_proofs ----------------------------
(* Whatever the intervals, the buffer's size, the delays of the network and the *)
(* clocks of the servers: the difference a client plays by is that of the       *)
(* server it hears, up to half of the longest delay, once more than half of the *)
(* measurements are of that server's clock (Recovers).                          *)
EXTENDS TimeSync, FiniteSetTheorems, SequenceTheorems, WellFoundedInduction, TLAPS

-----------------------------------------------------------------------------
(* Induction.  The library's induction theorems are about an operator; that    *)
(* every set of naturals has a least element is about a set, and does as well.  *)

Below == OpToRel(<, Nat)

LEMMA LeastOf ==
    ASSUME NEW T \in SUBSET Nat, T # {}
    PROVE  \E m \in T : \A k \in T : m <= k
  <1>1. IsWellFoundedOn(Below, Nat)
    BY NatLessThanWellFounded DEF Below
  <1>2. \A i, j : <<i, j>> \in Below <=> i \in Nat /\ j \in Nat /\ i < j
    BY DEF Below, OpToRel
  <1>3. PICK m \in T : \A k \in T : ~ (<<k, m>> \in Below)
    BY <1>1, WFMin
  <1>4. ASSUME NEW k \in T
        PROVE  m <= k
    <2>1. ~ (k < m) /\ k \in Nat /\ m \in Nat
      BY <1>2, <1>3
    <2>. QED
      BY <2>1
  <1>. QED
    BY <1>4

LEMMA Induct ==
    ASSUME NEW T \in SUBSET Nat, 0 \in T, \A n \in T : n + 1 \in T
    PROVE  T = Nat
  <1>1. SUFFICES ASSUME Nat \ T # {}
                 PROVE  FALSE
    OBVIOUS
  <1>2. PICK m \in Nat \ T : \A k \in Nat \ T : m <= k
    BY <1>1, LeastOf
  <1>3. m # 0 /\ m - 1 \in Nat /\ m - 1 \notin Nat \ T
    BY <1>2
  <1>. QED
    BY <1>2, <1>3

-----------------------------------------------------------------------------
(* The median.  Some value of a history is in the middle of it: the least one   *)
(* that more than half of the values do not exceed.                             *)

\* Of the values at some indices one is the greatest.
LEMMA GreatestAt ==
    ASSUME NEW L \in Nat, NEW D \in SUBSET (1 .. L), D # {}, NEW h, \A i \in D : h[i] \in Int
    PROVE  \E i \in D : \A j \in D : h[j] <= h[i]
  <1>. DEFINE At(n)   == D \cap (1 .. n)
              Good(n) == At(n) = {} \/ \E i \in At(n) : \A j \in At(n) : h[j] <= h[i]
              T       == {n \in Nat : Good(n)}
  <1>1. 0 \in T
    OBVIOUS
  <1>2. ASSUME NEW n \in T
        PROVE  n + 1 \in T
    <2>1. n \in Nat /\ Good(n)
      OBVIOUS
    <2>2. n + 1 \in Nat /\ At(n + 1) \subseteq At(n) \cup {n + 1} /\ At(n) \subseteq At(n + 1)
      BY <2>1
    <2>3. CASE n + 1 \notin D
      <3>1. At(n + 1) = At(n)
        BY <2>2, <2>3
      <3>. HIDE DEF At
      <3>. QED
        BY <2>1, <2>2, <3>1
    <2>4. CASE n + 1 \in D
      <3>1. At(n + 1) = At(n) \cup {n + 1} /\ \A j \in At(n + 1) : h[j] \in Int
        BY <2>1, <2>2, <2>4
      <3>. HIDE DEF At
      <3>2. CASE At(n) = {}
        BY <2>2, <3>1, <3>2
      <3>3. CASE \E i \in At(n) : \A j \in At(n) : h[j] <= h[i]
        <4>1. PICK i \in At(n) : \A j \in At(n) : h[j] <= h[i]
          BY <3>3
        <4>2. CASE h[n + 1] <= h[i]
          BY <2>2, <3>1, <4>1, <4>2
        <4>3. CASE h[i] <= h[n + 1]
          <5>1. \A j \in At(n + 1) : h[j] <= h[n + 1]
            BY <3>1, <4>1, <4>3
          <5>. QED
            BY <2>2, <3>1, <5>1
        <4>. QED
          BY <3>1, <4>2, <4>3
      <3>. QED
        BY <2>1, <3>2, <3>3
    <2>. QED
      BY <2>3, <2>4
  <1>3. T = Nat
    <2>. HIDE DEF T
    <2>1. T \in SUBSET Nat
      BY DEF T
    <2>. QED
      BY <1>1, <1>2, <2>1, Induct
  <1>4. Good(L)
    BY <1>3
  <1>5. At(L) = D
    OBVIOUS
  <1>. QED
    BY <1>4, <1>5

\* Of the values at some indices one is the least.
LEMMA LeastAt ==
    ASSUME NEW L \in Nat, NEW D \in SUBSET (1 .. L), D # {}, NEW h, \A i \in D : h[i] \in Int
    PROVE  \E i \in D : \A j \in D : h[i] <= h[j]
  <1>. DEFINE g == [i \in D |-> 0 - h[i]]
  <1>1. \A i \in D : g[i] \in Int /\ g[i] = 0 - h[i]
    OBVIOUS
  <1>. HIDE DEF g
  <1>2. PICK i \in D : \A j \in D : g[j] <= g[i]
    BY <1>1, GreatestAt
  <1>3. \A j \in D : h[i] <= h[j]
    BY <1>1, <1>2
  <1>. QED
    BY <1>3

\* The median of a history is one of its values; no more than half of the others are below
\* it, and more than half do not exceed it.
LEMMA MedianIs ==
    ASSUME NEW h \in Seq(Int), h # <<>>
    PROVE  /\ Median(h) \in {h[i] : i \in DOMAIN h} /\ Median(h) \in Int
           /\ Cardinality({i \in DOMAIN h : h[i] < Median(h)}) <= Len(h) \div 2
           /\ Cardinality({i \in DOMAIN h : h[i] <= Median(h)}) > Len(h) \div 2
  <1>1. PICK L \in Nat \ {0} : L = Len(h)
    BY EmptySeq
  <1>2. DOMAIN h = 1 .. L /\ \A i \in 1 .. L : h[i] \in Int
    BY <1>1
  <1>. DEFINE Upto(v) == {i \in 1 .. L : h[i] <= v}
              Under(v) == {i \in 1 .. L : h[i] < v}
              Half == L \div 2
              D == {i \in 1 .. L : Cardinality(Upto(h[i])) > Half}
  <1>3. /\ Half \in Nat /\ Half < L
        /\ Cardinality(1 .. L) = L
        /\ \A v : Upto(v) \in SUBSET (1 .. L) /\ Under(v) \in SUBSET (1 .. L)
        /\ \A I \in SUBSET (1 .. L) : Cardinality(I) \in Nat
    <2>1. IsFiniteSet(1 .. L) /\ Cardinality(1 .. L) = L
      BY FS_Interval
    <2>2. \A I \in SUBSET (1 .. L) : Cardinality(I) \in Nat
      BY <2>1, FS_Subset, FS_CardinalityType
    <2>. QED
      BY <2>1, <2>2
  <1>4. D # {}
    <2>1. 1 .. L # {}
      <3>1. 1 \in 1 .. L
        OBVIOUS
      <3>. QED
        BY <3>1
    <2>2. PICK i \in 1 .. L : \A j \in 1 .. L : h[j] <= h[i]
      BY <1>2, <2>1, GreatestAt
    <2>3. Upto(h[i]) = 1 .. L
      BY <2>2
    <2>. QED
      BY <1>3, <2>3
  <1>. HIDE DEF Half
  <1>5. PICK m \in D : \A j \in D : h[m] <= h[j]
    <2>1. D \in SUBSET (1 .. L)
      OBVIOUS
    <2>. HIDE DEF D
    <2>. QED
      BY <1>2, <1>4, <2>1, LeastAt
  <1>6. Cardinality(Upto(h[m])) > Half
    OBVIOUS
  <1>7. Cardinality(Under(h[m])) <= Half
    <2>1. SUFFICES ASSUME Cardinality(Under(h[m])) > Half
                   PROVE  FALSE
      BY <1>3
    <2>2. Under(h[m]) # {}
      <3>1. Cardinality({}) = 0
        BY FS_EmptySet
      <3>2. Cardinality(Under(h[m])) # 0
        BY <1>3, <2>1
      <3>. HIDE DEF Under
      <3>. QED
        BY <3>1, <3>2
    <2>3. PICK k \in Under(h[m]) : \A j \in Under(h[m]) : h[j] <= h[k]
      <3>1. Under(h[m]) \in SUBSET (1 .. L) /\ \A j \in Under(h[m]) : h[j] \in Int
        BY <1>2
      <3>. HIDE DEF Under
      <3>. QED
        BY <2>2, <3>1, GreatestAt
    <2>4. Upto(h[k]) = Under(h[m])
      BY <1>2, <2>3
    <2>5. k \in D /\ h[k] < h[m]
      BY <2>1, <2>4
    <2>. QED
      BY <1>2, <1>5, <2>5
  <1>. DEFINE S == {h[i] : i \in DOMAIN h}
              Middle(v) == /\ Cardinality({i \in DOMAIN h : h[i] < v}) <= Len(h) \div 2
                           /\ Cardinality({i \in DOMAIN h : h[i] <= v}) > Len(h) \div 2
  <1>8. h[m] \in S /\ Middle(h[m])
    BY <1>1, <1>2, <1>6, <1>7 DEF Half
  <1>9. Median(h) = CHOOSE v \in S : Middle(v)
    BY DEF Median
  <1>10. Median(h) \in S /\ Middle(Median(h))
    <2>. HIDE DEF S, Middle
    <2>. QED
      BY <1>8, <1>9
  <1>11. S \subseteq Int
    BY <1>2
  <1>. QED
    BY <1>10, <1>11

\* More than half of the values lie in an interval: so does the median.
LEMMA MedianWithin ==
    ASSUME NEW h \in Seq(Int), h # <<>>, NEW k \in Nat, 2 * k > Len(h), NEW lo \in Int, NEW hi \in Int,
           \A i \in 1 .. Len(h) : i > Len(h) - k => lo <= h[i] /\ h[i] <= hi
    PROVE  lo <= Median(h) /\ Median(h) <= hi
  <1>1. PICK L \in Nat \ {0} : L = Len(h)
    BY EmptySeq
  <1>2. DOMAIN h = 1 .. L /\ \A i \in 1 .. L : h[i] \in Int
    BY <1>1
  <1>3. PICK m \in Int : m = Median(h)
    BY MedianIs
  <1>. DEFINE Upto  == {i \in 1 .. L : h[i] <= m}
              Under == {i \in 1 .. L : h[i] < m}
  <1>4. Cardinality(Under) <= L \div 2 /\ Cardinality(Upto) > L \div 2
    BY <1>1, <1>2, <1>3, MedianIs
  <1>5. PICK n \in 0 .. L : n = IF k > L THEN 0 ELSE L - k
    BY <1>1
  <1>6. PICK half \in Nat : half = L \div 2
    BY <1>1
  <1>7. n <= half /\ L - n > half
    BY <1>1, <1>5, <1>6
  <1>8. \A i \in 1 .. L : i > n => lo <= h[i] /\ h[i] <= hi
    BY <1>1, <1>5
  <1>9. /\ IsFiniteSet(1 .. n) /\ Cardinality(1 .. n) = n
        /\ IsFiniteSet(n + 1 .. L) /\ Cardinality(n + 1 .. L) = L - n
        /\ IsFiniteSet(1 .. L)
    <2>1. n \in Int /\ n + 1 \in Int /\ L \in Int /\ n <= L
      BY <1>1, <1>5
    <2>2. IsFiniteSet(1 .. n) /\ Cardinality(1 .. n) = IF 1 > n THEN 0 ELSE n - 1 + 1
      <3>1. 1 \in Int
        OBVIOUS
      <3>. QED
        BY <2>1, <3>1, FS_Interval, Zenon
    <2>3. IsFiniteSet(n + 1 .. L) /\ Cardinality(n + 1 .. L) = IF n + 1 > L THEN 0 ELSE L - (n + 1) + 1
      BY <2>1, FS_Interval
    <2>4. IsFiniteSet(1 .. L)
      BY <2>1, FS_Interval
    <2>5. n >= 0 /\ (IF 1 > n THEN 0 ELSE n - 1 + 1) = n
          /\ (IF n + 1 > L THEN 0 ELSE L - (n + 1) + 1) = L - n
      BY <1>5, <2>1
    <2>. QED
      BY <2>2, <2>3, <2>4, <2>5
  <1>10. lo <= m
    <2>1. SUFFICES ASSUME m < lo
                   PROVE  FALSE
      BY <1>3
    <2>2. Upto \subseteq 1 .. n
      BY <1>1, <1>2, <1>3, <1>5, <1>8, <2>1
    <2>. HIDE DEF Upto
    <2>3. Cardinality(Upto) \in Nat /\ Cardinality(Upto) <= n
      BY <1>9, <2>2, FS_Subset, FS_CardinalityType
    <2>. QED
      BY <1>4, <1>6, <1>7, <2>3
  <1>11. m <= hi
    <2>1. SUFFICES ASSUME hi < m
                   PROVE  FALSE
      BY <1>3
    <2>2. n + 1 .. L \subseteq Under /\ Under \subseteq 1 .. L
      <3>1. ASSUME NEW i \in n + 1 .. L
            PROVE  i \in 1 .. L /\ h[i] < m
        <4>1. i \in 1 .. L /\ i > n
          BY <1>1, <1>5
        <4>2. h[i] \in Int /\ h[i] <= hi
          BY <1>2, <1>8, <4>1
        <4>. QED
          BY <2>1, <4>1, <4>2
      <3>. QED
        BY <3>1
    <2>. HIDE DEF Under
    <2>3. IsFiniteSet(Under) /\ Cardinality(Under) \in Nat
      BY <1>9, <2>2, FS_Subset, FS_CardinalityType
    <2>4. L - n <= Cardinality(Under)
      BY <1>9, <2>2, <2>3, FS_Subset
    <2>. QED
      BY <1>4, <1>5, <1>6, <1>7, <2>3, <2>4
  <1>. QED
    BY <1>3, <1>10, <1>11

-----------------------------------------------------------------------------
(* Times.                                                                      *)

LEMMA Division ==
    ASSUME NEW a \in Int, NEW n \in Nat \ {0}
    PROVE  /\ a \div n \in Int /\ (a \div n) * n \in Int
           /\ a = (a \div n) * n + (a % n) /\ a % n \in 0 .. n - 1
  OBVIOUS

LEMMA Distributes ==
    ASSUME NEW a \in Int, NEW b \in Int, NEW c \in Int, NEW n \in Int
    PROVE  (a - b + c) * n = a * n - b * n + c * n
  OBVIOUS

Timeval == [sec : Int, usec : Int]

\* A time is read back as it was written.
LEMMA UsecBack ==
    ASSUME NEW a \in Int
    PROVE  FromUsec(a) \in Timeval /\ ToUsec(FromUsec(a)) = a
  <1>1. Second \in Nat \ {0}
    BY WireAssumption
  <1>2. PICK q \in Int, r \in Int : q = a \div Second /\ r = a % Second /\ a = q * Second + r
    BY <1>1, Division
  <1>3. FromUsec(a) = [sec |-> q, usec |-> r]
    BY <1>2 DEF FromUsec
  <1>. QED
    BY <1>2, <1>3 DEF ToUsec, Timeval

\* sub gives the difference of two times, whichever is the later.
LEMMA MinusIs ==
    ASSUME NEW a \in Int, NEW b \in Int
    PROVE  /\ Minus(FromUsec(a), FromUsec(b)) \in Timeval
           /\ ToUsec(Minus(FromUsec(a), FromUsec(b))) = a - b
  <1>1. Second \in Nat \ {0}
    BY WireAssumption
  <1>2. PICK q \in Int, r \in Int : q = a \div Second /\ r = a % Second /\ a = q * Second + r
    BY <1>1, Division
  <1>3. PICK p \in Int, s \in Int : p = b \div Second /\ s = b % Second /\ b = p * Second + s
    BY <1>1, Division
  <1>4. r - s \in Int
    OBVIOUS
  <1>5. PICK d \in Int, u \in Int : /\ d = (r - s) \div Second /\ u = (r - s) % Second
                                    /\ r - s = d * Second + u
    BY <1>1, <1>4, Division
  <1>6. Minus(FromUsec(a), FromUsec(b)) = [sec |-> q - p + d, usec |-> u]
    BY <1>2, <1>3, <1>5 DEF FromUsec, Minus
  <1>7. (q - p + d) * Second = q * Second - p * Second + d * Second
    BY <1>1, Distributes
  <1>8. PICK x \in Int, y \in Int, z \in Int : x = q * Second /\ y = p * Second /\ z = d * Second
    BY <1>1
  <1>9. a = x + r /\ b = y + s /\ r - s = z + u
    BY <1>2, <1>3, <1>5, <1>8
  <1>10. x - y + z + u = a - b
    BY <1>9
  <1>. QED
    BY <1>6, <1>7, <1>8, <1>10 DEF ToUsec, Timeval

-----------------------------------------------------------------------------
(* The invariant: what is on its way carries times of the clock it was read     *)
(* from, the provider's difference is the median of its buffer, and what was    *)
(* measured of this clock since it was first heard is the end of the buffer, or *)
(* all of it after a pause.                                                     *)

Bounds(d) == (2 * offset) - down <= d /\ d <= (2 * offset) + up

Asked == {r \in [sent : Timeval] : \E t \in Nat : t <= now /\ r.sent = FromUsec(t)}
Answered == {r \in [latency : Timeval, sent : Timeval] :
                /\ ToUsec(r.latency) >= offset
                /\ \E t \in Nat : t <= now /\ r.sent = FromUsec(t + offset)}

MessagesOK ==
    /\ requests \in Seq(Asked) /\ replies \in Seq(Answered)
    /\ ~connected => requests = <<>> /\ replies = <<>>

NumbersOK ==
    /\ now \in Nat /\ offset \in Nat /\ last_sync \in Nat
    /\ fresh \in Nat /\ up \in Nat /\ down \in Nat

ProviderOK == diff_buffer \in Seq(Int) /\ diff = Median(diff_buffer)

Fresh(i) == (fresh > 0 /\ paused) \/ i > Len(diff_buffer) - fresh
FreshOK ==
    /\ fresh > 0 => diff_buffer # <<>>
    /\ \A i \in 1 .. Len(diff_buffer) : Fresh(i) => Bounds(diff_buffer[i])

TimeInv == NumbersOK /\ MessagesOK /\ ProviderOK /\ FreshOK

-----------------------------------------------------------------------------
(* The provider.                                                               *)

\* What the buffer holds of a history is the end of it.
LEMMA NewestIs ==
    ASSUME NEW h \in Seq(Int), h # <<>>, NEW n \in Nat \ {0}
    PROVE  /\ Newest(h, n) \in Seq(Int) /\ Len(Newest(h, n)) \in 1 .. Len(h)
           /\ \A i \in 1 .. Len(Newest(h, n)) :
                 Newest(h, n)[i] = h[i + (Len(h) - Len(Newest(h, n)))]
  <1>1. Len(h) \in Nat \ {0} /\ \A i \in 1 .. Len(h) : h[i] \in Int
    BY EmptySeq, ElementOfSeq
  <1>2. CASE Len(h) <= n
    <2>1. Newest(h, n) = h
      BY <1>2 DEF Newest
    <2>2. \A i \in 1 .. Len(h) : i + (Len(h) - Len(h)) = i
      BY <1>1
    <2>. QED
      BY <1>1, <2>1, <2>2
  <1>3. CASE Len(h) > n
    <2>. DEFINE s == SubSeq(h, Len(h) - n + 1, Len(h))
    <2>1. /\ Len(h) - n + 1 \in 1 .. Len(h) /\ Len(h) \in 1 .. Len(h)
          /\ Len(h) - (Len(h) - n + 1) + 1 = n /\ n \in 1 .. Len(h)
      BY <1>1, <1>3
    <2>2. \A i \in Len(h) - n + 1 .. Len(h) : h[i] \in Int
      BY <1>1, <2>1
    <2>3. /\ s \in Seq(Int) /\ Len(s) = n
          /\ \A i \in 1 .. n : s[i] = h[(Len(h) - n + 1) + i - 1]
      BY <1>1, <2>1, <2>2, SubSeqProperties
    <2>4. \A i \in 1 .. n : (Len(h) - n + 1) + i - 1 = i + (Len(h) - n)
      BY <1>1
    <2>5. Newest(h, n) = s
      BY <1>1, <1>3 DEF Newest
    <2>. HIDE DEF s
    <2>. QED
      BY <2>1, <2>3, <2>4, <2>5
  <1>. QED
    BY <1>1, <1>2, <1>3

\* set_diff: the buffer ends with the new measurement, and before it is what it held, or
\* nothing after a pause.
LEMMA SetDiffIs ==
    ASSUME NumbersOK, ProviderOK, NEW d \in Int, SetDiff(d)
    PROVE  /\ diff_buffer' \in Seq(Int) /\ diff' = Median(diff_buffer') /\ last_sync' = now
           /\ Len(diff_buffer') \in Nat \ {0} /\ diff_buffer'[Len(diff_buffer')] = d
           /\ \A i \in 1 .. Len(diff_buffer') - 1 :
                 /\ ~ now - last_sync > Gap
                 /\ \E j \in 1 .. Len(diff_buffer) :
                       /\ diff_buffer'[i] = diff_buffer[j]
                       /\ Len(diff_buffer) - j = Len(diff_buffer') - 1 - i
  <1>1. PICK old :
            old = IF now - last_sync > Gap /\ diff_buffer # <<>> THEN <<>> ELSE diff_buffer
    OBVIOUS
  <1>2. /\ old \in Seq(Int)
        /\ old # <<>> => old = diff_buffer /\ ~ now - last_sync > Gap
    BY <1>1 DEF ProviderOK
  <1>3. PICK h : h = Append(old, d)
    OBVIOUS
  <1>4. /\ h \in Seq(Int) /\ Len(old) \in Nat /\ Len(h) = Len(old) + 1 /\ h[Len(old) + 1] = d
        /\ \A i \in 1 .. Len(old) : h[i] = old[i]
    BY <1>2, <1>3
  <1>5. h # <<>> /\ Size \in Nat \ {0}
    BY <1>4, EmptySeq, TimeAssumption
  <1>6. PICK n : n = Newest(h, Size)
    OBVIOUS
  <1>7. /\ n \in Seq(Int) /\ Len(n) \in 1 .. Len(h)
        /\ \A i \in 1 .. Len(n) : n[i] = h[i + (Len(h) - Len(n))]
    BY <1>4, <1>5, <1>6, NewestIs
  <1>8. diff_buffer' = n /\ diff' = Median(n) /\ last_sync' = now
    BY <1>1, <1>3, <1>6 DEF SetDiff
  <1>9. Len(n) \in Nat \ {0} /\ n[Len(n)] = d
    <2>1. Len(n) \in 1 .. Len(n) /\ Len(n) + (Len(h) - Len(n)) = Len(old) + 1
      BY <1>4, <1>7
    <2>2. n[Len(n)] = h[Len(n) + (Len(h) - Len(n))]
      BY <1>7, <2>1
    <2>3. n[Len(n)] = d
      BY <1>4, <2>1, <2>2
    <2>4. Len(n) \in Nat \ {0}
      BY <2>1
    <2>. QED
      BY <2>3, <2>4
  <1>10. ASSUME NEW i \in 1 .. Len(n) - 1
         PROVE  /\ ~ now - last_sync > Gap
                /\ \E j \in 1 .. Len(diff_buffer) :
                       n[i] = diff_buffer[j] /\ Len(diff_buffer) - j = Len(n) - 1 - i
    <2>1. PICK o \in Nat, k \in Nat : o = Len(old) /\ k = Len(n) /\ Len(h) = o + 1 /\ k <= o + 1
      BY <1>4, <1>7
    <2>2. PICK j \in 1 .. Len(old) : j = i + (Len(h) - Len(n)) /\ Len(old) - j = Len(n) - 1 - i
      <3>1. i \in Nat \ {0} /\ i <= k - 1
        BY <2>1
      <3>2. i + ((o + 1) - k) \in 1 .. o /\ o - (i + ((o + 1) - k)) = k - 1 - i
        BY <2>1, <3>1
      <3>. QED
        BY <2>1, <3>2
    <2>3. n[i] = h[j] /\ h[j] = old[j]
      <3>1. i \in 1 .. Len(n)
        BY <2>1
      <3>. QED
        BY <1>4, <1>7, <2>2, <3>1
    <2>4. old # <<>>
      <3>1. Len(old) # 0
        BY <2>1, <2>2
      <3>. QED
        BY <3>1, EmptySeq
    <2>. QED
      BY <1>2, <2>2, <2>3, <2>4
  <1>. QED
    BY <1>7, <1>8, <1>9, <1>10

-----------------------------------------------------------------------------
(* The messages.                                                               *)

LEMMA AppendOf ==
    ASSUME NEW S, NEW q \in Seq(S), NEW e \in S
    PROVE  Append(q, e) \in Seq(S)
  OBVIOUS

LEMMA TailOf ==
    ASSUME NEW S, NEW q \in Seq(S), q # <<>>
    PROVE  Head(q) \in S /\ Tail(q) \in Seq(S)
  OBVIOUS

LEMMA SeqGrows ==
    ASSUME NEW S, NEW T, S \subseteq T, NEW q \in Seq(S)
    PROVE  q \in Seq(T)
  OBVIOUS

\* What is on its way stays true as the clock goes on.
LEMMA TickMessages ==
    ASSUME NumbersOK, MessagesOK, Tick
    PROVE  MessagesOK'
  <1>1. now' = now + 1 /\ now \in Nat /\ UNCHANGED <<offset, connected, requests, replies>>
    BY DEF Tick, NumbersOK
  <1>2. Asked \subseteq Asked'
    <2>1. ASSUME NEW r \in Asked
          PROVE  r \in Asked'
      <3>1. PICK t \in Nat : t <= now /\ r.sent = FromUsec(t)
        BY DEF Asked
      <3>2. t <= now'
        BY <1>1, <3>1
      <3>. QED
        BY <3>1, <3>2 DEF Asked, FromUsec
    <2>. QED
      BY <2>1
  <1>3. Answered \subseteq Answered'
    <2>1. ASSUME NEW r \in Answered
          PROVE  r \in Answered'
      <3>1. PICK t \in Nat : t <= now /\ r.sent = FromUsec(t + offset)
        BY DEF Answered
      <3>2. t <= now' /\ offset' = offset
        BY <1>1, <3>1
      <3>. QED
        BY <3>1, <3>2 DEF Answered, FromUsec, ToUsec
    <2>. QED
      BY <2>1
  <1>. HIDE DEF Asked, Answered
  <1>. QED
    BY <1>1, <1>2, <1>3, SeqGrows DEF MessagesOK

\* The request sent now.
LEMMA NowAsked ==
    ASSUME NumbersOK
    PROVE  [sent |-> FromUsec(now)] \in Asked
  <1>1. FromUsec(now) \in Timeval /\ now \in Nat /\ now <= now
    BY UsecBack DEF NumbersOK
  <1>. QED
    BY <1>1 DEF Asked

LEMMA SendMessages ==
    ASSUME NumbersOK, MessagesOK, UNCHANGED <<now, offset, connected>>, connected, SendTime
    PROVE  MessagesOK'
  <1>1. Asked' = Asked /\ Answered' = Answered
    BY DEF Asked, Answered, FromUsec, ToUsec
  <1>2. requests' = Append(requests, [sent |-> FromUsec(now)]) /\ replies' = replies
    BY DEF SendTime
  <1>. QED
    BY <1>1, <1>2, NowAsked, AppendOf DEF MessagesOK

LEMMA ConnectMessages ==
    ASSUME NumbersOK, MessagesOK, Connect
    PROVE  MessagesOK'
  <1>1. /\ Asked' = Asked /\ Answered' = Answered /\ connected'
        /\ requests' = <<[sent |-> FromUsec(now)]>> /\ replies' = <<>>
    BY DEF Connect, Asked, Answered, FromUsec, ToUsec
  <1>2. <<[sent |-> FromUsec(now)]>> \in Seq(Asked)
    BY NowAsked
  <1>. QED
    BY <1>1, <1>2 DEF MessagesOK

\* The latency of an answer holds the offset, and the time on its way is no less than 0.
LEMMA AnswerMessages ==
    ASSUME NumbersOK, MessagesOK, AnswerTime
    PROVE  MessagesOK'
  <1>1. /\ Asked' = Asked /\ Answered' = Answered /\ UNCHANGED connected /\ connected
        /\ requests # <<>> /\ requests' = Tail(requests)
        /\ now \in Nat /\ offset \in Nat
    BY DEF AnswerTime, Asked, Answered, FromUsec, ToUsec, NumbersOK
  <1>. DEFINE received == FromUsec(now + offset)
              reply == [latency |-> Minus(received, Head(requests).sent), sent |-> received]
  <1>2. replies' = Append(replies, reply)
    BY DEF AnswerTime
  <1>3. Head(requests) \in Asked /\ Tail(requests) \in Seq(Asked)
    BY <1>1, TailOf DEF MessagesOK
  <1>4. PICK t \in Nat : t <= now /\ Head(requests).sent = FromUsec(t)
    BY <1>3 DEF Asked
  <1>5. now + offset \in Int /\ t \in Int /\ (now + offset) - t >= offset
    BY <1>1, <1>4
  <1>6. PICK l \in Timeval : l = Minus(received, FromUsec(t)) /\ ToUsec(l) = (now + offset) - t
    BY <1>5, MinusIs
  <1>7. received \in Timeval
    BY <1>5, UsecBack
  <1>8. reply \in Answered
    <2>1. reply = [latency |-> l, sent |-> received]
      BY <1>4, <1>6
    <2>. HIDE DEF reply
    <2>2. reply.latency = l /\ reply.sent = FromUsec(now + offset)
      BY <2>1
    <2>3. reply \in [latency : Timeval, sent : Timeval]
      BY <1>6, <1>7, <2>1
    <2>4. ToUsec(reply.latency) >= offset
      BY <1>5, <1>6, <2>2
    <2>5. now \in Nat /\ now <= now
      BY <1>1
    <2>. QED
      BY <2>2, <2>3, <2>4, <2>5 DEF Answered
  <1>. HIDE DEF reply
  <1>. QED
    BY <1>1, <1>2, <1>3, <1>8, AppendOf DEF MessagesOK

-----------------------------------------------------------------------------
(* A reply.                                                                    *)

\* The measurement lies within the delays, which only grow.
LEMMA MeasuredWithin ==
    ASSUME NumbersOK, MessagesOK, TakeReply
    PROVE  /\ up' \in Nat /\ down' \in Nat /\ up <= up' /\ down <= down'
           /\ \E d \in Int : SetDiff(d) /\ (2 * offset) - down' <= d /\ d <= (2 * offset) + up'
  <1>1. PICK r \in Answered : r = Head(replies)
    BY TailOf DEF TakeReply, MessagesOK
  <1>2. PICK t \in Nat : t <= now /\ r.sent = FromUsec(t + offset)
    BY DEF Answered
  <1>3. now \in Nat /\ offset \in Nat /\ up \in Nat /\ down \in Nat
    BY DEF NumbersOK
  <1>4. PICK l \in Int : l = ToUsec(r.latency) /\ l >= offset
    <2>1. r.latency \in Timeval /\ ToUsec(r.latency) >= offset
      BY DEF Answered
    <2>2. ToUsec(r.latency) \in Int
      <3>1. PICK s \in Int, u \in Int : s = r.latency.sec /\ u = r.latency.usec
        BY <2>1 DEF Timeval
      <3>2. Second \in Nat
        BY WireAssumption
      <3>. QED
        BY <3>1, <3>2 DEF ToUsec
    <2>. QED
      BY <2>1, <2>2
  <1>5. PICK b \in Int : /\ b = ToUsec(Minus(FromUsec(now), r.sent))
                         /\ b = now - (t + offset)
    <2>1. now \in Int /\ t + offset \in Int /\ now - (t + offset) \in Int
      BY <1>3
    <2>. QED
      BY <1>2, <2>1, MinusIs
  <1>6. SetDiff(l - b) /\ up' = Larger(up, l - offset) /\ down' = Larger(down, b + offset)
    BY <1>1, <1>4, <1>5 DEF TakeReply
  <1>7. l - offset \in Int /\ b + offset = now - t /\ b + offset \in Int /\ l - b \in Int
    BY <1>3, <1>4, <1>5
  <1>8. /\ up' \in Nat /\ up <= up' /\ l - offset <= up'
        /\ down' \in Nat /\ down <= down' /\ b + offset <= down'
    BY <1>3, <1>6, <1>7 DEF Larger
  <1>9. b + offset >= 0
    BY <1>2, <1>3, <1>7
  <1>10. (2 * offset) - down' <= l - b /\ l - b <= (2 * offset) + up'
    BY <1>3, <1>4, <1>8, <1>9
  <1>. QED
    BY <1>6, <1>7, <1>8, <1>10

LEMMA ReplyKeeps ==
    ASSUME TimeInv, TakeReply
    PROVE  TimeInv'
  <1>1. /\ NumbersOK /\ MessagesOK /\ ProviderOK /\ FreshOK
    BY DEF TimeInv
  <1>2. PICK d \in Int : SetDiff(d) /\ (2 * offset) - down' <= d /\ d <= (2 * offset) + up'
    BY <1>1, MeasuredWithin
  <1>3. up' \in Nat /\ down' \in Nat /\ up <= up' /\ down <= down'
    BY <1>1, MeasuredWithin
  <1>4. /\ connected /\ replies # <<>> /\ replies' = Tail(replies)
        /\ fresh' = IF fresh < MaxCount THEN fresh + 1 ELSE fresh
        /\ paused' = IF fresh = 0 THEN now - last_sync > Gap ELSE paused
        /\ UNCHANGED <<now, offset, connected, requests>>
    BY DEF TakeReply
  <1>5. MessagesOK'
    <2>1. Asked' = Asked /\ Answered' = Answered
      BY <1>4 DEF Asked, Answered, FromUsec, ToUsec
    <2>2. Tail(replies) \in Seq(Answered)
      BY <1>1, <1>4, TailOf DEF MessagesOK
    <2>. QED
      BY <1>1, <1>4, <2>1, <2>2 DEF MessagesOK
  <1>6. PICK h \in Seq(Int) : h = diff_buffer' /\ Len(h) \in Nat \ {0} /\ h[Len(h)] = d
    BY <1>1, <1>2, SetDiffIs
  <1>7. diff' = Median(diff_buffer') /\ last_sync' = now
    BY <1>1, <1>2, SetDiffIs
  <1>8. \A i \in 1 .. Len(h) - 1 :
            /\ ~ now - last_sync > Gap
            /\ \E j \in 1 .. Len(diff_buffer) :
                  h[i] = diff_buffer[j] /\ Len(diff_buffer) - j = Len(h) - 1 - i
    BY <1>1, <1>2, <1>6, SetDiffIs
  <1>9. /\ now \in Nat /\ offset \in Nat /\ last_sync \in Nat /\ up \in Nat /\ down \in Nat
        /\ fresh \in Nat /\ MaxCount \in Nat \ {0} /\ fresh' \in Nat /\ fresh' <= fresh + 1
    BY <1>1, <1>4, TimeAssumption DEF NumbersOK
  <1>10. NumbersOK'
    BY <1>3, <1>4, <1>7, <1>9 DEF NumbersOK
  <1>11. ProviderOK'
    BY <1>6, <1>7 DEF ProviderOK
  <1>12. ASSUME NEW i \in 1 .. Len(h), (fresh' > 0 /\ paused') \/ i > Len(h) - fresh'
         PROVE  (2 * offset) - down' <= h[i] /\ h[i] <= (2 * offset) + up'
    <2>1. CASE i = Len(h)
      BY <1>2, <1>6, <2>1
    <2>2. CASE i # Len(h)
      <3>1. i \in 1 .. Len(h) - 1
        BY <1>6, <2>2
      <3>2. PICK j \in 1 .. Len(diff_buffer) :
                h[i] = diff_buffer[j] /\ Len(diff_buffer) - j = Len(h) - 1 - i
        BY <1>8, <3>1
      <3>3. ~ now - last_sync > Gap
        BY <1>8, <3>1
      <3>4. (fresh > 0 /\ paused) \/ j > Len(diff_buffer) - fresh
        <4>1. CASE fresh' > 0 /\ paused'
          <5>1. fresh # 0
            <6>1. fresh = 0 => paused' = (now - last_sync > Gap)
              BY <1>4
            <6>. QED
              BY <3>3, <4>1, <6>1
          <5>2. paused' = paused
            BY <1>4, <5>1
          <5>3. paused
            BY <4>1, <5>2, Zenon
          <5>. QED
            BY <1>9, <5>1, <5>3
        <4>2. CASE i > Len(h) - fresh'
          <5>1. PICK a \in Nat, b \in Nat : a = Len(diff_buffer) /\ b = Len(h)
            BY <1>1, <1>6 DEF ProviderOK
          <5>2. i > b - fresh' /\ a - j = b - 1 - i /\ j \in Nat /\ i \in Nat
            BY <3>2, <4>2, <5>1
          <5>3. j > a - fresh
            BY <1>9, <5>1, <5>2
          <5>. QED
            BY <5>1, <5>3
        <4>. QED
          BY <1>12, <4>1, <4>2
      <3>5. Bounds(diff_buffer[j])
        BY <1>1, <3>4 DEF FreshOK, Fresh
      <3>6. PICK x \in Int : x = h[i]
        BY <1>6, <3>1
      <3>7. (2 * offset) - down <= x /\ x <= (2 * offset) + up
        BY <3>2, <3>5, <3>6 DEF Bounds
      <3>8. (2 * offset) - down' <= x /\ x <= (2 * offset) + up'
        <4>1. PICK u \in Nat, v \in Nat, c \in Nat, e \in Nat, o \in Nat :
                  u = up /\ v = up' /\ c = down /\ e = down' /\ o = 2 * offset
          BY <1>3, <1>9
        <4>2. u <= v /\ c <= e /\ o - c <= x /\ x <= o + u
          BY <1>3, <3>7, <4>1
        <4>3. o - e <= x /\ x <= o + v
          BY <4>2
        <4>. QED
          BY <4>1, <4>3
      <3>. QED
        BY <3>6, <3>8
    <2>. QED
      BY <2>1, <2>2
  <1>13. FreshOK'
    <2>1. h # <<>>
      BY <1>6, EmptySeq
    <2>2. offset' = offset
      BY <1>4
    <2>. QED
      BY <1>6, <1>12, <2>1, <2>2 DEF FreshOK, Fresh, Bounds
  <1>. QED
    BY <1>5, <1>10, <1>11, <1>13 DEF TimeInv

-----------------------------------------------------------------------------
(* The invariant holds, and with it Recovers.                                  *)

LEMMA TimeInvInit == Init => TimeInv
  <1>. SUFFICES ASSUME Init PROVE TimeInv
    OBVIOUS
  <1>1. offset \in Nat /\ now = 0 /\ last_sync = 0 /\ fresh = 0 /\ up = 0 /\ down = 0
    BY TimeAssumption DEF Init
  <1>2. requests = <<>> /\ replies = <<>> /\ diff_buffer = <<>> /\ diff = 0
    BY DEF Init
  <1>3. Median(<<>>) = 0 /\ Len(<<>>) = 0
    BY DEF Median
  <1>. QED
    BY <1>1, <1>2, <1>3 DEF TimeInv, NumbersOK, MessagesOK, ProviderOK, FreshOK

\* A step that leaves the measurements and the clock of the server alone.
LEMMA MeasurementsKept ==
    ASSUME ProviderOK, FreshOK, UNCHANGED <<offset, providerVars, historyVars>>
    PROVE  ProviderOK' /\ FreshOK'
  <1>1. UNCHANGED <<offset, diff_buffer, diff, fresh, up, down, paused>>
    BY DEF providerVars, historyVars
  <1>. QED
    BY <1>1 DEF ProviderOK, FreshOK, Fresh, Bounds

LEMMA TimeInvNext == TimeInv /\ [Next]_vars => TimeInv'
  <1>. SUFFICES ASSUME TimeInv, [Next]_vars PROVE TimeInv'
    OBVIOUS
  <1>0. NumbersOK /\ MessagesOK /\ ProviderOK /\ FreshOK
    BY DEF TimeInv
  <1>1. CASE Connect
    <2>1. UNCHANGED <<now, offset, providerVars, historyVars>>
      BY <1>1 DEF Connect
    <2>2. NumbersOK'
      BY <1>0, <2>1 DEF NumbersOK, providerVars, historyVars
    <2>. QED
      BY <1>0, <1>1, <2>1, <2>2, ConnectMessages, MeasurementsKept DEF TimeInv
  <1>2. CASE QuickSync
    <2>1. SendTime /\ connected /\ UNCHANGED <<now, offset, connected, providerVars, historyVars>>
      BY <1>2 DEF QuickSync
    <2>2. NumbersOK'
      BY <1>0, <2>1 DEF NumbersOK, providerVars, historyVars
    <2>. QED
      BY <1>0, <2>1, <2>2, SendMessages, MeasurementsKept DEF TimeInv
  <1>3. CASE Sync
    <2>1. SendTime /\ connected /\ UNCHANGED <<now, offset, connected, providerVars, historyVars>>
      BY <1>3 DEF Sync
    <2>2. NumbersOK'
      BY <1>0, <2>1 DEF NumbersOK, providerVars, historyVars
    <2>. QED
      BY <1>0, <2>1, <2>2, SendMessages, MeasurementsKept DEF TimeInv
  <1>4. CASE TakeReply
    BY <1>4, ReplyKeeps
  <1>5. CASE AnswerTime
    <2>1. UNCHANGED <<now, offset, providerVars, historyVars>>
      BY <1>5 DEF AnswerTime
    <2>2. NumbersOK'
      BY <1>0, <2>1 DEF NumbersOK, providerVars, historyVars
    <2>. QED
      BY <1>0, <1>5, <2>1, <2>2, AnswerMessages, MeasurementsKept DEF TimeInv
  <1>6. CASE Break
    <2>1. UNCHANGED <<now, offset, providerVars, historyVars>> /\ requests' = <<>> /\ replies' = <<>>
      BY <1>6 DEF Break
    <2>2. NumbersOK'
      BY <1>0, <2>1 DEF NumbersOK, providerVars, historyVars
    <2>3. MessagesOK'
      BY <2>1 DEF MessagesOK
    <2>. QED
      BY <1>0, <2>1, <2>2, <2>3, MeasurementsKept DEF TimeInv
  <1>7. ASSUME NEW o \in Offset, Restart(o) PROVE TimeInv'
    <2>1. /\ ~connected /\ offset' = o /\ o \in Nat
          /\ fresh' = 0 /\ up' = 0 /\ down' = 0 /\ paused' = FALSE
          /\ UNCHANGED <<now, connected, requests, replies, diff_buffer, diff, last_sync>>
      BY <1>7, TimeAssumption DEF Restart, providerVars
    <2>2. NumbersOK'
      BY <1>0, <2>1 DEF NumbersOK
    <2>3. MessagesOK'
      <3>1. requests' = <<>> /\ replies' = <<>>
        BY <1>0, <2>1 DEF MessagesOK
      <3>. QED
        BY <3>1 DEF MessagesOK
    <2>4. ProviderOK'
      BY <1>0, <2>1 DEF ProviderOK
    <2>5. FreshOK'
      <3>1. Len(diff_buffer) \in Nat
        BY <1>0 DEF ProviderOK
      <3>. QED
        BY <2>1, <3>1 DEF FreshOK, Fresh
    <2>. QED
      BY <2>2, <2>3, <2>4, <2>5 DEF TimeInv
  <1>8. CASE Tick
    <2>1. UNCHANGED <<offset, providerVars, historyVars>> /\ now' = now + 1
      BY <1>8 DEF Tick
    <2>2. NumbersOK'
      BY <1>0, <2>1 DEF NumbersOK, providerVars, historyVars
    <2>. QED
      BY <1>0, <1>8, <2>1, <2>2, TickMessages, MeasurementsKept DEF TimeInv
  <1>9. CASE UNCHANGED vars
    <2>1. UNCHANGED <<now, offset, connected, requests, replies, providerVars, historyVars>>
      BY <1>9 DEF vars
    <2>2. NumbersOK'
      BY <1>0, <2>1 DEF NumbersOK, providerVars, historyVars
    <2>3. MessagesOK'
      BY <1>0, <2>1 DEF MessagesOK, Asked, Answered, FromUsec, ToUsec
    <2>. QED
      BY <1>0, <2>1, <2>2, <2>3, MeasurementsKept DEF TimeInv
  <1>. QED
    BY <1>1, <1>2, <1>3, <1>4, <1>5, <1>6, <1>7, <1>8, <1>9 DEF Next

\* All of the buffer, or more than half of it, was measured of this clock: its median is
\* within the delays.
LEMMA RecoversInv == TimeInv => Recovers
  <1>. SUFFICES ASSUME TimeInv, (fresh > 0 /\ paused) \/ 2 * fresh > Len(diff_buffer)
                PROVE  diff \in (2 * offset) - down .. (2 * offset) + up
    BY DEF Recovers
  <1>1. /\ offset \in Nat /\ fresh \in Nat /\ up \in Nat /\ down \in Nat
        /\ diff_buffer \in Seq(Int) /\ diff = Median(diff_buffer)
        /\ fresh > 0 => diff_buffer # <<>>
        /\ \A i \in 1 .. Len(diff_buffer) : Fresh(i) => Bounds(diff_buffer[i])
    BY DEF TimeInv, NumbersOK, ProviderOK, FreshOK
  <1>2. PICK L \in Nat : L = Len(diff_buffer)
    BY <1>1
  <1>3. diff_buffer # <<>>
    BY <1>1, <1>2
  <1>4. PICK lo \in Int, hi \in Int : lo = (2 * offset) - down /\ hi = (2 * offset) + up
    <2>1. (2 * offset) - down \in Int /\ (2 * offset) + up \in Int
      BY <1>1
    <2>. QED
      BY <2>1
  <1>5. PICK k \in Nat : /\ 2 * k > L
                         /\ \A i \in 1 .. L : i > L - k => Fresh(i)
    <2>1. CASE fresh > 0 /\ paused
      <3>1. L # 0
        BY <1>1, <1>2, <1>3, EmptySeq
      <3>2. 2 * L > L
        BY <1>2, <3>1
      <3>. QED
        BY <1>2, <2>1, <3>2 DEF Fresh
    <2>2. CASE 2 * fresh > Len(diff_buffer)
      BY <1>1, <1>2, <2>2 DEF Fresh
    <2>. QED
      BY <2>1, <2>2
  <1>6. \A i \in 1 .. Len(diff_buffer) :
            i > Len(diff_buffer) - k => lo <= diff_buffer[i] /\ diff_buffer[i] <= hi
    BY <1>1, <1>2, <1>4, <1>5 DEF Bounds
  <1>7. lo <= Median(diff_buffer) /\ Median(diff_buffer) <= hi
    BY <1>1, <1>2, <1>3, <1>5, <1>6, MedianWithin
  <1>8. Median(diff_buffer) \in Int
    BY <1>1, <1>3, MedianIs
  <1>. QED
    BY <1>1, <1>4, <1>7, <1>8

\* However many connections broke and servers came and went: once most of the buffer was
\* measured of the clock of the server now heard, or all of it after a pause, the client
\* plays by that clock (TimeProvider::set_diff).
THEOREM ClockRecovers == Spec => []Recovers
  <1>1. Spec => []TimeInv
    BY TimeInvInit, TimeInvNext, PTL DEF Spec
  <1>. QED
    BY <1>1, RecoversInv, PTL
=============================================================================
