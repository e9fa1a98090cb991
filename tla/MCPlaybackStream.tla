--------------------------- MODULE MCPlaybackStream ---------------------------
(***************************************************************************)
(* A small instance of PlaybackStream, and its two algorithms compared     *)
(* with the loops of the code over all small inputs.                       *)
(***************************************************************************)
EXTENDS PlaybackStream, TLC

FormatSymmetry == Permutations(Format)

\* The premise of the proof of Smooth, at these lengths and gaps.
ASSUME CrossesOneGap == FewGaps

\* read_with_correction as the code runs it: slice after slice is copied into
\* the output, each over the end of the one before it.
CopiedSlices(buf, n, c) ==
    LET max    == IF c < 0 THEN n ELSE n + c
        slices == Least(Abs(c) + 1, max)
        size(k) == IF k = slices THEN max - (slices - 1) * (max \div slices)
                   ELSE max \div slices
        pos(k) == (k - 1) * (max \div slices)
        src(k) == IF c < 0 THEN pos(k) - (k - 1) ELSE pos(k)
        dst(k) == IF c < 0 THEN pos(k) ELSE pos(k) - (k - 1)
        out[k \in 0 .. slices] ==
            IF k = 0 THEN Silent(n)
            ELSE [i \in 1 .. n |-> IF i \in dst(k) + 1 .. dst(k) + size(k)
                                   THEN buf[i - dst(k) + src(k)] ELSE out[k - 1][i]]
    IN  out[slices]

Identity(n) == [i \in 1 .. n |-> i]

ASSUME SlicesAgree ==
    \A n \in 1 .. 9 : \A c \in (1 - n) .. n + 2 :
        c # 0 => Corrected(Identity(n + c), n, c) = CopiedSlices(Identity(n + c), n, c)

\* The median of the code is the element in the middle of the sorted values.
ASSUME MedianAgrees ==
    \A len \in 1 .. 4 : \A h \in [1 .. len -> -2 .. 2] :
        Median(h) = SortSeq(h, LAMBDA a, b : a < b)[len \div 2 + 1]
=============================================================================
