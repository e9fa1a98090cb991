------------------------------ MODULE DoubleBuffer ------------------------------
(***************************************************************************)
(* The client's circular buffer of measurements                            *)
(* (snapcast-client/src/double_buffer.rs): a history that keeps the newest *)
(* values and is asked for its median.                                     *)
(***************************************************************************)
EXTENDS Integers, Sequences, FiniteSets

\* The newest n values of a history: what a buffer of that size has left of it.
Newest(h, n) == IF Len(h) <= n THEN h ELSE SubSeq(h, Len(h) - n + 1, Len(h))

\* median_simple: the value in the middle of the sorted history, the upper one of two.
Median(h) ==
    IF h = <<>> THEN 0
    ELSE CHOOSE m \in {h[i] : i \in DOMAIN h} :
            /\ Cardinality({i \in DOMAIN h : h[i] < m}) <= Len(h) \div 2
            /\ Cardinality({i \in DOMAIN h : h[i] <= m}) > Len(h) \div 2
=============================================================================
