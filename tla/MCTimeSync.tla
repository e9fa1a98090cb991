------------------------------- MODULE MCTimeSync -------------------------------
(***************************************************************************)
(* A small instance of TimeSync, and the messages of Wire read back from   *)
(* the wire as they were written to it.                                    *)
(***************************************************************************)
EXTENDS TimeSync

MCTimevals == {FromUsec(0), FromUsec(5)}
MCTexts    == {<<>>, <<"a">>, <<"a", "b">>}
MCTypes    == 0 .. 9
Base(type) == [type |-> type, id |-> 1, refers_to |-> 2, sent |-> FromUsec(7),
               received |-> FromUsec(0)]

MCMessages(type) ==
    CASE type \in {"Hello", "ClientInfo", "ServerSettings"} -> [json: MCTexts]
      [] type = "CodecHeader" -> [codec: MCTexts, data: MCTexts]
      [] type = "WireChunk"   -> [time: MCTimevals, data: MCTexts]
      [] type = "Time"        -> [time: MCTimevals]
      [] type = "Error"       -> [code: {403}, error: MCTexts, message: MCTexts]
      [] OTHER                -> [data: MCTexts]

\* Two messages written one after the other are read back as these two, and wire_size
\* is the length they were written with; what is too long is refused.
ASSUME MessagesReadBack ==
    \A a, b \in MCTypes : \A m \in MCMessages(TypeOf(a)), n \in MCMessages(TypeOf(b)) :
        LET wire   == Serialize(Base(a), m) \o Serialize(Base(b), n)
            first  == ReadFrame(wire)
            second == ReadFrame(first.rest)
        IN  /\ Width(wire) = 2 * HeaderSize + WireSize(TypeOf(a), m) + WireSize(TypeOf(b), n)
            /\ first.base = Base(a)
            /\ first.payload = IF WireSize(TypeOf(a), m) <= MaxPayload THEN m ELSE Bad
            /\ first.payload # Bad =>
                    /\ second.base = Base(b) /\ second.rest = <<>>
                    /\ second.payload = IF WireSize(TypeOf(b), n) <= MaxPayload THEN n ELSE Bad

\* sub gives the difference, and its microseconds are never negative.
ASSUME MinusIsDifference ==
    \A a, b \in 0 .. 3 * Second :
        LET d == Minus(FromUsec(a), FromUsec(b))
        IN  ToUsec(d) = a - b /\ d.usec \in 0 .. Second - 1
=============================================================================
