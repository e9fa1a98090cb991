---------------------------------- MODULE Wire ----------------------------------
(***************************************************************************)
(* The messages as they travel (snapcast-proto): a header of 26 bytes that *)
(* names the type of the payload and its length, and the payload, whose    *)
(* texts and byte arrays are preceded by their own length.                 *)
(*                                                                         *)
(* A stretch of the wire is a sequence of fields <<width, value>>; a text, *)
(* a JSON object or an array of bytes is a sequence of fields of one byte. *)
(* What the JSON objects hold does not matter to the framing.              *)
(***************************************************************************)
EXTENDS Integers, SequencesExt

CONSTANTS
    Second,      \* microseconds in a second
    MaxPayload   \* DEFAULT_MAX_PAYLOAD_SIZE

ASSUME WireAssumption == Second \in Nat \ {0} /\ MaxPayload \in Nat

-----------------------------------------------------------------------------
(* Timeval: seconds and microseconds of a clock that is never negative, or a   *)
(* difference, of which only the seconds may be.                               *)

FromUsec(usec) == [sec |-> usec \div Second, usec |-> usec % Second]
ToUsec(t) == t.sec * Second + t.usec

\* sub borrows seconds until the microseconds are not negative.
Minus(a, b) ==
    LET usec == a.usec - b.usec
    IN  [sec |-> a.sec - b.sec + (usec \div Second), usec |-> usec % Second]

-----------------------------------------------------------------------------
(* Writing.                                                                  *)

Types == <<"CodecHeader", "WireChunk", "ServerSettings", "Time", "Hello",
           "StreamTags", "ClientInfo", "Error">>

\* from_u16: 0 is Base, and what has no name is Custom or Unknown.
TypeOf(n) == IF n \in DOMAIN Types THEN Types[n] ELSE IF n = 0 THEN "Base" ELSE "Custom"

Time(t)  == <<<<4, t.sec>>, <<4, t.usec>>>>
Bytes(s) == [i \in DOMAIN s |-> <<1, s[i]>>]
Text(s)  == <<<<4, Len(s)>>>> \o Bytes(s)
Json(s)  == Text(s)

HelloFields(m)    == Json(m.json)
InfoFields(m)     == Json(m.json)
SettingsFields(m) == Json(m.json)
HeaderFields(m)   == Text(m.codec) \o Text(m.data)
ChunkFields(m)    == Time(m.time) \o Text(m.data)
TimeFields(m)     == Time(m.time)
ErrorFields(m)    == <<<<4, m.code>>>> \o Text(m.error) \o Text(m.message)

Payload(type, m) ==
    CASE type = "Hello"          -> HelloFields(m)
      [] type = "ClientInfo"     -> InfoFields(m)
      [] type = "ServerSettings" -> SettingsFields(m)
      [] type = "CodecHeader"    -> HeaderFields(m)
      [] type = "WireChunk"      -> ChunkFields(m)
      [] type = "Time"           -> TimeFields(m)
      [] type = "Error"          -> ErrorFields(m)
      [] OTHER                   -> Bytes(m.data)

Width(fields) == FoldSeq(LAMBDA field, n : field[1] + n, 0, fields)

HeaderSize == 26
BaseFields(base, size) ==
    <<<<2, base.type>>, <<2, base.id>>, <<2, base.refers_to>>>>
    \o Time(base.sent) \o Time(base.received) \o <<<<4, size>>>>

\* serialize: the size in the header is that of the payload, whatever it was.
Serialize(base, m) ==
    LET payload == Payload(TypeOf(base.type), m)
    IN  BaseFields(base, Width(payload)) \o payload

\* wire_size of a message.
TextSize(s) == 4 + Len(s)
WireSize(type, m) ==
    CASE type \in {"Hello", "ClientInfo", "ServerSettings"} -> TextSize(m.json)
      [] type = "CodecHeader" -> TextSize(m.codec) + TextSize(m.data)
      [] type = "WireChunk"   -> 8 + TextSize(m.data)
      [] type = "Time"        -> 8
      [] type = "Error"       -> 4 + TextSize(m.error) + TextSize(m.message)
      [] OTHER                -> Len(m.data)

-----------------------------------------------------------------------------
(* Reading.                                                                  *)

Bad == [bad |-> TRUE]

\* The text that begins with field i of a payload: its length must be allowed, and
\* its bytes there.
HasText(p, i) ==
    i <= Len(p) /\ p[i][1] = 4 /\ p[i][2] <= MaxPayload /\ i + p[i][2] <= Len(p)
TextAt(p, i)  == [j \in 1 .. p[i][2] |-> p[i + j][2]]
After(p, i)   == i + 1 + p[i][2]
TimeAt(p, i)  == [sec |-> p[i][2], usec |-> p[i + 1][2]]

\* deserialize: what follows the last part of a payload is not looked at.
Deserialize(type, p) ==
    CASE type \in {"Hello", "ClientInfo", "ServerSettings"} ->
            IF HasText(p, 1) THEN [json |-> TextAt(p, 1)] ELSE Bad
      [] type = "CodecHeader" ->
            IF HasText(p, 1) /\ HasText(p, After(p, 1))
            THEN [codec |-> TextAt(p, 1), data |-> TextAt(p, After(p, 1))] ELSE Bad
      [] type = "WireChunk" ->
            IF Len(p) >= 2 /\ HasText(p, 3)
            THEN [time |-> TimeAt(p, 1), data |-> TextAt(p, 3)] ELSE Bad
      [] type = "Time" ->
            IF Len(p) >= 2 THEN [time |-> TimeAt(p, 1)] ELSE Bad
      [] type = "Error" ->
            IF Len(p) >= 1 /\ HasText(p, 2) /\ HasText(p, After(p, 2))
            THEN [code |-> p[1][2], error |-> TextAt(p, 2), message |-> TextAt(p, After(p, 2))]
            ELSE Bad
      [] OTHER -> [data |-> [i \in DOMAIN p |-> p[i][2]]]

\* read_frame: the header, then as many bytes as it says, unless that is too much;
\* the rest of the wire is left for the next call.
HeaderOf(s) ==
    [type |-> s[1][2], id |-> s[2][2], refers_to |-> s[3][2],
     sent |-> TimeAt(s, 4), received |-> TimeAt(s, 6)]
SizeOf(s) == s[8][2]
FieldsOf(s) == CHOOSE n \in 0 .. Len(s) - 8 : Width(SubSeq(s, 9, 8 + n)) = SizeOf(s)
ReadFrame(s) ==
    [base    |-> HeaderOf(s),
     payload |-> IF SizeOf(s) > MaxPayload THEN Bad
                 ELSE Deserialize(TypeOf(s[1][2]), SubSeq(s, 9, 8 + FieldsOf(s))),
     rest    |-> IF SizeOf(s) > MaxPayload THEN <<>> ELSE SubSeq(s, 9 + FieldsOf(s), Len(s))]
=============================================================================
