------------------------------ MODULE MCMediaPath ------------------------------
(***************************************************************************)
(* A small instance of MediaPath: every scheme; blocks as long as chunks,  *)
(* longer and shorter; the formats and the samples the codecs hand to      *)
(* the client; and the configurations a server starts with.                *)
(***************************************************************************)
EXTENDS MediaPath, Codecs, Configuration, Samples

Of(scheme, codec, wav, chunk, width, server) ==
    [scheme |-> scheme, codec |-> codec, wav |-> wav, chunk |-> chunk,
     source |-> width, server |-> server]

MCConfig == {Of("pipe", "flac", FALSE, 3, 1, 1), Of("librespot", "flac", FALSE, 2, 1, 1),
             Of("file", "pcm", TRUE, 1, 2, 2), Of("file", "f32lz4", FALSE, 1, 2, 2),
             Of("tcp", "opus", FALSE, 4, 1, 1), Of("airplay", "opus", FALSE, 2, 1, 1),
             Of("process", "flac", FALSE, 3, 2, 1), Of("pipe", "flac", FALSE, 6, 1, 1)}
MCBlock == [c \in {"flac", "opus"} |-> IF c = "flac" THEN 3 ELSE 2]

Formats == [rate: {0, 8000, 22050, 44100, 48000, 88200, 96000, 192000}, bits: {8, 16, 24, 32},
            channels: {1, 2, 6, 8}]

\* The format the client reads out of a header is that of the samples its decoder
\* makes, so that the player counts frames as the server did.
ASSUME FormatsAgree ==
    \A codec \in Codecs, f \in Formats :
        Accepts(codec, f) =>
            LET g == FormatOf(codec, CodecHeader(codec, f))
            IN  f.rate > 0 =>
                    /\ g.rate = f.rate /\ g.channels = f.channels
                    /\ SampleSize(g.bits) = DecodedSize(codec, f)

MCFullScale == [bits \in {16, 24, 32} |-> CASE bits = 16 -> 7 [] bits = 24 -> 15 [] OTHER -> 31]
Signals(bits) ==
    {Pcm(v, bits) : v \in -FullScale[bits] - 1 .. FullScale[bits]}
        \cup {F32(<<n, 10>>) : n \in -12 .. 12}

\* A sample sounds the same whatever codec carries it, on a device of the stream's
\* rate and of another, and to an embedder: silence is silence, nothing changes its
\* sign, and it is less than two steps of the coarsest width on its way from what
\* the source gave, loud signals of f32 cut off.
ASSUME SoundsTheSame ==
    \A codec \in Codecs, bits \in Widths, rate \in {44100, 48000} :
        \A x \in Signals(bits) :
            LET y == Arrives(codec, x, bits)
                d == Device([rate |-> 48000, bits |-> bits, channels |-> 2], rate, y)
                cut(n, m) == IF n > m THEN m ELSE IF n < -m THEN -m ELSE n
                o == IF x.encoding = "PcmInt" THEN <<x.value, FullScale[bits]>>
                     ELSE IF codec \in {"ogg", "f32lz4"} THEN x.value
                     ELSE <<cut(x.value[1], x.value[2]), x.value[2]>>
                step == IF codec = "opus" THEN FullScale[16] ELSE FullScale[bits]
                far == (d[1] * o[2]) - (o[1] * d[2])
            IN  /\ ToF32(y) = {d}
                /\ o[1] = 0 => d[1] = 0
                /\ d[1] * o[1] >= 0
                /\ (IF far < 0 THEN -far ELSE far) * step < 2 * d[2] * o[2]

Files ==
    [loads: BOOLEAN, option: {[o \in Options |-> v] : v \in {Absent, Unusable, "file"}},
     bind_to_address: {[o \in Addresses |-> v] : v \in {Absent, "bound"}},
     codec: {Absent, "pcm", "f32lz4", "f32lz4e"}, psk: {Absent, "file key"},
     enabled: {Absent, "on", "no", "maybe"}, secret: {Absent, "blank", "file secret"},
     sources: {<<>>, <<[DefaultSource EXCEPT !.name = "file"]>>}]
Clis ==
    [option: {[o \in Options |-> v] : v \in {Absent, "cli"}},
     codec: {Absent, "pcm", "f32lz4e"}, psk: {Absent, "cli key"}, auth: BOOLEAN,
     secret: {Absent, "", "cli secret"},
     sources: {<<>>, <<[DefaultSource EXCEPT !.scheme = Absent], [DefaultSource EXCEPT !.name = "cli"]>>}]

\* Who speaks last is heard: the command line before a usable value of the file
\* before the default; and whoever asks for the encrypted codec last gets the codec
\* with a key, his own if he has one (parse_config_file, merge_cli).
First(a, b, c) == IF a # Absent THEN a ELSE IF b # Absent THEN b ELSE c
ASSUME LastWordHolds ==
    \A file \in Files, cli \in Clis :
        LET settled == Merged(FromFile(file), cli)
            ofFile(text) == IF file.loads THEN text ELSE Absent
            codec == First(cli.codec, ofFile(file.codec), "flac")
        IN  /\ \A o \in Options :
                settled.option[o] =
                    First(cli.option[o],
                          ofFile(First(IF o \in Addresses THEN file.bind_to_address[o] ELSE Absent,
                                       IF o \in Numbers /\ file.option[o] = Unusable THEN Absent
                                       ELSE file.option[o], Absent)),
                          Defaults.option[o])
            /\ settled.codec = IF codec = "f32lz4e" THEN "f32lz4" ELSE codec
            /\ codec = "f32lz4e" =>
                    settled.psk = First(cli.psk, ofFile(file.psk), DefaultPsk)

\* A server that asks for authentication has a secret to check it with.
ASSUME SecretWhenEnabled ==
    \A file \in Files, cli \in Clis :
        LET settled == Merged(FromFile(file), cli)
        IN  Valid(settled) /\ (cli.auth \/ (file.loads /\ file.enabled = "on")) =>
                settled.secret \in {"file secret", "cli secret"}

\* A client of snapclient-rs takes every header, and opens the chunks of a server if
\* both were given the same key, or neither was given one.
ASSUME KeysMeet ==
    \A file \in Files, cli \in Clis, given \in {Absent, "cli key", "file key"} :
        LET settled == Merged(FromFile(file), cli)
            last == First(cli.psk, IF file.loads THEN file.psk ELSE Absent, Absent)
        IN  /\ TakesHeader(Key(settled), ClientKey(given))
            /\ given = last => Opens(Key(settled), ClientKey(given))

\* Every source that can be parsed is a stream, whatever stands before it.
ASSUME GoodSourcesServed ==
    \A cli \in Clis, file \in {f \in Files : f.option["buffer"] = Absent} :
        LET settled == Merged(FromFile(file), cli)
        IN  /\ Valid(settled) <=> Serves(settled)
            /\ cli.sources # <<>> => \E i \in DOMAIN Streams(settled, 48000) :
                    Streams(settled, 48000)[i].name = "cli"

\* An endpoint with a port of its own is looked for there, with brackets or without,
\* and one without at the default, a source's or a client's; no two texts that both
\* take are understood differently otherwise.
Endpoints == [bracketed: BOOLEAN, closed: BOOLEAN, host: BOOLEAN, ipv6: BOOLEAN,
              colons: {0, 1, 3}, port: {NoPort, 0, 1704, 65535, 65536}]
ASSUME PortsHeard ==
    \A e \in Endpoints :
        LET own == e.port # NoPort /\ (e.bracketed \/ e.colons = 1)
        IN  /\ Endpoint(e).ok => Endpoint(e).port = IF own THEN e.port ELSE 4953
            /\ HostPort(e).ok => /\ HostPort(e).port = IF own THEN e.port ELSE 1704
                                 /\ e.host \/ (e.colons > 1 /\ e.ipv6)
=============================================================================
