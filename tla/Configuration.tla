----------------------------- MODULE Configuration -----------------------------
(***************************************************************************)
(* What snapserver-rs makes of its configuration file and its command line *)
(* (snapserver-rs/src/config.rs), of the URIs of its sources               *)
(* (stream/uri.rs), and which streams and readers it starts with           *)
(* (main.rs), before the server serves; and where the URL of a client      *)
(* leads (snapclient-rs/src/cli.rs).                                       *)
(*                                                                         *)
(* A file and a command line are functions from the names of the options   *)
(* to what they say; Absent is an option they do not have, Unusable a      *)
(* value that does not parse.  A source is a record of its parts.          *)
(***************************************************************************)
EXTENDS Integers, Sequences

Absent   == "absent"
Unusable == "unusable"

\* Options a later place overrides and nothing else looks at: numbers, which the
\* file may have and not be usable, texts, and addresses, for which a section of
\* the file has two names.
Numbers   == {"stream_port", "control_port", "http_port", "buffer"}
Texts     == {"doc_root", "sampleformat"}
Addresses == {"stream_bind_address", "control_bind_address", "http_bind_address"}
Options   == Numbers \cup Texts \cup Addresses

\* get_bind_address: the first name wins.
Given(file, option) ==
    IF option \in Addresses /\ file.bind_to_address[option] # Absent
    THEN file.bind_to_address[option] ELSE file.option[option]

\* get_str, get_u16 and get_u32: what is absent, or no number, changes nothing.
Over(before, text) == IF text = Absent THEN before ELSE text
Read(file, option, before) ==
    IF option \in Numbers /\ Given(file, option) = Unusable THEN before
    ELSE Over(before, Given(file, option))

\* get_bool.
ReadBool(text, before) ==
    IF text \in {"true", "yes", "on", "1"} THEN TRUE
    ELSE IF text \in {"false", "no", "off", "0"} THEN FALSE ELSE before

-----------------------------------------------------------------------------
(* The configuration.                                                        *)

DefaultPsk == "default key"

DefaultSource == [scheme |-> "pipe", endpoint |-> Absent, name |-> "default", rate |-> 0]

\* BinaryConfig::default.
Defaults ==
    [option  |-> [o \in Options |-> IF o = "doc_root" THEN Absent ELSE "default"],
     sources |-> <<DefaultSource>>, codec |-> "flac", psk |-> Absent, enabled |-> FALSE, secret |-> ""]

\* resolve_encryption: the alias for f32lz4 with a key, the default one if no other is set.
Resolved(settled) ==
    IF settled.codec # "f32lz4e" THEN settled
    ELSE [settled EXCEPT !.codec = "f32lz4", !.psk = IF @ = Absent THEN DefaultPsk ELSE @]

\* parse_config_file: a file that cannot be loaded leaves the defaults.
FromFile(file) ==
    IF ~file.loads THEN Defaults
    ELSE Resolved(
        [option  |-> [o \in Options |-> Read(file, o, Defaults.option[o])],
         sources |-> IF file.sources = <<>> THEN Defaults.sources ELSE file.sources,
         codec   |-> Over(Defaults.codec, file.codec),
         psk     |-> Over(Defaults.psk, file.psk),
         enabled |-> ReadBool(file.enabled, Defaults.enabled),
         secret  |-> Over(Defaults.secret, file.secret)])

\* merge_cli: the command line replaces what it names; sources as a whole;
\* authentication it can only turn on.
Merged(settled, cli) ==
    Resolved(
        [option  |-> [o \in Options |-> Over(settled.option[o], cli.option[o])],
         sources |-> IF cli.sources = <<>> THEN settled.sources ELSE cli.sources,
         codec   |-> Over(settled.codec, cli.codec),
         psk     |-> Over(settled.psk, cli.psk),
         enabled |-> settled.enabled \/ cli.auth,
         secret  |-> Over(settled.secret, cli.secret)])

\* AuthConfig::validate, before anything is started.
Valid(settled) == settled.enabled => settled.secret \notin {"", "blank"}

\* The key of an encoder (create); which clients take its header (set_header) and
\* can open its chunks (decrypt); the key of a client that was given one or none.
Key(settled) == IF settled.codec = "f32lz4" THEN settled.psk ELSE Absent
TakesHeader(key, own) == key # Absent => own # Absent
Opens(key, own) == key # Absent => own = key
ClientKey(given) == Over(DefaultPsk, given)

-----------------------------------------------------------------------------
(* The sources.                                                              *)

NoPort     == -1
NoEndpoint == [ok |-> FALSE, port |-> NoPort]

\* parse_port: what follows the colon is a port when it fits sixteen bits.
Port(number) == IF number \in 0 .. 65535 THEN [ok |-> TRUE, port |-> number] ELSE NoEndpoint

\* An endpoint has a number of colons, or an address in brackets that are closed or
\* not, a host or none, and NoPort or a port.
AtPort(e, default) ==
    LET there == [ok |-> TRUE, port |-> default]
    IN  IF e.bracketed
        THEN IF ~e.closed \/ ~e.host THEN NoEndpoint
             ELSE IF e.port = NoPort THEN there ELSE Port(e.port)
        ELSE CASE e.colons = 1 -> IF e.host THEN Port(e.port) ELSE NoEndpoint
               [] e.colons = 0 -> there
               [] OTHER -> IF e.ipv6 THEN there ELSE NoEndpoint

\* parse_tcp_endpoint, of a source.
Endpoint(e) == AtPort(e, 4953)

\* parse_host_port, of the URL of a client: a host has to be there.
HostPort(e) == IF ~e.bracketed /\ e.colons = 0 /\ ~e.host THEN NoEndpoint ELSE AtPort(e, 1704)

\* StreamUri::parse: only tcp looks at the endpoint.
Parses(uri) == uri.scheme # Absent /\ (uri.scheme = "tcp" => Endpoint(uri.endpoint).ok)

Readers == {"pipe", "file", "process", "tcp", "librespot", "airplay"}

\* main: a source that does not parse is skipped.  Any other has its stream, with
\* a reader if the scheme has one; two sources of a name are two streams of it.
Name(uri) == IF uri.name = Absent THEN "default" ELSE uri.name
Rate(uri, default) == IF uri.rate = 0 THEN default ELSE uri.rate
ChunkFrames(codec, rate) == IF codec = "flac" THEN 1152 ELSE (rate * 20) \div 1000

Streams(settled, default) ==
    LET parsed == SelectSeq(settled.sources, Parses)
    IN  [i \in DOMAIN parsed |->
            LET rate == Rate(parsed[i], default)
            IN  [name  |-> Name(parsed[i]), rate |-> rate,
                 chunk |-> ChunkFrames(settled.codec, rate),
                 read  |-> parsed[i].scheme \in Readers]]

\* SnapServer::serve refuses to serve no stream at all.
Serves(settled) == Valid(settled) /\ SelectSeq(settled.sources, Parses) # <<>>
=============================================================================
