--------------------------------- MODULE Codecs ---------------------------------
(***************************************************************************)
(* What the two ends of a stream make of its codec header.  The server     *)
(* builds an encoder for its format, or refuses the format                 *)
(* (snapcast-server/src/encoder), and sends a header; the client reads the *)
(* format of the samples its decoder will make out of that header          *)
(* (snapcast-client/src/decoder) and hands it to the stream and the        *)
(* player, which count frames by it.                                       *)
(*                                                                         *)
(* A header is the sequence of those of its bytes, or integers in little   *)
(* endian order, that the client looks at.                                 *)
(***************************************************************************)
EXTENDS Integers, Sequences

Codecs == {"pcm", "flac", "opus", "ogg", "f32lz4"}

SampleSize(bits) == IF bits = 24 THEN 4 ELSE bits \div 8

-----------------------------------------------------------------------------
(* The encoders: what they encode, and the header they announce it with.     *)

PcmHeader(f) == <<f.channels, f.rate, f.bits>>

FlacAccepts(f) == f.bits <= 24 /\ f.rate <= 96000 /\ f.channels \in 1 .. 8

\* Bytes 10 to 13 of the STREAMINFO block: 20 bits, 3 bits and 5 bits.
FlacHeader(f) ==
    <<f.rate \div 4096, (f.rate \div 16) % 256,
      ((f.rate % 16) * 16) + ((f.channels - 1) * 2) + ((f.bits - 1) \div 16),
      ((f.bits - 1) % 16) * 16>>

OpusAccepts(f) == f.rate \in {8000, 12000, 16000, 24000, 48000} /\ f.channels \in {1, 2}
OpusHeader(f)  == <<f.channels % 256, f.rate>>

VorbisAccepts(f) == f.rate > 0 /\ f.channels % 256 > 0
VorbisHeader(f)  == <<f.channels % 256, f.rate>>

Lz4Header(f) == <<f.rate, f.channels, 32>>

\* create: an encoder, if the codec has one for the format.
Accepts(codec, f) ==
    CASE codec = "flac" -> FlacAccepts(f)
      [] codec = "opus" -> OpusAccepts(f)
      [] codec = "ogg"  -> VorbisAccepts(f)
      [] OTHER -> TRUE

CodecHeader(codec, f) ==
    CASE codec = "pcm"  -> PcmHeader(f)
      [] codec = "flac" -> FlacHeader(f)
      [] codec = "opus" -> OpusHeader(f)
      [] codec = "ogg"  -> VorbisHeader(f)
      [] OTHER -> Lz4Header(f)

-----------------------------------------------------------------------------
(* The decoders: the format a header stands for, or none.                    *)

NoFormat == [rate |-> 0, bits |-> 0, channels |-> 0]

PcmFormat(h) ==
    IF h[2] = 0 THEN NoFormat ELSE [rate |-> h[2], bits |-> h[3], channels |-> h[1]]

\* The decoder makes f32 samples whatever the stream's width is.
FlacFormat(h) ==
    [rate |-> (h[1] * 4096) + (h[2] * 16) + (h[3] \div 16), bits |-> 32,
     channels |-> ((h[3] \div 2) % 8) + 1]

OpusFormat(h) ==
    IF h[1] = 0 \/ h[2] = 0 THEN NoFormat
    ELSE [rate |-> h[2], bits |-> 16, channels |-> h[1]]

VorbisFormat(h) ==
    IF h[1] = 0 \/ h[2] = 0 THEN NoFormat
    ELSE [rate |-> h[2], bits |-> 32, channels |-> h[1]]

Lz4Format(h) == [rate |-> h[1], bits |-> h[3], channels |-> h[2]]

FormatOf(codec, h) ==
    CASE codec = "pcm"  -> PcmFormat(h)
      [] codec = "flac" -> FlacFormat(h)
      [] codec = "opus" -> OpusFormat(h)
      [] codec = "ogg"  -> VorbisFormat(h)
      [] OTHER -> Lz4Format(h)

\* The bytes of a sample that decode makes: PCM is passed on as it came, Opus
\* fills 16 bits, symphonia's FLAC and Vorbis and f32lz4 make f32.
DecodedSize(codec, f) ==
    CASE codec = "pcm" -> SampleSize(f.bits) [] codec = "opus" -> 2 [] OTHER -> 4
=============================================================================
