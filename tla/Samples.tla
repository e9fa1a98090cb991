--------------------------------- MODULE Samples ---------------------------------
(***************************************************************************)
(* What becomes of one sample between a source and a device: the encoder   *)
(* takes it as PCM or as f32 (snapcast-server/src/encoder), the decoder    *)
(* makes PCM or f32 again (snapcast-client/src/decoder), the player and    *)
(* the resampler turn that into f32 (snapclient-rs/src/player/mod.rs,      *)
(* snapcast-client/src/resampler.rs), and so does the controller for an    *)
(* embedder (controller.rs).                                               *)
(*                                                                         *)
(* An f32 is a fraction, <<numerator, denominator>>; what the codecs lose  *)
(* is left out, what the conversions around them lose is not.              *)
(***************************************************************************)
EXTENDS Integers

CONSTANT FullScale  \* i16::MAX, PCM_24BIT_MAX and i32::MAX, by the number of bits
ASSUME ScaleAssumption == FullScale \in [{16, 24, 32} -> Nat \ {0}]

Widths == {16, 24, 32}
Wide(bits) == IF bits \in Widths THEN bits ELSE 16

Pcm(v, bits) == [encoding |-> "PcmInt", bits |-> bits, value |-> v]
F32(s)       == [encoding |-> "Float32", bits |-> 32, value |-> s]

-----------------------------------------------------------------------------
(* The server.                                                               *)

\* pcm_to_f32: the most negative sample is a step below -1.
FromPcm(v, bits) == <<v, FullScale[Wide(bits)]>>

\* f32_to_pcm: clamped, scaled, and cut off towards zero.
ToPcm(s, bits) ==
    LET scale == FullScale[Wide(bits)]
        size  == IF s[1] < 0 THEN -s[1] ELSE s[1]
        cut   == IF size >= s[2] THEN scale ELSE (size * scale) \div s[2]
    IN  IF s[1] < 0 THEN -cut ELSE cut

\* Each encoder's encode, up to its codec: what it takes as PCM and as f32.
Quantized(x, bits) == IF x.encoding = "PcmInt" THEN x.value ELSE ToPcm(x.value, bits)

OpusTakes(x) ==
    IF x.encoding = "PcmInt" /\ x.bits # 16 THEN ToPcm(FromPcm(x.value, x.bits), 16)
    ELSE Quantized(x, 16)

\* Vorbis divides by what no sample reaches, but for 24 bits.
VorbisTakes(x) ==
    IF x.encoding = "Float32" THEN x.value
    ELSE <<x.value, FullScale[x.bits] + (IF x.bits = 24 THEN 0 ELSE 1)>>

Lz4Takes(x) == IF x.encoding = "Float32" THEN x.value ELSE FromPcm(x.value, x.bits)

-----------------------------------------------------------------------------
(* The client.                                                               *)

\* decode: symphonia scales a FLAC sample by what no sample reaches.
Arrives(codec, x, bits) ==
    CASE codec = "pcm"  -> Pcm(Quantized(x, bits), bits)
      [] codec = "flac" -> F32(<<Quantized(x, bits), FullScale[bits] + 1>>)
      [] codec = "opus" -> Pcm(OpusTakes(x), 16)
      [] codec = "ogg"  -> F32(VorbisTakes(x))
      [] OTHER -> F32(Lz4Takes(x))

Silence == <<0, 1>>

\* write_samples_to_output, samples_to_f32 and Resampler::process.
Written(y) ==
    IF y.encoding = "Float32" THEN y.value
    ELSE IF y.bits \in Widths THEN <<y.value, FullScale[y.bits]>> ELSE Silence

ToF32(y) ==
    CASE y.encoding = "Float32" -> {y.value}
      [] y.encoding = "PcmInt" /\ y.bits \in Widths -> {<<y.value, FullScale[y.bits]>>}
      [] OTHER -> {}

Deinterleaved(y) ==
    CASE y.encoding = "PcmInt" /\ y.bits = 16 -> <<y.value, FullScale[16]>>
      [] y.encoding = "Float32" -> y.value
      [] y.encoding = "PcmInt" /\ y.bits = 24 -> <<y.value, FullScale[24]>>
      [] y.encoding = "PcmInt" /\ y.bits = 32 -> <<y.value, FullScale[32]>>
      [] OTHER -> Silence

\* new_if_needed: the resampler is there when the rates differ.
NeedsResampler(in_format, out_rate) == out_rate # 0 /\ out_rate # in_format.rate
Device(in_format, out_rate, y) ==
    IF NeedsResampler(in_format, out_rate) THEN Deinterleaved(y) ELSE Written(y)
=============================================================================
