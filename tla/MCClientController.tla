-------------------------- MODULE MCClientController --------------------------
(* The controller with two codecs it can decode and one it cannot; settings    *)
(* that buffer, and settings whose latency is more than the buffer.            *)
EXTENDS ClientController

MCCodec == {"pcm", "flac", "unknown"}
MCSupported == {"pcm", "flac"}
MCSettings == {[buffer_ms |-> 5, latency |-> 0], [buffer_ms |-> 1, latency |-> 2]}
=============================================================================
