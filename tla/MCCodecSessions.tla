-------------------------- MODULE MCCodecSessions --------------------------
(* Model values for the runs of CodecSessions. *)
EXTENDS CodecSessions

Runs == <<"decompress", "compress", "decompress", "decompress">>
=============================================================================
