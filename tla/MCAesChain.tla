----------------------------- MODULE MCAesChain -----------------------------
(* The run of AesChain. *)
EXTENDS AesChain
=============================================================================
