------------------------------- MODULE MCCodec -------------------------------
(***************************************************************************)
(* Codec for TLC: messages that are empty, at the limit and over it.       *)
(***************************************************************************)
EXTENDS Codec
=============================================================================
