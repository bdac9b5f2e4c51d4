----------------------------- MODULE MCDecoder -----------------------------
(* Instances of Decoder for TLC.                                           *)
EXTENDS Decoder
============================================================================
