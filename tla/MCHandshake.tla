----------------------------- MODULE MCHandshake ----------------------------
(* The serial example with its own message and fewer rounds.                *)
EXTENDS Handshake
=============================================================================
