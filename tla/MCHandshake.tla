---------------------------- MODULE MCHandshake -----------------------------
(***************************************************************************)
(* Instances of Handshake for TLC: three runs of the initiator, as started *)
(* by discovery, the dial command and a scan.                              *)
(***************************************************************************)
EXTENDS Handshake

CONSTANTS s, t, u
=============================================================================
