---------------------------- MODULE MCTransport -----------------------------
(***************************************************************************)
(* Instances of Transport for TLC: two connections that are accepted, and  *)
(* two dials of one host.                                                  *)
(***************************************************************************)
EXTENDS Transport

CONSTANTS a, b, d, e
=============================================================================
