---------------------------- MODULE MCDiscovery -----------------------------
(***************************************************************************)
(* Instances of Discovery for TLC: one peer and a queue of one event, so   *)
(* that its next event finds the queue full.                               *)
(***************************************************************************)
EXTENDS Discovery

CONSTANTS p
=============================================================================
