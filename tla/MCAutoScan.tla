----------------------------- MODULE MCAutoScan -----------------------------
(***************************************************************************)
(* Instances of AutoScan for TLC: two peers, one of them on a subnet that  *)
(* new entries are on as well, and a queue with room for one subnet.       *)
(***************************************************************************)
EXTENDS AutoScan

CONSTANTS a, b, near, far, loopback

\* a is on the same machine: loopback is not worth a scan.
Homes == (a :> loopback @@ b :> near)
=============================================================================
