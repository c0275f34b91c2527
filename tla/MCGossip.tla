------------------------------ MODULE MCGossip ------------------------------
(***************************************************************************)
(* Instances of Gossip for TLC: three nodes, each of which can reach the   *)
(* others, and a stranger that two of them have heard of.                  *)
(***************************************************************************)
EXTENDS Gossip

CONSTANTS a, b, c, x, y

Books == (a :> {a, b, c, x} @@ b :> {a, b, c} @@ c :> {a, b, c, y})

Pairs == {{a, b}, {b, c}, {a, c}}
=============================================================================
