---------------------------- MODULE MCPeerLinks -----------------------------
(***************************************************************************)
(* Instances of PeerLinks for TLC: two nodes, a and b, whose users give    *)
(* commands on a's side; b mirrors every role because discovery makes both *)
(* of them dial.                                                           *)
(***************************************************************************)
EXTENDS PeerLinks

CONSTANTS a, b

Two == {a, b}

Scenario(kinds, n) == [commands |-> {a} \X kinds, faults |-> n]

\* Nothing but discovery.
Quiet == {Scenario({}, 0)}

\* a shuts down; or it dials by hand and scans; or discovery alone, with a
\* fault that may hit either node.
Everything == {Scenario({"close"}, 0), Scenario({"manual", "scan"}, 0), Scenario({}, 1)}
=============================================================================
