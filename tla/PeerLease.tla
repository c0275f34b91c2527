----------------------------- MODULE PeerLease ------------------------------
(***************************************************************************)
(* What an announcer promises about its table of peers: a lease for each   *)
(* peer, renewed by whatever is heard of it.  Nobody is expelled before    *)
(* the lease is over, and nobody stays for more than Slack after its end.  *)
(* (internal/discovery/discovery.go, DefaultPeerTimeout, Peers.)           *)
(***************************************************************************)
EXTENDS Naturals

CONSTANTS
    Peer,
    Lease,      \* how long a silent peer may stay
    Slack       \* how much longer it may take to notice

VARIABLES
    present,    \* peers with a lease
    silence     \* silence[p]: time since p was heard, 0 for those not present

vars == <<present, silence>>

Init == present = {} /\ silence = [p \in Peer |-> 0]

Hear(p) ==
    /\ present' = present \cup {p}
    /\ silence' = [silence EXCEPT ![p] = 0]

Expel(S) ==
    /\ \A p \in S : silence[p] > Lease
    /\ present' = present \ S
    /\ silence' = [p \in Peer |-> IF p \in S THEN 0 ELSE silence[p]]

\* Time passes, unless a peer is overdue.
Pass ==
    /\ \A p \in present : silence[p] < Lease + Slack
    /\ silence' = [p \in Peer |-> IF p \in present THEN silence[p] + 1 ELSE 0]
    /\ UNCHANGED present

Next ==
    \/ \E p \in Peer : Hear(p)
    \/ \E S \in SUBSET present : Expel(S)
    \/ Pass

Spec == Init /\ [][Next]_vars
=============================================================================
