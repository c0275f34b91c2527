---------------------------- MODULE KeyAgreement ----------------------------
(***************************************************************************)
(* What the handshake promises the two ends of a connection: the responder *)
(* settles on a key first, and the initiator, if it settles at all, on the *)
(* same one; neither ever has a second.  The protocol layer encrypts with  *)
(* it and has no way to find out about a wrong one but by failing.         *)
(* (internal/handshake/handshake.go, Session and the package comment.)     *)
(***************************************************************************)
CONSTANT Key

VARIABLES
    accepted,   \* keys of the responder's session, one at most
    confirmed   \* keys of the initiator's sessions, one at most

vars == <<accepted, confirmed>>

Init == accepted = {} /\ confirmed = {}

Accept(k) ==
    /\ accepted = {} /\ confirmed = {}
    /\ accepted' = {k}
    /\ UNCHANGED confirmed

Confirm(k) ==
    /\ accepted = {k} /\ confirmed = {}
    /\ confirmed' = {k}
    /\ UNCHANGED accepted

Next == \E k \in Key : Accept(k) \/ Confirm(k)

Spec == Init /\ [][Next]_vars
=============================================================================
