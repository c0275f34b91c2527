---------------------------- MODULE PeerPresence ----------------------------
(***************************************************************************)
(* What a node promises its user about every peer: the stream of presence  *)
(* events strictly alternates, one PeerOnline, then one PeerOffline, then  *)
(* PeerOnline again.  A user interface that toggles an icon on each event  *)
(* relies on this and on nothing else.  (pkg/node/node.go, wrapChannel and *)
(* the deferred calls of its pump goroutine.)                              *)
(***************************************************************************)
EXTENDS Naturals

CONSTANT Node

VARIABLES
    online,     \* online[n][p]: PeerOnline events n has published about p
    offline     \* offline[n][p]: PeerOffline events n has published about p

vars == <<online, offline>>

Pairwise(S) == [Node -> [Node -> S]]

Init ==
    /\ online = [n \in Node |-> [p \in Node |-> 0]]
    /\ offline = [n \in Node |-> [p \in Node |-> 0]]

\* n tells its user that p came online: only about a peer that is not online.
Online(n, p) ==
    /\ online[n][p] = offline[n][p]
    /\ online' = [online EXCEPT ![n][p] = @ + 1]
    /\ UNCHANGED offline

\* n tells its user that p went offline: only about a peer that is online.
Offline(n, p) ==
    /\ online[n][p] = offline[n][p] + 1
    /\ offline' = [offline EXCEPT ![n][p] = @ + 1]
    /\ UNCHANGED online

\* n's process ended and with it both streams; its next process starts anew.
Forget(n) ==
    /\ online' = [online EXCEPT ![n] = [p \in Node |-> 0]]
    /\ offline' = [offline EXCEPT ![n] = [p \in Node |-> 0]]

Next ==
    \/ \E n, p \in Node : Online(n, p) \/ Offline(n, p)
    \/ \E n \in Node : Forget(n)

Spec == Init /\ [][Next]_vars
=============================================================================
