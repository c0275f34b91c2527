------------------------------- MODULE Gossip -------------------------------
(***************************************************************************)
(* Gossip: each node tells the peers on its channels whom it has heard of, *)
(* all of its roster at the start of a channel and again, over its other   *)
(* channels, whenever a roster it received had something new.              *)
(*                                                                         *)
(* Code: pkg/node/node.go (wrapChannel's greeting, the pump's case of      *)
(* TypeRosterSync, sendRosterSync, broadcastRosterToAll).                  *)
(*                                                                         *)
(* A channel is there or not: which of two simultaneous connections wins   *)
(* is the subject of PeerLinks.  A roster is the set of its peers, since a *)
(* merge leaves known rows alone; it is saved with every merge.  The scan  *)
(* history that travels beside it is the subject of AutoScan.              *)
(***************************************************************************)
EXTENDS Naturals, SequencesExt

CONSTANTS
    Node, Peer,     \* nodes that run, and all the peers that rosters know
    Book,           \* Book[n]: the roster that n starts with
    Reach,          \* pairs of nodes that can connect
    MaxEvent,       \* bound on channels opened, connections lost and restarts
    MaxFault        \* bound on the last two

ASSUME GossipAssumption ==
    /\ Node \subseteq Peer
    /\ Book \in [Node -> SUBSET Peer] /\ \A n \in Node : n \in Book[n]
    /\ Reach \subseteq {{n, p} : n, p \in Node}
    /\ MaxEvent \in Nat /\ MaxFault \in Nat

VARIABLES
    roster,     \* roster[n]: the peers of n's roster
    live,       \* pairs of nodes whose connection stands
    end,        \* end[n][p]: how far n's goroutine for the channel to p is
    job,        \* job[n][p]: what n's pump for p still does about a roster
    pipe,       \* pipe[n][p]: messages on the way from n to p
    links,      \* channels opened
    faults

linkVars == <<live, end, pipe>>
bounds == <<links, faults>>
vars == <<roster, linkVars, job, bounds>>

\* none; hello: before channels.set; greet: before sendRosterSync; pump
Ends == {"none", "hello", "greet", "pump"}

\* idle; merged: before broadcastRosterToAll copies the registry; telling: in it
Jobs == [step : {"idle", "merged", "telling"}, left : SUBSET Node, added : SUBSET Peer]
Idle == [step |-> "idle", left |-> {}, added |-> {}]

TypeOK ==
    /\ roster \in [Node -> SUBSET Peer]
    /\ \A pair \in live : \E n, p \in Node : n # p /\ pair = {n, p}
    /\ end \in [Node -> [Node -> Ends]]
    /\ job \in [Node -> [Node -> Jobs]]
    /\ \A n, p \in Node :
          /\ \A i \in DOMAIN pipe[n][p] : pipe[n][p][i] \subseteq roster[n]
          /\ job[n][p].step # "idle" => end[n][p] = "pump"
    /\ links \in 0..MaxEvent /\ faults \in 0..MaxFault

Init ==
    /\ roster = Book
    /\ live = {}
    /\ end = [n \in Node |-> [p \in Node |-> "none"]]
    /\ job = [n \in Node |-> [p \in Node |-> Idle]]
    /\ pipe = [n \in Node |-> [p \in Node |-> <<>>]]
    /\ links = 0
    /\ faults = 0

Live(n, p) == {n, p} \in live
Registered(n) == {p \in Node : end[n][p] \in {"greet", "pump"}}
Pumping(n, p) == end[n][p] = "pump" /\ job[n][p].step = "idle"

\* Channel.Send: on a lost connection it fails, which is only logged.
Send(n, p, entries) ==
    pipe' = IF Live(n, p) THEN [pipe EXCEPT ![n][p] = Append(@, entries)] ELSE pipe

Goes(n, p, where) == end' = [end EXCEPT ![n][p] = where]

-----------------------------------------------------------------------------
(* A channel opens *)

\* A dial of either side, a command or a scan finds the peer.
Connect(n, p) ==
    /\ n # p /\ {n, p} \in Reach
    /\ end[n][p] = "none" /\ end[p][n] = "none"
    /\ links + faults < MaxEvent /\ links' = links + 1
    /\ live' = live \cup {{n, p}}
    /\ end' = [end EXCEPT ![n][p] = "hello", ![p][n] = "hello"]
    /\ UNCHANGED <<roster, job, pipe, faults>>

\* wrapChannel up to channels.set.
Register(n, p) ==
    /\ end[n][p] = "hello"
    /\ Goes(n, p, "greet")
    /\ UNCHANGED <<roster, live, job, pipe, bounds>>

\* Mutant: the greeting tells only of the node itself.
GreetWithSelf(n, p) ==
    /\ end[n][p] = "greet"
    /\ Goes(n, p, "pump")
    /\ Send(n, p, {n})
    /\ UNCHANGED <<roster, live, job, bounds>>

\* sendRosterSync lists the roster when it sends it.
Greet(n, p) ==
    /\ end[n][p] = "greet"
    /\ Goes(n, p, "pump")
    /\ Send(n, p, roster[n])
    /\ UNCHANGED <<roster, live, job, bounds>>

-----------------------------------------------------------------------------
(* The pump of n's channel to p *)

Job(n, p, j) == job' = [job EXCEPT ![n][p] = j]

Merged(added) == [step |-> "merged", left |-> {}, added |-> added]

\* Mutant: what is new is kept to oneself.
PassOnNothing(n, p, added) == UNCHANGED job

\* Only a roster with something new sets off the broadcast.
PassOn(n, p, added) == IF added = {} THEN UNCHANGED job ELSE Job(n, p, Merged(added))

\* MergeFromGossip keeps the rows it has; Save follows.
MergeRoster(n, p) ==
    /\ Pumping(n, p) /\ pipe[p][n] # <<>>
    /\ LET entries == Head(pipe[p][n])
       IN  /\ roster' = [roster EXCEPT ![n] = @ \cup entries]
           /\ PassOn(n, p, entries \ roster[n])
    /\ pipe' = [pipe EXCEPT ![p][n] = Tail(@)]
    /\ UNCHANGED <<live, end, bounds>>

\* broadcastRosterToAll takes the registered channels but the one it came from.
BroadcastRoster(n, p) ==
    /\ job[n][p].step = "merged"
    /\ Job(n, p, [job[n][p] EXCEPT !.step = "telling", !.left = Registered(n) \ {p}])
    /\ UNCHANGED <<roster, linkVars, bounds>>

SendRosterTo(n, p, q) ==
    /\ job[n][p].step = "telling" /\ q \in job[n][p].left
    /\ Job(n, p, [job[n][p] EXCEPT !.left = @ \ {q}])
    /\ Send(n, q, roster[n])
    /\ UNCHANGED <<roster, live, end, bounds>>

\* Everyone is told: the pump reads on.
BroadcastEnds(n, p) ==
    /\ job[n][p].step = "telling" /\ job[n][p].left = {}
    /\ Job(n, p, Idle)
    /\ UNCHANGED <<roster, linkVars, bounds>>

\* Mutant: a pump ends in the middle of a broadcast.
LeaveEarly(n, p) ==
    /\ ~Live(n, p)
    /\ end[n][p] = "hello" \/ end[n][p] = "pump"
    /\ Goes(n, p, "none")
    /\ pipe' = [pipe EXCEPT ![p][n] = <<>>]
    /\ UNCHANGED <<roster, live, job, bounds>>

\* The handshake or the pump's Recv fails; what was still on its way is lost.
Leave(n, p) ==
    /\ ~Live(n, p)
    /\ end[n][p] = "hello" \/ Pumping(n, p)
    /\ Goes(n, p, "none")
    /\ pipe' = [pipe EXCEPT ![p][n] = <<>>]
    /\ UNCHANGED <<roster, live, job, bounds>>

-----------------------------------------------------------------------------
(* Faults *)

Fault == faults < MaxFault /\ links + faults < MaxEvent /\ faults' = faults + 1

\* No broadcast under way reaches a channel over these connections any more.
Cut(pairs) ==
    /\ live' = live \ pairs
    /\ job' = [n \in Node |-> [p \in Node |->
                  [job[n][p] EXCEPT !.left = {q \in @ : {n, q} \notin pairs}]]]

Disconnect(n, p) ==
    /\ Live(n, p) /\ Fault
    /\ Cut({{n, p}})
    /\ UNCHANGED <<roster, end, pipe, links>>

\* The process ends and a new one starts: it has the roster, which was saved.
Restart(n) ==
    /\ Fault
    /\ live' = {pair \in live : n \notin pair}
    /\ job' = [m \in Node |-> [p \in Node |->
                  IF m = n THEN Idle ELSE [job[m][p] EXCEPT !.left = @ \ {n}]]]
    /\ end' = [end EXCEPT ![n] = [p \in Node |-> "none"]]
    /\ pipe' = [p \in Node |-> [pipe[p] EXCEPT ![n] = <<>>]]
    /\ UNCHANGED <<roster, links>>

-----------------------------------------------------------------------------
ChannelStep(n, p) ==
    \/ Register(n, p)
    \/ Greet(n, p)
    \/ MergeRoster(n, p)
    \/ BroadcastRoster(n, p)
    \/ \E q \in Node : SendRosterTo(n, p, q)
    \/ BroadcastEnds(n, p)
    \/ Leave(n, p)

Next ==
    \/ \E n, p \in Node : Connect(n, p) \/ ChannelStep(n, p) \/ Disconnect(n, p)
    \/ \E n \in Node : Restart(n)

\* The goroutine of each channel keeps running.
Fairness == \A n, p \in Node : WF_vars(ChannelStep(n, p))

Spec == Init /\ [][Next]_vars
FairSpec == Spec /\ Fairness

-----------------------------------------------------------------------------
(* Properties *)

\* Entry e of n's roster is still going to p: in a greeting, in a message on its
\* way, or in a broadcast.
OnItsWay(n, p, e) ==
    \/ end[n][p] = "greet"
    \/ \E i \in DOMAIN pipe[n][p] : e \in pipe[n][p][i]
    \/ \E q \in Node : job[n][q].step = "merged" /\ e \in job[n][q].added
    \/ \E q \in Node : job[n][q].step = "telling" /\ p \in job[n][q].left

\* No entry is forgotten between the merge, the copy of the registry and the
\* greeting of a channel that registers in between: over a standing connection
\* the peer has each entry or will be told of it.
NoEntryLost ==
    \A n, p \in Node : Live(n, p) /\ p \in Registered(n) =>
        \A e \in roster[n] : e \in roster[p] \/ OnItsWay(n, p, e)

Quiet ==
    \A n, p \in Node : Live(n, p) => pipe[n][p] = <<>> /\ job[n][p] = Idle

\* "the LAN-wide peer directory converges fast on connect" (node.go): when channels
\* stop coming and going, the flood ends and connected nodes have equal rosters.
Converges ==
    <>[](Quiet /\ \A n, p \in Node : Live(n, p) => roster[n] = roster[p])
=============================================================================
