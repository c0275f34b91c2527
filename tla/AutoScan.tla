------------------------------ MODULE AutoScan ------------------------------
(***************************************************************************)
(* The auto-scan of one node: its pumps queue the subnets of new roster    *)
(* entries, tell other peers of all they ever queued, and learn from them  *)
(* which subnets to skip; one loop takes subnets from the queue and scans. *)
(*                                                                         *)
(* Code: pkg/node/autoscan.go, and in pkg/node/node.go what wrapChannel    *)
(* and the pump call of it, the scan histories and autoScanLoop.           *)
(*                                                                         *)
(* An entry is the subnet of its first address.  Which entries are new is  *)
(* the subject of Gossip; the scans' dials are in PeerLinks.               *)
(***************************************************************************)
EXTENDS Naturals, SequencesExt

CONSTANTS
    Peer,           \* peers this node may have a channel to
    Subnet,         \* /24 subnets
    Scannable,      \* those that shouldAutoScanFor does not reject outright
    Home,           \* Home[p]: the subnet p is connected from
    QueueRoom,      \* capacity of autoScanQueue.ch
    MaxNews         \* bound on channels opened and on rosters with new entries

ASSUME AutoScanAssumption ==
    /\ Scannable \subseteq Subnet
    /\ Home \in [Peer -> Subnet]
    /\ QueueRoom \in Nat \ {0} /\ MaxNews \in Nat

VARIABLES
    chan,       \* chan[p]: how far the goroutine for the channel to p is
    job,        \* job[p]: what its pump still does about new entries
    known,      \* autoScanState.knownSubnets
    seen,       \* autoScanQueue.seen
    queue,      \* autoScanQueue.ch
    lost,       \* subnets that found the queue full, or left it for a history
    scanning,   \* the subnet that autoScanLoop scans, in a set, or {}
    scanned,    \* subnets whose scan it has begun
    news

vars == <<chan, job, known, seen, queue, lost, scanning, scanned, news>>

\* idle; tell: in broadcastScanHistoryToAll, and then checking the entries in
\* todo; enqueue: the entries in next passed the check and wait for the queue's lock
Jobs == [step : {"idle", "tell", "enqueue"}, left : SUBSET Peer, todo : SUBSET Subnet,
         next : SUBSET Subnet, knew : SUBSET Subnet]
Idle == [step |-> "idle", left |-> {}, todo |-> {}, next |-> {}, knew |-> {}]

TypeOK ==
    /\ chan \in [Peer -> {"none", "greet", "pump"}]
    /\ job \in [Peer -> Jobs]
    /\ known \subseteq Subnet
    /\ seen \subseteq Scannable
    /\ Len(queue) <= QueueRoom
    /\ seen = ToSet(queue) \cup scanned \cup lost
    /\ scanning \subseteq scanned
    /\ news \in 0..MaxNews

Init ==
    /\ chan = [p \in Peer |-> "none"]
    /\ job = [p \in Peer |-> Idle]
    /\ known = {}
    /\ seen = {}
    /\ queue = <<>>
    /\ lost = {}
    /\ scanning = {}
    /\ scanned = {}
    /\ news = 0

News == news < MaxNews /\ news' = news + 1
Becomes(p, j) == job' = [job EXCEPT ![p] = j]

-----------------------------------------------------------------------------
(* A channel opens and closes *)

\* wrapChannel marks the peer's subnet and registers the channel.
MarkConnectedSubnet(p) ==
    /\ chan[p] = "none" /\ News
    /\ chan' = [chan EXCEPT ![p] = "greet"]
    /\ known' = known \cup ({Home[p]} \cap Scannable)
    /\ UNCHANGED <<job, seen, queue, lost, scanning, scanned>>

\* To report what waits, Snapshot takes it out of the queue.
Snapshot ==
    /\ queue' = <<>>
    /\ lost' = lost \cup ToSet(queue)

\* sendScanHistory only sends the subnets seen, which change nothing here.
sendScanHistory == Snapshot

Greet(p) ==
    /\ chan[p] = "greet"
    /\ chan' = [chan EXCEPT ![p] = "pump"]
    /\ sendScanHistory
    /\ UNCHANGED <<job, known, seen, scanning, scanned, news>>

\* The pump's Recv fails.
Leave(p) ==
    /\ chan[p] = "pump" /\ job[p] = Idle
    /\ chan' = [chan EXCEPT ![p] = "none"]
    /\ UNCHANGED <<job, known, seen, queue, lost, scanning, scanned, news>>

-----------------------------------------------------------------------------
(* The pump *)

\* A roster from p has entries that are new here, in the given subnets.
NewEntries(p, subnets) ==
    /\ chan[p] = "pump" /\ job[p] = Idle /\ subnets # {} /\ News
    /\ Becomes(p, [step |-> "tell", left |-> {q \in Peer \ {p} : chan[q] # "none"},
                   todo |-> subnets, next |-> {}, knew |-> known])
    /\ UNCHANGED <<chan, known, seen, queue, lost, scanning, scanned>>

\* broadcastScanHistoryToAll comes before the entries are looked at.
SendHistoryTo(p, q) ==
    /\ job[p].step = "tell" /\ q \in job[p].left
    /\ Becomes(p, [job[p] EXCEPT !.left = @ \ {q}])
    /\ sendScanHistory
    /\ UNCHANGED <<chan, known, seen, scanning, scanned, news>>

\* shouldAutoScanFor.  Its comparison with the node's own /24 never holds: myIPs
\* has "ip:port" strings, which ParseIP does not parse.
ShouldScan(s) == s \in Scannable /\ s \notin known

\* EnqueueIfNew copies knownSubnets under one lock.
EnqueueIfNew(p) ==
    /\ job[p].step = "tell" /\ job[p].left = {}
    /\ \E s \in job[p].todo :
        Becomes(p, IF ShouldScan(s)
                   THEN [job[p] EXCEPT !.step = "enqueue", !.todo = @ \ {s}, !.next = {s}]
                   ELSE IF job[p].todo = {s} THEN Idle
                   ELSE [job[p] EXCEPT !.todo = @ \ {s}])
    /\ UNCHANGED <<chan, known, seen, queue, lost, scanning, scanned, news>>

\* Mutant: a subnet is queued again while it waits or is scanned.
OfferAgain(s) ==
    /\ seen' = seen \cup {s}
    /\ IF Len(queue) < QueueRoom
       THEN queue' = Append(queue, s) /\ UNCHANGED lost
       ELSE lost' = lost \cup {s} /\ UNCHANGED queue

\* Mutant: nobody looks whether there is room.
OfferOverfull(s) ==
    /\ s \notin seen
    /\ seen' = seen \cup {s}
    /\ queue' = Append(queue, s)
    /\ UNCHANGED lost

\* A subnet that finds the queue full counts as seen all the same.
Offer(s) ==
    IF s \in seen THEN UNCHANGED <<seen, queue, lost>>
    ELSE /\ seen' = seen \cup {s}
         /\ IF Len(queue) < QueueRoom
            THEN queue' = Append(queue, s) /\ UNCHANGED lost
            ELSE lost' = lost \cup {s} /\ UNCHANGED queue

\* Enqueue, under the queue's own lock.
Enqueue(p) ==
    /\ job[p].step = "enqueue"
    /\ \E s \in job[p].next : Offer(s)
    /\ Becomes(p, IF job[p].todo = {} THEN Idle
                  ELSE [job[p] EXCEPT !.step = "tell", !.next = {}])
    /\ UNCHANGED <<chan, known, scanning, scanned, news>>

\* MarkScanned for each subnet of p's history.
LearnHistory(p, subnets) ==
    /\ chan[p] = "pump" /\ job[p] = Idle /\ ~(subnets \subseteq known) /\ News
    /\ known' = known \cup subnets
    /\ UNCHANGED <<chan, job, seen, queue, lost, scanning, scanned>>

-----------------------------------------------------------------------------
(* autoScanLoop *)

StartScan ==
    /\ scanning = {} /\ queue # <<>>
    /\ scanning' = {Head(queue)}
    /\ scanned' = scanned \cup {Head(queue)}
    /\ queue' = Tail(queue)
    /\ UNCHANGED <<chan, job, known, seen, lost, news>>

\* Mutant: a scan that fails ends the loop.
EndScanByError ==
    /\ scanning # {}
    /\ known' = known \cup scanning
    /\ UNCHANGED <<chan, job, seen, queue, lost, scanning, scanned, news>>

\* MarkScanned follows, whether the scan succeeded or not.
EndScan ==
    /\ scanning # {}
    /\ known' = known \cup scanning
    /\ scanning' = {}
    /\ UNCHANGED <<chan, job, seen, queue, lost, scanned, news>>

-----------------------------------------------------------------------------
PumpStep(p) ==
    \/ Greet(p)
    \/ \E q \in Peer : SendHistoryTo(p, q)
    \/ EnqueueIfNew(p)
    \/ Enqueue(p)

ScanStep == StartScan \/ EndScan

Next ==
    \/ \E p \in Peer :
        \/ MarkConnectedSubnet(p) \/ PumpStep(p) \/ Leave(p)
        \/ \E subnets \in SUBSET Subnet : NewEntries(p, subnets)
        \/ \E subnets \in SUBSET Scannable : LearnHistory(p, subnets)
    \/ ScanStep

\* Goroutines keep running, and a scan ends by its timeouts.
Fairness == (\A p \in Peer : WF_vars(PumpStep(p))) /\ WF_vars(ScanStep)

Spec == Init /\ [][Next]_vars
FairSpec == Spec /\ Fairness

-----------------------------------------------------------------------------
(* Properties *)

\* "We won't re-scan a subnet we've already scanned this session" (autoscan.go),
\* whichever pumps, peers and histories it comes from.
ScanOnce == [][scanning' \subseteq scanning \cup (Subnet \ scanned)]_vars

\* A subnet that a peer had scanned, or that a channel leads to, when an entry
\* arrived is not queued for that entry, whatever pumps do in between.
SkipsKnown ==
    [][\A s \in ToSet(queue') \ ToSet(queue) :
          \E p \in Peer : s \in job[p].next /\ s \notin job[p].knew]_vars

\* The loop never stops short: each subnet that is queued is scanned, unless a
\* full queue or a history lost it.
QueueMoves == \A s \in Scannable : s \in seen ~> s \in scanned \cup lost
=============================================================================
