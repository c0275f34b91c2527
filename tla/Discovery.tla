----------------------------- MODULE Discovery ------------------------------
(***************************************************************************)
(* A node's announcer, and the goroutine of the node that reads its        *)
(* events.  Other nodes broadcast announcements, of which some are lost    *)
(* and some arrive twice; the announcer keeps a table of the peers it has  *)
(* heard, expels those that have been silent for three intervals, and      *)
(* reports both in a queue that drops what finds it full.                  *)
(*                                                                         *)
(* Code: internal/discovery/discovery.go; pkg/node/node.go (the discovery  *)
(* goroutine of Start, and what Close waits for).                          *)
(*                                                                         *)
(* Time is counted in parts of the interval.  It does not pass while a     *)
(* timer is due or an event is being emitted: no step of a goroutine takes *)
(* long compared with an interval.  A datagram lands before its sender's   *)
(* next one, or never.  Keys, names, addresses and sequence numbers only   *)
(* decide whether an announcement changes a known entry; it may or may not.*)
(***************************************************************************)
EXTENDS Naturals, Sequences

CONSTANTS
    Peer,       \* the other nodes
    Interval,   \* units of time between two announcements, and between two sweeps
    MaxMissed,  \* announcements of a peer the network may lose in a row
    MaxCopies,  \* copies of one announcement that may arrive
    EventRoom   \* capacity of the queue of events

ASSUME DiscoveryAssumption ==
    /\ Interval \in Nat \ {0}
    /\ MaxMissed \in Nat
    /\ MaxCopies \in Nat \ {0}
    /\ EventRoom \in Nat \ {0}

VARIABLES
    up,         \* peers that run and announce themselves
    nextCast,   \* nextCast[p]: time to p's next announcement
    air,        \* air[p]: copies of p's last announcement that have yet to land
    missed,     \* missed[p]: announcements of p since one was heard, up to MaxMissed + 1
    steady,     \* peers heard since they started
    peers,      \* the table: peers with an entry
    since,      \* since[p]: time since p's LastSeen, 0 for those without an entry
    reader,     \* the event that the read loop has yet to emit, if any
    evicted,    \* peers that gcOnce has deleted, and has yet to emit
    nextGC,     \* time to the next sweep
    events,     \* the queue of events
    told,       \* told[p]: the last thing the node heard about p
    astray,     \* peers of which the last PeerAdded or PeerRemoved was dropped or outrun
    live,       \* goroutines that run
    readErr,    \* values in the read loop's channel to Run
    cancelled   \* Close has cancelled the context

worldVars == <<up, nextCast, air, missed, steady>>
tableVars == <<peers, since, nextGC>>
eventVars == <<events, astray>>
lifeVars == <<live, readErr, cancelled>>
vars == <<worldVars, tableVars, reader, evicted, eventVars, told, lifeVars>>

\* Goroutines: Run itself, its read loop and sweeps, and the node's loop over events.
Goroutine == {"run", "read", "gc", "dispatch"}

Event == [type : {"added", "updated", "removed"}, peer : Peer]

\* Mutant: two intervals.
ShortTimeout == 2 * Interval

\* DefaultPeerTimeout: three intervals.
Timeout == 3 * Interval

TypeOK ==
    /\ up \subseteq Peer
    /\ nextCast \in [Peer -> 0 .. Interval]
    /\ air \in [Peer -> 0 .. MaxCopies]
    /\ missed \in [Peer -> 0 .. MaxMissed + 1]
    /\ steady \subseteq up
    /\ peers \subseteq Peer
    /\ since \in [Peer -> 0 .. Timeout + Interval]
    /\ reader \in Seq(Event) /\ Len(reader) <= 1
    /\ evicted \subseteq Peer
    /\ nextGC \in 0 .. Interval
    /\ events \in Seq(Event) /\ Len(events) <= EventRoom
    /\ told \in [Peer -> {"nothing", "added", "removed"}]
    /\ astray \subseteq Peer
    /\ live \subseteq Goroutine
    /\ readErr \in 0 .. 1
    /\ cancelled \in BOOLEAN

Init ==
    /\ up = {}
    /\ nextCast = [p \in Peer |-> Interval]
    /\ air = [p \in Peer |-> 0]
    /\ missed = [p \in Peer |-> 0]
    /\ steady = {}
    /\ peers = {}
    /\ since = [p \in Peer |-> 0]
    /\ reader = <<>>
    /\ evicted = {}
    /\ nextGC = Interval
    /\ events = <<>>
    /\ told = [p \in Peer |-> "nothing"]
    /\ astray = {}
    /\ live = Goroutine
    /\ readErr = 0
    /\ cancelled = FALSE

-----------------------------------------------------------------------------
(* The world: time, other nodes, the network *)

Tick ==
    /\ ~cancelled
    /\ \A p \in up : nextCast[p] > 0
    /\ nextGC > 0
    /\ reader = <<>> /\ evicted = {}
    /\ nextCast' = [p \in Peer |-> IF p \in up THEN nextCast[p] - 1 ELSE nextCast[p]]
    /\ nextGC' = nextGC - 1
    /\ since' = [p \in Peer |-> IF p \in peers THEN since[p] + 1 ELSE 0]
    /\ UNCHANGED <<up, air, missed, steady, peers, reader, evicted, eventVars, told, lifeVars>>

\* A peer starts: its first announcement comes after a whole interval.
Start(p) ==
    /\ p \notin up
    /\ up' = up \cup {p}
    /\ nextCast' = [nextCast EXCEPT ![p] = Interval]
    /\ missed' = [missed EXCEPT ![p] = 0]
    /\ UNCHANGED <<air, steady, tableVars, reader, evicted, eventVars, told, lifeVars>>

Stop(p) ==
    /\ p \in up
    /\ up' = up \ {p}
    /\ steady' = steady \ {p}
    /\ UNCHANGED <<nextCast, air, missed, tableVars, reader, evicted, eventVars, told, lifeVars>>

\* broadcastOnce of a peer, over each of its interfaces.
broadcastOnce(p) ==
    /\ p \in up
    /\ nextCast[p] = 0 /\ air[p] = 0
    /\ \E k \in 1 .. MaxCopies : air' = [air EXCEPT ![p] = k]
    /\ nextCast' = [nextCast EXCEPT ![p] = Interval]
    /\ missed' = [missed EXCEPT ![p] = IF @ > MaxMissed THEN @ ELSE @ + 1]
    /\ UNCHANGED <<up, steady, tableVars, reader, evicted, eventVars, told, lifeVars>>

\* A copy is lost, but not the last one if that were one announcement too many.
Lose(p) ==
    /\ air[p] > 0
    /\ "read" \notin live \/ p \notin up \/ air[p] > 1 \/ missed[p] <= MaxMissed
    /\ air' = [air EXCEPT ![p] = @ - 1]
    /\ UNCHANGED <<up, nextCast, missed, steady, tableVars, reader, evicted,
                   eventVars, told, lifeVars>>

-----------------------------------------------------------------------------
(* The announcer *)

\* Mutant: the queue keeps the new event and drops the oldest one.
EmitDropsOldest(e) ==
    /\ events' = IF Len(events) < EventRoom THEN Append(events, e) ELSE Append(Tail(events), e)
    /\ UNCHANGED astray

\* Mutant: the queue is not bounded.
EmitGrows(e) ==
    /\ events' = Append(events, e)
    /\ UNCHANGED astray

\* emit: an event that finds the queue full is dropped.  A PeerRemoved of a peer
\* that is back in the table has been outrun by its PeerAdded.
emit(e) ==
    LET queued == Len(events) < EventRoom
        true == e.type = "removed" => e.peer \notin peers
    IN
    /\ events' = IF queued THEN Append(events, e) ELSE events
    /\ astray' = IF e.type = "updated" THEN astray
                 ELSE IF queued /\ true THEN astray \ {e.peer} ELSE astray \cup {e.peer}

\* Mutant: a new entry is made without an event.
AddsQuietly(p) ==
    /\ "read" \in live
    /\ reader = <<>> /\ air[p] > 0
    /\ air' = [air EXCEPT ![p] = @ - 1]
    /\ missed' = [missed EXCEPT ![p] = 0]
    /\ steady' = steady \cup (up \cap {p})
    /\ peers' = peers \cup {p}
    /\ since' = [since EXCEPT ![p] = 0]
    /\ reader' \in {<<>>, <<[type |-> "updated", peer |-> p]>>}
    /\ UNCHANGED <<up, nextCast, nextGC, evicted, eventVars, told, lifeVars>>

\* handlePacket: LastSeen is renewed whether or not anything has changed.
handlePacket(p) ==
    /\ "read" \in live
    /\ reader = <<>> /\ air[p] > 0
    /\ air' = [air EXCEPT ![p] = @ - 1]
    /\ missed' = [missed EXCEPT ![p] = 0]
    /\ steady' = steady \cup (up \cap {p})
    /\ peers' = peers \cup {p}
    /\ since' = [since EXCEPT ![p] = 0]
    /\ \/ p \notin peers /\ reader' = <<[type |-> "added", peer |-> p]>>
       \/ p \in peers /\ reader' \in {<<>>, <<[type |-> "updated", peer |-> p]>>}
    /\ UNCHANGED <<up, nextCast, nextGC, evicted, eventVars, told, lifeVars>>

\* ... and emits when it has let go of the table.
HandlerEmits ==
    /\ reader # <<>>
    /\ emit(Head(reader))
    /\ reader' = <<>>
    /\ UNCHANGED <<worldVars, tableVars, evicted, told, lifeVars>>

\* Mutant: a peer is expelled as soon as its lease ends, not after that.
EarlyGC ==
    /\ "gc" \in live
    /\ nextGC = 0 /\ evicted = {}
    /\ nextGC' = Interval
    /\ evicted' = {p \in peers : since[p] >= Timeout}
    /\ peers' = peers \ evicted'
    /\ since' = [p \in Peer |-> IF p \in evicted' THEN 0 ELSE since[p]]
    /\ UNCHANGED <<worldVars, reader, eventVars, told, lifeVars>>

\* gcOnce deletes the silent peers under the lock ...
gcOnce ==
    /\ "gc" \in live
    /\ nextGC = 0 /\ evicted = {}
    /\ nextGC' = Interval
    /\ evicted' = {p \in peers : since[p] > Timeout}
    /\ peers' = peers \ evicted'
    /\ since' = [p \in Peer |-> IF p \in evicted' THEN 0 ELSE since[p]]
    /\ UNCHANGED <<worldVars, reader, eventVars, told, lifeVars>>

\* ... and emits when it has let go of it, one by one.
SweepEmits(p) ==
    /\ p \in evicted
    /\ emit([type |-> "removed", peer |-> p])
    /\ evicted' = evicted \ {p}
    /\ UNCHANGED <<worldVars, tableVars, reader, told, lifeVars>>

\* Mutant: the read loop ends without a word to Run.
ReadFailsSilently ==
    /\ "read" \in live
    /\ reader = <<>>
    /\ live' = live \ {"read"}
    /\ UNCHANGED <<worldVars, tableVars, reader, evicted, eventVars, told, readErr, cancelled>>

\* The socket's read fails: the loop ends.  Run, which only waits for its ticker
\* and for the context, looks at the error when the context is done.
ReadFails ==
    /\ "read" \in live
    /\ reader = <<>>
    /\ live' = live \ {"read"}
    /\ readErr' = readErr + 1
    /\ UNCHANGED <<worldVars, tableVars, reader, evicted, eventVars, told, cancelled>>

-----------------------------------------------------------------------------
(* The node: the loop over events, and Close *)

\* A peer that was added is published and dialled, one that was removed is
\* published; updates are ignored.
Dispatch ==
    /\ "dispatch" \in live
    /\ events # <<>>
    /\ LET e == Head(events) IN
       told' = IF e.type = "updated" THEN told ELSE [told EXCEPT ![e.peer] = e.type]
    /\ events' = Tail(events)
    /\ UNCHANGED <<worldVars, tableVars, reader, evicted, astray, lifeVars>>

Cancel ==
    /\ ~cancelled
    /\ cancelled' = TRUE
    /\ UNCHANGED <<worldVars, tableVars, reader, evicted, eventVars, told, live, readErr>>

\* gcLoop sees that the context is done.
SweepsEnd ==
    /\ cancelled
    /\ "gc" \in live /\ evicted = {}
    /\ live' = live \ {"gc"}
    /\ UNCHANGED <<worldVars, tableVars, reader, evicted, eventVars, told, readErr, cancelled>>

\* The read loop sees it when its read returns, after an interval at the latest.
ReadEnds ==
    /\ cancelled
    /\ "read" \in live /\ reader = <<>>
    /\ live' = live \ {"read"}
    /\ readErr' = readErr + 1
    /\ UNCHANGED <<worldVars, tableVars, reader, evicted, eventVars, told, cancelled>>

\* Run waits for both.
RunEnds ==
    /\ cancelled
    /\ "run" \in live /\ "gc" \notin live /\ readErr > 0
    /\ live' = live \ {"run"}
    /\ readErr' = readErr - 1
    /\ UNCHANGED <<worldVars, tableVars, reader, evicted, eventVars, told, cancelled>>

-----------------------------------------------------------------------------
Next ==
    \/ Tick
    \/ \E p \in Peer : Start(p) \/ Stop(p) \/ broadcastOnce(p) \/ Lose(p)
    \/ \E p \in Peer : handlePacket(p) \/ SweepEmits(p)
    \/ HandlerEmits \/ gcOnce \/ ReadFails
    \/ Dispatch \/ Cancel \/ SweepsEnd \/ ReadEnds \/ RunEnds

\* Time passes, tickers fire, goroutines run.  Nothing is assumed of the network
\* but MaxMissed, and nothing of users.
Fairness ==
    /\ WF_vars(Tick)
    /\ \A p \in Peer : WF_vars(broadcastOnce(p)) /\ WF_vars(handlePacket(p)) /\ WF_vars(SweepEmits(p))
    /\ WF_vars(HandlerEmits) /\ WF_vars(gcOnce) /\ WF_vars(Dispatch)
    /\ WF_vars(SweepsEnd) /\ WF_vars(ReadEnds) /\ WF_vars(RunEnds)

Spec == Init /\ [][Next]_vars
FairSpec == Spec /\ Fairness

-----------------------------------------------------------------------------
(* Properties *)

\* The table is what PeerLease promises: no peer is expelled within three
\* intervals of the last announcement heard, and none stays for more than four.
Leases == INSTANCE PeerLease WITH
    Lease <- Timeout, Slack <- Interval, present <- peers, silence <- since
LeaseSpec == Leases!Spec

\* "Tolerate one missed packet without flapping": a peer that keeps running is
\* not expelled, however late its announcements land, if no two are lost in a row.
NoFlapping ==
    [][\A p \in steady \cap steady' : "read" \in live' /\ p \in peers => p \in peers']_vars

\* Places in the queue of the events that say whether p is there.
Reports(p) == {i \in DOMAIN events : events[i].peer = p /\ events[i].type # "updated"}

\* What the node will have been told of p when it has read the queue.
Outlook(p) ==
    IF Reports(p) = {} THEN told[p]
    ELSE events[CHOOSE i \in Reports(p) : \A j \in Reports(p) : j <= i].type

\* The events tell what is in the table: whoever reads the queue to its end knows
\* of every peer whether it has an entry, but for those about to be reported and
\* those whose last event was dropped at a full queue or outrun by another.
EventsTell ==
    \A p \in Peer :
        \/ p \in astray \/ p \in evicted
        \/ reader # <<>> /\ Head(reader).peer = p
        \/ (Outlook(p) = "added") <=> p \in peers

\* A peer that keeps announcing itself is found and dialled, unless its PeerAdded
\* was dropped (nothing repeats it), the socket has failed, or the node closes.
Found ==
    \A p \in Peer :
        p \in up ~> \/ p \in peers /\ told[p] = "added"
                    \/ p \notin up \/ p \in astray \/ "read" \notin live \/ cancelled

\* Once Close has cancelled the context, every goroutine of discovery ends but the
\* one that reads its events: their channel is never closed, and Close waits for it.
OnlyDispatchStays == cancelled ~> [](live = {"dispatch"})
=============================================================================
