--------------------------- MODULE DiscoveryProofs --------------------------
(***************************************************************************)
(* Proofs that the announcer's table keeps the leases of PeerLease, that a *)
(* peer of which no two announcements in a row are lost never flaps, and   *)
(* that the events tell what is in the table, for any peers, interval and  *)
(* capacity of the queue.                                                  *)
(***************************************************************************)
EXTENDS Discovery, TLAPS

\* A silent peer is found by the sweep that comes next.
Swept ==
    /\ \A p \in peers : since[p] + nextGC <= Timeout + Interval
    /\ \A p \in Peer \ peers : since[p] = 0

\* The read loop reports one error, when it ends.
OneError == "read" \in live => readErr = 0

Inv == TypeOK /\ Swept /\ OneError

LEMMA InitInv == Init => Inv
<1> SUFFICES ASSUME Init PROVE Inv
  OBVIOUS
<1> USE DiscoveryAssumption DEF Init, Timeout
<1>1. /\ nextCast \in [Peer -> 0 .. Interval] /\ air \in [Peer -> 0 .. MaxCopies]
      /\ missed \in [Peer -> 0 .. MaxMissed + 1] /\ since \in [Peer -> 0 .. Timeout + Interval]
      /\ nextGC \in 0 .. Interval
  OBVIOUS
<1>2. told \in [Peer -> {"nothing", "added", "removed"}] /\ live \subseteq Goroutine
  OBVIOUS
<1>3. reader \in Seq(Event) /\ Len(reader) <= 1 /\ events \in Seq(Event) /\ Len(events) <= EventRoom
  OBVIOUS
<1>4. cancelled \in BOOLEAN
  BY Zenon
<1>5. readErr \in 0 .. 1
  OBVIOUS
<1> QED
  BY <1>1, <1>2, <1>3, <1>4, <1>5 DEF Inv, TypeOK, Swept, OneError

\* What emit leaves of the queue and of astray.
LEMMA EmitTyped ==
    ASSUME TypeOK, NEW e \in Event, emit(e)
    PROVE  events' \in Seq(Event) /\ Len(events') <= EventRoom /\ astray' \subseteq Peer
<1>1. events' \in Seq(Event) /\ Len(events') <= EventRoom
  <2>1. CASE Len(events) < EventRoom
    BY <2>1, DiscoveryAssumption DEF emit, TypeOK
  <2>2. CASE ~(Len(events) < EventRoom)
    BY <2>2 DEF emit, TypeOK
  <2> QED
    BY <2>1, <2>2
<1>2. e.peer \in Peer
  BY DEF Event
<1> QED
  BY <1>1, <1>2 DEF emit, TypeOK

LEMMA TickKeeps == ASSUME Inv, Tick PROVE Inv'
<1> USE DiscoveryAssumption DEF Inv, TypeOK, Swept, OneError, Tick, Timeout
<1>1. nextGC' \in 0 .. Interval
  OBVIOUS
<1>2. nextCast' \in [Peer -> 0 .. Interval]
  OBVIOUS
<1>3. \A p \in peers : since[p] + 1 + nextGC' <= Timeout + Interval /\ since[p] + 1 \in Nat
  OBVIOUS
<1>4. since' \in [Peer -> 0 .. Timeout + Interval]
  BY <1>1, <1>3
<1> QED
  BY <1>1, <1>2, <1>3, <1>4 DEF eventVars, lifeVars

LEMMA handlePacketKeeps == ASSUME Inv, NEW p \in Peer, handlePacket(p) PROVE Inv'
<1> USE DiscoveryAssumption DEF Inv, TypeOK, Swept, OneError, handlePacket
<1>1. air' \in [Peer -> 0 .. MaxCopies] /\ missed' \in [Peer -> 0 .. MaxMissed + 1]
  OBVIOUS
<1>2. steady' \subseteq up' /\ peers' \subseteq Peer
  OBVIOUS
<1>3. since' \in [Peer -> 0 .. Timeout + Interval] /\ since'[p] = 0
  BY DEF Timeout
<1>4. reader' \in Seq(Event) /\ Len(reader') <= 1
  <2>1. [type |-> "added", peer |-> p] \in Event /\ [type |-> "updated", peer |-> p] \in Event
    BY DEF Event
  <2>2. PICK e \in Event : reader' = <<>> \/ reader' = <<e>>
    BY <2>1
  <2> HIDE DEF Inv, TypeOK, Swept, OneError, handlePacket
  <2>3. CASE reader' = <<>>
    BY <2>3
  <2>4. CASE reader' = <<e>>
    BY <2>4
  <2> QED
    BY <2>2, <2>3, <2>4
<1>5. Swept'
  BY <1>3 DEF Timeout
<1> QED
  BY <1>1, <1>2, <1>3, <1>4, <1>5 DEF eventVars, lifeVars

LEMMA gcOnceKeeps == ASSUME Inv, gcOnce PROVE Inv'
<1> USE DiscoveryAssumption DEF Inv, TypeOK, Swept, OneError, gcOnce, Timeout
<1>1. since' \in [Peer -> 0 .. Timeout + Interval] /\ evicted' \subseteq Peer /\ nextGC' = Interval
  OBVIOUS
<1>2. Swept'
  BY <1>1
<1> QED
  BY <1>1, <1>2 DEF worldVars, eventVars, lifeVars

LEMMA InvStep == Inv /\ [Next]_vars => Inv'
<1> SUFFICES ASSUME Inv, [Next]_vars PROVE Inv'
  OBVIOUS
<1> USE DiscoveryAssumption DEF Inv, TypeOK, Swept, OneError
<1>1. CASE UNCHANGED vars
  BY <1>1 DEF vars, worldVars, tableVars, eventVars, lifeVars
<1>2. CASE Tick
  BY <1>2, TickKeeps
<1>3. ASSUME NEW p \in Peer, Start(p) PROVE Inv'
  BY <1>3 DEF Start, tableVars, eventVars, lifeVars
<1>4. ASSUME NEW p \in Peer, Stop(p) PROVE Inv'
  BY <1>4 DEF Stop, tableVars, eventVars, lifeVars
<1>5. ASSUME NEW p \in Peer, broadcastOnce(p) PROVE Inv'
  BY <1>5 DEF broadcastOnce, tableVars, eventVars, lifeVars
<1>6. ASSUME NEW p \in Peer, Lose(p) PROVE Inv'
  BY <1>6 DEF Lose, tableVars, eventVars, lifeVars
<1>7. ASSUME NEW p \in Peer, handlePacket(p) PROVE Inv'
  BY <1>7, handlePacketKeeps
<1>8. ASSUME NEW p \in Peer, SweepEmits(p) PROVE Inv'
  <2>1. [type |-> "removed", peer |-> p] \in Event
    BY DEF Event
  <2>2. events' \in Seq(Event) /\ Len(events') <= EventRoom /\ astray' \subseteq Peer
    BY <1>8, <2>1, EmitTyped DEF SweepEmits
  <2> QED
    BY <1>8, <2>2 DEF SweepEmits, worldVars, tableVars, lifeVars
<1>9. CASE HandlerEmits
  <2>1. Head(reader) \in Event
    BY <1>9 DEF HandlerEmits
  <2>2. events' \in Seq(Event) /\ Len(events') <= EventRoom /\ astray' \subseteq Peer
    BY <1>9, <2>1, EmitTyped DEF HandlerEmits
  <2>3. reader' \in Seq(Event) /\ Len(reader') <= 1
    BY <1>9 DEF HandlerEmits
  <2> QED
    BY <1>9, <2>2, <2>3 DEF HandlerEmits, worldVars, tableVars, lifeVars
<1>10. CASE gcOnce
  BY <1>10, gcOnceKeeps
<1>11. CASE ReadFails \/ ReadEnds
  <2>1. readErr' \in 0 .. 1
    BY <1>11 DEF ReadFails, ReadEnds
  <2> QED
    BY <1>11, <2>1 DEF ReadFails, ReadEnds, worldVars, tableVars, eventVars
<1>12. CASE Dispatch
  <2>1. Head(events) \in Event /\ Tail(events) \in Seq(Event) /\ Len(Tail(events)) <= EventRoom
    BY <1>12 DEF Dispatch
  <2>2. told' \in [Peer -> {"nothing", "added", "removed"}]
    BY <1>12, <2>1 DEF Dispatch, Event
  <2> QED
    BY <1>12, <2>1, <2>2 DEF Dispatch, worldVars, tableVars, lifeVars
<1>13. CASE Cancel \/ SweepsEnd
  BY <1>13 DEF Cancel, SweepsEnd, worldVars, tableVars, eventVars
<1>14. CASE RunEnds
  BY <1>14 DEF RunEnds, worldVars, tableVars, eventVars
<1> QED
  BY <1>1, <1>2, <1>3, <1>4, <1>5, <1>6, <1>7, <1>8, <1>9, <1>10, <1>11, <1>12, <1>13, <1>14
     DEF Next

LEMMA SpecInv == Spec => []Inv
BY InitInv, InvStep, PTL DEF Spec

\* TypeOK always holds (internal/discovery/discovery.go).
THEOREM TypesHold == Spec => []TypeOK
BY SpecInv, PTL DEF Inv

-----------------------------------------------------------------------------
(* The table implements PeerLease *)

LEMMA LeaseInit == Init => Leases!Init
BY DEF Init, Leases!Init

LEMMA LeaseStep == Inv /\ [Next]_vars => [Leases!Next]_(Leases!vars)
<1> SUFFICES ASSUME Inv, [Next]_vars PROVE [Leases!Next]_(Leases!vars)
  OBVIOUS
<1>1. CASE Tick
  <2>1. \A p \in peers : since[p] < Timeout + Interval
    BY <1>1, DiscoveryAssumption DEF Tick, Inv, TypeOK, Swept, Timeout
  <2>2. Leases!Pass
    BY <1>1, <2>1 DEF Tick, Leases!Pass
  <2> QED
    BY <2>2 DEF Leases!Next
<1>2. ASSUME NEW p \in Peer, handlePacket(p) PROVE Leases!Next
  BY <1>2 DEF handlePacket, Leases!Hear, Leases!Next
<1>3. CASE gcOnce
  <2>1. evicted' \in SUBSET peers /\ \A p \in evicted' : since[p] > Timeout
    BY <1>3 DEF gcOnce
  <2>2. Leases!Expel(evicted')
    BY <1>3, <2>1 DEF gcOnce, Leases!Expel
  <2> QED
    BY <2>1, <2>2 DEF Leases!Next
<1>4. CASE UNCHANGED <<peers, since>>
  BY <1>4 DEF Leases!vars
<1>5. Tick \/ (\E p \in Peer : handlePacket(p)) \/ gcOnce \/ UNCHANGED <<peers, since>>
  BY DEF Next, vars, tableVars, Start, Stop, broadcastOnce, Lose, SweepEmits, HandlerEmits,
     ReadFails, Dispatch, Cancel, SweepsEnd, ReadEnds, RunEnds
<1> QED
  BY <1>1, <1>2, <1>3, <1>4, <1>5

\* LeaseSpec: nobody is expelled before the lease is over, and nobody stays for
\* more than an interval after its end.
THEOREM LeasesKept == Spec => LeaseSpec
<1>1. Inv /\ [Next]_vars => [Leases!Next]_(Leases!vars)
  BY LeaseStep
<1> QED
  BY <1>1, LeaseInit, SpecInv, PTL DEF Spec, LeaseSpec, Leases!Spec

-----------------------------------------------------------------------------
(* No flapping *)

\* The time that m announcements take, for an m of at most two.
Span(m) == IF m = 0 THEN 0 ELSE IF m = 1 THEN Interval ELSE 2 * Interval

\* A peer that was heard since it started has been silent for as long as its last
\* announcements were missed, and the last of them is not lost.
Heard ==
    "read" \in live =>
        /\ \A p \in steady \cap peers : since[p] + nextCast[p] <= Span(missed[p]) + Interval
        /\ \A p \in up : missed[p] > MaxMissed => air[p] > 0

LEMMA InitHeard == Init => Heard
BY DEF Init, Heard

LEMMA HeardStep ==
    ASSUME MaxMissed <= 1
    PROVE  Inv /\ Heard /\ [Next]_vars => Heard'
<1> SUFFICES ASSUME Inv, Heard, [Next]_vars PROVE Heard'
  OBVIOUS
<1> USE DiscoveryAssumption DEF Heard, worldVars, tableVars, eventVars, lifeVars
<1>1. /\ missed \in [Peer -> 0 .. MaxMissed + 1] /\ nextCast \in [Peer -> 0 .. Interval]
      /\ air \in [Peer -> 0 .. MaxCopies] /\ since \in [Peer -> 0 .. 4 * Interval]
      /\ steady \subseteq up /\ up \subseteq Peer /\ peers \subseteq Peer
  BY DEF Inv, TypeOK, Timeout
<1>2. CASE Tick
  <2>1. \A p \in steady \cap peers : since'[p] + nextCast'[p] = since[p] + nextCast[p]
    BY <1>1, <1>2 DEF Tick
  <2> QED
    BY <1>2, <2>1 DEF Tick
<1>3. ASSUME NEW p \in Peer, Start(p) PROVE Heard'
  BY <1>1, <1>3 DEF Start
<1>4. ASSUME NEW p \in Peer, Stop(p) PROVE Heard'
  BY <1>1, <1>4 DEF Stop
<1>5. ASSUME NEW p \in Peer, broadcastOnce(p), "read" \in live PROVE Heard'
  <2>1. missed[p] \in {0, 1} /\ missed[p] <= MaxMissed /\ missed'[p] = missed[p] + 1
    BY <1>1, <1>5 DEF broadcastOnce
  <2>2. nextCast[p] = 0 /\ nextCast'[p] = Interval /\ air'[p] > 0
    BY <1>1, <1>5 DEF broadcastOnce
  <2>3. Span(missed[p]) + Interval = Span(missed'[p])
    BY <2>1 DEF Span
  <2>4. p \in steady \cap peers => since'[p] + nextCast'[p] <= Span(missed'[p]) + Interval
    <3>1. p \in steady \cap peers => since[p] <= Span(missed'[p])
      BY <1>1, <1>5, <2>2, <2>3
    <3>2. since'[p] = since[p] /\ since[p] \in Nat /\ Span(missed'[p]) \in Nat
      BY <1>1, <1>5, <2>1 DEF broadcastOnce, Span
    <3>3. p \in steady \cap peers => since'[p] + Interval <= Span(missed'[p]) + Interval
      BY <3>1, <3>2
    <3> QED
      BY <2>2, <3>3
  <2>5. \A q \in Peer \ {p} : missed'[q] = missed[q] /\ nextCast'[q] = nextCast[q] /\ air'[q] = air[q]
    BY <1>1, <1>5 DEF broadcastOnce
  <2> QED
    BY <1>1, <1>5, <2>2, <2>4, <2>5 DEF broadcastOnce
<1>6. ASSUME NEW p \in Peer, Lose(p) PROVE Heard'
  BY <1>1, <1>6 DEF Lose
<1>7. ASSUME NEW p \in Peer, handlePacket(p) PROVE Heard'
  <2>1. missed'[p] = 0 /\ since'[p] = 0 /\ nextCast'[p] \in 0 .. Interval /\ Span(missed'[p]) = 0
    BY <1>1, <1>7 DEF handlePacket, Span
  <2>2. \A q \in Peer \ {p} : /\ missed'[q] = missed[q] /\ since'[q] = since[q] /\ air'[q] = air[q]
                              /\ nextCast'[q] = nextCast[q]
                              /\ q \in steady' \cap peers' => q \in steady \cap peers
    BY <1>1, <1>7 DEF handlePacket
  <2> QED
    BY <1>1, <1>7, <2>1, <2>2 DEF handlePacket
<1>8. CASE gcOnce
  BY <1>1, <1>8 DEF gcOnce
<1>9. CASE UNCHANGED <<worldVars, tableVars>> /\ live' \subseteq live
  BY <1>9
<1>10. ASSUME NEW p \in Peer, broadcastOnce(p), "read" \notin live PROVE Heard'
  BY <1>10 DEF broadcastOnce
<1>11. \/ Tick \/ gcOnce \/ (UNCHANGED <<worldVars, tableVars>> /\ live' \subseteq live)
       \/ \E p \in Peer : Start(p) \/ Stop(p) \/ broadcastOnce(p) \/ Lose(p) \/ handlePacket(p)
  BY DEF Next, vars, SweepEmits, HandlerEmits, ReadFails, Dispatch, Cancel, SweepsEnd,
     ReadEnds, RunEnds
<1> QED
  BY <1>2, <1>3, <1>4, <1>5, <1>6, <1>7, <1>8, <1>9, <1>10, <1>11

LEMMA NoFlappingStep ==
    ASSUME MaxMissed <= 1, Inv, Heard, [Next]_vars,
           NEW p \in steady \cap steady', "read" \in live', p \in peers
    PROVE  p \in peers'
<1>1. SUFFICES ASSUME gcOnce, p \in evicted' PROVE FALSE
  BY DEF Next, vars, worldVars, tableVars, Tick, Start, Stop, broadcastOnce, Lose, handlePacket,
     SweepEmits, HandlerEmits, gcOnce, ReadFails, Dispatch, Cancel, SweepsEnd, ReadEnds, RunEnds
<1>2. since[p] > 3 * Interval
  BY <1>1 DEF gcOnce, Timeout
<1>3. p \in Peer /\ missed[p] \in 0 .. MaxMissed + 1 /\ nextCast[p] \in 0 .. Interval
  BY DEF Inv, TypeOK
<1>4. since[p] \in Nat /\ since[p] + nextCast[p] <= Span(missed[p]) + Interval
  BY <1>1, <1>3, DiscoveryAssumption DEF Heard, gcOnce, lifeVars, Inv, TypeOK, Timeout
<1>5. Span(missed[p]) <= 2 * Interval /\ Span(missed[p]) \in Nat
  BY <1>3, DiscoveryAssumption DEF Span
<1> QED
  BY <1>2, <1>3, <1>4, <1>5, DiscoveryAssumption

\* NoFlapping, if no two announcements in a row are lost.
THEOREM SteadyPeersStay ==
    ASSUME MaxMissed <= 1
    PROVE  Spec => NoFlapping
<1>1. Inv /\ Heard /\ [Next]_vars
        => [\A p \in steady \cap steady' : "read" \in live' /\ p \in peers => p \in peers']_vars
  BY NoFlappingStep
<1>2. Inv /\ Heard /\ [Next]_vars => Heard'
  BY HeardStep
<1> QED
  BY <1>1, <1>2, InitHeard, SpecInv, PTL DEF Spec, NoFlapping

-----------------------------------------------------------------------------
(* The events tell what is in the table *)

\* Reports and Outlook of p, for a queue q and the last thing t that was told.
Places(q, p) == {i \in DOMAIN q : q[i].peer = p /\ q[i].type # "updated"}

Final(q, t, p) ==
    IF Places(q, p) = {} THEN t
    ELSE q[CHOOSE i \in Places(q, p) : \A j \in Places(q, p) : j <= i].type

\* The choice in Outlook has something to choose.
Ordered(q, p) ==
    Places(q, p) = {} \/ \E i \in Places(q, p) : \A j \in Places(q, p) : j <= i

LEMMA FinalIsLast ==
    ASSUME NEW q \in Seq(Event), NEW t, NEW p, NEW i \in Places(q, p),
           \A j \in Places(q, p) : j <= i
    PROVE  Final(q, t, p) = q[i].type
<1> DEFINE k == CHOOSE m \in Places(q, p) : \A j \in Places(q, p) : j <= m
<1>1. k \in Places(q, p) /\ \A j \in Places(q, p) : j <= k
  OBVIOUS
<1>2. Places(q, p) \subseteq Nat
  BY DEF Places
<1>3. k = i
  <2>1. k <= i /\ i <= k /\ k \in Nat /\ i \in Nat
    BY <1>1, <1>2
  <2> HIDE DEF k
  <2> QED
    BY <2>1
<1>4. Final(q, t, p) = q[k].type
  BY DEF Final
<1> QED
  BY <1>3, <1>4

\* What an event e adds to what a reader of the queue ends up with.
LEMMA FinalOfAppend ==
    ASSUME NEW q \in Seq(Event), NEW t, NEW p, NEW e \in Event, Ordered(q, p)
    PROVE  /\ Ordered(Append(q, e), p)
           /\ Final(Append(q, e), t, p) = IF e.peer = p /\ e.type # "updated" THEN e.type
                                          ELSE Final(q, t, p)
<1> DEFINE r == Append(q, e)
           n == Len(q) + 1
<1>1. r \in Seq(Event) /\ Len(r) = n /\ n \in Nat /\ DOMAIN r = 1 .. n /\ DOMAIN q = 1 .. Len(q)
  OBVIOUS
<1>2. r[n] = e /\ \A i \in 1 .. Len(q) : r[i] = q[i]
  OBVIOUS
<1> HIDE DEF r
<1>3. CASE e.peer = p /\ e.type # "updated"
  <2>1. n \in Places(r, p) /\ \A j \in Places(r, p) : j <= n
    BY <1>1, <1>2, <1>3 DEF Places
  <2>2. Final(r, t, p) = r[n].type
    BY <1>1, <2>1, FinalIsLast
  <2> QED
    BY <1>2, <1>3, <2>1, <2>2 DEF r, Ordered
<1>4. CASE ~(e.peer = p /\ e.type # "updated")
  <2>1. Places(r, p) = Places(q, p)
    BY <1>1, <1>2, <1>4 DEF Places
  <2>2. CASE Places(q, p) = {}
    BY <1>4, <2>1, <2>2 DEF r, Ordered, Final
  <2>3. CASE Places(q, p) # {}
    <3>1. PICK i \in Places(q, p) : \A j \in Places(q, p) : j <= i
      BY <2>3 DEF Ordered
    <3>2. Final(q, t, p) = q[i].type /\ Final(r, t, p) = r[i].type
      BY <1>1, <2>1, <3>1, FinalIsLast
    <3>3. q[i] = r[i]
      BY <1>1, <1>2, <3>1 DEF Places
    <3> QED
      BY <1>4, <2>1, <3>1, <3>2, <3>3 DEF r, Ordered
  <2> QED
    BY <2>2, <2>3
<1> QED
  BY <1>3, <1>4

\* Reading the first event changes nothing of it.
LEMMA FinalOfTail ==
    ASSUME NEW q \in Seq(Event), q # <<>>, NEW t, NEW p, Ordered(q, p)
    PROVE  LET e == Head(q)
               u == IF e.peer = p /\ e.type # "updated" THEN e.type ELSE t
           IN  Ordered(Tail(q), p) /\ Final(Tail(q), u, p) = Final(q, t, p)
<1> DEFINE r == Tail(q)
           e == Head(q)
           u == IF e.peer = p /\ e.type # "updated" THEN e.type ELSE t
<1>1. /\ r \in Seq(Event) /\ Len(q) \in Nat \ {0} /\ Len(r) = Len(q) - 1
      /\ DOMAIN q = 1 .. Len(q) /\ DOMAIN r = 1 .. Len(r) /\ e = q[1]
  OBVIOUS
<1>2. \A i \in 1 .. Len(r) : r[i] = q[i + 1]
  OBVIOUS
<1> HIDE DEF r, e
<1>3. \A i \in Places(r, p) : i + 1 \in Places(q, p) /\ i \in Nat \ {0}
  BY <1>1, <1>2 DEF Places
<1>4. \A i \in Places(q, p) : i \in Nat \ {0} /\ (i = 1 \/ i - 1 \in Places(r, p))
  <2> TAKE i \in Places(q, p)
  <2>1. i \in 1 .. Len(q)
    BY <1>1 DEF Places
  <2>2. CASE i = 1
    BY <2>2
  <2>3. CASE i # 1
    <3>1. i - 1 \in 1 .. Len(r) /\ (i - 1) + 1 = i
      BY <1>1, <2>1, <2>3
    <3>2. r[i - 1] = q[i]
      BY <1>2, <3>1
    <3> QED
      BY <1>1, <2>1, <3>1, <3>2 DEF Places
  <2> QED
    BY <2>2, <2>3
<1>5. CASE Places(r, p) = {}
  <2>1. CASE 1 \in Places(q, p)
    <3>1. \A j \in Places(q, p) : j <= 1
      BY <1>4, <1>5
    <3>2. Final(q, t, p) = q[1].type
      BY <2>1, <3>1, FinalIsLast
    <3>3. u = q[1].type
      BY <1>1, <2>1 DEF Places
    <3> QED
      BY <1>5, <3>2, <3>3 DEF r, e, Ordered, Final
  <2>2. CASE 1 \notin Places(q, p)
    <3>1. Places(q, p) = {}
      BY <1>4, <1>5, <2>2
    <3>2. u = t
      BY <1>1, <2>2 DEF Places
    <3> QED
      BY <1>5, <3>1, <3>2 DEF r, e, Ordered, Final
  <2> QED
    BY <2>1, <2>2
<1>6. CASE Places(r, p) # {}
  <2>1. PICK i \in Places(q, p) : \A j \in Places(q, p) : j <= i
    BY <1>3, <1>6 DEF Ordered
  <2>2. i - 1 \in Places(r, p) /\ \A j \in Places(r, p) : j <= i - 1
    <3>1. PICK m \in Places(r, p) : TRUE
      BY <1>6
    <3>2. i # 1
      BY <1>3, <2>1, <3>1
    <3>3. i - 1 \in Places(r, p)
      BY <1>4, <3>2
    <3>4. \A j \in Places(r, p) : j + 1 <= i /\ j \in Nat /\ i \in Nat
      BY <1>3, <1>4, <2>1
    <3> QED
      BY <3>3, <3>4
  <2>3. Final(q, t, p) = q[i].type /\ Final(r, u, p) = r[i - 1].type
    BY <1>1, <2>1, <2>2, FinalIsLast
  <2>4. r[i - 1] = q[i]
    <3>1. i - 1 \in 1 .. Len(r) /\ i \in Nat
      BY <1>1, <1>4, <2>2 DEF Places
    <3> QED
      BY <1>2, <3>1
  <2> QED
    BY <2>2, <2>3, <2>4 DEF r, e, Ordered
<1> QED
  BY <1>5, <1>6

\* The read loop's event is a PeerAdded of a peer that has just been heard, or a
\* PeerUpdated, which excuses nothing.
Adding(p) == reader # <<>> /\ Head(reader) = [type |-> "added", peer |-> p]

Telling(p) ==
    /\ Ordered(events, p)
    /\ \/ p \in astray \/ p \in evicted \/ Adding(p)
       \/ (Final(events, told[p], p) = "added") <=> p \in peers

ReaderFresh ==
    reader # <<>> =>
        /\ Head(reader) \in Event /\ Head(reader).type # "removed"
        /\ Adding(Head(reader).peer)
             => Head(reader).peer \in peers /\ since[Head(reader).peer] = 0

Tells == (\A p \in Peer : Telling(p)) /\ ReaderFresh

LEMMA InitTells == Init => Tells
<1> SUFFICES ASSUME Init PROVE Tells
  OBVIOUS
<1>1. events = <<>> /\ reader = <<>> /\ peers = {}
  BY DEF Init
<1>2. ASSUME NEW p \in Peer PROVE Places(events, p) = {} /\ told[p] = "nothing"
  BY <1>1 DEF Places, Init
<1> QED
  BY <1>1, <1>2 DEF Tells, Telling, ReaderFresh, Ordered, Final

\* A step that leaves the queue and the table alone.
LEMMA Untouched ==
    ASSUME Tells, UNCHANGED <<peers, events, astray, told, reader, evicted>>,
           \A p \in Peer : since[p] = 0 /\ reader # <<>> => since'[p] = 0
    PROVE  Tells'
BY DEF Tells, Telling, ReaderFresh, Adding, Event

LEMMA EmitTells ==
    ASSUME TypeOK, NEW e \in Event, emit(e), NEW p \in Peer, Ordered(events, p),
           UNCHANGED told
    PROVE  /\ Ordered(events', p)
           /\ e.type = "updated" \/ e.peer # p =>
                /\ p \in astray' <=> p \in astray
                /\ Final(events', told'[p], p) = Final(events, told[p], p)
           /\ e.type # "updated" /\ e.peer = p /\ p \notin astray' =>
                /\ Final(events', told'[p], p) = e.type
                /\ e.type = "removed" => p \notin peers
<1>1. events \in Seq(Event)
  BY DEF TypeOK
<1>2. CASE Len(events) < EventRoom
  <2>1. events' = Append(events, e)
    BY <1>2 DEF emit
  <2>2. /\ Ordered(events', p)
        /\ Final(events', told[p], p) = IF e.peer = p /\ e.type # "updated" THEN e.type
                                        ELSE Final(events, told[p], p)
    BY <1>1, <2>1, FinalOfAppend
  <2>3. e.type = "updated" \/ e.peer # p => (p \in astray' <=> p \in astray)
    BY <1>2 DEF emit
  <2>4. e.type = "removed" /\ e.peer = p /\ p \notin astray' => p \notin peers
    BY <1>2 DEF emit
  <2> QED
    BY <2>2, <2>3, <2>4
<1>3. CASE ~(Len(events) < EventRoom)
  <2>1. events' = events
    BY <1>3 DEF emit
  <2>2. astray' = IF e.type = "updated" THEN astray ELSE astray \cup {e.peer}
    BY <1>3 DEF emit
  <2> QED
    BY <2>1, <2>2
<1> QED
  BY <1>2, <1>3

LEMMA HandlerEmitsTells == ASSUME Inv, Tells, HandlerEmits PROVE Tells'
<1>1. reader # <<>> /\ Head(reader) \in Event /\ emit(Head(reader)) /\ reader' = <<>>
  BY DEF HandlerEmits, Tells, ReaderFresh
<1>2. UNCHANGED <<peers, since, evicted, told>>
  BY DEF HandlerEmits, tableVars
<1>3. ASSUME NEW p \in Peer PROVE Telling(p)'
  <2> DEFINE e == Head(reader)
  <2>1. Telling(p) /\ Ordered(events, p)
    BY DEF Tells, Telling
  <2>2. /\ Ordered(events', p)
        /\ e.type = "updated" \/ e.peer # p =>
             /\ p \in astray' <=> p \in astray
             /\ Final(events', told'[p], p) = Final(events, told[p], p)
        /\ e.type # "updated" /\ e.peer = p /\ p \notin astray' =>
             /\ Final(events', told'[p], p) = e.type
             /\ e.type = "removed" => p \notin peers
    BY <1>1, <1>2, <2>1, EmitTells DEF Inv
  <2>3. CASE e.type = "updated" \/ e.peer # p
    <3>1. ~Adding(p)
      BY <2>3 DEF Adding
    <3> QED
      BY <1>2, <2>1, <2>2, <2>3, <3>1 DEF Telling
  <2>4. CASE e.type = "added" /\ e.peer = p
    <3>1. Adding(p)
      BY <1>1, <2>4 DEF Adding, Event
    <3>2. p \in peers
      BY <1>1, <2>4, <3>1 DEF Tells, ReaderFresh
    <3> QED
      BY <1>2, <2>2, <2>4, <3>2 DEF Telling
  <2>5. e.type \in {"added", "updated"}
    BY <1>1 DEF Tells, ReaderFresh, Event
  <2> QED
    BY <2>3, <2>4, <2>5
<1> QED
  BY <1>1, <1>3 DEF Tells, ReaderFresh

LEMMA SweepEmitsTells == ASSUME Inv, Tells, NEW q \in Peer, SweepEmits(q) PROVE Tells'
<1> DEFINE e == [type |-> "removed", peer |-> q]
<1>1. e \in Event /\ emit(e) /\ evicted' = evicted \ {q}
  BY DEF SweepEmits, Event
<1>2. UNCHANGED <<peers, since, reader, told>>
  BY DEF SweepEmits, tableVars
<1>3. ASSUME NEW p \in Peer PROVE Telling(p)'
  <2>1. Telling(p) /\ Ordered(events, p)
    BY DEF Tells, Telling
  <2>2. /\ Ordered(events', p)
        /\ e.type = "updated" \/ e.peer # p =>
             /\ p \in astray' <=> p \in astray
             /\ Final(events', told'[p], p) = Final(events, told[p], p)
        /\ e.type # "updated" /\ e.peer = p /\ p \notin astray' =>
             /\ Final(events', told'[p], p) = e.type
             /\ e.type = "removed" => p \notin peers
    BY <1>1, <1>2, <2>1, EmitTells DEF Inv
  <2>3. CASE p # q
    BY <1>1, <1>2, <2>1, <2>2, <2>3 DEF Telling, Adding
  <2>4. CASE p = q
    BY <1>2, <2>2, <2>4 DEF Telling
  <2> QED
    BY <2>3, <2>4
<1> QED
  BY <1>2, <1>3 DEF Tells, ReaderFresh, Adding

LEMMA handlePacketTells == ASSUME Inv, Tells, NEW q \in Peer, handlePacket(q) PROVE Tells'
<1>1. reader = <<>> /\ UNCHANGED <<events, astray, told, evicted>>
  BY DEF handlePacket, eventVars
<1>2. since'[q] = 0 /\ peers' = peers \cup {q}
  BY DEF handlePacket, Inv, TypeOK
<1> DEFINE a == [type |-> "added", peer |-> q]
           u == [type |-> "updated", peer |-> q]
<1>3. a \in Event /\ u \in Event /\ a.type = "added" /\ a.peer = q /\ u.type = "updated"
  BY DEF Event
<1>4. \/ q \notin peers /\ reader' = <<a>>
      \/ q \in peers /\ (reader' = <<>> \/ reader' = <<u>>)
  BY DEF handlePacket
<1> HIDE DEF a, u
<1>5. ReaderFresh'
  <2>1. CASE reader' = <<a>>
    <3>1. Head(reader') = a
      BY <2>1
    <3> QED
      BY <1>2, <1>3, <3>1 DEF ReaderFresh
  <2>2. CASE reader' = <<u>>
    <3>1. Head(reader') = u
      BY <2>2
    <3> QED
      BY <1>3, <3>1 DEF ReaderFresh, Adding
  <2>3. CASE reader' = <<>>
    BY <2>3 DEF ReaderFresh
  <2> QED
    BY <1>4, <2>1, <2>2, <2>3
<1>6. ASSUME NEW p \in Peer PROVE Telling(p)'
  <2>1. Telling(p) /\ ~Adding(p)
    BY <1>1 DEF Tells, Adding
  <2>2. CASE p # q \/ q \in peers
    BY <1>1, <1>2, <2>1, <2>2 DEF Telling
  <2>3. CASE p = q /\ q \notin peers
    <3>1. reader' # <<>> /\ Head(reader') = a
      BY <1>4, <2>3
    <3> QED
      BY <1>1, <2>1, <2>3, <3>1 DEF Telling, Adding, a
  <2> QED
    BY <2>2, <2>3
<1> QED
  BY <1>5, <1>6 DEF Tells

LEMMA gcOnceTells == ASSUME Inv, Tells, gcOnce PROVE Tells'
<1>1. UNCHANGED <<events, astray, told, reader>> /\ evicted = {}
  BY DEF gcOnce, eventVars
<1>2. \A p \in Peer : since[p] = 0 => since'[p] = 0 /\ p \notin evicted'
  BY DiscoveryAssumption DEF gcOnce, Timeout
<1>3. \A p \in Peer : p \notin evicted' => (p \in peers <=> p \in peers')
  BY DEF gcOnce
<1>4. ASSUME NEW p \in Peer PROVE Telling(p)'
  BY <1>1, <1>3 DEF Tells, Telling, Adding
<1>5. ReaderFresh'
  BY <1>1, <1>2, <1>3 DEF Tells, ReaderFresh, Adding, Event
<1> QED
  BY <1>4, <1>5 DEF Tells

LEMMA DispatchTells == ASSUME Inv, Tells, Dispatch PROVE Tells'
<1>1. events # <<>> /\ events' = Tail(events) /\ UNCHANGED <<peers, since, reader, evicted, astray>>
  BY DEF Dispatch, tableVars
<1>2. ASSUME NEW p \in Peer PROVE Telling(p)'
  <2> DEFINE e == Head(events)
  <2>1. events \in Seq(Event) /\ e \in Event /\ told \in [Peer -> {"nothing", "added", "removed"}]
    BY <1>1 DEF Inv, TypeOK
  <2>2. told'[p] = IF e.peer = p /\ e.type # "updated" THEN e.type ELSE told[p]
    BY <2>1 DEF Dispatch, Event
  <2>3. Telling(p) /\ Ordered(events, p)
    BY DEF Tells, Telling
  <2>4. Ordered(events', p) /\ Final(events', told'[p], p) = Final(events, told[p], p)
    BY <1>1, <2>1, <2>2, <2>3, FinalOfTail
  <2> QED
    BY <1>1, <2>3, <2>4 DEF Telling, Adding
<1> QED
  BY <1>1, <1>2 DEF Tells, ReaderFresh, Adding

LEMMA TellsStep == Inv /\ Tells /\ [Next]_vars => Tells'
<1> SUFFICES ASSUME Inv, Tells, [Next]_vars PROVE Tells'
  OBVIOUS
<1>1. CASE Tick
  BY <1>1, Untouched DEF Tick, eventVars
<1>2. CASE UNCHANGED <<peers, since, events, astray, told, reader, evicted>>
  BY <1>2, Untouched
<1>3. \/ Tick \/ HandlerEmits \/ gcOnce \/ Dispatch
      \/ \E p \in Peer : handlePacket(p) \/ SweepEmits(p)
      \/ UNCHANGED <<peers, since, events, astray, told, reader, evicted>>
  BY DEF Next, vars, worldVars, tableVars, eventVars, Start, Stop, broadcastOnce, Lose,
     ReadFails, Cancel, SweepsEnd, ReadEnds, RunEnds
<1> QED
  BY <1>1, <1>2, <1>3, HandlerEmitsTells, gcOnceTells, DispatchTells, handlePacketTells,
     SweepEmitsTells

\* EventsTell: whoever reads the queue to its end knows of every peer whether it has
\* an entry, but for the exceptions that the property names.
THEOREM QueueTells == Spec => []EventsTell
<1>1. Tells => EventsTell
  <2> SUFFICES ASSUME Tells, NEW p \in Peer, ~(p \in astray \/ p \in evicted),
                      ~(reader # <<>> /\ Head(reader).peer = p)
               PROVE  (Outlook(p) = "added") <=> p \in peers
    BY DEF EventsTell
  <2>1. Telling(p) /\ ~Adding(p)
    BY DEF Tells, Adding
  <2>2. Outlook(p) = Final(events, told[p], p)
    BY DEF Outlook, Final, Reports, Places
  <2> QED
    BY <2>1, <2>2 DEF Telling
<1> QED
  BY <1>1, InitTells, TellsStep, SpecInv, PTL DEF Spec
=============================================================================
