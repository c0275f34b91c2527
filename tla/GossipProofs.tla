---------------------------- MODULE GossipProofs ----------------------------
(***************************************************************************)
(* Proofs that no roster entry is forgotten on its way, for any nodes,     *)
(* peers, rosters, channels and faults.                                    *)
(*                                                                         *)
(* NoEntryLost is inductive but for two facts.  A pump does not pass what  *)
(* it merged on to the peer it came from, so that peer must have it        *)
(* (AddedKnown), for which a message may list only entries of its sender's *)
(* roster; that is in TypeOK.                                              *)
(***************************************************************************)
EXTENDS Gossip, TLAPS

Pipes == pipe \in [Node -> [Node -> Seq(SUBSET Peer)]]

Types == TypeOK /\ Pipes

\* What a pump has to pass on came from the peer, which still has it.
AddedKnown == \A n, p \in Node : job[n][p].step = "merged" => job[n][p].added \subseteq roster[p]

-----------------------------------------------------------------------------
(* The parts of a step *)

LEMMA GoesOneWay ==
    ASSUME Types, NEW n \in Node, NEW p \in Node, NEW where \in Ends, Goes(n, p, where)
    PROVE  /\ end' \in [Node -> [Node -> Ends]] /\ end'[n][p] = where
           /\ \A m, q \in Node : <<m, q>> # <<n, p>> => end'[m][q] = end[m][q]
BY DEF Types, TypeOK, Goes

LEMMA JobGiven ==
    ASSUME Types, NEW n \in Node, NEW p \in Node, NEW j \in Jobs, Job(n, p, j)
    PROVE  /\ job' \in [Node -> [Node -> Jobs]] /\ job'[n][p] = j
           /\ \A m, q \in Node : <<m, q>> # <<n, p>> => job'[m][q] = job[m][q]
BY DEF Types, TypeOK, Job

LEMMA Queued ==
    ASSUME NEW S, NEW q \in Seq(S), NEW x \in S
    PROVE  /\ Append(q, x) \in Seq(S) /\ DOMAIN q \subseteq DOMAIN Append(q, x)
           /\ \A i \in DOMAIN q : Append(q, x)[i] = q[i]
           /\ \A i \in DOMAIN Append(q, x) : i \in DOMAIN q \/ Append(q, x)[i] = x
           /\ \E i \in DOMAIN Append(q, x) : Append(q, x)[i] = x
<1>1. DOMAIN q = 1 .. Len(q) /\ Len(q) \in Nat
  OBVIOUS
<1>2. Append(q, x) \in Seq(S) /\ DOMAIN Append(q, x) = 1 .. Len(q) + 1
  OBVIOUS
<1>3. \A i \in 1 .. Len(q) : Append(q, x)[i] = q[i]
  OBVIOUS
<1>4. Append(q, x)[Len(q) + 1] = x /\ Len(q) + 1 \in 1 .. Len(q) + 1
  BY <1>1
<1> QED
  BY <1>1, <1>2, <1>3, <1>4

LEMMA Shortened ==
    ASSUME NEW S, NEW q \in Seq(S), q # <<>>
    PROVE  /\ Tail(q) \in Seq(S) /\ Head(q) \in S
           /\ \A i \in DOMAIN Tail(q) : \E j \in DOMAIN q : Tail(q)[i] = q[j]
           /\ \A i \in DOMAIN q : q[i] = Head(q) \/ \E j \in DOMAIN Tail(q) : Tail(q)[j] = q[i]
           /\ \E i \in DOMAIN q : q[i] = Head(q)
<1>1. DOMAIN q = 1 .. Len(q) /\ Len(q) \in Nat /\ Len(q) > 0
  OBVIOUS
<1>2. Tail(q) \in Seq(S) /\ DOMAIN Tail(q) = 1 .. Len(q) - 1
  OBVIOUS
<1>3. \A i \in 1 .. Len(q) - 1 : Tail(q)[i] = q[i + 1]
  OBVIOUS
<1>4. Head(q) \in S /\ Head(q) = q[1] /\ 1 \in DOMAIN q
  BY <1>1
<1>5. \A i \in DOMAIN Tail(q) : i + 1 \in DOMAIN q
  BY <1>1, <1>2
<1>6. \A i \in DOMAIN q : i = 1 \/ (i - 1 \in DOMAIN Tail(q) /\ Tail(q)[i - 1] = q[i])
  BY <1>1, <1>2, <1>3
<1> QED
  BY <1>2, <1>3, <1>4, <1>5, <1>6

\* A message reaches a standing connection's pipe and changes no other.
LEMMA Sent ==
    ASSUME Types, NEW n \in Node, NEW p \in Node, NEW entries \in SUBSET Peer,
           Send(n, p, entries)
    PROVE  /\ Pipes'
           /\ \A m, q \in Node : <<m, q>> # <<n, p>> => pipe'[m][q] = pipe[m][q]
           /\ \A i \in DOMAIN pipe[n][p] : i \in DOMAIN pipe'[n][p] /\ pipe'[n][p][i] = pipe[n][p][i]
           /\ \A i \in DOMAIN pipe'[n][p] :
                \/ i \in DOMAIN pipe[n][p] /\ pipe'[n][p][i] = pipe[n][p][i]
                \/ pipe'[n][p][i] = entries
           /\ Live(n, p) => \E i \in DOMAIN pipe'[n][p] : pipe'[n][p][i] = entries
<1>1. CASE ~Live(n, p)
  <2>1. pipe' = pipe
    BY <1>1 DEF Send
  <2> QED
    BY <1>1, <2>1 DEF Types, Pipes
<1>2. CASE Live(n, p)
  <2>1. pipe' = [pipe EXCEPT ![n][p] = Append(pipe[n][p], entries)]
    BY <1>2 DEF Send
  <2>2. pipe[n][p] \in Seq(SUBSET Peer)
    BY DEF Types, Pipes
  <2>3. Append(pipe[n][p], entries) \in Seq(SUBSET Peer)
    BY <2>2, Queued
  <2>4. /\ pipe'[n][p] = Append(pipe[n][p], entries)
        /\ Pipes' /\ \A m, q \in Node : <<m, q>> # <<n, p>> => pipe'[m][q] = pipe[m][q]
    BY <2>1, <2>3 DEF Types, Pipes
  <2> QED
    BY <2>2, <2>4, Queued
<1> QED
  BY <1>1, <1>2

LEMMA Received ==
    ASSUME Types, NEW n \in Node, NEW p \in Node, pipe[p][n] # <<>>,
           pipe' = [pipe EXCEPT ![p][n] = Tail(@)]
    PROVE  /\ Pipes' /\ Head(pipe[p][n]) \in SUBSET Peer
           /\ Head(pipe[p][n]) \subseteq roster[p]
           /\ \A m, q \in Node : <<m, q>> # <<p, n>> => pipe'[m][q] = pipe[m][q]
           /\ \A i \in DOMAIN pipe'[p][n] : \E j \in DOMAIN pipe[p][n] : pipe'[p][n][i] = pipe[p][n][j]
           /\ \A i \in DOMAIN pipe[p][n] :
                \/ pipe[p][n][i] = Head(pipe[p][n])
                \/ \E j \in DOMAIN pipe'[p][n] : pipe'[p][n][j] = pipe[p][n][i]
<1>1. pipe[p][n] \in Seq(SUBSET Peer)
  BY DEF Types, Pipes
<1>2. Tail(pipe[p][n]) \in Seq(SUBSET Peer)
  BY <1>1, Shortened
<1>3. /\ pipe'[p][n] = Tail(pipe[p][n])
      /\ Pipes' /\ \A m, q \in Node : <<m, q>> # <<p, n>> => pipe'[m][q] = pipe[m][q]
  BY <1>2 DEF Types, Pipes
<1>4. Head(pipe[p][n]) \subseteq roster[p]
  BY <1>1, Shortened DEF Types, TypeOK
<1> QED
  BY <1>1, <1>3, <1>4, Shortened

LEMMA Emptied ==
    ASSUME Types, NEW n \in Node, NEW p \in Node, pipe' = [pipe EXCEPT ![p][n] = <<>>]
    PROVE  /\ Pipes' /\ pipe'[p][n] = <<>>
           /\ \A m, q \in Node : <<m, q>> # <<p, n>> => pipe'[m][q] = pipe[m][q]
BY DEF Types, Pipes

-----------------------------------------------------------------------------
(* The type invariant *)

LEMMA InitTyped == Init => Types
<1> SUFFICES ASSUME Init PROVE Types
  OBVIOUS
<1>1. Pipes
  BY DEF Init, Pipes
<1>2. \A n, p \in Node : pipe[n][p] = <<>> /\ job[n][p] = Idle
  BY DEF Init
<1>3. Idle \in Jobs /\ Idle.step = "idle"
  BY DEF Idle, Jobs
<1>4. roster \in [Node -> SUBSET Peer] /\ end \in [Node -> [Node -> Ends]] /\ live = {}
  BY GossipAssumption DEF Init, Ends
<1>5. job \in [Node -> [Node -> Jobs]]
  BY <1>3 DEF Init
<1>6. links \in 0 .. MaxEvent /\ faults \in 0 .. MaxFault
  BY GossipAssumption DEF Init
<1> QED
  BY <1>1, <1>2, <1>3, <1>4, <1>5, <1>6 DEF Types, TypeOK

-----------------------------------------------------------------------------
(* Steps of a channel *)

Inv == Types /\ AddedKnown /\ NoEntryLost

\* What must hold of one roster entry and one channel.
Covered(a, b, e) == e \in roster[b] \/ OnItsWay(a, b, e)

LEMMA Covering ==
    ASSUME NoEntryLost, NEW a \in Node, NEW b \in Node, Live(a, b), b \in Registered(a),
           NEW e \in roster[a]
    PROVE  Covered(a, b, e)
BY DEF NoEntryLost, Covered

LEMMA Busy ==
    ASSUME Inv
    PROVE  \A m, q \in Node : job[m][q].step # "idle" => end[m][q] = "pump"
BY DEF Inv, Types, TypeOK

\* A message lists entries of its sender's roster.
LEMMA Honest ==
    ASSUME Inv
    PROVE  \A m, q \in Node : \A i \in DOMAIN pipe[m][q] : pipe[m][q][i] \subseteq roster[m]
BY DEF Inv, Types, TypeOK

LEMMA Reduced ==
    ASSUME NEW j \in Jobs, NEW left \in SUBSET Node
    PROVE  /\ [j EXCEPT !.left = left] \in Jobs
           /\ [j EXCEPT !.left = left].step = j.step
           /\ [j EXCEPT !.left = left].left = left
           /\ [j EXCEPT !.left = left].added = j.added
BY DEF Jobs

LEMMA RegisterKeeps ==
    ASSUME Inv, NEW n \in Node, NEW p \in Node, Register(n, p)
    PROVE  Inv'
<1>1. /\ UNCHANGED <<roster, live, job, pipe, bounds>> /\ Goes(n, p, "greet")
      /\ end[n][p] = "hello" /\ "greet" \in Ends
  BY DEF Register, Ends
<1>2. /\ end' \in [Node -> [Node -> Ends]] /\ end'[n][p] = "greet"
      /\ \A m, q \in Node : <<m, q>> # <<n, p>> => end'[m][q] = end[m][q]
  BY <1>1, GoesOneWay DEF Inv
<1>3. job[n][p].step = "idle"
  BY <1>1 DEF Inv, Types, TypeOK
<1>4. Types'
  <2>1. \A m, q \in Node : job'[m][q].step # "idle" => end'[m][q] = "pump"
    BY <1>1, <1>2, <1>3, Busy
  <2> QED
    BY <1>1, <1>2, <2>1 DEF Inv, Types, Pipes, TypeOK, bounds
<1>5. AddedKnown'
  BY <1>1 DEF Inv, AddedKnown
<1>6. ASSUME NEW a \in Node, NEW b \in Node, Live(a, b)', b \in Registered(a)', NEW e \in roster'[a]
      PROVE  Covered(a, b, e)'
  <2>1. CASE <<a, b>> = <<n, p>>
    BY <2>1, <1>2 DEF Covered, OnItsWay
  <2>2. CASE <<a, b>> # <<n, p>>
    <3>1. Covered(a, b, e)
      BY <1>1, <1>2, <1>6, <2>2, Covering DEF Inv, Live, Registered
    <3> QED
      BY <1>1, <1>2, <2>2, <3>1 DEF Covered, OnItsWay
  <2> QED
    BY <2>1, <2>2
<1> QED
  BY <1>4, <1>5, <1>6 DEF Inv, NoEntryLost, Covered

LEMMA GreetKeeps ==
    ASSUME Inv, NEW n \in Node, NEW p \in Node, Greet(n, p)
    PROVE  Inv'
<1>1. /\ UNCHANGED <<roster, live, job, bounds>> /\ Goes(n, p, "pump")
      /\ Send(n, p, roster[n]) /\ "pump" \in Ends /\ roster[n] \in SUBSET Peer
  BY DEF Greet, Ends, Inv, Types, TypeOK
<1>2. /\ end' \in [Node -> [Node -> Ends]] /\ end'[n][p] = "pump"
      /\ \A m, q \in Node : <<m, q>> # <<n, p>> => end'[m][q] = end[m][q]
  BY <1>1, GoesOneWay DEF Inv
<1>3. /\ Pipes'
      /\ \A m, q \in Node : <<m, q>> # <<n, p>> => pipe'[m][q] = pipe[m][q]
      /\ \A i \in DOMAIN pipe'[n][p] :
           \/ i \in DOMAIN pipe[n][p] /\ pipe'[n][p][i] = pipe[n][p][i]
           \/ pipe'[n][p][i] = roster[n]
      /\ Live(n, p) => \E i \in DOMAIN pipe'[n][p] : pipe'[n][p][i] = roster[n]
  BY <1>1, Sent DEF Inv
<1>4. Types'
  <2>1. \A m, q \in Node : \A i \in DOMAIN pipe'[m][q] : pipe'[m][q][i] \subseteq roster'[m]
    BY <1>1, <1>3 DEF Inv, Types, TypeOK
  <2>2. \A m, q \in Node : job'[m][q].step # "idle" => end'[m][q] = "pump"
    BY <1>1, <1>2, Busy
  <2> QED
    BY <1>1, <1>2, <1>3, <2>1, <2>2 DEF Inv, Types, TypeOK, bounds
<1>5. AddedKnown'
  BY <1>1 DEF Inv, AddedKnown
<1>6. ASSUME NEW a \in Node, NEW b \in Node, Live(a, b)', b \in Registered(a)', NEW e \in roster'[a]
      PROVE  Covered(a, b, e)'
  <2>1. CASE <<a, b>> = <<n, p>>
    BY <2>1, <1>1, <1>3, <1>6 DEF Covered, OnItsWay, Live
  <2>2. CASE <<a, b>> # <<n, p>>
    <3>1. Covered(a, b, e)
      BY <1>1, <1>2, <1>6, <2>2, Covering DEF Inv, Live, Registered
    <3> QED
      BY <1>1, <1>2, <1>3, <2>2, <3>1 DEF Covered, OnItsWay
  <2> QED
    BY <2>1, <2>2
<1> QED
  BY <1>4, <1>5, <1>6 DEF Inv, NoEntryLost, Covered

\* The head of the pipe becomes part of the roster, and what is new of it the
\* pump's job; all else is where it was.
LEMMA MergeKeeps ==
    ASSUME Inv, NEW n \in Node, NEW p \in Node, MergeRoster(n, p)
    PROVE  Inv'
<1> DEFINE entries == Head(pipe[p][n])
           new == entries \ roster[n]
<1>1. /\ UNCHANGED <<live, end, bounds>> /\ PassOn(n, p, new)
      /\ roster' = [roster EXCEPT ![n] = @ \cup entries]
      /\ end[n][p] = "pump" /\ job[n][p].step = "idle" /\ pipe[p][n] # <<>>
      /\ pipe' = [pipe EXCEPT ![p][n] = Tail(@)]
  BY DEF MergeRoster, Pumping
<1>2. /\ Pipes' /\ entries \in SUBSET Peer /\ entries \subseteq roster[p]
      /\ \A m, q \in Node : <<m, q>> # <<p, n>> => pipe'[m][q] = pipe[m][q]
      /\ \A i \in DOMAIN pipe'[p][n] : \E j \in DOMAIN pipe[p][n] : pipe'[p][n][i] = pipe[p][n][j]
      /\ \A i \in DOMAIN pipe[p][n] :
           \/ pipe[p][n][i] = entries
           \/ \E j \in DOMAIN pipe'[p][n] : pipe'[p][n][j] = pipe[p][n][i]
  BY <1>1, Received DEF Inv
<1> HIDE DEF entries
<1>3. /\ roster' \in [Node -> SUBSET Peer] /\ roster'[n] = roster[n] \cup entries
      /\ \A m \in Node : m # n => roster'[m] = roster[m]
  BY <1>1, <1>2 DEF Inv, Types, TypeOK
<1>4. \A m \in Node : roster[m] \subseteq roster'[m]
  BY <1>3
<1>5. /\ job' \in [Node -> [Node -> Jobs]]
      /\ new # {} => job'[n][p] = Merged(new)
      /\ new = {} => job'[n][p] = job[n][p]
      /\ \A m, q \in Node : <<m, q>> # <<n, p>> => job'[m][q] = job[m][q]
  <2>1. CASE new = {}
    BY <2>1, <1>1 DEF PassOn, Inv, Types, TypeOK
  <2>2. CASE new # {}
    <3>1. Merged(new) \in Jobs
      BY <1>2 DEF Merged, Jobs
    <3>2. Job(n, p, Merged(new))
      BY <2>2, <1>1 DEF PassOn
    <3> QED
      BY <2>2, <3>1, <3>2, JobGiven DEF Inv
  <2> QED
    BY <2>1, <2>2
<1>6. Merged(new).step = "merged" /\ Merged(new).added = new
  BY DEF Merged
<1>7. Types'
  <2>1. \A m, q \in Node : \A i \in DOMAIN pipe'[m][q] : pipe'[m][q][i] \subseteq roster'[m]
    <3>1. \A m, q \in Node : \A i \in DOMAIN pipe[m][q] : pipe[m][q][i] \subseteq roster'[m]
      BY <1>4 DEF Inv, Types, TypeOK
    <3> QED
      BY <1>2, <3>1
  <2>2. \A m, q \in Node : job'[m][q].step # "idle" => end'[m][q] = "pump"
    <3>1. \A m, q \in Node : <<m, q>> # <<n, p>> => job'[m][q] = job[m][q]
      BY <1>5
    <3> QED
      BY <1>1, <3>1, Busy
  <2> QED
    BY <1>1, <1>2, <1>3, <1>5, <2>1, <2>2 DEF Inv, Types, TypeOK, bounds
<1>8. AddedKnown'
  <2>1. new \subseteq roster'[p]
    BY <1>2, <1>4
  <2>2. ASSUME NEW m \in Node, NEW q \in Node, job'[m][q].step = "merged"
        PROVE  job'[m][q].added \subseteq roster'[q]
    <3>1. CASE <<m, q>> = <<n, p>>
      BY <3>1, <2>1, <2>2, <1>1, <1>5, <1>6
    <3>2. CASE <<m, q>> # <<n, p>>
      BY <3>2, <2>2, <1>4, <1>5 DEF Inv, AddedKnown
    <3> QED
      BY <3>1, <3>2
  <2> QED
    BY <2>2 DEF AddedKnown
<1>9. ASSUME NEW a \in Node, NEW b \in Node, Live(a, b)', b \in Registered(a)', NEW e \in roster'[a]
      PROVE  Covered(a, b, e)'
  <2>1. CASE e \notin roster[a]
    <3>1. a = n /\ e \in new
      BY <2>1, <1>3, <1>9
    <3>2. job'[n][p].step = "merged" /\ e \in job'[n][p].added
      BY <3>1, <1>5, <1>6
    <3> QED
      BY <3>1, <3>2 DEF Covered, OnItsWay
  <2>2. CASE e \in roster[a]
    <3>1. Covered(a, b, e)
      BY <1>1, <1>9, <2>2, Covering DEF Inv, Live, Registered
    <3>2. CASE e \in roster[b] \/ end[a][b] = "greet"
      BY <3>2, <1>1, <1>4 DEF Covered, OnItsWay
    <3>3. ASSUME NEW i \in DOMAIN pipe[a][b], e \in pipe[a][b][i] PROVE Covered(a, b, e)'
      <4>1. CASE <<a, b>> = <<p, n>>
        BY <3>3, <4>1, <1>2, <1>3 DEF Covered, OnItsWay
      <4>2. CASE <<a, b>> # <<p, n>>
        BY <3>3, <4>2, <1>2 DEF Covered, OnItsWay
      <4> QED
        BY <4>1, <4>2
    <3>4. ASSUME NEW q \in Node, job[a][q].step # "idle" PROVE job'[a][q] = job[a][q]
      BY <3>4, <1>1, <1>5
    <3> QED
      BY <3>1, <3>2, <3>3, <3>4 DEF Covered, OnItsWay
  <2> QED
    BY <2>1, <2>2
<1> QED
  BY <1>7, <1>8, <1>9 DEF Inv, NoEntryLost, Covered

\* A pump that is telling the others has them in left until it has told them.
LEMMA BroadcastKeeps ==
    ASSUME Inv, NEW n \in Node, NEW p \in Node, BroadcastRoster(n, p)
    PROVE  Inv'
<1> DEFINE told == [job[n][p] EXCEPT !.step = "telling", !.left = Registered(n) \ {p}]
<1>1. UNCHANGED <<roster, linkVars, bounds>> /\ job[n][p].step = "merged" /\ Job(n, p, told)
  BY DEF BroadcastRoster
<1>2. roster' = roster /\ live' = live /\ end' = end /\ pipe' = pipe /\ UNCHANGED bounds
  BY <1>1 DEF linkVars
<1>3. told \in Jobs /\ told.step = "telling" /\ told.left = Registered(n) \ {p}
  <2>1. job[n][p] \in Jobs /\ Registered(n) \ {p} \in SUBSET Node
    BY DEF Inv, Types, TypeOK, Registered
  <2> QED
    BY <2>1 DEF Jobs
<1> HIDE DEF told
<1>4. /\ job' \in [Node -> [Node -> Jobs]] /\ job'[n][p] = told
      /\ \A m, q \in Node : <<m, q>> # <<n, p>> => job'[m][q] = job[m][q]
  BY <1>1, <1>3, JobGiven DEF Inv
<1>5. Types'
  <2>1. \A m, q \in Node : job'[m][q].step # "idle" => end'[m][q] = "pump"
    BY <1>1, <1>2, <1>4, Busy
  <2> QED
    BY <1>2, <1>4, <2>1 DEF Inv, Types, Pipes, TypeOK, bounds
<1>6. AddedKnown'
  BY <1>2, <1>3, <1>4 DEF Inv, AddedKnown
<1>7. ASSUME NEW a \in Node, NEW b \in Node, Live(a, b)', b \in Registered(a)', NEW e \in roster'[a]
      PROVE  Covered(a, b, e)'
  <2>1. Covered(a, b, e) /\ b \in Registered(a)
    BY <1>2, <1>7, Covering DEF Inv, Live, Registered
  <2>2. CASE \/ e \in roster[b] \/ end[a][b] = "greet"
             \/ \E i \in DOMAIN pipe[a][b] : e \in pipe[a][b][i]
    BY <2>2, <1>2 DEF Covered, OnItsWay
  <2>3. ASSUME NEW q \in Node, job[a][q].step = "merged" /\ e \in job[a][q].added
        PROVE  Covered(a, b, e)'
    <3>1. CASE <<a, q>> = <<n, p>>
      <4>1. CASE b = p
        BY <2>3, <3>1, <4>1, <1>2 DEF Inv, AddedKnown, Covered
      <4>2. CASE b # p
        <5>1. job'[a][p].step = "telling" /\ b \in job'[a][p].left
          BY <2>1, <3>1, <4>2, <1>3, <1>4
        <5> QED
          BY <5>1 DEF Covered, OnItsWay
      <4> QED
        BY <4>1, <4>2
    <3>2. CASE <<a, q>> # <<n, p>>
      BY <2>3, <3>2, <1>4 DEF Covered, OnItsWay
    <3> QED
      BY <3>1, <3>2
  <2>4. ASSUME NEW q \in Node, job[a][q].step = "telling" /\ b \in job[a][q].left
        PROVE  Covered(a, b, e)'
    <3>1. job'[a][q] = job[a][q]
      BY <2>4, <1>1, <1>4
    <3> QED
      BY <2>4, <3>1 DEF Covered, OnItsWay
  <2> QED
    BY <2>1, <2>2, <2>3, <2>4 DEF Covered, OnItsWay
<1> QED
  BY <1>5, <1>6, <1>7 DEF Inv, NoEntryLost, Covered

LEMMA SendKeeps ==
    ASSUME Inv, NEW n \in Node, NEW p \in Node, NEW q \in Node, SendRosterTo(n, p, q)
    PROVE  Inv'
<1> DEFINE rest == [job[n][p] EXCEPT !.left = @ \ {q}]
<1>1. /\ UNCHANGED <<roster, live, end, bounds>> /\ job[n][p].step = "telling"
      /\ Job(n, p, rest) /\ Send(n, q, roster[n]) /\ roster[n] \in SUBSET Peer
  BY DEF SendRosterTo, Inv, Types, TypeOK
<1>2. rest \in Jobs /\ rest.step = "telling" /\ rest.left = job[n][p].left \ {q}
  <2>1. job[n][p] \in Jobs
    BY DEF Inv, Types, TypeOK
  <2>2. job[n][p].left \ {q} \in SUBSET Node
    BY <2>1 DEF Jobs
  <2> QED
    BY <1>1, <2>1, <2>2, Reduced
<1> HIDE DEF rest
<1>3. /\ job' \in [Node -> [Node -> Jobs]] /\ job'[n][p] = rest
      /\ \A m, r \in Node : <<m, r>> # <<n, p>> => job'[m][r] = job[m][r]
  BY <1>1, <1>2, JobGiven DEF Inv
<1>4. /\ Pipes'
      /\ \A m, r \in Node : <<m, r>> # <<n, q>> => pipe'[m][r] = pipe[m][r]
      /\ \A i \in DOMAIN pipe[n][q] : i \in DOMAIN pipe'[n][q] /\ pipe'[n][q][i] = pipe[n][q][i]
      /\ \A i \in DOMAIN pipe'[n][q] :
           \/ i \in DOMAIN pipe[n][q] /\ pipe'[n][q][i] = pipe[n][q][i]
           \/ pipe'[n][q][i] = roster[n]
      /\ Live(n, q) => \E i \in DOMAIN pipe'[n][q] : pipe'[n][q][i] = roster[n]
  BY <1>1, Sent DEF Inv
<1>5. Types'
  <2>1. \A m, r \in Node : \A i \in DOMAIN pipe'[m][r] : pipe'[m][r][i] \subseteq roster'[m]
    <3>1. \A i \in DOMAIN pipe'[n][q] : pipe'[n][q][i] \subseteq roster[n]
      BY <1>4, Honest
    <3>2. \A m, r \in Node : <<m, r>> # <<n, q>> => pipe'[m][r] = pipe[m][r]
      BY <1>4
    <3>3. \A m, r \in Node : \A i \in DOMAIN pipe'[m][r] : pipe'[m][r][i] \subseteq roster[m]
      BY <3>1, <3>2, Honest
    <3> QED
      BY <1>1, <3>3
  <2>2. \A m, r \in Node : job'[m][r].step # "idle" => end'[m][r] = "pump"
    BY <1>1, <1>3, Busy
  <2> QED
    BY <1>1, <1>3, <1>4, <2>1, <2>2 DEF Inv, Types, TypeOK, bounds
<1>6. AddedKnown'
  BY <1>1, <1>2, <1>3 DEF Inv, AddedKnown
<1>7. ASSUME NEW a \in Node, NEW b \in Node, Live(a, b)', b \in Registered(a)', NEW e \in roster'[a]
      PROVE  Covered(a, b, e)'
  <2>1. CASE <<a, b>> = <<n, q>>
    BY <2>1, <1>1, <1>4, <1>7 DEF Covered, OnItsWay, Live
  <2>2. CASE <<a, b>> # <<n, q>>
    <3>1. Covered(a, b, e)
      BY <1>1, <1>7, Covering DEF Inv, Live, Registered
    <3>2. ASSUME NEW r \in Node, job[a][r].step = "telling" /\ b \in job[a][r].left
          PROVE  job'[a][r].step = "telling" /\ b \in job'[a][r].left
      <4>1. CASE <<a, r>> = <<n, p>>
        BY <2>2, <3>2, <4>1, <1>2, <1>3
      <4>2. CASE <<a, r>> # <<n, p>>
        BY <3>2, <4>2, <1>3
      <4> QED
        BY <4>1, <4>2
    <3>3. ASSUME NEW r \in Node, job[a][r].step = "merged" PROVE job'[a][r] = job[a][r]
      BY <3>3, <1>1, <1>3
    <3>4. pipe'[a][b] = pipe[a][b]
      BY <2>2, <1>4
    <3> QED
      BY <1>1, <3>1, <3>2, <3>3, <3>4 DEF Covered, OnItsWay
  <2> QED
    BY <2>1, <2>2
<1> QED
  BY <1>5, <1>6, <1>7 DEF Inv, NoEntryLost, Covered

LEMMA EndKeeps ==
    ASSUME Inv, NEW n \in Node, NEW p \in Node, BroadcastEnds(n, p)
    PROVE  Inv'
<1>1. /\ UNCHANGED <<roster, linkVars, bounds>> /\ Job(n, p, Idle)
      /\ job[n][p].step = "telling" /\ job[n][p].left = {}
  BY DEF BroadcastEnds
<1>2. roster' = roster /\ live' = live /\ end' = end /\ pipe' = pipe /\ UNCHANGED bounds
  BY <1>1 DEF linkVars
<1>3. Idle \in Jobs /\ Idle.step = "idle"
  BY DEF Idle, Jobs
<1>4. /\ job' \in [Node -> [Node -> Jobs]] /\ job'[n][p] = Idle
      /\ \A m, q \in Node : <<m, q>> # <<n, p>> => job'[m][q] = job[m][q]
  BY <1>1, <1>3, JobGiven DEF Inv
<1>5. Types'
  <2>1. \A m, q \in Node : job'[m][q].step # "idle" => end'[m][q] = "pump"
    BY <1>2, <1>3, <1>4, Busy
  <2> QED
    BY <1>2, <1>4, <2>1 DEF Inv, Types, Pipes, TypeOK, bounds
<1>6. AddedKnown'
  BY <1>2, <1>3, <1>4 DEF Inv, AddedKnown
<1>7. ASSUME NEW a \in Node, NEW b \in Node, Live(a, b)', b \in Registered(a)', NEW e \in roster'[a]
      PROVE  Covered(a, b, e)'
  <2>1. Covered(a, b, e)
    BY <1>2, <1>7, Covering DEF Inv, Live, Registered
  <2>2. ASSUME NEW q \in Node,
               job[a][q].step = "merged" \/ (job[a][q].step = "telling" /\ b \in job[a][q].left)
        PROVE  job'[a][q] = job[a][q]
    BY <2>2, <1>1, <1>4
  <2> QED
    BY <1>2, <2>1, <2>2 DEF Covered, OnItsWay
<1> QED
  BY <1>5, <1>6, <1>7 DEF Inv, NoEntryLost, Covered

-----------------------------------------------------------------------------
(* Connections come and go *)

LEMMA ConnectKeeps ==
    ASSUME Inv, NEW n \in Node, NEW p \in Node, Connect(n, p)
    PROVE  Inv'
<1>1. /\ n # p /\ end[n][p] = "none" /\ end[p][n] = "none"
      /\ links' = links + 1 /\ links + faults < MaxEvent
      /\ live' = live \cup {{n, p}} /\ UNCHANGED <<roster, job, pipe, faults>>
      /\ end' = [end EXCEPT ![n][p] = "hello", ![p][n] = "hello"]
  BY DEF Connect
<1>2. /\ end' \in [Node -> [Node -> Ends]] /\ end'[n][p] = "hello" /\ end'[p][n] = "hello"
      /\ \A m, q \in Node : <<m, q>> # <<n, p>> /\ <<m, q>> # <<p, n>> => end'[m][q] = end[m][q]
  BY <1>1 DEF Inv, Types, TypeOK, Ends
<1>3. Types'
  <2>1. ASSUME NEW m \in Node, NEW q \in Node, job'[m][q].step # "idle"
        PROVE  end'[m][q] = "pump"
    <3>1. end[m][q] = "pump"
      BY <1>1, <2>1, Busy
    <3>2. <<m, q>> # <<n, p>> /\ <<m, q>> # <<p, n>>
      BY <1>1, <3>1
    <3> QED
      BY <1>2, <3>1, <3>2
  <2>2. links' \in 0 .. MaxEvent /\ faults' \in 0 .. MaxFault
    BY <1>1, GossipAssumption DEF Inv, Types, TypeOK
  <2>3. \A pair \in live' : \E m, q \in Node : m # q /\ pair = {m, q}
    BY <1>1 DEF Inv, Types, TypeOK
  <2>4. \A m, q \in Node : \A i \in DOMAIN pipe'[m][q] : pipe'[m][q][i] \subseteq roster'[m]
    BY <1>1, Honest
  <2>5. Pipes' /\ roster' \in [Node -> SUBSET Peer] /\ job' \in [Node -> [Node -> Jobs]]
    BY <1>1 DEF Inv, Types, Pipes, TypeOK
  <2> QED
    BY <1>2, <2>1, <2>2, <2>3, <2>4, <2>5 DEF Types, TypeOK
<1>4. AddedKnown'
  BY <1>1 DEF Inv, AddedKnown
<1>5. ASSUME NEW a \in Node, NEW b \in Node, Live(a, b)', b \in Registered(a)', NEW e \in roster'[a]
      PROVE  Covered(a, b, e)'
  <2>1. <<a, b>> # <<n, p>> /\ <<a, b>> # <<p, n>> /\ end'[a][b] = end[a][b]
    BY <1>2, <1>5 DEF Registered
  <2>2. Live(a, b)
    BY <1>1, <1>5, <2>1 DEF Live
  <2>3. Covered(a, b, e)
    BY <1>1, <1>5, <2>1, <2>2, Covering DEF Inv, Registered
  <2> QED
    BY <1>1, <2>1, <2>3 DEF Covered, OnItsWay
<1> QED
  BY <1>3, <1>4, <1>5 DEF Inv, NoEntryLost, Covered

LEMMA LeaveKeeps ==
    ASSUME Inv, NEW n \in Node, NEW p \in Node, Leave(n, p)
    PROVE  Inv'
<1>1. /\ ~Live(n, p) /\ (end[n][p] = "hello" \/ job[n][p].step = "idle")
      /\ Goes(n, p, "none") /\ pipe' = [pipe EXCEPT ![p][n] = <<>>]
      /\ UNCHANGED <<roster, live, job, bounds>> /\ "none" \in Ends
  BY DEF Leave, Pumping, Ends
<1>2. /\ end' \in [Node -> [Node -> Ends]] /\ end'[n][p] = "none"
      /\ \A m, q \in Node : <<m, q>> # <<n, p>> => end'[m][q] = end[m][q]
  BY <1>1, GoesOneWay DEF Inv
<1>3. /\ Pipes' /\ pipe'[p][n] = <<>>
      /\ \A m, q \in Node : <<m, q>> # <<p, n>> => pipe'[m][q] = pipe[m][q]
  BY <1>1, Emptied DEF Inv
<1>4. Types'
  <2>1. job[n][p].step = "idle"
    BY <1>1, Busy
  <2>2. \A m, q \in Node : job'[m][q].step # "idle" => end'[m][q] = "pump"
    BY <1>1, <1>2, <2>1, Busy
  <2>3. \A m, q \in Node : \A i \in DOMAIN pipe'[m][q] : pipe'[m][q][i] \subseteq roster'[m]
    BY <1>1, <1>3 DEF Inv, Types, TypeOK
  <2> QED
    BY <1>1, <1>2, <1>3, <2>2, <2>3 DEF Inv, Types, TypeOK, bounds
<1>5. AddedKnown'
  BY <1>1 DEF Inv, AddedKnown
<1>6. ASSUME NEW a \in Node, NEW b \in Node, Live(a, b)', b \in Registered(a)', NEW e \in roster'[a]
      PROVE  Covered(a, b, e)'
  <2>1. {a, b} # {n, p}
    BY <1>1, <1>6 DEF Live
  <2>2. <<a, b>> # <<n, p>> /\ <<a, b>> # <<p, n>>
    BY <2>1
  <2>3. Covered(a, b, e)
    BY <1>1, <1>2, <1>6, <2>2, Covering DEF Inv, Live, Registered
  <2> QED
    BY <1>1, <1>2, <1>3, <2>2, <2>3 DEF Covered, OnItsWay
<1> QED
  BY <1>4, <1>5, <1>6 DEF Inv, NoEntryLost, Covered

LEMMA DisconnectKeeps ==
    ASSUME Inv, NEW n \in Node, NEW p \in Node, Disconnect(n, p)
    PROVE  Inv'
<1> DEFINE Rest(m, q) == {r \in job[m][q].left : {m, r} \notin {{n, p}}}
<1>1. /\ live' = live \ {{n, p}} /\ Fault /\ UNCHANGED <<roster, end, pipe, links>>
      /\ job' = [m \in Node |-> [q \in Node |-> [job[m][q] EXCEPT !.left = Rest(m, q)]]]
  BY DEF Disconnect, Cut
<1>2. \A m, q \in Node : Rest(m, q) \in SUBSET Node /\ job[m][q] \in Jobs
  BY DEF Inv, Types, TypeOK, Jobs
<1>3. \A m, q \in Node : \A b \in job[m][q].left : {m, b} # {n, p} => b \in Rest(m, q)
  OBVIOUS
<1> HIDE DEF Rest
<1>4. \A m, q \in Node : /\ job'[m][q] \in Jobs /\ job'[m][q].step = job[m][q].step
                         /\ job'[m][q].left = Rest(m, q) /\ job'[m][q].added = job[m][q].added
  <2> SUFFICES ASSUME NEW m \in Node, NEW q \in Node
               PROVE  /\ job'[m][q] \in Jobs /\ job'[m][q].step = job[m][q].step
                      /\ job'[m][q].left = Rest(m, q) /\ job'[m][q].added = job[m][q].added
    OBVIOUS
  <2>1. job'[m][q] = [job[m][q] EXCEPT !.left = Rest(m, q)]
    BY <1>1
  <2>2. job[m][q] \in Jobs /\ Rest(m, q) \in SUBSET Node
    BY <1>2
  <2> QED
    BY <2>1, <2>2 DEF Jobs
<1>5. Types'
  <2>1. \A m, q \in Node : job'[m][q].step # "idle" => end'[m][q] = "pump"
    <3>1. \A m, q \in Node : job'[m][q].step = job[m][q].step
      BY <1>4
    <3>2. end' = end
      BY <1>1
    <3> QED
      BY <3>1, <3>2, Busy
  <2>2. links' \in 0 .. MaxEvent /\ faults' \in 0 .. MaxFault
    BY <1>1, GossipAssumption DEF Inv, Types, TypeOK, Fault
  <2>3. \A m, q \in Node : \A i \in DOMAIN pipe'[m][q] : pipe'[m][q][i] \subseteq roster'[m]
    BY <1>1, Honest
  <2>4. job' \in [Node -> [Node -> Jobs]]
    BY <1>1, <1>4
  <2>5. Pipes' /\ roster' \in [Node -> SUBSET Peer] /\ end' \in [Node -> [Node -> Ends]]
    BY <1>1 DEF Inv, Types, Pipes, TypeOK
  <2>6. \A pair \in live' : \E m, q \in Node : m # q /\ pair = {m, q}
    BY <1>1 DEF Inv, Types, TypeOK
  <2> QED
    BY <2>1, <2>2, <2>3, <2>4, <2>5, <2>6 DEF Types, TypeOK
<1>6. AddedKnown'
  <2>1. \A m, q \in Node : job'[m][q].step = job[m][q].step /\ job'[m][q].added = job[m][q].added
    BY <1>4
  <2> QED
    BY <1>1, <2>1 DEF Inv, AddedKnown
<1>7. ASSUME NEW a \in Node, NEW b \in Node, Live(a, b)', b \in Registered(a)', NEW e \in roster'[a]
      PROVE  Covered(a, b, e)'
  <2>1. Live(a, b) /\ {a, b} # {n, p}
    BY <1>1, <1>7 DEF Live
  <2>2. Covered(a, b, e)
    BY <1>1, <1>7, <2>1, Covering DEF Inv, Registered
  <2>3. \A q \in Node : b \in job[a][q].left => b \in job'[a][q].left
    BY <1>3, <1>4, <2>1
  <2>4. \A q \in Node : job'[a][q].step = job[a][q].step /\ job'[a][q].added = job[a][q].added
    BY <1>4
  <2> QED
    BY <1>1, <2>2, <2>3, <2>4 DEF Covered, OnItsWay
<1> QED
  BY <1>5, <1>6, <1>7 DEF Inv, NoEntryLost, Covered

LEMMA RestartKeeps ==
    ASSUME Inv, NEW n \in Node, Restart(n)
    PROVE  Inv'
<1>1. /\ Fault /\ live' = {pair \in live : n \notin pair} /\ UNCHANGED <<roster, links>>
      /\ job' = [m \in Node |-> [p \in Node |->
                    IF m = n THEN Idle ELSE [job[m][p] EXCEPT !.left = @ \ {n}]]]
      /\ end' = [end EXCEPT ![n] = [p \in Node |-> "none"]]
      /\ pipe' = [p \in Node |-> [pipe[p] EXCEPT ![n] = <<>>]]
  BY DEF Restart
<1>2. \A m, q \in Node : job[m][q] \in Jobs /\ job[m][q].left \ {n} \in SUBSET Node
  BY DEF Inv, Types, TypeOK, Jobs
<1>3. Idle \in Jobs /\ Idle.step = "idle"
  BY DEF Idle, Jobs
<1>4. \A q \in Node : job'[n][q] = Idle
  BY <1>1
<1>5. \A m, q \in Node : m # n => /\ job'[m][q] \in Jobs /\ job'[m][q].step = job[m][q].step
                                  /\ job'[m][q].left = job[m][q].left \ {n}
                                  /\ job'[m][q].added = job[m][q].added
  <2> SUFFICES ASSUME NEW m \in Node, NEW q \in Node, m # n
               PROVE  /\ job'[m][q] \in Jobs /\ job'[m][q].step = job[m][q].step
                      /\ job'[m][q].left = job[m][q].left \ {n}
                      /\ job'[m][q].added = job[m][q].added
    OBVIOUS
  <2>1. job'[m][q] = [job[m][q] EXCEPT !.left = @ \ {n}]
    BY <1>1
  <2>2. job[m][q] \in Jobs /\ (job[m][q].left \ {n}) \in SUBSET Node
    BY <1>2
  <2> QED
    BY <2>1, <2>2 DEF Jobs
<1>6. /\ end' \in [Node -> [Node -> Ends]]
      /\ \A m, q \in Node : m # n => end'[m][q] = end[m][q]
      /\ \A q \in Node : end'[n][q] = "none"
  BY <1>1 DEF Inv, Types, TypeOK, Ends
<1>7. \A m, q \in Node : IF q = n THEN pipe'[m][q] = <<>> ELSE pipe'[m][q] = pipe[m][q]
  BY <1>1 DEF Inv, Types, Pipes
<1>8. Types'
  <2>1. \A m, q \in Node : job'[m][q].step # "idle" => end'[m][q] = "pump"
    BY <1>3, <1>4, <1>5, <1>6, Busy
  <2>2. links' \in 0 .. MaxEvent /\ faults' \in 0 .. MaxFault
    BY <1>1, GossipAssumption DEF Inv, Types, TypeOK, Fault
  <2>3. \A m, q \in Node : \A i \in DOMAIN pipe'[m][q] : pipe'[m][q][i] \subseteq roster'[m]
    BY <1>1, <1>7, Honest
  <2>4. \A m, q \in Node : job'[m][q] \in Jobs
    BY <1>3, <1>4, <1>5
  <2>5. job' \in [Node -> [Node -> Jobs]]
    BY <1>1, <2>4
  <2>6. Pipes'
    BY <1>1 DEF Inv, Types, Pipes
  <2>7. roster' \in [Node -> SUBSET Peer] /\ \A pair \in live' : \E m, q \in Node : m # q /\ pair = {m, q}
    BY <1>1 DEF Inv, Types, TypeOK
  <2> QED
    BY <1>6, <2>1, <2>2, <2>3, <2>5, <2>6, <2>7 DEF Types, TypeOK
<1>9. AddedKnown'
  BY <1>1, <1>3, <1>4, <1>5 DEF Inv, AddedKnown
<1>10. ASSUME NEW a \in Node, NEW b \in Node, Live(a, b)', b \in Registered(a)', NEW e \in roster'[a]
       PROVE  Covered(a, b, e)'
  <2>1. Live(a, b) /\ a # n /\ b # n
    BY <1>1, <1>10 DEF Live
  <2>2. Covered(a, b, e)
    BY <1>1, <1>6, <1>10, <2>1, Covering DEF Inv, Registered
  <2>3. \A q \in Node : b \in job[a][q].left => b \in job'[a][q].left
    BY <1>5, <2>1
  <2>4. end'[a][b] = end[a][b] /\ pipe'[a][b] = pipe[a][b]
    BY <1>6, <1>7, <2>1
  <2>5. \A q \in Node : job'[a][q].step = job[a][q].step /\ job'[a][q].added = job[a][q].added
    BY <1>5, <2>1
  <2> QED
    BY <1>1, <2>2, <2>3, <2>4, <2>5 DEF Covered, OnItsWay
<1> QED
  BY <1>8, <1>9, <1>10 DEF Inv, NoEntryLost, Covered

-----------------------------------------------------------------------------
(* The theorems *)

LEMMA InvInit == Init => Inv
BY InitTyped DEF Init, Inv, AddedKnown, NoEntryLost, Live, Idle

LEMMA InvNext ==
    ASSUME Inv, [Next]_vars
    PROVE  Inv'
<1>1. CASE UNCHANGED vars
  <2>1. UNCHANGED <<roster, live, end, job, pipe, links, faults>>
    BY <1>1 DEF vars, linkVars, bounds
  <2>2. Types' /\ AddedKnown'
    BY <2>1 DEF Inv, Types, Pipes, TypeOK, AddedKnown
  <2>3. NoEntryLost'
    BY <2>1 DEF Inv, NoEntryLost, Live, Registered, OnItsWay
  <2> QED
    BY <2>2, <2>3 DEF Inv
<1>2. CASE Next
  BY <1>2, RegisterKeeps, GreetKeeps, MergeKeeps, BroadcastKeeps, SendKeeps, EndKeeps,
     ConnectKeeps, LeaveKeeps, DisconnectKeeps, RestartKeeps DEF Next, ChannelStep
<1> QED
  BY <1>1, <1>2

LEMMA Invariance == Spec => []Inv
BY InvInit, InvNext, PTL DEF Spec

\* Rosters, channels, jobs and messages on their way are well formed: a message
\* lists only entries of its sender's roster, and only a pump has a job.
THEOREM TypesHold == Spec => []TypeOK
<1>1. Inv => TypeOK
  BY DEF Inv, Types
<1> QED
  BY <1>1, Invariance, PTL

\* NoEntryLost: over a standing connection the peer has each roster entry or will be
\* told of it, since a pump that merged keeps the entries as its job until it has
\* copied the registry, and a channel that registers later greets with all of the roster.
THEOREM EntriesReach == Spec => []NoEntryLost
<1>1. Inv => NoEntryLost
  BY DEF Inv
<1> QED
  BY <1>1, Invariance, PTL
=============================================================================
