--------------------------- MODULE AutoScanProofs ---------------------------
(***************************************************************************)
(* Proofs that AutoScan scans no subnet twice and skips what is known, for *)
(* any peers, subnets and queue capacity.                                  *)
(***************************************************************************)
EXTENDS AutoScan, TLAPS

\* The queue is a sequence of scannable subnets; scanned subnets were seen.
QueueTyped ==
    /\ queue \in Seq(Scannable)
    /\ seen \subseteq Subnet /\ scanned \subseteq seen /\ scanning \subseteq scanned

\* Every subnet in the queue counts as seen, waits there once, and its scan has
\* not begun.
QueueFresh ==
    /\ \A i \in 1..Len(queue) : queue[i] \in seen \ scanned
    /\ \A i, j \in 1..Len(queue) : queue[i] = queue[j] => i = j

QueueInv == QueueTyped /\ QueueFresh

\* Enqueue accepts only a subnet that was never seen, so the queue stays fresh.
LEMMA OfferKeeps ==
    ASSUME QueueInv, NEW s \in Scannable, Offer(s), UNCHANGED <<scanning, scanned>>
    PROVE  QueueInv'
<1> USE AutoScanAssumption DEF QueueInv, QueueTyped, QueueFresh
<1>1. CASE s \in seen
  BY <1>1 DEF Offer
<1>2. CASE s \notin seen /\ queue' = Append(queue, s) /\ seen' = seen \cup {s}
  <2>1. Len(queue') = Len(queue) + 1 /\ queue' \in Seq(Scannable)
    BY <1>2
  <2>2. \A i \in 1..Len(queue) : queue'[i] = queue[i]
    BY <1>2
  <2>3. queue'[Len(queue) + 1] = s
    BY <1>2
  <2>4. QueueTyped'
    BY <1>2, <2>1
  <2>5. \A i \in 1..Len(queue') : queue'[i] \in seen' \ scanned'
    BY <1>2, <2>1, <2>2, <2>3
  <2>6. \A i, j \in 1..Len(queue') : queue'[i] = queue'[j] => i = j
    BY <1>2, <2>1, <2>2, <2>3
  <2> QED
    BY <2>4, <2>5, <2>6
<1>3. CASE s \notin seen /\ UNCHANGED queue /\ seen' = seen \cup {s}
  BY <1>3
<1> QED
  BY <1>1, <1>2, <1>3 DEF Offer

\* A subnet leaves the queue for the scan: it was there once.
LEMMA StartScanKeeps ==
    ASSUME QueueInv, StartScan
    PROVE  QueueInv' /\ Head(queue) \in Subnet \ scanned
<1> USE AutoScanAssumption DEF QueueInv, QueueTyped, QueueFresh, StartScan
<1>1. Len(queue) \in Nat /\ Len(queue) > 0 /\ Head(queue) = queue[1]
  OBVIOUS
<1>2. Len(queue') = Len(queue) - 1 /\ queue' \in Seq(Scannable)
  BY <1>1
<1>3. \A i \in 1..Len(queue') : queue'[i] = queue[i + 1] /\ i + 1 \in 1..Len(queue)
  BY <1>1, <1>2
<1>4. Head(queue) \in seen \ scanned
  BY <1>1
<1>5. QueueTyped'
  BY <1>2, <1>4
<1>6. \A i \in 1..Len(queue') : queue'[i] # Head(queue)
  BY <1>1, <1>3
<1>7. QueueFresh'
  BY <1>2, <1>3, <1>6
<1> QED
  BY <1>4, <1>5, <1>7

LEMMA InitQueue == Init => QueueInv
BY DEF Init, QueueInv, QueueTyped, QueueFresh

\* What waits to be queued passed the check, and so was not known when its roster
\* arrived.
JobInv ==
    /\ job \in [Peer -> Jobs]
    /\ known \subseteq Subnet
    /\ \A p \in Peer :
          /\ job[p].next \subseteq Scannable
          /\ job[p].knew \subseteq known
          /\ job[p].next \cap job[p].knew = {}

LEMMA InitJobs == Init => JobInv
BY AutoScanAssumption DEF Init, JobInv, Jobs, Idle

ScanInv == QueueInv /\ JobInv

\* A subnet that leaves the queue for a history leaves it empty.
LEMMA EmptyKeeps ==
    ASSUME QueueInv, queue' = <<>>, UNCHANGED <<seen, scanning, scanned>>
    PROVE  QueueInv'
BY DEF QueueInv, QueueTyped, QueueFresh

LEMMA QueueKeeps ==
    ASSUME QueueInv, UNCHANGED <<queue, seen, scanning, scanned>>
    PROVE  QueueInv'
BY DEF QueueInv, QueueTyped, QueueFresh

\* A pump's job changes to another one of the kind that JobInv allows.
LEMMA BecomesKeeps ==
    ASSUME JobInv, NEW p \in Peer, NEW j \in Jobs, Becomes(p, j), UNCHANGED known,
           j.next \subseteq Scannable, j.knew \subseteq known, j.next \cap j.knew = {}
    PROVE  JobInv'
BY DEF JobInv, Becomes

LEMMA IdleIsJob == Idle \in Jobs /\ Idle.next = {} /\ Idle.knew = {}
BY DEF Idle, Jobs

LEMMA EnqueueIfNewKeeps ==
    ASSUME JobInv, NEW p \in Peer, EnqueueIfNew(p)
    PROVE  JobInv'
<1>1. PICK s \in job[p].todo :
        Becomes(p, IF ShouldScan(s)
                   THEN [job[p] EXCEPT !.step = "enqueue", !.todo = @ \ {s}, !.next = {s}]
                   ELSE IF job[p].todo = {s} THEN Idle
                   ELSE [job[p] EXCEPT !.todo = @ \ {s}])
  BY DEF EnqueueIfNew
<1>2. UNCHANGED known
  BY DEF EnqueueIfNew
<1>3. job[p] \in Jobs
  BY DEF JobInv
<1>4. CASE ShouldScan(s)
  <2> DEFINE j == [job[p] EXCEPT !.step = "enqueue", !.todo = @ \ {s}, !.next = {s}]
  <2>1. Becomes(p, j)
    BY <1>1, <1>4
  <2>2. j \in Jobs /\ j.next = {s} /\ j.knew = job[p].knew
    BY <1>3, s \in Subnet DEF Jobs
  <2>3. s \in Scannable /\ s \notin job[p].knew
    BY <1>4 DEF ShouldScan, JobInv
  <2> QED
    BY <1>2, <2>1, <2>2, <2>3, BecomesKeeps DEF JobInv
<1>5. CASE ~ShouldScan(s) /\ job[p].todo = {s}
  <2>1. Becomes(p, Idle)
    BY <1>1, <1>5
  <2> QED
    BY <1>2, <2>1, IdleIsJob, BecomesKeeps
<1>6. CASE ~ShouldScan(s) /\ job[p].todo # {s}
  <2> DEFINE j == [job[p] EXCEPT !.todo = @ \ {s}]
  <2>1. Becomes(p, j)
    BY <1>1, <1>6
  <2>2. j \in Jobs /\ j.next = job[p].next /\ j.knew = job[p].knew
    BY <1>3 DEF Jobs
  <2> QED
    BY <1>2, <2>1, <2>2, BecomesKeeps DEF JobInv
<1> QED
  BY <1>4, <1>5, <1>6

LEMMA EnqueueKeeps ==
    ASSUME JobInv, NEW p \in Peer, Enqueue(p)
    PROVE  JobInv'
<1>1. UNCHANGED known /\ Becomes(p, IF job[p].todo = {} THEN Idle
                                    ELSE [job[p] EXCEPT !.step = "tell", !.next = {}])
  BY DEF Enqueue
<1>2. CASE job[p].todo = {}
  BY <1>1, <1>2, IdleIsJob, BecomesKeeps
<1>3. CASE job[p].todo # {}
  <2> DEFINE j == [job[p] EXCEPT !.step = "tell", !.next = {}]
  <2>1. Becomes(p, j)
    BY <1>1, <1>3
  <2>2. j \in Jobs /\ j.next = {} /\ j.knew = job[p].knew
    BY job[p] \in Jobs DEF JobInv, Jobs
  <2> QED
    BY <1>1, <2>1, <2>2, BecomesKeeps DEF JobInv
<1> QED
  BY <1>2, <1>3

LEMMA PumpKeeps ==
    ASSUME ScanInv, NEW p \in Peer, PumpStep(p)
    PROVE  ScanInv'
<1>1. CASE Greet(p)
  BY <1>1, EmptyKeeps DEF Greet, sendScanHistory, Snapshot, ScanInv, JobInv
<1>2. ASSUME NEW q \in Peer, SendHistoryTo(p, q) PROVE ScanInv'
  BY <1>2, EmptyKeeps
    DEF SendHistoryTo, sendScanHistory, Snapshot, ScanInv, JobInv, Jobs, Becomes
<1>3. CASE EnqueueIfNew(p)
  BY <1>3, EnqueueIfNewKeeps, QueueKeeps DEF EnqueueIfNew, ScanInv
<1>4. CASE Enqueue(p)
  <2>1. PICK s \in Scannable : Offer(s)
    BY <1>4 DEF Enqueue, ScanInv, JobInv
  <2> QED
    BY <1>4, <2>1, EnqueueKeeps, OfferKeeps DEF Enqueue, ScanInv
<1> QED
  BY <1>1, <1>2, <1>3, <1>4 DEF PumpStep

LEMMA ScanStepKeeps ==
    ASSUME ScanInv, ScanStep
    PROVE  ScanInv'
<1> USE DEF ScanInv
<1>1. CASE StartScan
  BY <1>1, StartScanKeeps DEF StartScan, JobInv
<1>2. CASE EndScan
  <2>1. QueueInv'
    BY <1>2 DEF EndScan, QueueInv, QueueTyped, QueueFresh
  <2>2. known \cup scanning \subseteq Subnet
    BY DEF QueueInv, QueueTyped, JobInv
  <2>3. JobInv'
    BY <1>2, <2>2 DEF EndScan, JobInv
  <2> QED
    BY <2>1, <2>3
<1> QED
  BY <1>1, <1>2 DEF ScanStep

LEMMA ScanInvStep == ScanInv /\ [Next]_vars => ScanInv'
<1> SUFFICES ASSUME ScanInv, [Next]_vars PROVE ScanInv'
  OBVIOUS
<1> USE AutoScanAssumption DEF ScanInv
<1>1. ASSUME NEW p \in Peer, MarkConnectedSubnet(p) PROVE ScanInv'
  BY <1>1, QueueKeeps DEF MarkConnectedSubnet, JobInv, Jobs
<1>2. ASSUME NEW p \in Peer, Leave(p) PROVE ScanInv'
  BY <1>2, QueueKeeps DEF Leave, JobInv
<1>3. ASSUME NEW p \in Peer, NEW subnets \in SUBSET Subnet, NewEntries(p, subnets) PROVE ScanInv'
  BY <1>3, QueueKeeps DEF NewEntries, JobInv, Jobs, Becomes
<1>4. ASSUME NEW p \in Peer, NEW subnets \in SUBSET Scannable, LearnHistory(p, subnets) PROVE ScanInv'
  BY <1>4, QueueKeeps DEF LearnHistory, JobInv
<1>5. CASE UNCHANGED vars
  BY <1>5, QueueKeeps DEF vars, JobInv
<1> QED
  BY <1>1, <1>2, <1>3, <1>4, <1>5, PumpKeeps, ScanStepKeeps DEF Next

\* The inductive invariant: the queue is fresh, and what waits for it passed the check.
THEOREM ScanInvariant == Spec => []ScanInv
<1>1. Init => ScanInv
  BY InitQueue, InitJobs DEF ScanInv
<1> QED
  BY <1>1, ScanInvStep, PTL DEF Spec

-----------------------------------------------------------------------------
\* ScanOnce: autoScanLoop begins no scan of a subnet it has begun before, since
\* the queue holds no such subnet and none twice.
THEOREM NeverScannedTwice == Spec => ScanOnce
<1> DEFINE Once == scanning' \subseteq scanning \cup (Subnet \ scanned)
<1>1. ScanInv /\ [Next]_vars => [Once]_vars
  <2> SUFFICES ASSUME ScanInv, Next PROVE Once
    OBVIOUS
  <2>1. CASE StartScan
    BY <2>1, StartScanKeeps DEF ScanInv, StartScan
  <2>2. CASE EndScan
    BY <2>2 DEF EndScan
  <2>3. ASSUME NEW p \in Peer, PumpStep(p) PROVE Once
    BY <2>3 DEF PumpStep, Greet, SendHistoryTo, EnqueueIfNew, Enqueue
  <2>4. ASSUME NEW p \in Peer, MarkConnectedSubnet(p) \/ Leave(p) PROVE Once
    BY <2>4 DEF MarkConnectedSubnet, Leave
  <2>5. ASSUME NEW p \in Peer, NEW subnets \in SUBSET Subnet,
               NewEntries(p, subnets) \/ LearnHistory(p, subnets) PROVE Once
    BY <2>5 DEF NewEntries, LearnHistory
  <2> QED
    BY <2>1, <2>2, <2>3, <2>4, <2>5, AutoScanAssumption DEF Next, ScanStep
<1> QED
  BY <1>1, ScanInvariant, PTL DEF Spec, ScanOnce

\* SkipsKnown: what enters the queue was not known when its entry arrived, since
\* known subnets stay known until the check.
THEOREM KnownAreSkipped == Spec => SkipsKnown
<1> DEFINE Skips == \A s \in ToSet(queue') \ ToSet(queue) :
                       \E p \in Peer : s \in job[p].next /\ s \notin job[p].knew
<1>1. ScanInv /\ [Next]_vars => [Skips]_vars
  <2> SUFFICES ASSUME ScanInv, Next PROVE Skips
    OBVIOUS
  <2>1. CASE StartScan
    <3>1. queue \in Seq(Scannable) /\ queue # <<>> /\ queue' = Tail(queue)
      BY <2>1 DEF StartScan, ScanInv, QueueInv, QueueTyped
    <3>2. ToSet(queue') \subseteq ToSet(queue)
      BY <3>1 DEF ToSet
    <3> QED
      BY <3>2
  <2>2. ASSUME NEW p \in Peer, Enqueue(p) PROVE Skips
    <3>1. PICK s \in job[p].next : Offer(s)
      BY <2>2 DEF Enqueue
    <3>2. s \notin job[p].knew
      BY <3>1 DEF ScanInv, JobInv
    <3>3. queue \in Seq(Scannable) /\ s \in Scannable
      BY <3>1 DEF ScanInv, QueueInv, QueueTyped, JobInv
    <3>4. queue' = queue \/ queue' = Append(queue, s)
      BY <3>1 DEF Offer
    <3>5. ToSet(queue') \subseteq ToSet(queue) \cup {s}
      BY <3>3, <3>4 DEF ToSet
    <3> QED
      BY <3>1, <3>2, <3>5
  <2>3. CASE queue' = <<>>
    BY <2>3 DEF ToSet
  <2>4. CASE queue' = queue
    BY <2>4
  <2>5. ASSUME NEW p \in Peer, PumpStep(p) PROVE Skips
    BY <2>2, <2>3, <2>4, <2>5
      DEF PumpStep, Greet, SendHistoryTo, EnqueueIfNew, sendScanHistory, Snapshot
  <2>6. CASE EndScan
    BY <2>4, <2>6 DEF EndScan
  <2>7. ASSUME NEW p \in Peer, MarkConnectedSubnet(p) \/ Leave(p) PROVE Skips
    BY <2>4, <2>7 DEF MarkConnectedSubnet, Leave
  <2>8. ASSUME NEW p \in Peer, NEW subnets \in SUBSET Subnet,
               NewEntries(p, subnets) \/ LearnHistory(p, subnets) PROVE Skips
    BY <2>4, <2>8 DEF NewEntries, LearnHistory
  <2> QED
    BY <2>1, <2>5, <2>6, <2>7, <2>8, AutoScanAssumption DEF Next, ScanStep
<1> QED
  BY <1>1, ScanInvariant, PTL DEF Spec, SkipsKnown

-----------------------------------------------------------------------------
(* Type correctness: no subnet that was seen goes missing *)

LEMMA AppendSet ==
    ASSUME NEW q \in Seq(Scannable), NEW s \in Scannable
    PROVE  ToSet(Append(q, s)) = ToSet(q) \cup {s}
<1>1. \A i \in 1..Len(q) : Append(q, s)[i] = q[i]
  OBVIOUS
<1>2. Append(q, s)[Len(q) + 1] = s /\ Len(Append(q, s)) = Len(q) + 1
  OBVIOUS
<1>3. DOMAIN Append(q, s) = (1..Len(q)) \cup {Len(q) + 1} /\ DOMAIN q = 1..Len(q)
  BY <1>2
<1> QED
  BY <1>1, <1>2, <1>3 DEF ToSet

LEMMA TailSet ==
    ASSUME NEW q \in Seq(Scannable), q # <<>>
    PROVE  ToSet(q) = {Head(q)} \cup ToSet(Tail(q))
<1>1. Len(q) \in Nat /\ Len(q) > 0 /\ Head(q) = q[1]
  OBVIOUS
<1>2. Len(Tail(q)) = Len(q) - 1 /\ \A i \in 1..(Len(q) - 1) : Tail(q)[i] = q[i + 1]
  BY <1>1
<1>3. DOMAIN q = 1..Len(q) /\ DOMAIN Tail(q) = 1..(Len(q) - 1)
  BY <1>1, <1>2
<1>4. \A i \in 2..Len(q) : q[i] = Tail(q)[i - 1] /\ i - 1 \in 1..(Len(q) - 1)
  BY <1>1, <1>2
<1>5. ToSet(q) \subseteq {Head(q)} \cup ToSet(Tail(q))
  <2> SUFFICES ASSUME NEW i \in 1..Len(q) PROVE q[i] \in {Head(q)} \cup ToSet(Tail(q))
    BY <1>3 DEF ToSet
  <2>1. CASE i = 1
    BY <1>1, <2>1
  <2>2. CASE i \in 2..Len(q)
    <3>1. q[i] = Tail(q)[i - 1] /\ i - 1 \in DOMAIN Tail(q)
      BY <1>3, <1>4, <2>2
    <3> QED
      BY <3>1 DEF ToSet
  <2> QED
    BY <1>1, <2>1, <2>2
<1>6. ToSet(Tail(q)) \subseteq ToSet(q)
  BY <1>1, <1>2, <1>3 DEF ToSet
<1>7. Head(q) \in ToSet(q)
  BY <1>1, <1>3 DEF ToSet
<1> QED
  BY <1>5, <1>6, <1>7

\* The part of TypeOK about the queue.
Accounted ==
    /\ seen \subseteq Scannable
    /\ Len(queue) <= QueueRoom
    /\ seen = ToSet(queue) \cup scanned \cup lost

LEMMA OfferAccounts ==
    ASSUME ScanInv, Accounted, NEW s \in Scannable, Offer(s), UNCHANGED scanned
    PROVE  Accounted'
<1> USE AutoScanAssumption DEF Accounted
<1>1. queue \in Seq(Scannable)
  BY DEF ScanInv, QueueInv, QueueTyped
<1>2. CASE s \in seen
  BY <1>2 DEF Offer
<1>3. CASE s \notin seen /\ Len(queue) < QueueRoom
  <2>1. queue' = Append(queue, s) /\ seen' = seen \cup {s} /\ UNCHANGED lost
    BY <1>3 DEF Offer
  <2>2. Len(queue') <= QueueRoom
    BY <1>1, <1>3, <2>1
  <2>3. ToSet(queue') = ToSet(queue) \cup {s}
    BY <1>1, <2>1, AppendSet
  <2> QED
    BY <2>1, <2>2, <2>3
<1>4. CASE s \notin seen /\ ~(Len(queue) < QueueRoom)
  BY <1>4 DEF Offer
<1> QED
  BY <1>2, <1>3, <1>4

LEMMA HistoryAccounts ==
    ASSUME Accounted, sendScanHistory, UNCHANGED <<seen, scanned>>
    PROVE  Accounted'
<1>1. queue' = <<>> /\ lost' = lost \cup ToSet(queue)
  BY DEF sendScanHistory, Snapshot
<1>2. ToSet(queue') = {} /\ Len(queue') = 0
  BY <1>1 DEF ToSet
<1> QED
  BY <1>1, <1>2, AutoScanAssumption DEF Accounted

LEMMA StartScanAccounts ==
    ASSUME ScanInv, Accounted, StartScan
    PROVE  Accounted'
<1>1. queue \in Seq(Scannable) /\ queue # <<>>
  BY DEF ScanInv, QueueInv, QueueTyped, StartScan
<1>2. queue' = Tail(queue) /\ scanned' = scanned \cup {Head(queue)} /\ UNCHANGED <<seen, lost>>
  BY DEF StartScan
<1>3. ToSet(queue) = {Head(queue)} \cup ToSet(queue')
  BY <1>1, <1>2, TailSet
<1>4. Len(queue') <= QueueRoom
  BY <1>1, <1>2, AutoScanAssumption DEF Accounted
<1> QED
  BY <1>2, <1>3, <1>4 DEF Accounted

\* No step loses track of a subnet: EnqueueIfNew's race with other pumps included.
LEMMA AccountedStep == ScanInv /\ Accounted /\ [Next]_vars => Accounted'
<1> SUFFICES ASSUME ScanInv, Accounted, [Next]_vars PROVE Accounted'
  OBVIOUS
<1>1. CASE UNCHANGED <<seen, queue, lost, scanned>>
  BY <1>1 DEF Accounted
<1>2. ASSUME NEW p \in Peer, PumpStep(p) PROVE Accounted'
  <2>1. CASE Greet(p)
    BY <2>1, HistoryAccounts DEF Greet
  <2>2. ASSUME NEW q \in Peer, SendHistoryTo(p, q) PROVE Accounted'
    BY <2>2, HistoryAccounts DEF SendHistoryTo
  <2>3. CASE EnqueueIfNew(p)
    BY <2>3, <1>1 DEF EnqueueIfNew
  <2>4. CASE Enqueue(p)
    <3>1. PICK s \in Scannable : Offer(s)
      BY <2>4 DEF Enqueue, ScanInv, JobInv
    <3> QED
      BY <2>4, <3>1, OfferAccounts DEF Enqueue
  <2> QED
    BY <1>2, <2>1, <2>2, <2>3, <2>4 DEF PumpStep
<1>3. CASE ScanStep
  BY <1>1, <1>3, StartScanAccounts DEF ScanStep, EndScan
<1>4. ASSUME NEW p \in Peer, MarkConnectedSubnet(p) \/ Leave(p) PROVE Accounted'
  BY <1>1, <1>4 DEF MarkConnectedSubnet, Leave
<1>5. ASSUME NEW p \in Peer, NEW subnets \in SUBSET Subnet,
             NewEntries(p, subnets) \/ LearnHistory(p, subnets) PROVE Accounted'
  BY <1>1, <1>5 DEF NewEntries, LearnHistory
<1>6. CASE UNCHANGED vars
  BY <1>1, <1>6 DEF vars
<1> QED
  BY <1>2, <1>3, <1>4, <1>5, <1>6, AutoScanAssumption DEF Next

\* The rest of TypeOK.
Counted == chan \in [Peer -> {"none", "greet", "pump"}] /\ news \in 0..MaxNews

LEMMA CountedStep == Counted /\ [Next]_vars => Counted'
<1> SUFFICES ASSUME Counted, [Next]_vars PROVE Counted'
  OBVIOUS
<1> USE AutoScanAssumption DEF Counted, News
<1>1. CASE UNCHANGED <<chan, news>>
  BY <1>1
<1>2. ASSUME NEW p \in Peer, MarkConnectedSubnet(p) \/ Leave(p) PROVE Counted'
  BY <1>2 DEF MarkConnectedSubnet, Leave
<1>3. ASSUME NEW p \in Peer, NEW subnets \in SUBSET Subnet,
             NewEntries(p, subnets) \/ LearnHistory(p, subnets) PROVE Counted'
  BY <1>3 DEF NewEntries, LearnHistory
<1>4. ASSUME NEW p \in Peer, PumpStep(p) PROVE Counted'
  BY <1>1, <1>4 DEF PumpStep, Greet, SendHistoryTo, EnqueueIfNew, Enqueue
<1>5. CASE ScanStep \/ UNCHANGED vars
  BY <1>1, <1>5 DEF ScanStep, StartScan, EndScan, vars
<1> QED
  BY <1>2, <1>3, <1>4, <1>5 DEF Next

\* TypeOK: whatever pumps, histories and the loop do, a subnet that was ever queued
\* waits, was scanned, or is on record as lost, and the queue keeps its bound.
THEOREM TypeCorrect == Spec => []TypeOK
<1>1. Init => ScanInv /\ Accounted /\ Counted
  <2>1. Init => Accounted
    BY AutoScanAssumption DEF Init, Accounted, ToSet
  <2>2. Init => Counted
    BY AutoScanAssumption DEF Init, Counted
  <2> QED
    BY <2>1, <2>2, InitQueue, InitJobs DEF ScanInv
<1>2. ScanInv /\ Accounted /\ Counted => TypeOK
  BY DEF TypeOK, ScanInv, QueueInv, QueueTyped, JobInv, Accounted, Counted
<1> QED
  BY <1>1, <1>2, ScanInvStep, AccountedStep, CountedStep, PTL DEF Spec
=============================================================================
