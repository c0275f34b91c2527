-------------------------- MODULE PeerLinksProofs ---------------------------
(***************************************************************************)
(* Proofs about PeerLinks, for every set of nodes and of connections.      *)
(***************************************************************************)
EXTENDS PeerLinks, TLAPS

\* The type invariant, made inductive: a goroutine always has a peer.
TypeInv == TypeOK /\ TasksHavePeers

\* What a dial leaves behind is typed, and gives a new goroutine its peer.
DialTyped ==
    /\ peer' \in [Node -> [Conn -> Node \cup {None}]]
    /\ dialer' \in [Conn -> [node : Node \cup {None}, kind : {"none", "discovery", "manual", "scan"}]]
    /\ task' \in [Node -> [Conn -> TaskStates]]
    /\ open' \in [Node -> [Conn -> BOOLEAN]]
    /\ conns' \in [Node -> [Node -> Conn \cup {None}]]
    /\ agreed' \subseteq Conn /\ rogue' \subseteq Conn /\ cut' \subseteq Conn
    /\ TasksHavePeers'

LEMMA DialStep ==
  ASSUME TypeInv, NEW n \in Node, NEW p \in Node,
         NEW kind \in {"discovery", "manual", "scan"},
         Dial(n, p, kind) \/ Unanswered
  PROVE  DialTyped
<1> USE LinksAssumption DEF TypeInv, TypeOK, TaskStates, netVars
<1>1. CASE Connect(n, p, kind)
  <2> PICK c \in Conn :
        /\ peer' = [peer EXCEPT ![n][c] = p, ![p][c] = n]
        /\ dialer' = [dialer EXCEPT ![c] = [node |-> n, kind |-> kind]]
        /\ task' = [task EXCEPT ![n][c] = "hello", ![p][c] = "hello"]
        /\ open' = [open EXCEPT ![n][c] = TRUE, ![p][c] = TRUE]
        /\ conns' = [conns EXCEPT ![n][p] = c]
        /\ UNCHANGED <<agreed, rogue, cut>>
    BY <1>1 DEF Connect
  <2> QED
    BY DEF DialTyped, TasksHavePeers
<1>2. CASE conns[n][p] # None /\ Reuse(n, p)
  <2>1. conns[n][p] \in Conn
    BY <1>2
  <2>2. rogue' \subseteq Conn
    BY <1>2, <2>1 DEF Reuse
  <2> QED
    BY <1>2, <2>2 DEF Reuse, DialTyped, TasksHavePeers
<1>3. CASE Unanswered
  BY <1>3 DEF Unanswered, DialTyped, TasksHavePeers
<1> QED
  BY <1>1, <1>2, <1>3 DEF Dial

LEMMA TypeStep == TypeInv /\ [Next]_vars => TypeInv'
<1> SUFFICES ASSUME TypeInv, [Next]_vars PROVE TypeInv'
  OBVIOUS
<1> USE LinksAssumption DEF netVars, eventVars, envVars
<1>1. ASSUME NEW n \in Node, NEW c \in Conn, HandshakeResponder(n, c) PROVE TypeInv'
  BY <1>1
  DEF TypeInv, TypeOK, TasksHavePeers, HandshakeResponder, SetTask, CloseSocket, TaskStates, Registered
<1>2. ASSUME NEW n \in Node, NEW c \in Conn, HandshakeInitiator(n, c) PROVE TypeInv'
  BY <1>2
  DEF TypeInv, TypeOK, TasksHavePeers, HandshakeInitiator, SetTask, CloseSocket, TaskStates, Registered
<1>3. ASSUME NEW n \in Node, NEW c \in Conn, HandshakeFails(n, c) PROVE TypeInv'
  BY <1>3
  DEF TypeInv, TypeOK, TasksHavePeers, HandshakeFails, SetTask, CloseSocket, TaskStates, Registered
<1>4. ASSUME NEW n \in Node, NEW c \in Conn, DialAddrChecks(n, c) PROVE TypeInv'
  BY <1>4
  DEF TypeInv, TypeOK, TasksHavePeers, DialAddrChecks, SetTask, CloseSocket, TaskStates, Registered
<1>5. ASSUME NEW n \in Node, NEW c \in Conn, Register(n, c) PROVE TypeInv'
  BY <1>5
  DEF TypeInv, TypeOK, TasksHavePeers, Register, SetTask, CloseSocket, TaskStates, Registered
<1>6. ASSUME NEW n \in Node, NEW c \in Conn, Superseded(n, c) PROVE TypeInv'
  BY <1>6
  DEF TypeInv, TypeOK, TasksHavePeers, Superseded, SetTask, CloseSocket, TaskStates, Registered
<1>7. ASSUME NEW n \in Node, NEW c \in Conn, SetAfterSweep(n, c) PROVE TypeInv'
  BY <1>7
  DEF TypeInv, TypeOK, TasksHavePeers, SetAfterSweep, ProcessEnds, Phases, TaskStates
<1>8. ASSUME NEW n \in Node, NEW c \in Conn, PublishOnline(n, c) PROVE TypeInv'
  BY <1>8
  DEF TypeInv, TypeOK, TasksHavePeers, PublishOnline, SetTask, CloseSocket, TaskStates, Registered
<1>9. ASSUME NEW n \in Node, NEW c \in Conn, PumpReadError(n, c) PROVE TypeInv'
  BY <1>9
  DEF TypeInv, TypeOK, TasksHavePeers, PumpReadError, SetTask, CloseSocket, TaskStates, Registered
<1>10. ASSUME NEW n \in Node, NEW c \in Conn, PumpRejects(n, c) PROVE TypeInv'
  BY <1>10
  DEF TypeInv, TypeOK, TasksHavePeers, PumpRejects, SetTask, CloseSocket, TaskStates, Registered
<1>11. ASSUME NEW n \in Node, NEW c \in Conn, PublishOffline(n, c) PROVE TypeInv'
  BY <1>11
  DEF TypeInv, TypeOK, TasksHavePeers, PublishOffline, SetTask, CloseSocket, TaskStates, Registered
<1>12. ASSUME NEW n \in Node, NEW c \in Conn, Unregister(n, c) PROVE TypeInv'
  <2> DEFINE q == peer[n][c]
  <2>0. q \in Node
    BY <1>12 DEF Unregister, TypeInv, TasksHavePeers
  <2>1. q \in Node /\ channels[n][q] \in Conn \cup {None}
    <3>1. channels \in [Node -> [Node -> Conn \cup {None}]]
      BY DEF TypeInv, TypeOK
    <3>2. channels[n] \in [Node -> Conn \cup {None}]
      BY <3>1
    <3> QED
      BY <2>0, <3>2
  <2>2. open' \in [Node -> [Conn -> BOOLEAN]]
    <3>1. open \in [Node -> [Conn -> BOOLEAN]]
      BY DEF TypeInv, TypeOK
    <3>2. open' = open \/ (channels[n][q] # None /\ open' = [open EXCEPT ![n][channels[n][q]] = FALSE])
      BY <1>12 DEF Unregister, CloseSocket
    <3>3. CASE open' = open
      BY <3>1, <3>3
    <3>4. CASE channels[n][q] # None /\ open' = [open EXCEPT ![n][channels[n][q]] = FALSE]
      <4>1. channels[n][q] \in Conn
        BY <2>1, <3>4
      <4> QED
        BY <3>1, <3>4, <4>1
    <3> QED
      BY <3>2, <3>3, <3>4
  <2>3. /\ channels' \in [Node -> [Node -> Conn \cup {None}]]
        /\ task' \in [Node -> [Conn -> TaskStates]]
    BY <1>12, <2>1 DEF Unregister, SetTask, TypeInv, TypeOK, TaskStates
  <2>4. TasksHavePeers'
    BY <1>12 DEF Unregister, SetTask, TypeInv, TypeOK, TasksHavePeers
  <2> QED
    BY <1>12, <2>2, <2>3, <2>4 DEF Unregister, TypeInv, TypeOK
<1>13. ASSUME NEW n \in Node, NEW c \in Conn, ScanCloses(n, c) PROVE TypeInv'
  BY <1>13
  DEF TypeInv, TypeOK, TasksHavePeers, ScanCloses, SetTask, CloseSocket, TaskStates, Registered
<1>14. ASSUME NEW n \in Node, NEW p \in Node, Announced(n, p) PROVE TypeInv'
  BY <1>14
  DEF TypeInv, TypeOK, TasksHavePeers, Announced
<1>15. ASSUME NEW n \in Node, NEW p \in Node, Expired(n, p) PROVE TypeInv'
  BY <1>15
  DEF TypeInv, TypeOK, TasksHavePeers, Expired, Fault
<1>16. ASSUME NEW n \in Node, NEW p \in Node, dialAndHandshake(n, p) PROVE TypeInv'
  BY <1>16, DialStep
  DEF TypeInv, TypeOK, TasksHavePeers, dialAndHandshake, DialTyped, Unanswered, Command, Fault
<1>17. ASSUME NEW n \in Node, NEW p \in Node, dialAddr(n, p) PROVE TypeInv'
  BY <1>17, DialStep
  DEF TypeInv, TypeOK, TasksHavePeers, dialAddr, DialTyped, Unanswered, Command, Fault
<1>18. ASSUME NEW n \in Node, NEW p \in Node, Scan(n, p) PROVE TypeInv'
  BY <1>18, DialStep
  DEF TypeInv, TypeOK, TasksHavePeers, Scan, DialTyped, Unanswered, Command, Fault
<1>19. ASSUME NEW n \in Node, NEW p \in Node, Reap(n, p) PROVE TypeInv'
  BY <1>19
  DEF TypeInv, TypeOK, TasksHavePeers, Reap, CloseSocket
<1>20. ASSUME NEW c \in Conn, RogueFails(c) PROVE TypeInv'
  BY <1>20
  DEF TypeInv, TypeOK, TasksHavePeers, RogueFails, CloseSocket
<1>21. ASSUME NEW c \in Conn, Break(c) PROVE TypeInv'
  BY <1>21
  DEF TypeInv, TypeOK, TasksHavePeers, Break, Fault
<1>22. ASSUME NEW n \in Node, Cancel(n) PROVE TypeInv'
  BY <1>22
  DEF TypeInv, TypeOK, TasksHavePeers, Cancel, Command, Fault, ProcessEnds, Phases, TaskStates
<1>23. ASSUME NEW n \in Node, CloseAll(n) PROVE TypeInv'
  BY <1>23
  DEF TypeInv, TypeOK, TasksHavePeers, CloseAll, Command, Fault, ProcessEnds, Phases, TaskStates
<1>24. ASSUME NEW n \in Node, CloseTransport(n) PROVE TypeInv'
  BY <1>24
  DEF TypeInv, TypeOK, TasksHavePeers, CloseTransport, Command, Fault, ProcessEnds, Phases, TaskStates
<1>25. ASSUME NEW n \in Node, Crash(n) PROVE TypeInv'
  BY <1>25
  DEF TypeInv, TypeOK, TasksHavePeers, Crash, Command, Fault, ProcessEnds, Phases, TaskStates
<1>26. ASSUME NEW n \in Node, Restart(n) PROVE TypeInv'
  BY <1>26
  DEF TypeInv, TypeOK, TasksHavePeers, Restart, Command, Fault, ProcessEnds, Phases, TaskStates
<1>27. CASE UNCHANGED vars
  BY <1>27 DEF TypeInv, TypeOK, TasksHavePeers, vars
<1>28. ASSUME NEW n \in Node, NEW c \in Conn, WrapFails(n, c) PROVE TypeInv'
  BY <1>28
  DEF TypeInv, TypeOK, TasksHavePeers, WrapFails, Fault, SetTask, CloseSocket, TaskStates, Registered
<1> QED
  BY <1>1, <1>2, <1>3, <1>4, <1>5, <1>6, <1>7, <1>8, <1>9, <1>10, <1>11, <1>12, <1>13, <1>14, <1>15, <1>16, <1>17, <1>18, <1>19, <1>20, <1>21, <1>22, <1>23, <1>24, <1>25, <1>26, <1>27, <1>28
  DEF Next, TaskStep, LinkStep, ProcessStep

\* Type correctness of every behaviour.
THEOREM TypeCorrect == Spec => []TypeOK
<1>1. Init => TypeInv
  BY LinksAssumption DEF Init, TypeInv, TypeOK, TasksHavePeers, TaskStates, Phases
<1>2. TypeInv => TypeOK
  BY DEF TypeInv
<1> QED
  BY <1>1, <1>2, TypeStep, PTL DEF Spec

-----------------------------------------------------------------------------
(* One registered channel per peer, and presence events that match its pump *)

LinkInv == RegistryOwner /\ PresenceMatchesPump

\* Steps that leave the registry, the events and every registered task's
\* standing alone preserve the invariant.
SameStanding ==
    /\ channels' = channels /\ online' = online /\ offline' = offline
    /\ \A n \in Node : phase'[n] \in Swept <=> phase[n] \in Swept
    /\ \A n, p \in Node, c \in Conn :
        /\ Holds(n, p, c)' <=> Holds(n, p, c)
        /\ Pumps(n, p, c)' <=> Pumps(n, p, c)

LEMMA Frame == LinkInv /\ SameStanding => LinkInv'
<1> SUFFICES ASSUME LinkInv, SameStanding PROVE LinkInv'
  OBVIOUS
<1>1. RegistryOwner'
  BY DEF LinkInv, RegistryOwner, SameStanding
<1>2. PresenceMatchesPump'
  BY DEF LinkInv, PresenceMatchesPump, SameStanding
<1> QED
  BY <1>1, <1>2 DEF LinkInv

\* A dial starts goroutines on an unused connection only.
LEMMA DialStanding ==
  ASSUME TypeInv, NEW n \in Node, NEW p \in Node,
         NEW kind \in {"discovery", "manual", "scan"},
         Dial(n, p, kind) \/ Unanswered
  PROVE  \A m, q \in Node, c \in Conn :
            /\ Holds(m, q, c)' <=> Holds(m, q, c)
            /\ Pumps(m, q, c)' <=> Pumps(m, q, c)
<1> USE LinksAssumption DEF TypeInv, TypeOK, netVars, Holds, Pumps, Registered
<1>1. CASE Connect(n, p, kind)
  <2> PICK c \in Conn :
        /\ dialer[c].node = None
        /\ peer' = [peer EXCEPT ![n][c] = p, ![p][c] = n]
        /\ task' = [task EXCEPT ![n][c] = "hello", ![p][c] = "hello"]
    BY <1>1 DEF Connect, Fresh
  <2>1. \A m \in Node : task[m][c] = "none"
    BY DEF TasksHavePeers
  <2> SUFFICES ASSUME NEW m \in Node, NEW q \in Node, NEW d \in Conn
               PROVE  /\ Holds(m, q, d)' <=> Holds(m, q, d)
                      /\ Pumps(m, q, d)' <=> Pumps(m, q, d)
    OBVIOUS
  <2>2. CASE d = c
    <3>1. task[m][d] = "none" /\ task'[m][d] \in {"none", "hello"}
      BY <2>1, <2>2
    <3> QED
      BY <3>1
  <2>3. CASE d # c
    <3>1. task'[m][d] = task[m][d] /\ peer'[m][d] = peer[m][d]
      BY <2>3
    <3> QED
      BY <3>1
  <2> QED
    BY <2>2, <2>3
<1>2. CASE Reuse(n, p)
  BY <1>2 DEF Reuse
<1>3. CASE Unanswered
  BY <1>3 DEF Unanswered
<1> QED
  BY <1>1, <1>2, <1>3 DEF Dial

\* The end of a process ends its registry, its goroutines and its event streams.
LEMMA ProcessEndStep ==
  ASSUME TypeInv, LinkInv, NEW n \in Node, ProcessEnds(n),
         NEW f \in {"down", "panicked"}, phase' = [phase EXCEPT ![n] = f]
  PROVE  LinkInv'
<1>1. \A m, p \in Node, c \in Conn :
        /\ m # n => /\ Holds(m, p, c)' <=> Holds(m, p, c)
                    /\ Pumps(m, p, c)' <=> Pumps(m, p, c)
        /\ ~Holds(n, p, c)' /\ ~Pumps(n, p, c)'
  BY DEF TypeInv, TypeOK, ProcessEnds, Holds, Pumps, Registered, netVars
<1>2. \A m, p \in Node :
        /\ m # n => /\ channels'[m][p] = channels[m][p] /\ phase'[m] = phase[m]
                    /\ online'[m][p] = online[m][p] /\ offline'[m][p] = offline[m][p]
        /\ channels'[n][p] = None /\ online'[n][p] = 0 /\ offline'[n][p] = 0
  BY DEF TypeInv, TypeOK, ProcessEnds
<1>3. RegistryOwner'
  <2> SUFFICES ASSUME NEW m \in Node, NEW p \in Node, NEW c \in Conn
               PROVE  /\ channels'[m][p] = c => Holds(m, p, c)'
                      /\ Holds(m, p, c)' /\ phase'[m] \notin Swept => channels'[m][p] = c
                      /\ \A d \in Conn : Holds(m, p, c)' /\ Holds(m, p, d)' => c = d
    BY DEF RegistryOwner
  <2>1. CASE m = n
    BY <1>1, <1>2, <2>1, LinksAssumption
  <2>2. CASE m # n
    BY <1>1, <1>2, <2>2 DEF LinkInv, RegistryOwner
  <2> QED
    BY <2>1, <2>2
<1>4. PresenceMatchesPump'
  <2> SUFFICES ASSUME NEW m \in Node, NEW p \in Node
               PROVE  online'[m][p] = offline'[m][p]
                        + (IF \E c \in Conn : Pumps(m, p, c)' THEN 1 ELSE 0)
    BY DEF PresenceMatchesPump
  <2>1. CASE m = n
    BY <1>1, <1>2, <2>1
  <2>2. CASE m # n
    BY <1>1, <1>2, <2>2 DEF LinkInv, PresenceMatchesPump
  <2> QED
    BY <2>1, <2>2
<1> QED
  BY <1>3, <1>4 DEF LinkInv

\* The four steps of a registered channel, and closeAll.
LEMMA RegisterStep ==
  ASSUME TypeInv, LinkInv, NEW n \in Node, NEW c \in Conn, Register(n, c)
  PROVE  LinkInv'
<1> DEFINE q == peer[n][c]
<1>0. q \in Node
  BY DEF Register, TypeInv, TasksHavePeers
<1>1. /\ channels' = [channels EXCEPT ![n][q] = c]
      /\ channels[n][q] = None
      /\ task' = [task EXCEPT ![n][c] = "announce"]
      /\ task[n][c] = "wrap"
      /\ UNCHANGED <<phase, peer, online, offline>>
      /\ phase[n] \notin Swept
  BY DEF Register, SetTask, netVars, eventVars
<1>2. \A m, p \in Node, d \in Conn :
        /\ Holds(m, p, d)' <=> Holds(m, p, d) \/ (m = n /\ p = q /\ d = c)
        /\ Pumps(m, p, d)' <=> Pumps(m, p, d)
        /\ channels'[m][p] = IF m = n /\ p = q THEN c ELSE channels[m][p]
  BY <1>0, <1>1 DEF TypeInv, TypeOK, Holds, Pumps, Registered
<1>3. \A d \in Conn : ~Holds(n, q, d)
  BY <1>0, <1>1, LinksAssumption DEF LinkInv, RegistryOwner
<1>4. RegistryOwner'
  BY <1>0, <1>1, <1>2, <1>3 DEF LinkInv, RegistryOwner
<1>5. PresenceMatchesPump'
  BY <1>1, <1>2 DEF LinkInv, PresenceMatchesPump
<1> QED
  BY <1>4, <1>5 DEF LinkInv

LEMMA PublishOnlineStep ==
  ASSUME TypeInv, LinkInv, NEW n \in Node, NEW c \in Conn, PublishOnline(n, c)
  PROVE  /\ LinkInv'
         /\ peer[n][c] \in Node /\ Presence!Online(n, peer[n][c])
<1> DEFINE q == peer[n][c]
<1>0. q \in Node
  BY DEF PublishOnline, TypeInv, TasksHavePeers
<1>1. /\ online' = [online EXCEPT ![n][q] = @ + 1]
      /\ task' = [task EXCEPT ![n][c] = "pump"]
      /\ task[n][c] = "announce"
      /\ UNCHANGED <<phase, peer, channels, offline>>
  BY DEF PublishOnline, SetTask, netVars
<1>2. \A m, p \in Node, d \in Conn :
        /\ Holds(m, p, d)' <=> Holds(m, p, d)
        /\ Pumps(m, p, d)' <=> Pumps(m, p, d) \/ (m = n /\ p = q /\ d = c)
        /\ online'[m][p] = IF m = n /\ p = q THEN online[m][p] + 1 ELSE online[m][p]
  BY <1>0, <1>1 DEF TypeInv, TypeOK, Holds, Pumps, Registered
<1>3. \A d \in Conn : ~Pumps(n, q, d)
  <2>1. Holds(n, q, c)
    BY <1>1 DEF Holds, Registered
  <2>2. \A d \in Conn : Pumps(n, q, d) => Holds(n, q, d)
    BY DEF Holds, Pumps, Registered
  <2>3. ~Pumps(n, q, c)
    BY <1>1 DEF Pumps
  <2>4. \A d \in Conn : Holds(n, q, d) => d = c
    BY <1>0, <2>1 DEF LinkInv, RegistryOwner
  <2> QED
    BY <2>2, <2>3, <2>4
<1>4. RegistryOwner'
  BY <1>1, <1>2 DEF LinkInv, RegistryOwner
<1>5. online[n][q] = offline[n][q] /\ online[n][q] \in Nat
  <2>1. online[n][q] \in Nat /\ offline[n][q] \in Nat
    BY <1>0 DEF TypeInv, TypeOK
  <2>2. ~\E d \in Conn : Pumps(n, q, d)
    BY <1>3
  <2>3. online[n][q] = offline[n][q] + (IF \E d \in Conn : Pumps(n, q, d) THEN 1 ELSE 0)
    BY <1>0 DEF LinkInv, PresenceMatchesPump
  <2> QED
    BY <2>1, <2>2, <2>3
<1>6. PresenceMatchesPump'
  <2> SUFFICES ASSUME NEW m \in Node, NEW p \in Node
               PROVE  online'[m][p] = offline'[m][p]
                        + (IF \E d \in Conn : Pumps(m, p, d)' THEN 1 ELSE 0)
    BY DEF PresenceMatchesPump
  <2>1. CASE m = n /\ p = q
    BY <1>1, <1>2, <1>5, <2>1
  <2>2. CASE ~(m = n /\ p = q)
    BY <1>1, <1>2, <2>2 DEF LinkInv, PresenceMatchesPump
  <2> QED
    BY <2>1, <2>2
<1> QED
  BY <1>0, <1>1, <1>4, <1>5, <1>6 DEF LinkInv, Presence!Online

LEMMA PublishOfflineStep ==
  ASSUME TypeInv, LinkInv, NEW n \in Node, NEW c \in Conn, PublishOffline(n, c)
  PROVE  /\ LinkInv'
         /\ peer[n][c] \in Node /\ Presence!Offline(n, peer[n][c])
<1> DEFINE q == peer[n][c]
<1>0. q \in Node
  BY DEF PublishOffline, TypeInv, TasksHavePeers
<1>1. /\ offline' = [offline EXCEPT ![n][q] = @ + 1]
      /\ task' = [task EXCEPT ![n][c] = "left"]
      /\ task[n][c] = "leaving"
      /\ UNCHANGED <<phase, peer, channels, online>>
  BY DEF PublishOffline, SetTask, netVars
<1>2. \A m, p \in Node, d \in Conn :
        /\ Holds(m, p, d)' <=> Holds(m, p, d)
        /\ Pumps(m, p, d)' <=> Pumps(m, p, d) /\ ~(m = n /\ d = c)
        /\ offline'[m][p] = IF m = n /\ p = q THEN offline[m][p] + 1 ELSE offline[m][p]
  BY <1>0, <1>1 DEF TypeInv, TypeOK, Holds, Pumps, Registered
<1>3. Pumps(n, q, c) /\ \A d \in Conn : Pumps(n, q, d) => d = c
  <2>1. \A d \in Conn : Pumps(n, q, d) => Holds(n, q, d)
    BY DEF Holds, Pumps, Registered
  <2>2. Pumps(n, q, c)
    BY <1>1 DEF Pumps
  <2> QED
    BY <1>0, <2>1, <2>2 DEF LinkInv, RegistryOwner
<1>4. RegistryOwner'
  BY <1>1, <1>2 DEF LinkInv, RegistryOwner
<1>5. online[n][q] = offline[n][q] + 1 /\ offline[n][q] \in Nat
  BY <1>0, <1>3 DEF LinkInv, PresenceMatchesPump, TypeInv, TypeOK
<1>6. PresenceMatchesPump'
  <2> SUFFICES ASSUME NEW m \in Node, NEW p \in Node
               PROVE  online'[m][p] = offline'[m][p]
                        + (IF \E d \in Conn : Pumps(m, p, d)' THEN 1 ELSE 0)
    BY DEF PresenceMatchesPump
  <2>1. CASE m = n /\ p = q
    BY <1>1, <1>2, <1>3, <1>5, <2>1
  <2>2. CASE ~(m = n /\ p = q)
    <3>1. \A d \in Conn : Pumps(m, p, d)' <=> Pumps(m, p, d)
      BY <1>2, <2>2 DEF Pumps
    <3> QED
      BY <1>1, <1>2, <2>2, <3>1 DEF LinkInv, PresenceMatchesPump
  <2> QED
    BY <2>1, <2>2
<1> QED
  BY <1>0, <1>1, <1>4, <1>5, <1>6 DEF LinkInv, Presence!Offline

LEMMA UnregisterStep ==
  ASSUME TypeInv, LinkInv, NEW n \in Node, NEW c \in Conn, Unregister(n, c)
  PROVE  LinkInv'
<1> DEFINE q == peer[n][c]
<1>0. q \in Node
  BY DEF Unregister, TypeInv, TasksHavePeers
<1>1. /\ channels' = [channels EXCEPT ![n][q] = None]
      /\ task' = [task EXCEPT ![n][c] = "done"]
      /\ task[n][c] = "left"
      /\ UNCHANGED <<phase, peer, online, offline>>
  BY DEF Unregister, SetTask, netVars, eventVars
<1>2. \A m, p \in Node, d \in Conn :
        /\ Holds(m, p, d)' <=> Holds(m, p, d) /\ ~(m = n /\ d = c)
        /\ Pumps(m, p, d)' <=> Pumps(m, p, d)
        /\ channels'[m][p] = IF m = n /\ p = q THEN None ELSE channels[m][p]
  BY <1>0, <1>1 DEF TypeInv, TypeOK, Holds, Pumps, Registered
<1>3. Holds(n, q, c)
  BY <1>1 DEF Holds, Registered
<1>4. RegistryOwner'
  <2> SUFFICES ASSUME NEW m \in Node, NEW p \in Node, NEW d \in Conn
               PROVE  /\ channels'[m][p] = d => Holds(m, p, d)'
                      /\ Holds(m, p, d)' /\ phase'[m] \notin Swept => channels'[m][p] = d
                      /\ \A e \in Conn : Holds(m, p, d)' /\ Holds(m, p, e)' => d = e
    BY DEF RegistryOwner
  <2>1. CASE m = n /\ p = q
    BY <1>0, <1>1, <1>2, <1>3, <2>1, LinksAssumption DEF LinkInv, RegistryOwner
  <2>2. CASE ~(m = n /\ p = q)
    <3>1. Holds(m, p, d)' <=> Holds(m, p, d)
      BY <1>2, <2>2 DEF Holds
    <3> QED
      BY <1>1, <1>2, <2>2, <3>1 DEF LinkInv, RegistryOwner
  <2> QED
    BY <2>1, <2>2
<1>5. PresenceMatchesPump'
  BY <1>1, <1>2 DEF LinkInv, PresenceMatchesPump
<1> QED
  BY <1>4, <1>5 DEF LinkInv

LEMMA CloseAllStep ==
  ASSUME TypeInv, LinkInv, NEW n \in Node, CloseAll(n)
  PROVE  LinkInv'
<1>1. /\ channels' = [channels EXCEPT ![n] = [p \in Node |-> None]]
      /\ phase' = [phase EXCEPT ![n] = "swept"]
      /\ UNCHANGED <<task, peer, online, offline>>
  BY DEF CloseAll, netVars, eventVars
<1>2. \A m, p \in Node, d \in Conn :
        /\ Holds(m, p, d)' <=> Holds(m, p, d)
        /\ Pumps(m, p, d)' <=> Pumps(m, p, d)
        /\ channels'[m][p] = IF m = n THEN None ELSE channels[m][p]
        /\ phase'[m] = IF m = n THEN "swept" ELSE phase[m]
  BY <1>1 DEF TypeInv, TypeOK, Holds, Pumps
<1>3. RegistryOwner'
  <2> SUFFICES ASSUME NEW m \in Node, NEW p \in Node, NEW d \in Conn
               PROVE  /\ channels'[m][p] = d => Holds(m, p, d)'
                      /\ Holds(m, p, d)' /\ phase'[m] \notin Swept => channels'[m][p] = d
                      /\ \A e \in Conn : Holds(m, p, d)' /\ Holds(m, p, e)' => d = e
    BY DEF RegistryOwner
  <2>1. CASE m = n
    <3>1. channels'[m][p] # d /\ phase'[m] \in Swept
      BY <1>2, <2>1, LinksAssumption DEF Swept
    <3> QED
      BY <1>2, <3>1 DEF LinkInv, RegistryOwner
  <2>2. CASE m # n
    BY <1>2, <2>2 DEF LinkInv, RegistryOwner
  <2> QED
    BY <2>1, <2>2
<1>4. PresenceMatchesPump'
  BY <1>1, <1>2 DEF LinkInv, PresenceMatchesPump
<1> QED
  BY <1>3, <1>4 DEF LinkInv

\* One step of the specification preserves the invariant, and is a step of
\* PeerPresence or leaves its variables alone.
LEMMA LinkStepInv ==
  ASSUME TypeInv, LinkInv, [Next]_vars
  PROVE  /\ LinkInv'
         /\ [Presence!Next]_<<online, offline>>
<1> USE DEF netVars, eventVars, envVars
<1> DEFINE Quiet == LinkInv' /\ UNCHANGED <<online, offline>>
<1>1. ASSUME NEW n \in Node, NEW c \in Conn, HandshakeResponder(n, c) PROVE Quiet
  <2> SameStanding
    BY <1>1 DEF TypeInv, TypeOK, HandshakeResponder, SetTask, SameStanding, Holds, Pumps, Registered
  <2> QED
    BY <1>1, Frame DEF HandshakeResponder
<1>2. ASSUME NEW n \in Node, NEW c \in Conn, HandshakeInitiator(n, c) PROVE Quiet
  <2> SameStanding
    BY <1>2 DEF TypeInv, TypeOK, HandshakeInitiator, SetTask, SameStanding, Holds, Pumps, Registered
  <2> QED
    BY <1>2, Frame DEF HandshakeInitiator
<1>3. ASSUME NEW n \in Node, NEW c \in Conn, HandshakeFails(n, c) PROVE Quiet
  <2> SameStanding
    BY <1>3 DEF TypeInv, TypeOK, HandshakeFails, SetTask, SameStanding, Holds, Pumps, Registered
  <2> QED
    BY <1>3, Frame DEF HandshakeFails
<1>4. ASSUME NEW n \in Node, NEW c \in Conn, DialAddrChecks(n, c) PROVE Quiet
  <2> SameStanding
    BY <1>4 DEF TypeInv, TypeOK, DialAddrChecks, SetTask, SameStanding, Holds, Pumps, Registered
  <2> QED
    BY <1>4, Frame DEF DialAddrChecks
<1>5. ASSUME NEW n \in Node, NEW c \in Conn, Superseded(n, c) PROVE Quiet
  <2> SameStanding
    BY <1>5 DEF TypeInv, TypeOK, Superseded, SetTask, SameStanding, Holds, Pumps, Registered
  <2> QED
    BY <1>5, Frame DEF Superseded
<1>6. ASSUME NEW n \in Node, NEW c \in Conn, PumpReadError(n, c) PROVE Quiet
  <2> SameStanding
    BY <1>6 DEF TypeInv, TypeOK, PumpReadError, SetTask, SameStanding, Holds, Pumps, Registered
  <2> QED
    BY <1>6, Frame DEF PumpReadError
<1>7. ASSUME NEW n \in Node, NEW c \in Conn, PumpRejects(n, c) PROVE Quiet
  <2> SameStanding
    BY <1>7 DEF TypeInv, TypeOK, PumpRejects, SetTask, SameStanding, Holds, Pumps, Registered
  <2> QED
    BY <1>7, Frame DEF PumpRejects
<1>8. ASSUME NEW n \in Node, NEW c \in Conn, ScanCloses(n, c) PROVE Quiet
  <2> SameStanding
    BY <1>8 DEF TypeInv, TypeOK, ScanCloses, SetTask, SameStanding, Holds, Pumps, Registered
  <2> QED
    BY <1>8, Frame DEF ScanCloses
<1>9. ASSUME NEW n \in Node, NEW p \in Node, Announced(n, p) PROVE Quiet
  <2> SameStanding
    BY <1>9 DEF TypeInv, TypeOK, Announced, SameStanding, Holds, Pumps, Swept
  <2> QED
    BY <1>9, Frame DEF Announced
<1>10. ASSUME NEW n \in Node, NEW p \in Node, Expired(n, p) PROVE Quiet
  <2> SameStanding
    BY <1>10 DEF TypeInv, TypeOK, Expired, SameStanding, Holds, Pumps, Swept
  <2> QED
    BY <1>10, Frame DEF Expired
<1>11. ASSUME NEW n \in Node, NEW p \in Node, Reap(n, p) PROVE Quiet
  <2> SameStanding
    BY <1>11 DEF TypeInv, TypeOK, Reap, SameStanding, Holds, Pumps, Swept
  <2> QED
    BY <1>11, Frame DEF Reap
<1>12. ASSUME NEW c \in Conn, RogueFails(c) PROVE Quiet
  <2> SameStanding
    BY <1>12 DEF TypeInv, TypeOK, RogueFails, SameStanding, Holds, Pumps, Swept
  <2> QED
    BY <1>12, Frame DEF RogueFails
<1>13. ASSUME NEW c \in Conn, Break(c) PROVE Quiet
  <2> SameStanding
    BY <1>13 DEF TypeInv, TypeOK, Break, SameStanding, Holds, Pumps, Swept
  <2> QED
    BY <1>13, Frame DEF Break
<1>14. ASSUME NEW n \in Node, Cancel(n) PROVE Quiet
  <2> SameStanding
    BY <1>14 DEF TypeInv, TypeOK, Cancel, SameStanding, Holds, Pumps, Swept
  <2> QED
    BY <1>14, Frame DEF Cancel
<1>15. ASSUME NEW n \in Node, CloseTransport(n) PROVE Quiet
  <2> SameStanding
    BY <1>15 DEF TypeInv, TypeOK, CloseTransport, SameStanding, Holds, Pumps, Swept
  <2> QED
    BY <1>15, Frame DEF CloseTransport
<1>16. ASSUME NEW n \in Node, Restart(n) PROVE Quiet
  <2> SameStanding
    BY <1>16 DEF TypeInv, TypeOK, Restart, SameStanding, Holds, Pumps, Swept
  <2> QED
    BY <1>16, Frame DEF Restart
<1>17. ASSUME NEW n \in Node, NEW p \in Node, dialAndHandshake(n, p) PROVE Quiet
  <2>1. Dial(n, p, "discovery") \/ Unanswered
    BY <1>17 DEF dialAndHandshake
  <2> SameStanding
    BY <1>17, <2>1, DialStanding DEF dialAndHandshake, SameStanding
  <2> QED
    BY <1>17, Frame DEF dialAndHandshake
<1>18. ASSUME NEW n \in Node, NEW p \in Node, dialAddr(n, p) PROVE Quiet
  <2>1. Dial(n, p, "manual") \/ Unanswered
    BY <1>18 DEF dialAddr
  <2> SameStanding
    BY <1>18, <2>1, DialStanding DEF dialAddr, SameStanding
  <2> QED
    BY <1>18, Frame DEF dialAddr
<1>19. ASSUME NEW n \in Node, NEW p \in Node, Scan(n, p) PROVE Quiet
  <2>1. Dial(n, p, "scan") \/ Unanswered
    BY <1>19 DEF Scan
  <2> SameStanding
    BY <1>19, <2>1, DialStanding DEF Scan, SameStanding
  <2> QED
    BY <1>19, Frame DEF Scan
<1>20. ASSUME UNCHANGED vars PROVE Quiet
  <2> SameStanding
    BY <1>20 DEF vars, SameStanding, Holds, Pumps
  <2> QED
    BY <1>20, Frame DEF vars
<1>21. ASSUME NEW n \in Node, NEW c \in Conn, Register(n, c) PROVE Quiet
  BY <1>21, RegisterStep DEF Register
<1>22. ASSUME NEW n \in Node, NEW c \in Conn, Unregister(n, c) PROVE Quiet
  BY <1>22, UnregisterStep DEF Unregister
<1>23. ASSUME NEW n \in Node, CloseAll(n) PROVE Quiet
  BY <1>23, CloseAllStep DEF CloseAll
<1>24. ASSUME NEW n \in Node, NEW c \in Conn, PublishOnline(n, c)
      PROVE  LinkInv' /\ Presence!Next
  BY <1>24, PublishOnlineStep DEF Presence!Next
<1>25. ASSUME NEW n \in Node, NEW c \in Conn, PublishOffline(n, c)
      PROVE  LinkInv' /\ Presence!Next
  BY <1>25, PublishOfflineStep DEF Presence!Next
<1>26. ASSUME NEW n \in Node, NEW c \in Conn, SetAfterSweep(n, c)
      PROVE  LinkInv' /\ Presence!Next
  BY <1>26, ProcessEndStep DEF SetAfterSweep, ProcessEnds, Presence!Next, Presence!Forget
<1>27. ASSUME NEW n \in Node, Crash(n)
      PROVE  LinkInv' /\ Presence!Next
  BY <1>27, ProcessEndStep DEF Crash, ProcessEnds, Presence!Next, Presence!Forget
<1>28. ASSUME NEW n \in Node, NEW c \in Conn, WrapFails(n, c) PROVE Quiet
  <2> SameStanding
    BY <1>28 DEF TypeInv, TypeOK, WrapFails, SetTask, SameStanding, Holds, Pumps, Registered
  <2> QED
    BY <1>28, Frame DEF WrapFails
<1>29. Quiet \/ (LinkInv' /\ Presence!Next)
  BY <1>1, <1>2, <1>3, <1>4, <1>5, <1>6, <1>7, <1>8, <1>9, <1>10, <1>11, <1>12, <1>13, <1>14, <1>15, <1>16, <1>17, <1>18, <1>19, <1>20, <1>21, <1>22, <1>23,
     <1>24, <1>25, <1>26, <1>27, <1>28
  DEF Next, TaskStep, LinkStep, ProcessStep
<1> QED
  BY <1>29

\* The inductive invariant holds in every reachable state.
LEMMA LinkInvariant == Spec => [](TypeInv /\ LinkInv)
<1>1. Init => TypeInv /\ LinkInv
  BY LinksAssumption
  DEF Init, TypeInv, TypeOK, TasksHavePeers, TaskStates, Phases, LinkInv,
      RegistryOwner, PresenceMatchesPump, Holds, Pumps, Registered
<1>2. TypeInv /\ LinkInv /\ [Next]_vars => (TypeInv /\ LinkInv)'
  BY TypeStep, LinkStepInv
<1> QED
  BY <1>1, <1>2, PTL DEF Spec

\* Every registered channel is owned by its own pump, one per peer, for every
\* number of nodes, connections, commands and faults.
THEOREM RegistryOwned == Spec => []RegistryOwner
<1>1. LinkInv => RegistryOwner
  BY DEF LinkInv
<1> QED
  BY <1>1, LinkInvariant, PTL

\* PeerOnline and PeerOffline enclose exactly the life of a pump.
THEOREM PresenceMatches == Spec => []PresenceMatchesPump
<1>1. LinkInv => PresenceMatchesPump
  BY DEF LinkInv
<1> QED
  BY <1>1, LinkInvariant, PTL

\* PeerLinks implements PeerPresence: the events about a peer alternate.
THEOREM ImplementsPresence == Spec => PresenceSpec
<1>1. Init => Presence!Init
  BY DEF Init, Presence!Init
<1>2. TypeInv /\ LinkInv /\ [Next]_vars => [Presence!Next]_(Presence!vars)
  BY LinkStepInv DEF Presence!vars
<1> QED
  BY <1>1, <1>2, LinkInvariant, PTL DEF Spec, PresenceSpec, Presence!Spec
-----------------------------------------------------------------------------
(* Sockets are closed by the goroutine that gives up on them *)

\* A socket is open only while a goroutine of this process has it, or when dialAddr
\* found its peer connected and left it.  After closeAll every registered channel is
\* closed: channels.delete will not find it any more.
SocketInv ==
    \A n \in Node, c \in Conn :
        /\ open[n][c] => task[n][c] \notin {"none", "done", "gone"}
        /\ task[n][c] \in Registered /\ phase[n] \in Swept => ~open[n][c]

\* Closing sockets does no harm.
LEMMA Closing ==
  ASSUME SocketInv, UNCHANGED <<task, dialer>>,
         \A m \in Node : phase'[m] \in Swept => phase[m] \in Swept,
         \A m \in Node, d \in Conn : open'[m][d] => open[m][d]
  PROVE  SocketInv'
BY DEF SocketInv

\* Nor does a goroutine that goes on, if it leaves the socket as it should.
LEMMA GoesOn ==
  ASSUME TypeInv, SocketInv, NEW n \in Node, NEW c \in Conn, NEW s,
         UNCHANGED <<phase, dialer>>, SetTask(n, c, s),
         \A m \in Node, d \in Conn : open'[m][d] => open[m][d],
         s \in {"none", "done", "gone"} => ~open'[n][c],
         s \in Registered /\ phase[n] \in Swept => ~open'[n][c]
  PROVE  SocketInv'
<1> SUFFICES ASSUME NEW m \in Node, NEW d \in Conn
             PROVE  /\ open'[m][d] => task'[m][d] \notin {"none", "done", "gone"}
                    /\ task'[m][d] \in Registered /\ phase[m] \in Swept => ~open'[m][d]
  BY DEF SocketInv
<1>1. task' = [task EXCEPT ![n][c] = s]
  BY DEF SetTask
<1>2. CASE m = n /\ d = c
  <2>1. task'[m][d] = s
    BY <1>1, <1>2 DEF TypeInv, TypeOK
  <2> QED
    BY <1>2, <2>1
<1>3. CASE ~(m = n /\ d = c)
  <2>1. task'[m][d] = task[m][d]
    BY <1>1, <1>3 DEF TypeInv, TypeOK
  <2> QED
    BY <2>1 DEF SocketInv
<1> QED
  BY <1>2, <1>3

\* A dial opens sockets for two new goroutines, on a connection nobody used.
LEMMA DialSockets ==
  ASSUME TypeInv, SocketInv, NEW n \in Node, NEW p \in Node,
         NEW kind \in {"discovery", "manual", "scan"},
         Dial(n, p, kind) \/ Unanswered, phase' = phase
  PROVE  SocketInv'
<1>1. CASE Connect(n, p, kind)
  <2> PICK c \in Conn :
        /\ dialer[c].node = None
        /\ dialer' = [dialer EXCEPT ![c] = [node |-> n, kind |-> kind]]
        /\ task' = [task EXCEPT ![n][c] = "hello", ![p][c] = "hello"]
        /\ open' = [open EXCEPT ![n][c] = TRUE, ![p][c] = TRUE]
    BY <1>1 DEF Connect, Fresh
  <2>1. \A m \in Node : task[m][c] = "none" /\ ~open[m][c]
    BY LinksAssumption DEF TypeInv, TasksHavePeers, SocketInv
  <2> SUFFICES ASSUME NEW m \in Node, NEW d \in Conn
               PROVE  /\ open'[m][d] => task'[m][d] \notin {"none", "done", "gone"}
                      /\ task'[m][d] \in Registered /\ phase[m] \in Swept => ~open'[m][d]
    BY DEF SocketInv
  <2>2. CASE d = c /\ m \in {n, p}
    <3>1. task'[m][d] = "hello"
      BY <2>2 DEF TypeInv, TypeOK
    <3> QED
      BY <3>1 DEF Registered
  <2>3. CASE d = c /\ m \notin {n, p}
    <3>1. task'[m][d] = "none" /\ ~open'[m][d]
      BY <2>1, <2>3 DEF TypeInv, TypeOK
    <3> QED
      BY <3>1 DEF Registered
  <2>4. CASE d # c
    <3>1. task'[m][d] = task[m][d] /\ open'[m][d] = open[m][d] /\ dialer'[d] = dialer[d]
      BY <2>4 DEF TypeInv, TypeOK
    <3> QED
      BY <3>1 DEF SocketInv
  <2> QED
    BY <2>2, <2>3, <2>4
<1>2. CASE Reuse(n, p) \/ Unanswered
  BY <1>2, Closing DEF Reuse, Unanswered, netVars
<1> QED
  BY <1>1, <1>2 DEF Dial

\* channels.delete closes the channel of the goroutine that calls it: the registry
\* holds no other one for the peer, and after closeAll this one is closed already.
LEMMA UnregisterSockets ==
  ASSUME TypeInv, LinkInv, SocketInv, NEW n \in Node, NEW c \in Conn, Unregister(n, c)
  PROVE  SocketInv'
<1> DEFINE q == peer[n][c]
<1>1. q \in Node /\ Holds(n, q, c)
  BY DEF Unregister, TypeInv, TasksHavePeers, Holds, Registered
<1>2. /\ open' = open \/ (channels[n][q] # None /\ open' = [open EXCEPT ![n][channels[n][q]] = FALSE])
      /\ channels[n][q] # None => open' = [open EXCEPT ![n][channels[n][q]] = FALSE]
      /\ SetTask(n, c, "done") /\ UNCHANGED <<phase, dialer>>
  BY DEF Unregister, CloseSocket, netVars
<1>3. \A m \in Node, d \in Conn : open'[m][d] => open[m][d]
  <2>1. CASE open' = open
    BY <2>1
  <2>2. CASE channels[n][q] # None /\ open' = [open EXCEPT ![n][channels[n][q]] = FALSE]
    <3>1. channels[n][q] \in Conn
      <4>1. channels[n] \in [Node -> Conn \cup {None}]
        BY DEF TypeInv, TypeOK
      <4> QED
        BY <1>1, <2>2, <4>1
    <3> DEFINE b == channels[n][q]
    <3>2. b \in Conn /\ open' = [open EXCEPT ![n][b] = FALSE]
      BY <2>2, <3>1
    <3> HIDE DEF b
    <3> QED
      BY <3>2 DEF TypeInv, TypeOK
  <2> QED
    BY <1>2, <2>1, <2>2
<1>4. ~open'[n][c]
  <2>1. CASE phase[n] \in Swept
    BY <1>1, <1>3, <2>1 DEF SocketInv, Holds
  <2>2. CASE phase[n] \notin Swept
    <3>1. channels[n][q] = c
      BY <1>1, <2>2 DEF LinkInv, RegistryOwner
    <3>2. open' = [open EXCEPT ![n][c] = FALSE]
      BY <1>2, <3>1, LinksAssumption
    <3> QED
      BY <3>2 DEF TypeInv, TypeOK
  <2> QED
    BY <2>1, <2>2
<1> QED
  BY <1>2, <1>3, <1>4, GoesOn DEF Registered

\* closeAll finds the channel of every registered goroutine.
LEMMA CloseAllSockets ==
  ASSUME TypeInv, LinkInv, SocketInv, NEW n \in Node, CloseAll(n)
  PROVE  SocketInv'
<1>1. /\ phase[n] = "cancelled"
      /\ phase' = [phase EXCEPT ![n] = "swept"]
      /\ open' = [open EXCEPT ![n] = [c \in Conn |->
                      open[n][c] /\ \A p \in Node : channels[n][p] # c]]
      /\ UNCHANGED <<task, dialer>>
  BY DEF CloseAll, netVars
<1> SUFFICES ASSUME NEW m \in Node, NEW d \in Conn
             PROVE  /\ open'[m][d] => task[m][d] \notin {"none", "done", "gone"}
                    /\ task[m][d] \in Registered /\ phase'[m] \in Swept => ~open'[m][d]
  BY <1>1 DEF SocketInv
<1>2. CASE m = n
  <2>1. open'[n][d] <=> open[n][d] /\ \A p \in Node : channels[n][p] # d
    BY <1>1 DEF TypeInv, TypeOK
  <2>2. task[n][d] \in Registered => ~open'[n][d]
    <3> SUFFICES ASSUME task[n][d] \in Registered PROVE \E p \in Node : channels[n][p] = d
      BY <2>1
    <3>1. peer[n][d] \in Node
      BY DEF TypeInv, TasksHavePeers, Registered
    <3>2. Holds(n, peer[n][d], d)
      BY DEF Holds
    <3>3. phase[n] \notin Swept
      BY <1>1 DEF Swept
    <3> QED
      BY <3>1, <3>2, <3>3 DEF LinkInv, RegistryOwner
  <2> QED
    BY <1>2, <2>1, <2>2 DEF SocketInv
<1>3. CASE m # n
  <2>1. open'[m][d] = open[m][d] /\ phase'[m] = phase[m]
    BY <1>1, <1>3 DEF TypeInv, TypeOK
  <2> QED
    BY <2>1 DEF SocketInv
<1> QED
  BY <1>2, <1>3

\* The end of a process closes what it had.
LEMMA ProcessEndSockets ==
  ASSUME TypeInv, SocketInv, NEW n \in Node, ProcessEnds(n),
         NEW f \in {"down", "panicked"}, phase' = [phase EXCEPT ![n] = f]
  PROVE  SocketInv'
<1>1. /\ open' = [open EXCEPT ![n] = [c \in Conn |-> FALSE]]
      /\ task' = [task EXCEPT ![n] = [c \in Conn |->
                      IF task[n][c] = "none" THEN "none" ELSE "gone"]]
      /\ dialer' = dialer
  BY DEF ProcessEnds, netVars
<1>2. \A m \in Node, d \in Conn :
        /\ m = n => ~open'[m][d] /\ task'[m][d] \in {"none", "gone"}
        /\ m # n => /\ open'[m][d] = open[m][d] /\ task'[m][d] = task[m][d]
                    /\ phase'[m] = phase[m]
  BY <1>1 DEF TypeInv, TypeOK
<1> SUFFICES ASSUME NEW m \in Node, NEW d \in Conn
             PROVE  /\ open'[m][d] => task'[m][d] \notin {"none", "done", "gone"}
                    /\ task'[m][d] \in Registered /\ phase'[m] \in Swept => ~open'[m][d]
  BY <1>1 DEF SocketInv
<1>3. CASE m = n
  BY <1>2, <1>3 DEF Registered
<1>4. CASE m # n
  BY <1>2, <1>4 DEF SocketInv
<1> QED
  BY <1>3, <1>4

LEMMA SocketStep ==
  ASSUME TypeInv, LinkInv, SocketInv, [Next]_vars
  PROVE  SocketInv'
<1> USE DEF netVars, eventVars, envVars
<1>1. ASSUME NEW n \in Node, NEW c \in Conn, HandshakeResponder(n, c) PROVE SocketInv'
  BY <1>1, GoesOn DEF HandshakeResponder, Registered
<1>2. ASSUME NEW n \in Node, NEW c \in Conn, HandshakeInitiator(n, c) PROVE SocketInv'
  BY <1>2, GoesOn DEF HandshakeInitiator, Registered
<1>3. ASSUME NEW n \in Node, NEW c \in Conn, HandshakeFails(n, c) PROVE SocketInv'
  <2>1. ~open'[n][c] /\ \A m \in Node, d \in Conn : open'[m][d] => open[m][d]
    BY <1>3 DEF HandshakeFails, CloseSocket, TypeInv, TypeOK
  <2> QED
    BY <1>3, <2>1, GoesOn DEF HandshakeFails, Registered
<1>4. ASSUME NEW n \in Node, NEW c \in Conn, DialAddrChecks(n, c) PROVE SocketInv'
  BY <1>4, GoesOn DEF DialAddrChecks, Registered
<1>5. ASSUME NEW n \in Node, NEW c \in Conn, Register(n, c) PROVE SocketInv'
  BY <1>5, GoesOn DEF Register
<1>6. ASSUME NEW n \in Node, NEW c \in Conn, Superseded(n, c) PROVE SocketInv'
  <2>1. ~open'[n][c] /\ \A m \in Node, d \in Conn : open'[m][d] => open[m][d]
    BY <1>6 DEF Superseded, CloseSocket, TypeInv, TypeOK
  <2> QED
    BY <1>6, <2>1, GoesOn DEF Superseded, Registered
<1>7. ASSUME NEW n \in Node, NEW c \in Conn, SetAfterSweep(n, c) PROVE SocketInv'
  BY <1>7, ProcessEndSockets DEF SetAfterSweep
<1>8. ASSUME NEW n \in Node, NEW c \in Conn, PublishOnline(n, c) PROVE SocketInv'
  <2>1. phase[n] \in Swept => ~open[n][c]
    BY <1>8 DEF PublishOnline, SocketInv, Registered
  <2> QED
    BY <1>8, <2>1, GoesOn DEF PublishOnline
<1>9. ASSUME NEW n \in Node, NEW c \in Conn, PumpReadError(n, c) PROVE SocketInv'
  <2>1. ~open'[n][c] /\ \A m \in Node, d \in Conn : open'[m][d] => open[m][d]
    BY <1>9 DEF PumpReadError, CloseSocket, TypeInv, TypeOK
  <2> QED
    BY <1>9, <2>1, GoesOn DEF PumpReadError
<1>10. ASSUME NEW n \in Node, NEW c \in Conn, PumpRejects(n, c) PROVE SocketInv'
  <2>1. phase[n] \in Swept => ~open[n][c]
    BY <1>10 DEF PumpRejects, SocketInv, Registered
  <2> QED
    BY <1>10, <2>1, GoesOn DEF PumpRejects
<1>11. ASSUME NEW n \in Node, NEW c \in Conn, PublishOffline(n, c) PROVE SocketInv'
  <2>1. phase[n] \in Swept => ~open[n][c]
    BY <1>11 DEF PublishOffline, SocketInv, Registered
  <2> QED
    BY <1>11, <2>1, GoesOn DEF PublishOffline
<1>12. ASSUME NEW n \in Node, NEW c \in Conn, Unregister(n, c) PROVE SocketInv'
  BY <1>12, UnregisterSockets
<1>13. ASSUME NEW n \in Node, NEW c \in Conn, ScanCloses(n, c) PROVE SocketInv'
  <2>1. \A m \in Node, d \in Conn : open'[m][d] => open[m][d]
    BY <1>13 DEF ScanCloses, CloseSocket, TypeInv, TypeOK
  <2> QED
    BY <1>13, <2>1, Closing DEF ScanCloses
<1>14. ASSUME NEW n \in Node, NEW p \in Node, Announced(n, p) \/ Expired(n, p)
      PROVE  SocketInv'
  BY <1>14, Closing DEF Announced, Expired
<1>15. ASSUME NEW n \in Node, NEW p \in Node, dialAndHandshake(n, p) PROVE SocketInv'
  BY <1>15, DialSockets DEF dialAndHandshake
<1>16. ASSUME NEW n \in Node, NEW p \in Node, dialAddr(n, p) PROVE SocketInv'
  BY <1>16, DialSockets DEF dialAddr
<1>17. ASSUME NEW n \in Node, NEW p \in Node, Scan(n, p) PROVE SocketInv'
  BY <1>17, DialSockets DEF Scan
<1>18. ASSUME NEW n \in Node, NEW p \in Node, Reap(n, p) PROVE SocketInv'
  <2>1. \A m \in Node, d \in Conn : open'[m][d] => open[m][d]
    BY <1>18 DEF Reap, CloseSocket, TypeInv, TypeOK
  <2> QED
    BY <1>18, <2>1, Closing DEF Reap
<1>19. ASSUME NEW c \in Conn, RogueFails(c) PROVE SocketInv'
  <2>1. \A m \in Node, d \in Conn : open'[m][d] => open[m][d]
    BY <1>19 DEF RogueFails, CloseSocket, TypeInv, TypeOK
  <2> QED
    BY <1>19, <2>1, Closing DEF RogueFails
<1>20. ASSUME NEW c \in Conn, Break(c) PROVE SocketInv'
  BY <1>20, Closing DEF Break
<1>21. ASSUME NEW n \in Node, Cancel(n) \/ Restart(n) PROVE SocketInv'
  <2>1. \A m \in Node : phase'[m] \in Swept => phase[m] \in Swept
    BY <1>21 DEF Cancel, Restart, Swept, TypeInv, TypeOK
  <2> QED
    BY <1>21, <2>1, Closing DEF Cancel, Restart
<1>22. ASSUME NEW n \in Node, CloseAll(n) PROVE SocketInv'
  BY <1>22, CloseAllSockets
<1>23. ASSUME NEW n \in Node, CloseTransport(n) PROVE SocketInv'
  <2>1. \A m \in Node : phase'[m] \in Swept => phase[m] \in Swept
    BY <1>23 DEF CloseTransport, Swept, TypeInv, TypeOK
  <2>2. \A m \in Node, d \in Conn : open'[m][d] => open[m][d]
    BY <1>23 DEF CloseTransport, TypeInv, TypeOK
  <2> QED
    BY <1>23, <2>1, <2>2, Closing DEF CloseTransport
<1>24. ASSUME NEW n \in Node, Crash(n) PROVE SocketInv'
  BY <1>24, ProcessEndSockets DEF Crash
<1>25. CASE UNCHANGED vars
  BY <1>25, Closing DEF vars
<1>26. ASSUME NEW n \in Node, NEW c \in Conn, WrapFails(n, c) PROVE SocketInv'
  <2>1. ~open'[n][c] /\ \A m \in Node, d \in Conn : open'[m][d] => open[m][d]
    BY <1>26 DEF WrapFails, CloseSocket, TypeInv, TypeOK
  <2> QED
    BY <1>26, <2>1, GoesOn DEF WrapFails, Registered
<1> QED
  BY <1>1, <1>2, <1>3, <1>4, <1>5, <1>6, <1>7, <1>8, <1>9, <1>10, <1>11, <1>12, <1>13,
     <1>14, <1>15, <1>16, <1>17, <1>18, <1>19, <1>20, <1>21, <1>22, <1>23, <1>24, <1>25, <1>26
  DEF Next, TaskStep, LinkStep, ProcessStep

\* No socket outlives the goroutine that reads it, but the one that dialAddr leaves
\* when it finds the peer connected: for every number of nodes, connections,
\* commands and faults.
THEOREM NoSocketAbandoned == Spec => []NoAbandonedSocket
<1>1. Init => SocketInv
  BY DEF Init, SocketInv, Registered
<1>2. SocketInv => NoAbandonedSocket
  BY DEF SocketInv, NoAbandonedSocket
<1> QED
  BY <1>1, <1>2, LinkInvariant, SocketStep, PTL DEF Spec
=============================================================================
