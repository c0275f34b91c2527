--------------------------- MODULE TransportProofs --------------------------
(***************************************************************************)
(* Proofs that heartbeats arrive in time, that the registry never drops an *)
(* open connection, and that at most one accepted connection outlives Run, *)
(* for any sockets, channel capacity, heartbeat and read deadline.         *)
(***************************************************************************)
EXTENDS Transport, FiniteSetTheorems, TLAPS

\* No connection was held up for longer than it was quiet, nor quiet for
\* longer than its far end's deadline.
Clocks == \A c \in Conn : held[c] <= quiet[c]

\* Every open connection is in the registry, which has one per address, and the
\* heartbeat loop sends to none but those.
Registry ==
    /\ \A c \in Conn : sock[c] \in Open => c \in conns
    /\ \A c, d \in conns : d \in SameKey(c) => c = d
    /\ round \cup beating \subseteq conns

Inv == TypeOK /\ Clocks /\ Registry

LEMMA InitInv == Init => Inv
<1> USE TransportAssumption DEF Init, Inv, TypeOK, Clocks, Registry, Open, Goroutine
<1> SUFFICES ASSUME Init PROVE Inv
  OBVIOUS
<1>1. due \in BOOLEAN /\ cancelled \in BOOLEAN /\ shut \in BOOLEAN
  OBVIOUS
<1>2. inbounds \in Seq(In) /\ Len(inbounds) <= InRoom
  OBVIOUS
<1>3. sock \in [Conn -> {"none", "raw", "closed"} \cup Open] /\ live \subseteq Goroutine
  OBVIOUS
<1>4. /\ quiet \in [Conn -> 0 .. ReadTimeout] /\ held \in [Conn -> 0 .. ReadTimeout]
      /\ nextTick \in 1 .. Heartbeat
  OBVIOUS
<1> QED
  BY <1>1, <1>2, <1>3, <1>4

\* Steps that open, close or stall one socket, and no more.
LEMMA SocketKeeps ==
    ASSUME Inv, NEW c \in Conn, NEW s \in {"raw", "closed"} \cup Open,
           sock' = [sock EXCEPT ![c] = s],
           UNCHANGED <<conns, acceptVars, beatVars, timeVars, lifeVars>>,
           c \in conns => s # "raw",
           s \in Open => c \in conns
    PROVE  Inv'
BY DEF Inv, TypeOK, Clocks, Registry, Open, SameKey, acceptVars, beatVars, timeVars, lifeVars

LEMMA RegisterKeeps ==
    ASSUME Inv, NEW c \in Conn, Register(c),
           UNCHANGED <<acceptVars, beatVars, timeVars, lifeVars>>
    PROVE  Inv'
<1> USE DEF Inv, TypeOK, Clocks, Registry, Open, SameKey, acceptVars, beatVars, timeVars, lifeVars
<1>1. CASE SameKey(c) \cap conns = {}
  <2>1. conns' = conns \cup {c} /\ sock' = [sock EXCEPT ![c] = "reads"]
    BY <1>1 DEF Register
  <2>2. \A d, e \in conns' : e \in SameKey(d) => d = e
    BY <1>1, <2>1, TransportAssumption
  <2> QED
    BY <2>1, <2>2
<1>2. CASE SameKey(c) \cap conns # {}
  <2>1. conns' = conns /\ sock' = [sock EXCEPT ![c] = "closed"]
    BY <1>2 DEF Register
  <2> QED
    BY <2>1
<1> QED
  BY <1>1, <1>2

LEMMA TickKeeps == ASSUME Inv, Tick PROVE Inv'
<1> USE TransportAssumption DEF Inv, TypeOK, Clocks, Tick
<1>1. \A c \in Healthy : quiet[c] + 1 \in 0 .. ReadTimeout
  BY DEF Busy, Healthy
<1>2. quiet' \in [Conn -> 0 .. ReadTimeout]
  BY <1>1
<1>3. held' \in [Conn -> 0 .. ReadTimeout] /\ \A c \in Conn : held'[c] <= quiet'[c]
  BY <1>1 DEF Healthy
<1>4. due' \in BOOLEAN /\ nextTick' \in 1 .. Heartbeat
  <2>1. CASE nextTick = 1
    BY <2>1
  <2>2. CASE nextTick # 1
    BY <2>2
  <2> QED
    BY <2>1, <2>2
<1>5. Registry'
  BY DEF Registry, SameKey
<1> QED
  BY <1>2, <1>3, <1>4, <1>5 DEF acceptVars, lifeVars

LEMMA ReachesTyped ==
    ASSUME TypeOK, Clocks, NEW c \in Conn, Reaches(c)
    PROVE  /\ quiet' \in [Conn -> 0 .. ReadTimeout]
           /\ held' \in [Conn -> 0 .. ReadTimeout]
           /\ Clocks'
BY TransportAssumption DEF TypeOK, Clocks, Reaches

LEMMA InvStep == Inv /\ [Next]_vars => Inv'
<1> SUFFICES ASSUME Inv, [Next]_vars PROVE Inv'
  OBVIOUS
<1> USE TransportAssumption
<1>1. CASE UNCHANGED vars
  BY <1>1 DEF Inv, TypeOK, Clocks, Registry, SameKey, vars, acceptVars, beatVars, timeVars, lifeVars
<1>2. ASSUME NEW c \in In, Accept(c) PROVE Inv'
  BY <1>2 DEF Accept, Fresh, Inv, TypeOK, Clocks, Registry, Open, SameKey, beatVars, timeVars, lifeVars
<1>3. ASSUME NEW c \in In, AcceptRegisters(c) PROVE Inv'
  BY <1>3, RegisterKeeps DEF AcceptRegisters
<1>4. ASSUME NEW c \in In, Push(c) PROVE Inv'
  <2>1. inbounds' \in Seq(In) /\ Len(inbounds') <= InRoom
    BY <1>4 DEF Push, Inv, TypeOK
  <2> QED
    BY <1>4, <2>1 DEF Push, Inv, TypeOK, Clocks, Registry, SameKey, beatVars, timeVars, lifeVars
<1>5. ASSUME NEW c \in In, PushCancelled(c) PROVE Inv'
  BY <1>5 DEF PushCancelled, Inv, TypeOK, Clocks, Registry, Open, SameKey, beatVars, timeVars
<1>6. ASSUME AcceptEnds \/ DispatchEnds \/ HeartbeatEnds \/ RunEnds PROVE Inv'
  BY <1>6 DEF AcceptEnds, DispatchEnds, HeartbeatEnds, RunEnds, Inv, TypeOK, Clocks,
     Registry, SameKey, acceptVars, beatVars, timeVars
<1>7. ASSUME NEW c \in Conn, BeatBlocks(c) PROVE Inv'
  BY <1>7 DEF BeatBlocks, Inv, TypeOK, Clocks, Registry, SameKey, acceptVars, timeVars, lifeVars
<1>8. ASSUME NEW c \in Conn, BeatSent(c) PROVE Inv'
  <2>1. /\ quiet' \in [Conn -> 0 .. ReadTimeout]
        /\ held' \in [Conn -> 0 .. ReadTimeout]
        /\ Clocks'
    BY <1>8, ReachesTyped DEF BeatSent, Inv, TypeOK, Clocks, timeVars
  <2> QED
    BY <1>8, <2>1 DEF BeatSent, Inv, TypeOK, Registry, SameKey, acceptVars, lifeVars
<1>9. ASSUME NEW c \in Conn, BeatFails(c) PROVE Inv'
  <2>1. c \in conns
    BY <1>9 DEF BeatFails, Sending, Inv, Registry
  <2>2. conns' = conns \ {c}
    BY <1>9, <2>1 DEF BeatFails, Inv, Registry, SameKey
  <2>3. TypeOK' /\ Clocks'
    BY <1>9, <2>2 DEF BeatFails, Inv, TypeOK, Clocks, Open, acceptVars, timeVars, lifeVars
  <2>4. Registry'
    BY <1>9, <2>2 DEF BeatFails, Inv, TypeOK, Registry, Open, SameKey
  <2> QED
    BY <2>3, <2>4 DEF Inv
<1>10. CASE StartRound
  BY <1>10 DEF StartRound, Inv, TypeOK, Clocks, Registry, SameKey, acceptVars, timeVars, lifeVars
<1>11. CASE Sweep
  BY <1>11 DEF Sweep, Inv, TypeOK, Clocks, Registry, Open, SameKey, acceptVars, beatVars, timeVars
<1>12. CASE Tick
  BY <1>12, TickKeeps
<1>13. ASSUME NEW c \in Conn, Stall(c) \/ FarLeaves(c) PROVE Inv'
  <2>1. c \in conns
    BY <1>13 DEF Stall, FarLeaves, Healthy, Inv, Registry, Open
  <2> QED
    BY <1>13, <2>1, SocketKeeps DEF Stall, FarLeaves, Open
<1>14. ASSUME NEW c \in Conn, Resume(c) PROVE Inv'
  <2>1. /\ quiet' \in [Conn -> 0 .. ReadTimeout]
        /\ held' \in [Conn -> 0 .. ReadTimeout]
        /\ Clocks'
    BY <1>14, ReachesTyped DEF Resume, Inv
  <2> QED
    BY <1>14, <2>1 DEF Resume, Inv, TypeOK, Registry, Open, SameKey, acceptVars, beatVars, lifeVars
<1>15. ASSUME NEW c \in Conn, Send(c) PROVE Inv'
  <2>1. /\ quiet' \in [Conn -> 0 .. ReadTimeout]
        /\ held' \in [Conn -> 0 .. ReadTimeout]
        /\ Clocks'
    BY <1>15, ReachesTyped DEF Send, Inv
  <2> QED
    BY <1>15, <2>1 DEF Send, Inv, TypeOK, Registry, Open, SameKey, acceptVars, beatVars, lifeVars
<1>16. ASSUME NEW c \in Conn, Close(c) PROVE Inv'
  BY <1>16, SocketKeeps DEF Close, Open
<1>17. ASSUME NEW c \in Conn \ In, Dial(c) PROVE Inv'
  BY <1>17 DEF Dial, Fresh, Inv, TypeOK, Clocks, Registry, Open, SameKey, acceptVars, beatVars, timeVars, lifeVars
<1>18. ASSUME NEW c \in Conn \ In, DialRegisters(c) PROVE Inv'
  BY <1>18, RegisterKeeps DEF DialRegisters
<1>19. CASE Dispatch
  <2>1. inbounds' \in Seq(In) /\ Len(inbounds') <= InRoom
    BY <1>19 DEF Dispatch, Inv, TypeOK
  <2> QED
    BY <1>19, <2>1 DEF Dispatch, Inv, TypeOK, Clocks, Registry, SameKey, beatVars, timeVars, lifeVars
<1>20. CASE Cancel
  BY <1>20 DEF Cancel, Inv, TypeOK, Clocks, Registry, SameKey, acceptVars, beatVars
<1> QED
  BY <1>1, <1>2, <1>3, <1>4, <1>5, <1>6, <1>7, <1>8, <1>9, <1>10, <1>11, <1>12, <1>13, <1>14,
     <1>15, <1>16, <1>17, <1>18, <1>19, <1>20 DEF Next, Loops

LEMMA SpecInv == Spec => []Inv
BY InitInv, InvStep, PTL DEF Spec

-----------------------------------------------------------------------------
(* The types, and the registry *)

\* TypeOK always holds (internal/transport/transport.go).
THEOREM TypesHold == Spec => []TypeOK
BY SpecInv, PTL DEF Inv

LEMMA DeadLeaveStep == Inv /\ [Next]_vars => \A c \in conns \ conns' : sock'[c] = "closed"
<1> SUFFICES ASSUME Inv, [Next]_vars, NEW c \in conns \ conns' PROVE sock'[c] = "closed"
  OBVIOUS
<1>1. PICK d \in Conn : BeatFails(d)
  BY DEF Next, Loops, vars, acceptVars, beatVars, timeVars, lifeVars, Tick, Stall, Resume,
     FarLeaves, Send, Close, Accept, Dial, DialRegisters, Register, Dispatch, DispatchEnds,
     Cancel, AcceptRegisters, Push, PushCancelled, AcceptEnds, BeatBlocks, BeatSent,
     StartRound, HeartbeatEnds, Sweep, RunEnds
<1>2. d \in conns /\ c \in SameKey(d)
  BY <1>1 DEF BeatFails, Sending, Inv, Registry
<1>3. c = d
  BY <1>2 DEF Inv, Registry
<1> QED
  BY <1>1, <1>3 DEF BeatFails, Inv, TypeOK

\* OnlyDeadLeave: no open connection leaves the registry.
THEOREM RegistryKeepsOpen == Spec => OnlyDeadLeave
<1>1. Inv /\ [Next]_vars => [\A c \in conns \ conns' : sock'[c] = "closed"]_vars
  BY DeadLeaveStep
<1> QED
  BY <1>1, SpecInv, PTL DEF Spec, OnlyDeadLeave

-----------------------------------------------------------------------------
(* Heartbeats *)

\* As long as no tick has fired since a frame reached the far end, what is left
\* to the next one counts too; afterwards the loop is blocked, or time stands.
Timely ==
    /\ \A c \in Conn : sock[c] \in {"none", "raw"} => quiet[c] = 0
    /\ ~cancelled =>
         /\ "heartbeat" \in live
         /\ \A c \in Healthy :
               /\ quiet[c] <= Heartbeat + held[c]
               /\ ~due /\ c \notin round => quiet[c] + nextTick <= Heartbeat + held[c]

LEMMA InitTimely == Init => Timely
BY DEF Init, Timely, Healthy, Goroutine

\* Steps that keep the time, the ticker and the set of healthy connections, but for
\* those that become closed, stalled or gone.
LEMMA FewerHealthy ==
    ASSUME Timely, Healthy' \subseteq Healthy,
           \A c \in Conn : sock'[c] \in {"none", "raw"} => sock[c] \in {"none", "raw"},
           UNCHANGED <<quiet, held, due, nextTick, cancelled>>,
           \A c \in Healthy' : c \in round => c \in round',
           "heartbeat" \in live => cancelled \/ "heartbeat" \in live'
    PROVE  Timely'
BY DEF Timely

LEMMA RegisterTimely ==
    ASSUME Inv, Timely, NEW c \in Conn, sock[c] = "raw", Register(c),
           UNCHANGED <<acceptVars, beatVars, timeVars, lifeVars>>
    PROVE  Timely'
<1>1. sock' = [sock EXCEPT ![c] = "reads"] \/ sock' = [sock EXCEPT ![c] = "closed"]
  BY DEF Register
<1>2. quiet[c] = 0 /\ held[c] \in Nat /\ nextTick \in 1 .. Heartbeat
  BY TransportAssumption DEF Timely, Inv, TypeOK
<1>3. UNCHANGED <<beatVars, quiet, held, live, cancelled>>
  BY DEF timeVars, lifeVars
<1>4. ASSUME NEW d \in Conn, d # c PROVE sock'[d] = sock[d]
  BY <1>1, <1>4 DEF Inv, TypeOK
<1>5. sock'[c] \in {"reads", "closed"}
  BY <1>1 DEF Inv, TypeOK
<1> QED
  BY <1>2, <1>3, <1>4, <1>5, TransportAssumption DEF Timely, Healthy, beatVars

\* A frame has reached the far end of c: its clock starts anew.
LEMMA ReachedTimely ==
    ASSUME Inv, Timely, NEW c \in Conn, Reaches(c),
           Healthy' \subseteq Healthy \cup {c},
           \A d \in Conn : sock'[d] \in {"none", "raw"} => sock[d] \in {"none", "raw"},
           round \ {c} \subseteq round',
           UNCHANGED <<due, nextTick, live, cancelled>>
    PROVE  Timely'
<1>1. quiet'[c] = 0 /\ held'[c] = 0 /\ nextTick \in 1 .. Heartbeat
  BY DEF Reaches, Inv, TypeOK
<1>2. \A d \in Conn : d # c => quiet'[d] = quiet[d] /\ held'[d] = held[d]
  BY DEF Reaches, Inv, TypeOK
<1> QED
  BY <1>1, <1>2, TransportAssumption DEF Timely, Healthy

LEMMA TickTimely == ASSUME Inv, Timely, Tick PROVE Timely'
<1>1. UNCHANGED <<sock, round, beating, live, cancelled>> /\ ~cancelled
  BY DEF Tick, lifeVars
<1>2. nextTick \in 1 .. Heartbeat /\ Heartbeat \in Nat \ {0}
  BY TransportAssumption DEF Inv, TypeOK
<1>3. ASSUME NEW c \in Conn, sock[c] \in {"none", "raw"} PROVE quiet'[c] = 0
  BY <1>3 DEF Tick, Healthy
<1>4. ASSUME NEW c \in Healthy
      PROVE  /\ quiet'[c] <= Heartbeat + held'[c]
             /\ ~due' /\ c \notin round => quiet'[c] + nextTick' <= Heartbeat + held'[c]
  <2>1. c \in Conn /\ quiet[c] \in Nat /\ held[c] \in Nat
    BY TransportAssumption DEF Healthy, Inv, TypeOK
  <2>2. quiet'[c] = quiet[c] + 1
    BY <2>1 DEF Tick
  <2>3. CASE beating # {}
    <3>1. held'[c] = held[c] + 1
      BY <2>1, <2>3 DEF Tick
    <3>2. quiet[c] <= Heartbeat + held[c]
      BY <1>1 DEF Timely
    <3>3. ~due' => ~due /\ nextTick' = nextTick - 1
      BY DEF Tick
    <3> QED
      BY <1>1, <1>2, <2>1, <2>2, <3>1, <3>2, <3>3 DEF Timely
  <2>4. CASE beating = {}
    <3>1. held'[c] = held[c]
      BY <2>1, <2>4 DEF Tick
    <3>2. ~due /\ c \notin round
      BY <1>1, <2>4 DEF Tick, Busy, Timely
    <3>3. quiet[c] + nextTick <= Heartbeat + held[c]
      BY <1>1, <3>2 DEF Timely
    <3>4. ~due' => nextTick' = nextTick - 1
      BY DEF Tick
    <3> QED
      BY <1>2, <2>1, <2>2, <3>1, <3>3, <3>4
  <2> QED
    BY <2>3, <2>4
<1> QED
  BY <1>1, <1>3, <1>4 DEF Timely, Healthy

LEMMA TimelyStep == Inv /\ Timely /\ [Next]_vars => Timely'
<1> SUFFICES ASSUME Inv, Timely, [Next]_vars PROVE Timely'
  OBVIOUS
<1> USE DEF Healthy, acceptVars, beatVars, timeVars, lifeVars
<1>1. CASE UNCHANGED vars
  BY <1>1, FewerHealthy DEF vars
<1>2. ASSUME NEW c \in Conn, Accept(c) \/ Dial(c) PROVE Timely'
  <2>1. sock' = [sock EXCEPT ![c] = "raw"] /\ sock[c] = "none"
    BY <1>2 DEF Accept, Dial, Fresh
  <2> QED
    BY <1>2, <2>1, FewerHealthy DEF Accept, Dial, Inv, TypeOK
<1>3. ASSUME NEW c \in Conn, AcceptRegisters(c) \/ DialRegisters(c) PROVE Timely'
  BY <1>3, RegisterTimely DEF AcceptRegisters, DialRegisters
<1>4. ASSUME NEW c \in Conn, Push(c) \/ BeatBlocks(c) PROVE Timely'
  BY <1>4, FewerHealthy DEF Push, BeatBlocks
<1>5. ASSUME NEW c \in Conn, PushCancelled(c) PROVE Timely'
  BY <1>5, FewerHealthy DEF PushCancelled, Inv, TypeOK
<1>6. CASE AcceptEnds \/ DispatchEnds \/ HeartbeatEnds \/ Dispatch
  BY <1>6, FewerHealthy DEF AcceptEnds, DispatchEnds, HeartbeatEnds, Dispatch
<1>7. CASE RunEnds
  BY <1>7, FewerHealthy DEF RunEnds
<1>8. ASSUME NEW c \in Conn, BeatSent(c) PROVE Timely'
  <2>1. CASE sock[c] = "reads"
    BY <1>8, <2>1, ReachedTimely DEF BeatSent
  <2>2. CASE sock[c] # "reads"
    BY <1>8, <2>2, FewerHealthy DEF BeatSent
  <2> QED
    BY <2>1, <2>2
<1>9. ASSUME NEW c \in Conn, BeatFails(c) PROVE Timely'
  <2>1. sock' = [sock EXCEPT ![c] = "closed"] /\ round' = round \ {c}
    BY <1>9 DEF BeatFails
  <2>2. Healthy' \subseteq Healthy \ {c}
    BY <2>1 DEF Inv, TypeOK
  <2>3. \A d \in Conn : sock'[d] \in {"none", "raw"} => sock[d] \in {"none", "raw"}
    BY <2>1 DEF Inv, TypeOK
  <2> QED
    BY <1>9, <2>1, <2>2, <2>3, FewerHealthy DEF BeatFails
<1>10. CASE StartRound
  <2>1. Healthy \subseteq round'
    BY <1>10 DEF StartRound, Inv, Registry, Open
  <2> QED
    BY <1>10, <2>1 DEF StartRound, Timely
<1>11. CASE Sweep
  BY <1>11, FewerHealthy DEF Sweep, Inv, TypeOK
<1>12. CASE Tick
  BY <1>12, TickTimely
<1>13. ASSUME NEW c \in Conn, Stall(c) \/ FarLeaves(c) \/ Close(c) PROVE Timely'
  BY <1>13, FewerHealthy DEF Stall, FarLeaves, Close, Open, Inv, TypeOK
<1>14. ASSUME NEW c \in Conn, Resume(c) PROVE Timely'
  <2>1. Healthy' \subseteq Healthy \cup {c}
    BY <1>14 DEF Resume, Inv, TypeOK
  <2>2. \A d \in Conn : sock'[d] \in {"none", "raw"} => sock[d] \in {"none", "raw"}
    BY <1>14 DEF Resume, Inv, TypeOK
  <2> QED
    BY <1>14, <2>1, <2>2, ReachedTimely DEF Resume
<1>15. ASSUME NEW c \in Conn, Send(c) PROVE Timely'
  BY <1>15, ReachedTimely DEF Send
<1>16. CASE Cancel
  BY <1>16 DEF Cancel, Timely
<1> QED
  BY <1>1, <1>2, <1>3, <1>4, <1>5, <1>6, <1>7, <1>8, <1>9, <1>10, <1>11, <1>12, <1>13, <1>14,
     <1>15, <1>16, TransportAssumption DEF Next, Loops

\* BeatsArrive: a far end that reads waits one heartbeat, and what the loop was
\* blocked for.
THEOREM HeartbeatsArrive == Spec => []BeatsArrive
<1>1. Timely => BeatsArrive
  BY DEF Timely, BeatsArrive
<1> QED
  BY <1>1, InitTimely, TimelyStep, SpecInv, PTL DEF Spec

-----------------------------------------------------------------------------
(* Shutdown *)

\* Sockets that are open or are about to be.
Alive == {c \in In : sock[c] \in Open \cup {"raw"}}

\* The accept loop holds one connection at a time; after the sweep no accepted
\* one is open but that one.
OneInHand ==
    /\ \A c, d \in hand : c = d
    /\ \A c \in In : sock[c] = "raw" => c \in hand
    /\ shut => \A c, d \in Alive : c = d
    /\ "run" \notin live => shut

LEMMA InitOneInHand == Init => OneInHand
BY TransportAssumption DEF Init, OneInHand, Goroutine

\* A socket changes, but does not come to life.
LEMMA SocketOneInHand ==
    ASSUME Inv, OneInHand, NEW c \in Conn, NEW s \in {"closed"} \cup Open,
           sock' = [sock EXCEPT ![c] = s], s \in Open => sock[c] \in Open \cup {"raw"},
           hand' = hand \/ (sock[c] # "raw" /\ hand' = {} /\ hand = {c}),
           UNCHANGED shut, live' = live \/ live' = live \ {"accept"}
    PROVE  OneInHand'
<1> USE TransportAssumption DEF OneInHand, Open, Inv, TypeOK
<1>1. \A d \in In : sock'[d] = "raw" => sock[d] = "raw" /\ d # c
  OBVIOUS
<1>2. \A d \in In : sock'[d] = "raw" => d \in hand'
  BY <1>1
<1>3. Alive' \subseteq Alive
  BY DEF Alive
<1> QED
  BY <1>2, <1>3

LEMMA OneInHandStep == Inv /\ OneInHand /\ [Next]_vars => OneInHand'
<1> SUFFICES ASSUME Inv, OneInHand, [Next]_vars PROVE OneInHand'
  OBVIOUS
<1> USE TransportAssumption
    DEF OneInHand, Alive, Open, acceptVars, beatVars, timeVars, lifeVars, Inv, TypeOK
<1>1. CASE UNCHANGED vars
  BY <1>1 DEF vars
<1>2. ASSUME NEW c \in In, Accept(c) PROVE OneInHand'
  BY <1>2 DEF Accept, Fresh
<1>3. ASSUME NEW c \in Conn, AcceptRegisters(c) \/ DialRegisters(c) PROVE OneInHand'
  <2>1. PICK s \in {"reads", "closed"} : sock' = [sock EXCEPT ![c] = s]
    BY <1>3 DEF AcceptRegisters, DialRegisters, Register
  <2>2. sock[c] = "raw" /\ UNCHANGED <<hand, live, shut>>
    BY <1>3 DEF AcceptRegisters, DialRegisters
  <2> QED
    BY <2>1, <2>2, SocketOneInHand
<1>4. ASSUME NEW c \in In, Push(c) \/ PushCancelled(c) PROVE OneInHand'
  <2>1. hand = {c} /\ hand' = {} /\ sock[c] # "raw" /\ UNCHANGED shut
    BY <1>4 DEF Push, PushCancelled
  <2>2. CASE Push(c)
    BY <2>1, <2>2 DEF Push
  <2>3. CASE PushCancelled(c)
    BY <2>1, <2>3, SocketOneInHand DEF PushCancelled
  <2> QED
    BY <1>4, <2>2, <2>3
<1>5. CASE AcceptEnds \/ DispatchEnds \/ HeartbeatEnds \/ RunEnds \/ Dispatch
  BY <1>5 DEF AcceptEnds, DispatchEnds, HeartbeatEnds, RunEnds, Dispatch
<1>6. ASSUME NEW c \in Conn, BeatBlocks(c) \/ BeatSent(c) PROVE OneInHand'
  BY <1>6 DEF BeatBlocks, BeatSent
<1>7. ASSUME NEW c \in Conn, BeatFails(c) PROVE OneInHand'
  BY <1>7 DEF BeatFails
<1>8. CASE StartRound \/ Tick \/ Cancel
  BY <1>8 DEF StartRound, Tick, Cancel
<1>9. CASE Sweep
  <2>1. \A c \in Alive' : c \in hand
    BY <1>9 DEF Sweep, Registry
  <2> QED
    BY <1>9, <2>1 DEF Sweep
<1>10. ASSUME NEW c \in Conn, Stall(c) \/ FarLeaves(c) \/ Resume(c) \/ Close(c)
       PROVE  OneInHand'
  <2>1. PICK s \in {"closed"} \cup Open : sock' = [sock EXCEPT ![c] = s]
    BY <1>10 DEF Stall, FarLeaves, Resume, Close
  <2>2. sock[c] \in Open /\ UNCHANGED <<hand, live, shut>>
    BY <1>10 DEF Stall, FarLeaves, Resume, Close, Healthy
  <2> QED
    BY <2>1, <2>2, SocketOneInHand
<1>11. ASSUME NEW c \in Conn, Send(c) PROVE OneInHand'
  BY <1>11 DEF Send
<1>12. ASSUME NEW c \in Conn \ In, Dial(c) PROVE OneInHand'
  BY <1>12 DEF Dial, Fresh
<1> QED
  BY <1>1, <1>2, <1>3, <1>4, <1>5, <1>6, <1>7, <1>8, <1>9, <1>10, <1>11, <1>12 DEF Next, Loops

\* OutlivesRun: at most one accepted connection is open after Run has returned.
THEOREM OneOutlivesRun == Spec => []OutlivesRun
<1>1. OneInHand => OutlivesRun
  <2> SUFFICES ASSUME OneInHand, "run" \notin live
               PROVE  Cardinality({c \in In : sock[c] \in Open}) <= 1
    BY DEF OutlivesRun
  <2> DEFINE S == {c \in In : sock[c] \in Open}
  <2>1. \A c, d \in S : c = d
    BY DEF OneInHand, Alive
  <2>2. CASE S = {}
    BY <2>2, FS_EmptySet
  <2>3. ASSUME NEW c \in S PROVE Cardinality(S) = 1
    <3>1. S = {c}
      BY <2>1, <2>3
    <3> QED
      BY <3>1, FS_Singleton
  <2> QED
    BY <2>2, <2>3
<1> QED
  BY <1>1, InitOneInHand, OneInHandStep, SpecInv, PTL DEF Spec
=============================================================================
