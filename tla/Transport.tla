----------------------------- MODULE Transport ------------------------------
(***************************************************************************)
(* The transport of one process: the accept loop, the registry of its      *)
(* connections, the heartbeat loop that keeps them alive, Dial, and the    *)
(* shutdown that Run and Close share.                                      *)
(*                                                                         *)
(* Code: internal/transport/transport.go; pkg/node/node.go (the inbound    *)
(* dispatcher of Start).                                                   *)
(*                                                                         *)
(* Frames are not modelled, only that one reached the far end.  The far    *)
(* end of a connection reads, stalls (it lives but does not read, until    *)
(* the send buffer is full and Send blocks under writeMu) or is gone.      *)
(* Time is counted in parts of the heartbeat, and does not pass while a    *)
(* goroutine that is not blocked has something to send or to register.     *)
(* The registry is keyed by remote address: an accepted connection has its *)
(* own, all that are dialled go to one host and share that of its listener.*)
(***************************************************************************)
EXTENDS Naturals, Sequences, FiniteSets

CONSTANTS
    Conn,        \* sockets that may be opened
    In,          \* those that other processes open; this one dials the rest
    MaxOpened,   \* bound: how many of them are opened in one behaviour
    InRoom,      \* capacity of the channel of accepted connections (8)
    Heartbeat,   \* units of time between two rounds of heartbeats
    ReadTimeout  \* DefaultReadTimeout of the far ends (four heartbeats)

ASSUME TransportAssumption ==
    /\ In \subseteq Conn
    /\ MaxOpened \in Nat
    /\ InRoom \in Nat \ {0}
    /\ Heartbeat \in Nat \ {0}
    /\ ReadTimeout \in Nat /\ ReadTimeout > Heartbeat

VARIABLES
    sock,      \* sock[c]: state of the socket, and for an open one of its far end
    conns,     \* the registry
    hand,      \* the connection that the accept loop holds, if any
    inbounds,  \* the channel of accepted connections
    due,       \* the ticker's channel holds a tick
    nextTick,  \* time to the ticker's next tick
    round,     \* heartbeatOnce's snapshot: those it has yet to send to
    beating,   \* the connection that heartbeatOnce is blocked on, if any
    quiet,     \* quiet[c]: time since a frame reached the far end of c
    held,      \* held[c]: how much of quiet[c] the heartbeat loop was blocked
    live,      \* goroutines that run
    cancelled, \* the context is done
    shut       \* closeOnce has run

acceptVars == <<hand, inbounds>>
beatVars == <<due, nextTick, round, beating>>
timeVars == <<quiet, held>>
lifeVars == <<live, cancelled, shut>>
vars == <<sock, conns, acceptVars, beatVars, timeVars, lifeVars>>

\* An open socket; a raw one has no Conn yet.
Open == {"reads", "stalls", "gone"}

Goroutine == {"run", "accept", "heartbeat", "dispatch"}

TypeOK ==
    /\ sock \in [Conn -> {"none", "raw", "closed"} \cup Open]
    /\ conns \subseteq {c \in Conn : sock[c] \in Open \cup {"closed"}}
    /\ hand \subseteq In
    /\ inbounds \in Seq(In) /\ Len(inbounds) <= InRoom
    /\ due \in BOOLEAN
    /\ nextTick \in 1 .. Heartbeat
    /\ round \subseteq Conn
    /\ beating \subseteq Conn
    /\ quiet \in [Conn -> 0 .. ReadTimeout]
    /\ held \in [Conn -> 0 .. ReadTimeout]
    /\ live \subseteq Goroutine
    /\ cancelled \in BOOLEAN
    /\ shut \in BOOLEAN

Init ==
    /\ sock = [c \in Conn |-> "none"]
    /\ conns = {}
    /\ hand = {} /\ inbounds = <<>>
    /\ due = FALSE /\ nextTick = Heartbeat
    /\ round = {} /\ beating = {}
    /\ quiet = [c \in Conn |-> 0]
    /\ held = [c \in Conn |-> 0]
    /\ live = Goroutine
    /\ cancelled = FALSE /\ shut = FALSE

\* Connections with c's remote address, which is c's key in the registry.
SameKey(c) == IF c \in In THEN {c} ELSE Conn \ In

\* Open connections whose far end reads what it is sent.
Healthy == {c \in Conn : sock[c] = "reads"}

\* Connections that a caller of Dial or a reader of Inbounds has.
Taken == {c \in Conn : /\ sock[c] \in Open \cup {"closed"}
                       /\ c \notin hand
                       /\ \A i \in 1 .. Len(inbounds) : inbounds[i] # c}

-----------------------------------------------------------------------------
(* Time and the far ends *)

\* Something is about to be done that takes no time.
Busy ==
    \/ \E c \in Conn : sock[c] = "raw"
    \/ \E c \in beating : sock[c] # "stalls"
    \/ beating = {} /\ (due \/ round # {}) /\ "heartbeat" \in live
    \/ \E c \in Healthy : quiet[c] = ReadTimeout

\* A tick that finds the ticker's channel full is dropped.
Tick ==
    /\ ~cancelled /\ ~Busy
    /\ IF nextTick = 1
         THEN due' = TRUE /\ nextTick' = Heartbeat
         ELSE due' = due /\ nextTick' = nextTick - 1
    /\ quiet' = [c \in Conn |-> IF c \in Healthy THEN quiet[c] + 1 ELSE 0]
    /\ held' = [c \in Conn |-> IF c \notin Healthy THEN 0
                               ELSE IF beating = {} THEN held[c] ELSE held[c] + 1]
    /\ UNCHANGED <<sock, conns, acceptVars, round, beating, lifeVars>>

\* A frame reaches the far end of c, which then waits for the next one.
Reaches(c) ==
    /\ quiet' = [quiet EXCEPT ![c] = 0]
    /\ held' = [held EXCEPT ![c] = 0]

\* So much was written to a far end that lives and does not read.
Stall(c) ==
    /\ c \in Healthy \cap Taken /\ ~shut
    /\ sock' = [sock EXCEPT ![c] = "stalls"]
    /\ UNCHANGED <<conns, acceptVars, beatVars, timeVars, lifeVars>>

\* The far end reads again, and finds frames.
Resume(c) ==
    /\ sock[c] = "stalls"
    /\ sock' = [sock EXCEPT ![c] = "reads"]
    /\ Reaches(c)
    /\ UNCHANGED <<conns, acceptVars, beatVars, lifeVars>>

\* It closes the connection or dies; its read deadline may be the reason.
FarLeaves(c) ==
    /\ sock[c] \in {"reads", "stalls"}
    /\ sock' = [sock EXCEPT ![c] = "gone"]
    /\ UNCHANGED <<conns, acceptVars, beatVars, timeVars, lifeVars>>

-----------------------------------------------------------------------------
(* Connections *)

\* The next socket to be opened, and the bound on their number.
Fresh(c, kind) ==
    /\ sock[c] = "none"
    /\ c = CHOOSE x \in kind : sock[x] = "none"
    /\ Cardinality({x \in Conn : sock[x] # "none"}) < MaxOpened

\* Mutant: only the dialled ones enter the registry.
RegisterDialled(c) ==
    /\ conns' = IF c \in In \/ SameKey(c) \cap conns # {} THEN conns ELSE conns \cup {c}
    /\ sock' = [sock EXCEPT ![c] = IF SameKey(c) \cap conns = {} THEN "reads" ELSE "closed"]

\* register: a second connection to an address is closed, and its owner
\* given the first, be that open or not.
Register(c) ==
    IF SameKey(c) \cap conns = {}
      THEN /\ conns' = conns \cup {c}
           /\ sock' = [sock EXCEPT ![c] = "reads"]
      ELSE /\ conns' = conns
           /\ sock' = [sock EXCEPT ![c] = "closed"]

Accept(c) ==
    /\ "accept" \in live /\ ~shut
    /\ hand = {} /\ Fresh(c, In)
    /\ hand' = {c}
    /\ sock' = [sock EXCEPT ![c] = "raw"]
    /\ UNCHANGED <<conns, inbounds, beatVars, timeVars, lifeVars>>

AcceptRegisters(c) ==
    /\ c \in hand /\ sock[c] = "raw"
    /\ Register(c)
    /\ UNCHANGED <<acceptVars, beatVars, timeVars, lifeVars>>

\* Mutant: there is always room.
PushGrows(c) ==
    /\ c \in hand /\ sock[c] # "raw"
    /\ inbounds' = Append(inbounds, c)
    /\ hand' = {}
    /\ UNCHANGED <<sock, conns, beatVars, timeVars, lifeVars>>

Push(c) ==
    /\ c \in hand /\ sock[c] # "raw"
    /\ Len(inbounds) < InRoom
    /\ inbounds' = Append(inbounds, c)
    /\ hand' = {}
    /\ UNCHANGED <<sock, conns, beatVars, timeVars, lifeVars>>

\* Mutant: it only waits for room.
PushWaits(c) ==
    /\ FALSE /\ c \in hand
    /\ UNCHANGED vars

\* The other case of the same select: either may be taken if both are ready.
PushCancelled(c) ==
    /\ c \in hand /\ sock[c] # "raw"
    /\ cancelled
    /\ sock' = [sock EXCEPT ![c] = "closed"]
    /\ hand' = {}
    /\ live' = live \ {"accept"}
    /\ UNCHANGED <<conns, inbounds, beatVars, timeVars, cancelled, shut>>

\* Accept fails on the closed listener.
AcceptEnds ==
    /\ "accept" \in live
    /\ shut /\ hand = {}
    /\ live' = live \ {"accept"}
    /\ UNCHANGED <<sock, conns, acceptVars, beatVars, timeVars, cancelled, shut>>

\* The node's dispatcher starts a handshake on an accepted connection.
Dispatch ==
    /\ "dispatch" \in live /\ inbounds # <<>>
    /\ inbounds' = Tail(inbounds)
    /\ UNCHANGED <<sock, conns, hand, beatVars, timeVars, lifeVars>>

\* It ends on the context, or on the channel that Run has closed.
DispatchEnds ==
    /\ "dispatch" \in live
    /\ cancelled
    /\ live' = live \ {"dispatch"}
    /\ UNCHANGED <<sock, conns, acceptVars, beatVars, timeVars, cancelled, shut>>

\* DialContext has connected; the context may be cancelled before register.
Dial(c) ==
    /\ ~cancelled /\ Fresh(c, Conn \ In)
    /\ sock' = [sock EXCEPT ![c] = "raw"]
    /\ UNCHANGED <<conns, acceptVars, beatVars, timeVars, lifeVars>>

DialRegisters(c) ==
    /\ sock[c] = "raw"
    /\ Register(c)
    /\ UNCHANGED <<acceptVars, beatVars, timeVars, lifeVars>>

\* The owner of a connection sends a frame.
Send(c) ==
    /\ c \in Healthy \cap Taken
    /\ Reaches(c)
    /\ UNCHANGED <<sock, conns, acceptVars, beatVars, lifeVars>>

\* Mutant: whoever closes a connection also takes it out of the registry.
CloseUnregisters(c) ==
    /\ c \in Taken /\ sock[c] \in Open
    /\ sock' = [sock EXCEPT ![c] = "closed"]
    /\ conns' = conns \ SameKey(c)
    /\ UNCHANGED <<acceptVars, beatVars, timeVars, lifeVars>>

\* Close, by the owner, by a read that failed or by a write that failed.
Close(c) ==
    /\ c \in Taken /\ sock[c] \in Open
    /\ sock' = [sock EXCEPT ![c] = "closed"]
    /\ UNCHANGED <<conns, acceptVars, beatVars, timeVars, lifeVars>>

-----------------------------------------------------------------------------
(* The heartbeat loop *)

\* heartbeatOnce copies the registry under its lock.
StartRound ==
    /\ "heartbeat" \in live
    /\ due /\ round = {} /\ beating = {}
    /\ due' = FALSE
    /\ round' = conns
    /\ UNCHANGED <<sock, conns, acceptVars, nextTick, beating, timeVars, lifeVars>>

\* Send to the next one of the snapshot, in the order of a map, or to the one
\* that it was blocked on.
Sending(c) == c \in IF beating = {} THEN round ELSE beating

BeatBlocks(c) ==
    /\ c \in round /\ beating = {}
    /\ sock[c] = "stalls"
    /\ round' = round \ {c}
    /\ beating' = {c}
    /\ UNCHANGED <<sock, conns, acceptVars, due, nextTick, timeVars, lifeVars>>

\* A frame to a far end that has just gone is written and lost.
BeatSent(c) ==
    /\ Sending(c)
    /\ sock[c] \in {"reads", "gone"}
    /\ round' = round \ {c}
    /\ beating' = {}
    /\ IF sock[c] = "reads" THEN Reaches(c) ELSE UNCHANGED timeVars
    /\ UNCHANGED <<sock, conns, acceptVars, due, nextTick, lifeVars>>

\* Mutant: a heartbeat that cannot be sent closes the connection and no more.
BeatFailsKeeps(c) ==
    /\ Sending(c)
    /\ sock[c] \in {"gone", "closed"}
    /\ round' = round \ {c}
    /\ beating' = {}
    /\ sock' = [sock EXCEPT ![c] = "closed"]
    /\ UNCHANGED <<conns, acceptVars, due, nextTick, timeVars, lifeVars>>

\* The connection was closed, perhaps under Send, or the far end is gone.
BeatFails(c) ==
    /\ Sending(c)
    /\ sock[c] \in {"gone", "closed"}
    /\ round' = round \ {c}
    /\ beating' = {}
    /\ sock' = [sock EXCEPT ![c] = "closed"]
    /\ conns' = conns \ SameKey(c)
    /\ UNCHANGED <<acceptVars, due, nextTick, timeVars, lifeVars>>

HeartbeatEnds ==
    /\ "heartbeat" \in live
    /\ cancelled
    /\ round = {} /\ beating = {}
    /\ live' = live \ {"heartbeat"}
    /\ UNCHANGED <<sock, conns, acceptVars, beatVars, timeVars, cancelled, shut>>

-----------------------------------------------------------------------------
(* Shutdown *)

\* Time does not matter any more.
Cancel ==
    /\ ~cancelled
    /\ cancelled' = TRUE
    /\ quiet' = [c \in Conn |-> 0] /\ held' = [c \in Conn |-> 0]
    /\ UNCHANGED <<sock, conns, acceptVars, beatVars, live, shut>>

\* Mutant: it closes the connections that somebody has taken.
SweepTaken ==
    /\ cancelled /\ ~shut
    /\ shut' = TRUE
    /\ sock' = [c \in Conn |-> IF c \in conns \cap Taken THEN "closed" ELSE sock[c]]
    /\ UNCHANGED <<conns, acceptVars, beatVars, timeVars, live, cancelled>>

\* What Run does on the context and Close does when called: the first of them.
Sweep ==
    /\ cancelled /\ ~shut
    /\ shut' = TRUE
    /\ sock' = [c \in Conn |-> IF c \in conns THEN "closed" ELSE sock[c]]
    /\ UNCHANGED <<conns, acceptVars, beatVars, timeVars, live, cancelled>>

\* Run waits for its two loops, closes the channel and returns.
RunEnds ==
    /\ shut /\ "run" \in live
    /\ {"accept", "heartbeat"} \cap live = {}
    /\ live' = live \ {"run"}
    /\ UNCHANGED <<sock, conns, acceptVars, beatVars, timeVars, cancelled, shut>>

-----------------------------------------------------------------------------

\* What the goroutines of the transport do of themselves.
Loops ==
    \/ \E c \in In : AcceptRegisters(c) \/ Push(c) \/ PushCancelled(c)
    \/ AcceptEnds
    \/ \E c \in Conn : BeatBlocks(c) \/ BeatSent(c) \/ BeatFails(c)
    \/ StartRound \/ HeartbeatEnds
    \/ Sweep \/ RunEnds

Next ==
    \/ Loops
    \/ Tick
    \/ \E c \in Conn : Stall(c) \/ Resume(c) \/ FarLeaves(c) \/ Send(c) \/ Close(c)
    \/ \E c \in In : Accept(c)
    \/ \E c \in Conn \ In : Dial(c) \/ DialRegisters(c)
    \/ Dispatch \/ DispatchEnds
    \/ Cancel

Spec == Init /\ [][Next]_vars

\* Goroutines run, time passes, and far ends give up at their deadline.
\* Nothing obliges a far end that stalls to read again.
FairSpec ==
    /\ Spec
    /\ WF_vars(\E c \in In : AcceptRegisters(c) \/ Push(c) \/ PushCancelled(c))
    /\ WF_vars(AcceptEnds)
    /\ WF_vars(\E c \in Conn : BeatBlocks(c) \/ BeatSent(c) \/ BeatFails(c))
    /\ WF_vars(StartRound)
    /\ WF_vars(HeartbeatEnds)
    /\ WF_vars(Sweep)
    /\ WF_vars(RunEnds)
    /\ WF_vars(Dispatch)
    /\ WF_vars(Tick)
    /\ WF_vars(\E c \in Conn \ In : DialRegisters(c))
    /\ \A c \in Conn : WF_vars(quiet[c] = ReadTimeout /\ FarLeaves(c))

-----------------------------------------------------------------------------
(* Properties *)

\* A far end that reads waits no longer for a frame than one heartbeat and
\* the time for which the loop was blocked: so only a loop that another
\* connection blocks for 45 s lets it reach its deadline of 60 s
\* (heartbeatOnce sends to one connection after the other, with no deadline).
BeatsArrive ==
    ~cancelled => \A c \in Healthy : quiet[c] <= Heartbeat + held[c]

\* At most one accepted connection outlives Run: the one that the accept
\* loop had in its hand when the registry was swept (Run, Close).
OutlivesRun ==
    "run" \notin live => Cardinality({c \in In : sock[c] \in Open}) <= 1

\* The registry never drops a connection that is open: unregister deletes
\* whatever has the address, and heartbeatOnce calls it with a connection
\* from a copy of the registry that may be old (unregister, register).
OnlyDeadLeave ==
    [][\A c \in conns \ conns' : sock'[c] = "closed"]_vars

\* A closed connection leaves the registry, so that its address may be
\* dialled again, unless the heartbeat loop stays blocked (heartbeatOnce).
DeadLeaves ==
    \/ \A c \in Conn :
         (c \in conns /\ sock[c] = "closed") ~> (c \notin conns \/ cancelled)
    \/ <>[](beating # {})

\* Run returns once its context is done, whatever the far ends do: the sweep
\* frees a loop blocked in Send, and the accept loop does not wait for
\* a reader of Inbounds that has left (Run).
RunReturns == cancelled ~> "run" \notin live
=============================================================================
