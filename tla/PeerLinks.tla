----------------------------- MODULE PeerLinks ------------------------------
(***************************************************************************)
(* The life of a channel between two nodes, at both of its ends: discovery *)
(* or a command dials, both ends shake hands, wrapChannel registers the    *)
(* channel under the peer's ID and starts its pump, the pump ends when the *)
(* connection does and takes the channel out of the registry again.        *)
(*                                                                         *)
(* Code: pkg/node/node.go (Start's dispatchers, dialAndHandshake,          *)
(* handleInbound, dialAddr, wrapChannel, Close), pkg/node/channels.go,     *)
(* pkg/node/scan.go (scanOne), internal/transport (Conn, the registry of   *)
(* connections, the heartbeat), internal/handshake (order of frames).      *)
(*                                                                         *)
(* A connection c joins two nodes; each of them runs one goroutine for its *)
(* end of c, whose progress is task[n][c].  Envelopes, keys and addresses  *)
(* are left out: a peer is its PeerID, and its listening address.          *)
(***************************************************************************)
EXTENDS Naturals

CONSTANTS
    Node,       \* the nodes on the network
    Conn,       \* TCP connections that may be opened, used in increasing order
    None,       \* no node, no connection
    Scenarios   \* what may happen: the commands users give, once each, and a bound on
                \* faults: crashes, broken connections, disk errors, expiries by lost
                \* announcements

CommandSet == Node \X {"manual", "scan", "close"}

ASSUME LinksAssumption ==
    /\ None \notin Node
    /\ Conn \subseteq Nat
    /\ None \notin Conn
    /\ Scenarios \subseteq [commands : SUBSET CommandSet, faults : Nat]

VARIABLES
    phase,      \* phase[n]: how far the process of n is in Start ... Close
    channels,   \* channels[n][p]: connection whose channel is registered for p
    conns,      \* conns[n][p]: transport's registered connection dialled to p
    known,      \* known[n]: peers in the announcer's table
    joined,     \* joined[n]: peers whose PeerAdded waits for dialAndHandshake
    peer,       \* peer[n][c]: the node at the other end of n's end of c
    dialer,     \* dialer[c]: the dialling node and why it dials
    task,       \* task[n][c]: progress of n's goroutine for its end of c
    open,       \* open[n][c]: n has not closed its socket of c
    agreed,     \* connections whose responder has sent the handshake's last frame
    rogue,      \* connections on which the dialler runs a second handshake
    cut,        \* connections the network has lost
    online, offline,    \* events published, see PeerPresence
    todo,       \* commands users have yet to give
    faults      \* faults yet to come

netVars == <<peer, dialer, agreed, rogue, cut>>
eventVars == <<online, offline>>
envVars == <<todo, faults>>
vars == <<phase, channels, conns, known, joined, netVars, task, open,
          eventVars, envVars>>

(***************************************************************************)
(* A task is "hello" while it shakes hands, "check" before dialAddr's look *)
(* at the registry, "wrap" before channels.set, "announce" before          *)
(* PeerOnline is published, "pump" in the receive loop, "leaving" before   *)
(* PeerOffline is published, "left" before channels.delete, "done" after.  *)
(* "gone" is a task whose process ended, "abandoned" one of dialAddr that   *)
(* returned without closing its socket.                                    *)
(***************************************************************************)
Registered == {"announce", "pump", "leaving", "left"}
TaskStates == {"none", "hello", "check", "wrap", "done", "abandoned", "gone"} \cup Registered

Phases == {"up", "cancelled", "swept", "draining", "panicked", "down"}
\* Phases of a process that exists, and those in which its registry is nil.
Running == {"up", "cancelled", "swept", "draining"}
Swept == {"swept", "draining"}

TypeOK ==
    /\ phase \in [Node -> Phases]
    /\ channels \in [Node -> [Node -> Conn \cup {None}]]
    /\ conns \in [Node -> [Node -> Conn \cup {None}]]
    /\ known \in [Node -> SUBSET Node]
    /\ joined \in [Node -> SUBSET Node]
    /\ peer \in [Node -> [Conn -> Node \cup {None}]]
    /\ dialer \in [Conn -> [node : Node \cup {None}, kind : {"none", "discovery", "manual", "scan"}]]
    /\ task \in [Node -> [Conn -> TaskStates]]
    /\ open \in [Node -> [Conn -> BOOLEAN]]
    /\ agreed \subseteq Conn
    /\ rogue \subseteq Conn
    /\ cut \subseteq Conn
    /\ online \in [Node -> [Node -> Nat]]
    /\ offline \in [Node -> [Node -> Nat]]
    /\ todo \subseteq CommandSet
    /\ faults \in Nat

Init ==
    /\ phase = [n \in Node |-> "up"]
    /\ channels = [n \in Node |-> [p \in Node |-> None]]
    /\ conns = [n \in Node |-> [p \in Node |-> None]]
    /\ known = [n \in Node |-> {}]
    /\ joined = [n \in Node |-> {}]
    /\ peer = [n \in Node |-> [c \in Conn |-> None]]
    /\ dialer = [c \in Conn |-> [node |-> None, kind |-> "none"]]
    /\ task = [n \in Node |-> [c \in Conn |-> "none"]]
    /\ open = [n \in Node |-> [c \in Conn |-> FALSE]]
    /\ agreed = {}
    /\ rogue = {}
    /\ cut = {}
    /\ online = [n \in Node |-> [p \in Node |-> 0]]
    /\ offline = [n \in Node |-> [p \in Node |-> 0]]
    /\ \E s \in Scenarios : todo = s.commands /\ faults = s.faults

-----------------------------------------------------------------------------
(* Helpers *)

\* The user of n gives a command.
Command(n, kind) ==
    /\ <<n, kind>> \in todo
    /\ todo' = todo \ {<<n, kind>>}
    /\ UNCHANGED faults

\* The environment does harm.
Fault ==
    /\ faults > 0
    /\ faults' = faults - 1
    /\ UNCHANGED todo

SetTask(n, c, s) == task' = [task EXCEPT ![n][c] = s]
CloseSocket(n, c) == open' = [open EXCEPT ![n][c] = FALSE]

\* The other end has no socket any more: n reads the end of the stream.
PeerClosed(n, c) == peer[n][c] # None /\ ~open[peer[n][c]][c]

\* A read or a write on n's socket of c fails.
Dead(n, c) == ~open[n][c] \/ PeerClosed(n, c) \/ c \in cut

Fresh(c) == dialer[c].node = None /\ \A d \in Conn : d < c => dialer[d].node # None

\* The process of n is gone, with every table, goroutine and socket it had.
ProcessEnds(n) ==
    /\ channels' = [channels EXCEPT ![n] = [p \in Node |-> None]]
    /\ conns' = [conns EXCEPT ![n] = [p \in Node |-> None]]
    /\ known' = [known EXCEPT ![n] = {}]
    /\ joined' = [joined EXCEPT ![n] = {}]
    /\ open' = [open EXCEPT ![n] = [c \in Conn |-> FALSE]]
    /\ task' = [task EXCEPT ![n] = [c \in Conn |->
                    IF task[n][c] = "none" THEN "none" ELSE "gone"]]
    /\ online' = [online EXCEPT ![n] = [p \in Node |-> 0]]
    /\ offline' = [offline EXCEPT ![n] = [p \in Node |-> 0]]
    /\ UNCHANGED netVars

-----------------------------------------------------------------------------
(* Discovery: the announcer's table and the events it feeds the node *)

\* handlePacket: an announcement of p reaches n.  Only the first one of a peer
\* makes a PeerAdded event; later ones are PeerUpdated, which Start ignores.
Announced(n, p) ==
    /\ n # p
    /\ phase[n] = "up" /\ phase[p] = "up"
    /\ p \notin known[n]
    /\ known' = [known EXCEPT ![n] = @ \cup {p}]
    /\ joined' = [joined EXCEPT ![n] = @ \cup {p}]
    /\ UNCHANGED <<phase, channels, conns, netVars, task, open, eventVars, envVars>>

\* gcOnce: no announcement of p for 15 s, because p is not up or because the
\* datagrams were lost (a fault).
Expired(n, p) ==
    /\ phase[n] = "up"
    /\ p \in known[n]
    /\ \/ phase[p] # "up" /\ UNCHANGED envVars
       \/ phase[p] = "up" /\ Fault
    /\ known' = [known EXCEPT ![n] = @ \ {p}]
    /\ UNCHANGED <<phase, channels, conns, joined, netVars, task, open, eventVars>>

-----------------------------------------------------------------------------
(* Dialling *)

\* A fresh TCP connection from n to p: p's accept loop and inbound dispatcher
\* hand it to handleInbound, n starts as initiator.  Each transport registers
\* its end; n's is found again by a later Dial to p.
Connect(n, p, kind) ==
    \E c \in Conn :
        /\ Fresh(c)
        /\ peer' = [peer EXCEPT ![n][c] = p, ![p][c] = n]
        /\ dialer' = [dialer EXCEPT ![c] = [node |-> n, kind |-> kind]]
        /\ task' = [task EXCEPT ![n][c] = "hello", ![p][c] = "hello"]
        /\ open' = [open EXCEPT ![n][c] = TRUE, ![p][c] = TRUE]
        /\ conns' = [conns EXCEPT ![n][p] = c]
        /\ UNCHANGED <<agreed, rogue, cut>>

\* transport.register returns the registered connection to the same address
\* instead of the new one.  If it is still open the caller starts a handshake
\* on it next to the goroutine that uses it; if it is closed the dial fails.
Reuse(n, p) ==
    /\ rogue' = IF open[n][conns[n][p]] THEN rogue \cup {conns[n][p]} ELSE rogue
    /\ UNCHANGED <<peer, dialer, agreed, cut, task, open, conns>>

Unanswered == UNCHANGED <<netVars, task, open, conns>>

\* Transport.Dial to p's listener, then RunAsInitiator.
Dial(n, p, kind) ==
    \/ phase[p] = "up" /\ conns[n][p] = None /\ Connect(n, p, kind)
    \/ phase[p] = "up" /\ conns[n][p] # None /\ Reuse(n, p)
    \/ phase[p] # "up" /\ Unanswered

\* The goroutine started for PeerAdded.
dialAndHandshake(n, p) ==
    /\ phase[n] = "up"
    /\ p \in joined[n]
    /\ joined' = [joined EXCEPT ![n] = @ \ {p}]
    /\ \/ channels[n][p] # None /\ Unanswered
       \/ channels[n][p] = None /\ Dial(n, p, "discovery")
    /\ UNCHANGED <<phase, channels, known, eventVars, envVars>>

\* DialAddr: the command checks nothing before it dials.
dialAddr(n, p) ==
    /\ Command(n, "manual")
    /\ n # p
    /\ phase[n] = "up" /\ phase[p] = "up"
    /\ Dial(n, p, "manual")
    /\ UNCHANGED <<phase, channels, known, joined, eventVars>>

\* Scan skips the hosts it has a channel to, and dials the others.
Scan(n, p) ==
    /\ Command(n, "scan")
    /\ n # p
    /\ phase[n] = "up" /\ phase[p] = "up"
    /\ channels[n][p] = None
    /\ Dial(n, p, "scan")
    /\ UNCHANGED <<phase, channels, known, joined, eventVars>>

-----------------------------------------------------------------------------
(* The handshake: helloA, helloB, helloA', done *)

\* The responder has verified helloA' and sends done.
HandshakeResponder(n, c) ==
    /\ phase[n] \in Running
    /\ task[n][c] = "hello" /\ dialer[c].node # n
    /\ ~Dead(n, c) /\ c \notin rogue
    /\ task[peer[n][c]][c] = "hello"
    /\ agreed' = agreed \cup {c}
    /\ SetTask(n, c, "wrap")
    /\ UNCHANGED <<phase, channels, conns, known, joined, peer, dialer, rogue,
                   cut, open, eventVars, envVars>>

\* The initiator reads done, which was sent before anything else the responder
\* does to the connection, its closing included.
HandshakeInitiator(n, c) ==
    /\ phase[n] \in Running
    /\ task[n][c] = "hello" /\ dialer[c].node = n
    /\ open[n][c] /\ c \notin cut /\ c \in agreed
    /\ SetTask(n, c, IF dialer[c].kind = "manual" THEN "check" ELSE "wrap")
    /\ UNCHANGED <<phase, channels, conns, known, joined, netVars, open,
                   eventVars, envVars>>

\* Mutant: the failed handshake leaves its socket open.
HandshakeFailsLeaks(n, c) ==
    /\ phase[n] \in Running
    /\ task[n][c] = "hello"
    /\ SetTask(n, c, "done")
    /\ UNCHANGED <<phase, channels, conns, known, joined, netVars, open,
                   eventVars, envVars>>

\* A frame is missing or wrong, the 5 s are over, or the context is cancelled:
\* runHandshake fails and the socket is closed.
HandshakeFails(n, c) ==
    /\ phase[n] \in Running
    /\ task[n][c] = "hello"
    /\ SetTask(n, c, "done")
    /\ CloseSocket(n, c)
    /\ UNCHANGED <<phase, channels, conns, known, joined, netVars,
                   eventVars, envVars>>

\* The second handshake on a connection in use always fails: the other end takes
\* its helloA for a broken envelope, or for a second helloA.  It closes the socket.
RogueFails(c) ==
    LET n == dialer[c].node IN
    /\ c \in rogue
    /\ phase[n] \in Running /\ open[n][c]
    /\ CloseSocket(n, c)
    /\ UNCHANGED <<phase, channels, conns, known, joined, netVars, task,
                   eventVars, envVars>>

\* dialAddr leaves, without closing anything, if the peer has a channel by now.
DialAddrChecks(n, c) ==
    /\ phase[n] \in Running
    /\ task[n][c] = "check"
    /\ SetTask(n, c, IF channels[n][peer[n][c]] # None THEN "abandoned" ELSE "wrap")
    /\ UNCHANGED <<phase, channels, conns, known, joined, netVars, open,
                   eventVars, envVars>>

-----------------------------------------------------------------------------
(* wrapChannel and the pump it starts *)

\* NewReceiver cannot make the directories for incoming files: wrapChannel closes
\* the channel and returns.  (NewChannel fails for no session of a handshake.)
WrapFails(n, c) ==
    /\ phase[n] \in Running
    /\ task[n][c] = "wrap"
    /\ Fault
    /\ SetTask(n, c, "done")
    /\ CloseSocket(n, c)
    /\ UNCHANGED <<phase, channels, conns, known, joined, netVars, eventVars>>

\* Mutant: channels.set overwrites an entry.
RegisterOverwrites(n, c) ==
    /\ phase[n] \in Running \ Swept
    /\ task[n][c] = "wrap"
    /\ channels' = [channels EXCEPT ![n][peer[n][c]] = c]
    /\ SetTask(n, c, "announce")
    /\ UNCHANGED <<phase, conns, known, joined, netVars, open, eventVars, envVars>>

\* channels.set installs the channel.
Register(n, c) ==
    /\ phase[n] \in Running \ Swept
    /\ task[n][c] = "wrap" /\ channels[n][peer[n][c]] = None
    /\ channels' = [channels EXCEPT ![n][peer[n][c]] = c]
    /\ SetTask(n, c, "announce")
    /\ UNCHANGED <<phase, conns, known, joined, netVars, open, eventVars, envVars>>

\* Mutant: the superseded channel is not closed.
SupersededLeaks(n, c) ==
    /\ phase[n] \in Running \ Swept
    /\ task[n][c] = "wrap" /\ channels[n][peer[n][c]] # None
    /\ SetTask(n, c, "done")
    /\ UNCHANGED <<phase, channels, conns, known, joined, netVars, open,
                   eventVars, envVars>>

\* channels.set finds another channel for the peer: the new one is closed.
Superseded(n, c) ==
    /\ phase[n] \in Running \ Swept
    /\ task[n][c] = "wrap" /\ channels[n][peer[n][c]] # None
    /\ SetTask(n, c, "done")
    /\ CloseSocket(n, c)
    /\ UNCHANGED <<phase, channels, conns, known, joined, netVars, eventVars, envVars>>

\* channels.set after closeAll writes into a nil map: the process panics.
SetAfterSweep(n, c) ==
    /\ phase[n] \in Swept
    /\ task[n][c] = "wrap"
    /\ phase' = [phase EXCEPT ![n] = "panicked"]
    /\ ProcessEnds(n)
    /\ UNCHANGED envVars

\* PeerOnline is published; roster and scan history follow and the pump starts.
PublishOnline(n, c) ==
    /\ phase[n] \in Running
    /\ task[n][c] = "announce"
    /\ online' = [online EXCEPT ![n][peer[n][c]] = @ + 1]
    /\ SetTask(n, c, "pump")
    /\ UNCHANGED <<phase, channels, conns, known, joined, netVars, open,
                   offline, envVars>>

\* Mutant: the deferred calls in the wrong order, delete before PeerOffline.
PumpReadErrorForgets(n, c) ==
    /\ phase[n] \in Running
    /\ task[n][c] = "pump"
    /\ Dead(n, c) \/ phase[n] # "up"
    /\ SetTask(n, c, "leaving")
    /\ CloseSocket(n, c)
    /\ channels' = [channels EXCEPT ![n][peer[n][c]] = None]
    /\ UNCHANGED <<phase, conns, known, joined, netVars, eventVars, envVars>>

\* ch.Recv fails on the socket, which Conn closes on any read error.
PumpReadError(n, c) ==
    /\ phase[n] \in Running
    /\ task[n][c] = "pump"
    /\ Dead(n, c) \/ phase[n] # "up"
    /\ SetTask(n, c, "leaving")
    /\ CloseSocket(n, c)
    /\ UNCHANGED <<phase, channels, conns, known, joined, netVars, eventVars, envVars>>

\* The pump leaves with the socket still open: its context is cancelled between
\* two reads, or the frame it read does not decrypt.
PumpRejects(n, c) ==
    /\ phase[n] \in Running
    /\ task[n][c] = "pump"
    /\ phase[n] # "up" \/ c \in rogue
    /\ SetTask(n, c, "leaving")
    /\ UNCHANGED <<phase, channels, conns, known, joined, netVars, open,
                   eventVars, envVars>>

\* The deferred calls of the pump, last one first: PeerOffline, then delete.
PublishOffline(n, c) ==
    /\ phase[n] \in Running
    /\ task[n][c] = "leaving"
    /\ offline' = [offline EXCEPT ![n][peer[n][c]] = @ + 1]
    /\ SetTask(n, c, "left")
    /\ UNCHANGED <<phase, channels, conns, known, joined, netVars, open,
                   online, envVars>>

\* channels.delete closes and removes whatever is registered for the peer.
Unregister(n, c) ==
    LET p == peer[n][c] IN
    /\ phase[n] \in Running
    /\ task[n][c] = "left"
    /\ \/ channels[n][p] # None /\ CloseSocket(n, channels[n][p])
       \/ channels[n][p] = None /\ UNCHANGED open
    /\ channels' = [channels EXCEPT ![n][p] = None]
    /\ SetTask(n, c, "done")
    /\ UNCHANGED <<phase, conns, known, joined, netVars, eventVars, envVars>>

\* scanOne's deferred conn.Close, when wrapChannel has returned.
ScanCloses(n, c) ==
    /\ phase[n] \in Running
    /\ dialer[c] = [node |-> n, kind |-> "scan"]
    /\ task[n][c] \in {"pump", "leaving", "left", "done"}
    /\ open[n][c]
    /\ CloseSocket(n, c)
    /\ UNCHANGED <<phase, channels, conns, known, joined, netVars, task,
                   eventVars, envVars>>

\* Mutant: the whole registry of connections is dropped for one dead connection.
ReapAll(n, p) ==
    LET c == conns[n][p] IN
    /\ phase[n] = "up"
    /\ c # None
    /\ Dead(n, c)
    /\ CloseSocket(n, c)
    /\ conns' = [conns EXCEPT ![n] = None]
    /\ UNCHANGED <<phase, channels, known, joined, netVars, task, eventVars, envVars>>

\* heartbeatOnce: the keepalive cannot be sent, so the connection is closed and
\* leaves transport's registry.
Reap(n, p) ==
    LET c == conns[n][p] IN
    /\ phase[n] = "up"
    /\ c # None
    /\ Dead(n, c)
    /\ CloseSocket(n, c)
    /\ conns' = [conns EXCEPT ![n][p] = None]
    /\ UNCHANGED <<phase, channels, known, joined, netVars, task, eventVars, envVars>>

-----------------------------------------------------------------------------
(* Close, and what ends a process or a connection from outside *)

\* Close cancels the context; goroutines still to start do nothing any more.
Cancel(n) ==
    /\ Command(n, "close")
    /\ phase[n] = "up"
    /\ phase' = [phase EXCEPT ![n] = "cancelled"]
    /\ joined' = [joined EXCEPT ![n] = {}]
    /\ UNCHANGED <<channels, conns, known, netVars, task, open, eventVars>>

\* channels.closeAll closes every registered channel and drops the map.
CloseAll(n) ==
    /\ phase[n] = "cancelled"
    /\ phase' = [phase EXCEPT ![n] = "swept"]
    /\ open' = [open EXCEPT ![n] = [c \in Conn |->
                    open[n][c] /\ \A p \in Node : channels[n][p] # c]]
    /\ channels' = [channels EXCEPT ![n] = [p \in Node |-> None]]
    /\ UNCHANGED <<conns, known, joined, netVars, task, eventVars, envVars>>

\* Transport.Close closes every connection; then Close waits for the goroutines.
CloseTransport(n) ==
    /\ phase[n] = "swept"
    /\ phase' = [phase EXCEPT ![n] = "draining"]
    /\ open' = [open EXCEPT ![n] = [c \in Conn |-> FALSE]]
    /\ UNCHANGED <<channels, conns, known, joined, netVars, task, eventVars, envVars>>

\* The process ends: killed, or by the REPL's os.Exit.
Crash(n) ==
    /\ phase[n] \in Running
    /\ Fault
    /\ phase' = [phase EXCEPT ![n] = "down"]
    /\ ProcessEnds(n)

\* A new process with empty tables: New, then Start.
Restart(n) ==
    /\ phase[n] \in {"down", "panicked"}
    /\ phase' = [phase EXCEPT ![n] = "up"]
    /\ UNCHANGED <<channels, conns, known, joined, netVars, task, open,
                   eventVars, envVars>>

\* The network loses a connection; reads and writes fail sooner or later.
Break(c) ==
    /\ dialer[c].node # None /\ c \notin cut
    /\ Fault
    /\ cut' = cut \cup {c}
    /\ UNCHANGED <<phase, channels, conns, known, joined, peer, dialer, agreed,
                   rogue, task, open, eventVars>>

-----------------------------------------------------------------------------
\* What the goroutine of n's end of c does next.
TaskStep(n, c) ==
    \/ HandshakeResponder(n, c)
    \/ HandshakeInitiator(n, c)
    \/ HandshakeFails(n, c)
    \/ DialAddrChecks(n, c)
    \/ WrapFails(n, c)
    \/ Register(n, c)
    \/ Superseded(n, c)
    \/ SetAfterSweep(n, c)
    \/ PublishOnline(n, c)
    \/ PumpReadError(n, c)
    \/ PumpRejects(n, c)
    \/ PublishOffline(n, c)
    \/ Unregister(n, c)
    \/ ScanCloses(n, c)

LinkStep(n, p) ==
    \/ Announced(n, p)
    \/ Expired(n, p)
    \/ dialAndHandshake(n, p)
    \/ dialAddr(n, p)
    \/ Scan(n, p)
    \/ Reap(n, p)

ProcessStep(n) ==
    \/ Cancel(n)
    \/ CloseAll(n)
    \/ CloseTransport(n)
    \/ Crash(n)
    \/ Restart(n)

Next ==
    \/ \E n \in Node, c \in Conn : TaskStep(n, c)
    \/ \E n, p \in Node : LinkStep(n, p)
    \/ \E c \in Conn : RogueFails(c) \/ Break(c)
    \/ \E n \in Node : ProcessStep(n)

\* Goroutines keep running: the scheduler is fair to each of them, timers fire,
\* announcements are repeated.  Users and faults need not act.
Fairness ==
    /\ \A n \in Node, c \in Conn : WF_vars(TaskStep(n, c))
    /\ \A c \in Conn : WF_vars(RogueFails(c))
    /\ \A n, p \in Node :
        /\ WF_vars(Announced(n, p))
        /\ WF_vars(dialAndHandshake(n, p))
        /\ WF_vars(Reap(n, p))
    /\ \A n \in Node : WF_vars(CloseAll(n)) /\ WF_vars(CloseTransport(n))

Spec == Init /\ [][Next]_vars
FairSpec == Spec /\ Fairness

-----------------------------------------------------------------------------
(* Properties *)

\* A goroutine knows the peer at the other end, and a connection that nobody has
\* dialled has no goroutines.
TasksHavePeers ==
    \A n \in Node, c \in Conn :
        task[n][c] # "none" => peer[n][c] \in Node /\ dialer[c].node \in Node

\* n's end of c holds the registry's entry for p, or held it until closeAll.
Holds(n, p, c) == task[n][c] \in Registered /\ peer[n][c] = p

\* ... and n has said PeerOnline for it, and not yet PeerOffline.
Pumps(n, p, c) == task[n][c] \in {"pump", "leaving"} /\ peer[n][c] = p

\* One pump per peer, and it owns the registry's entry: a channel is registered
\* for p exactly while its own goroutine is between channels.set and
\* channels.delete, however dials, accepts, failures and commands interleave.
\* So the deferred delete(peerID), which closes whatever it finds under the ID,
\* never closes a successor's channel, and no pump runs unregistered.
RegistryOwner ==
    \A n, p \in Node, c \in Conn :
        /\ channels[n][p] = c => Holds(n, p, c)
        /\ Holds(n, p, c) /\ phase[n] \notin Swept => channels[n][p] = c
        /\ \A d \in Conn : Holds(n, p, c) /\ Holds(n, p, d) => c = d

\* The last presence event about p said "online" exactly while a pump for p runs
\* or is about to say "offline": between PeerOnline and PeerOffline there is one
\* channel, the same for both events.
PresenceMatchesPump ==
    \A n, p \in Node :
        online[n][p] = offline[n][p] + (IF \E c \in Conn : Pumps(n, p, c) THEN 1 ELSE 0)

\* No socket outlives the goroutine that reads it: whichever end gives up on a
\* connection closes it, so that the other end notices.  The one exception in the
\* code is dialAddr's return when the peer has a channel by then ("abandoned").
NoAbandonedSocket ==
    \A n \in Node, c \in Conn :
        task[n][c] \in {"none", "done", "gone"} => ~open[n][c]

\* The presence events of every peer alternate, see PeerPresence.
Presence == INSTANCE PeerPresence WITH
    Node <- Node, online <- online, offline <- offline
PresenceSpec == Presence!Spec

\* Two nodes agree on the connection they use for each other.
RegistriesAgree ==
    \A n, p \in Node, c \in Conn :
        channels[n][p] = c /\ dialer[c].kind # "manual" => channels[p][n] = c

\* No channel stays half open: once commands and faults have stopped (both are
\* bounded here), each connection is registered at both ends or at neither.
\* A pump learns of the other end's refusal, timeout, shutdown or death in time.
\* (Connections dialled by the dial command are excepted: see NoAbandonedSocket.)
HalfOpenResolves == <>[]RegistriesAgree

\* The claim of dialAndHandshake's comment, that a peer can re-trigger PeerAdded
\* at every announcement: two nodes that are up and have no channel get one.
Reconnects ==
    \A n, p \in Node :
        (n # p /\ phase[n] = "up" /\ phase[p] = "up")
            ~> (channels[n][p] # None \/ phase[n] # "up" \/ phase[p] # "up")
=============================================================================
