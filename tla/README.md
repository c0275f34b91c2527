# innerlink-core in TLA+

innerlink-core is a chat and file-transfer program for a local network without
servers: nodes find each other by UDP broadcasts, dial each other over TCP,
authenticate, and keep one encrypted channel per peer. This directory holds TLA+
models of its concurrent and failure-prone parts, TLC configurations that check
them on small instances, and TLAPS proofs of the properties that matter most.
`PROJECT.json` maps every definition to the source lines it stands for.

## 1. Inventory of the system

| Part | Code | State it keeps | Operations |
|---|---|---|---|
| Node | `pkg/node/node.go`, `channels.go` | registry PeerID -> channel; phase of Start/Close; event and message queues | New, Start, Close, dialAndHandshake, handleInbound, dialAddr, wrapChannel (set, PeerOnline, pump, PeerOffline, delete), publishMessage, publishPeerEvent |
| Transport | `internal/transport` | listener; registry address -> connection | Listen, Run (accept, heartbeat), Dial, register, Close; Conn Send, Recv, Close |
| Discovery | `internal/discovery` | table of peers with last-seen times; queue of 32 events | broadcastOnce, handlePacket, gcOnce, emit |
| Handshake | `internal/handshake` | none beyond one run | RunAsInitiator, RunAsResponder: helloA, helloB, helloA', done |
| Protocol channel | `internal/protocol` | session key, receive lock | Send*, Recv, Close |
| File transfer | `internal/filetransfer` | per channel: part files, waiters, cached replies | Send; Receiver.Handle, WaitForReply, deliverReply, handleOffer, handleChunk, finalize, abort |
| Chat log | `internal/storage` | `chat.enc`, count of unsynced records | Open, Append, ReadAll, Close |
| Messages | `pkg/node/messages.go` | history in memory, `messageCh` | SendText, SendFile, Ping, History, SubscribeMessages |
| Alias table | `internal/alias`, `pkg/node/aliases.go` | rows, dirty, the file | Open, Set, Remove, Touch, Save, resolve |
| Roster | `internal/roster` | rows, dirty, the file | Open, Add, MergeFromGossip, Touch, Save |
| Gossip | `pkg/node/node.go` 562-699 | none of its own | sendRosterSync, broadcastRosterToAll, sendScanHistory, broadcastScanHistoryToAll; receipt of both |
| Auto-scan | `pkg/node/autoscan.go` | queue of 16 subnets, seen set, known subnets | EnqueueIfNew, Enqueue, Snapshot, MarkScanned, the scan loop |
| Scan | `pkg/node/scan.go` | worker pool of one scan | Scan, scanOne |
| Views, options | `pkg/node/peers.go`, `helpers.go`, `options.go` | none | ListPeers, name resolution |
| Identity, crypto, paths, logging | `internal/identity`, `crypto`, `paths`, `logx` | key file, log file | load or create; library calls |
| Command line | `cmd/innerlink` | none | the REPL's commands; `quit` ends the process with `os.Exit` |

**How they interact.** Discovery feeds PeerAdded events to the node, which dials
in a goroutine of its own. Inbound connections come from transport's accept loop
through a channel to handleInbound. Both paths, and the `dial` and `scan`
commands, end in wrapChannel, which registers the channel and starts its pump.
The pump is the only reader of a channel: it calls the chat log, the message
queue, the alias table, the roster and the file receiver itself, one envelope at
a time. Commands run in the REPL's goroutine, transfers in one goroutine each.

**What is hard.** Both ends dial at once, and each resolves the conflict by
itself. Goroutines look at the registry, let go of its lock, and act seconds
later. Cleaning up is by PeerID, not by channel. Replies to a transfer are read
by the pump and awaited elsewhere. Pumps write replies to the connection that
they should be emptying. Files are appended to without a sync, saved by several
goroutines at once, and read back after a crash. Events are dropped when queues
are full.

**What makes each part correct.** Node: one pump per peer, which owns the
registry's entry; presence events alternate; nothing half open stays; peers that
are up get a channel. Discovery: a running peer is found and not expelled, a dead one goes, the
events tell what the table holds. Handshake: both ends have the same key, or none. Transport: heartbeats
arrive, dead connections leave, Run returns. Transfer: no reply is missed, both ends agree on the
outcome, transfers end. Chat log: a bounded loss by a power cut, the log leads
what is shown, damage is contained, the subscriber never slows the pump. Tables:
the file never goes back, a saved change is on disk. Gossip: rosters converge,
messages stop. Auto-scan: a subnet is scanned once, and none is left waiting.

## 2. Modules

| Module | Models | Extended or used by |
|---|---|---|
| `PeerPresence` | abstract: what a node promises about presence events | refined by `PeerLinks` |
| `PeerLinks` | discovery's table, dialling, transport's registry, handshake, registry of channels, pump, Close, crashes | `MCPeerLinks`, `PeerLinksProofs` |
| `FileDelivery` | abstract: what the two users of a transfer learn | refined by `FileTransfer` |
| `FileTransfer` | Send and Receiver at both ends of one channel, with its buffers | `MCFileTransfer`, `FileTransferProofs` |
| `ChatLog` | chat.enc, history, `messageCh`, exits, power cuts | `MCChatLog`, `StorageProofs` |
| `TableStore` | alias table and roster: changes, Save, restart | `MCTableStore`, `StorageProofs` |
| `Gossip` | rosters sent, merged and passed on between nodes | `MCGossip`, `GossipProofs` |
| `AutoScan` | one node's queue of subnets to scan, scan histories, the scan loop | `MCAutoScan`, `AutoScanProofs` |
| `PeerLease` | abstract: how long a silent peer stays in the table | refined by `Discovery` |
| `Discovery` | the announcer with its timers and its queue of events, the node's loop over them, Close's cancel | `MCDiscovery`, `DiscoveryProofs` |
| `KeyAgreement` | abstract: which keys the two ends may settle on | refined by `Handshake` |
| `Handshake` | several runs of the handshake on one connection, and the pumps that take it over | `MCHandshake`, `HandshakeProofs` |
| `Transport` | accept loop, registry of connections, heartbeats, Dial, Close and Run | `MCTransport`, `TransportProofs` |

Definitions have the name of the function they model where it is one function
(`dialAndHandshake`, `handleOffer`, `publishMessage`). Definitions marked "Mutant"
are wrong on purpose: each stands for a plausible bug in one definition, and the
property named for it in `PROJECT.json` fails when it takes that definition's place.

### PeerLinks

A connection `c` joins two nodes, and each of them runs one goroutine for its end.
`task[n][c]` is how far that goroutine is: `hello` (handshake), `check`
(dialAddr's second look; if the peer is connected by then, the task is `abandoned`), `wrap` (before `channels.set`), `announce` (before
PeerOnline), `pump`, `leaving` (before PeerOffline), `left` (before
`channels.delete`), `done`. `channels[n][p]` is the registry, `conns[n][p]` the part of transport's
registry that a later dial can find, `known` and `joined` are discovery's table
and its undelivered PeerAdded events. `phase[n]` follows Close: cancelled, swept
(closeAll), draining (Transport.Close, then the wait). `agreed` holds the
connections whose responder has sent the last frame: the initiator completes
after that and only after that, so either end may be left alone with a channel.

One mutex section or one system call of the code is one action. Closing a socket
is seen by the other end (`Dead`) as soon as its next read. `register`'s reuse of a
registered connection starts a second handshake on a connection in use (`rogue`),
which fails and closes it.

Left out: envelopes, keys and addresses (a peer is its PeerID and its listening
address), transport's registration of accepted connections (their address is
never dialled), the capacity of event queues, NewChannel's errors (a session of a handshake causes none). Discovery, the handshake and the transport
are here in short, as far as they decide who has which channel; each has a module of its own.

### FileTransfer

`sender[f]` is the progress of the goroutine in Send: `offer`, `accept` (before
WaitForReply), `accepting` (in it), `stream`, `done` (before the second
WaitForReply), `finishing` (in it), and the four results. `mail` and
`pending` are the waiter's buffered channel and the cache of early replies;
`outbox[s]` is the reply that the handler in the pump of `s` has yet to write: while it is
there the pump reads nothing. `pipe[s]` holds envelopes in order. A connection's
buffers have room for `PipeRoom` chunks; small envelopes never fill them but wait
behind chunks that do. Content is the version of the chunks: Send hashes the
version `old`, `FileChanges` makes the chunks read later `new`. For `FileDelivery`, `Told` is what Send returned and
`Found` how the file in the save directory compares with the offer: `whole`, `torn`, or `wrong`, which the abstract specification does not allow.
`torn` is what a failed `copyFile` leaves. It is a piece of the file, or all of it when only the copy's
`Close` fails; the model does not tell these apart, so that a refused file may still be there in full in that one case.

### ChatLog

`file` is what the operating system has, frame by frame, of which the first
`durable` are synced. A frame is whole, or cut in its header or its body. A writer
(a pump, or a caller of SendText) goes through `append`, `history`, `publish`, and
when the queue is full `drain` and `retry`, one lock or channel operation each.
`acked` and `refused` record what Append returned, for the properties.

### TableStore

The two stores share their design, and one module models both; `table` says
which, and only the callers and Save's first step differ (the alias table
looks at `dirty` under one read lock and copies under another). A version is the set
of peers with a row and the time of the last change, so that "older" has a
meaning. `onDisk` is the file, `saving[w]` how far goroutine `w` is in Save, `snapshot[w]` the copy it
writes, and `savers` are the goroutines that call the operations which save. Its names differ from
`ChatLog`'s (`TableInit`, `tableVars`), so that `StorageProofs` can extend both.

### Gossip

Several nodes, with one goroutine per end of a channel: `end[n][p]` is `hello` until
`channels.set`, `greet` until the roster is sent, then `pump`. A pump that merged new entries
is busy (`job[n][p]`): `merged` until it has copied the registry, `telling` while it sends to each
channel of the copy; it reads nothing meanwhile. Rosters are listed when they are sent,
not when the broadcast begins, as in `sendRosterSync`. A lost connection drops what was on
its way. A restarted node has its roster, since the merge that read an entry also saved it
(failed saves are in `TableStore`), and no channels. Left out: who wins a simultaneous
dial (`PeerLinks`), a full connection buffer (`FileTransfer`), row contents.

### AutoScan

One node that runs with `-auto-scan`. `queue`, `seen` and `known` are the code's; `lost` records subnets that
found the queue full or that `Snapshot` took out of it. `EnqueueIfNew` is two
actions, since it copies `known` under one lock and queues under another; the histories
a pump broadcasts before it looks at the new entries are one action each. Without
`-auto-scan` the loop does not run and the rest is the same.

### Discovery

The table is `peers` with the time since each was heard (`since`); `events` is the queue of 32 and
`told` what the node's loop has read of it. Time is counted in parts of the announcing interval;
`Tick` advances all timers and waits for those that are due and for an event that is being
emitted, since no step of a goroutine takes long compared with 5 s. `air` holds the copies of a peer's last announcement: they land late, twice or never.
`handlePacket` and `gcOnce` release the table's lock before they emit, so `reader` and `evicted`
are what is yet to be emitted, and other steps come in between. `astray` records the peers whose last
event was dropped at a full queue or overtaken by another one: the code loses those, and the properties
except them by name. `ReadFails` ends the read loop as a socket error does.

### Handshake

One connection, any number of runs of `RunAsInitiator` at its dialling end (`Try`), as
`Transport.Dial` makes possible when it hands out a registered connection, and one of
`RunAsResponder`. `step[x]` is the frame that run `x` waits for. Runs at one end compete for frames; a run that reads
a frame of the wrong kind, times out or cannot verify it fails and closes the connection. Nonces
are named after the run that drew them, a signature is what it signs, a key is what went into its
derivation: two ends have the same key when these agree. A `ready` run is a pump, which may also
swallow another run's frames, and ends when it does.

### Transport

`sock[c]` is a socket, and for an open one how its far end behaves: it `reads`, `stalls` (is alive
but does not read) or is `gone`. Frames are only counted as arrived: `quiet[c]` is the time since one
reached the far end, `held[c]` how much of it the heartbeat loop was blocked in `Send` to another connection. `round`
is heartbeatOnce's snapshot, `due` the one tick that Go's ticker keeps. The accept loop holds a
connection in `hand` between accept, register and the push into `inbounds`, where Close's sweep
may overtake it. The registry is keyed by address (`SameKey`): accepted connections have one each, dialled
ones to a host share its listener's. Time does not pass while a loop that is not blocked has something to do.

## 3. What the runs check

All runs have small instances, and all bounds are named constants. Deadlock
checking is off everywhere: users stop giving commands, transfers end, the bounded
supply of connections, changes and faults runs out, and then the system may rest.

| Run | Instance | Result |
|---|---|---|
| `links` | 2 nodes, 2 connections; shutdown of one, or dial and scan commands, or 1 fault | `TypeOK`, `RegistryOwner`, `PresenceMatchesPump`, `NoAbandonedSocket`, `HalfOpenResolves`, refinement of `PeerPresence` hold |
| `links_reconnect` | 2 nodes, 2 connections, discovery only | `Reconnects` fails |
| `transfer` | one file each way of 2 chunks, 2 faults, a ping, one cancellable | `TypeOK`, `NoStrandedReply`, `ChunkFindsPart`, refinement of `FileDelivery`, `TransferEnds` hold |
| `transfer_duplex` | two files each way, of 2 chunks and of 1, no pings, no faults | `StreamsEnd` fails |
| `chatlog` | 2 writers with 2 messages, sync every 2nd, queue of 1, 2 faults, one oversized message | `TypeOK`, `PowerCutLoss`, `LogLeads`, `WritersProceed` hold |
| `chatlog_tail` | the same with 1 fault | `EarlierRecordsKept` fails |
| `tables` | 2 peers, 2 workers, 4 changes, 2 failures | `TableTypeOK`, `SoleSaverDurable`, `NeverOlder` hold |
| `gossip` | 3 nodes, 3 events (channels opened, at most 1 fault) | `TypeOK`, `NoEntryLost`, `Converges` hold |
| `autoscan` | 2 peers, 3 subnets, queue of 1, 5 channels, rosters and histories | `TypeOK`, `ScanOnce`, `QueueMoves` hold |
| `discovery` | 1 peer, interval of 2, 1 loss in a row at most, 2 copies, queue of 1 | `TypeOK`, `EventsTell`, refinement of `PeerLease`, `NoFlapping`, `Found`, `OnlyDispatchStays` hold |
| `handshake` | 3 runs of the initiator, 1 of the responder | `TypeOK`, `AnsweredRun`, refinement of `KeyAgreement`, `BothOrNeither` hold |
| `transport` | 2 accepted and 2 dialled connections of which 3 open, channel of 1, heartbeat 1, read timeout 2 | `TypeOK`, `BeatsArrive`, `OutlivesRun`, `OnlyDeadLeave`, `DeadLeaves`, `RunReturns` hold |

**Why the bounds are enough.** Two connections between two nodes are the
simultaneous dial, a command next to discovery, and the successor of a channel that
is being taken down; both users' commands are symmetric, so one side gives them.
Faults are bounded to keep the state space small; one is enough to put a crash, a loss or an
expiry between any two steps. Two chunks are the first and the last; one chunk of room
is a full buffer. In `transfer` both pumps can wait for each other, with a pong or with the Done of a chunk
that could not be written: without its alternative `Jammed` the property `TransferEnds` fails there. A queue of one and
two writers make every race of publishMessage. A sync every second record has
a record before the sync, at it and behind it. Two workers and four changes let a
change fall into each gap of the other worker's Save. Three nodes and three channels close a
triangle, in which a flood could go round for ever, and two channels and a fault are a
chain that breaks, or a channel that comes back. A queue of one is full with one subnet
waiting, and five events let two pumps find the same subnet, a history empty the queue, and a
subnet become known in between. Peers of the announcer meet only in its queue, which one peer
with room for one event fills; an interval of two puts a sweep and an announcement in and out of step, and
one loss in a row is what the three intervals must bear. Three runs on one connection are one that was answered, one
that stole a frame, and one that comes when both are done. Two connections each way, of which three open,
are a stalled one, a healthy one behind it, and a second at the address of a dead one; with a channel of one,
the third accepted one finds it full. The instance with heartbeat 2 and read timeout 4, where a tick
comes in the middle of a round, has the same result. A shutdown together with commands or
faults is left to the proofs of PeerLinks, which cover every mix of them.

**The runs that fail** state what a comment or a document of the repository says.

- `Reconnects`: both nodes dial, a registers connection 1 and closes 2, b registers
  2 and closes 1. Both pumps end, each peer is still in the other's table,
  PeerAdded does not come again, and nobody dials.
- `StreamsEnd`: each end offers a second file while its first one is under way. Both pumps
  are in handleOffer with an Accept to write, which does not fit behind the chunks of
  their own side's Send; neither reads, so neither makes room. Pongs, and Dones after a write error,
  block in the same way when there is one file each way.
- `EarlierRecordsKept`: a torn frame turns the whole history into an empty one at
  the next start, since Start drops what ReadAll returned with the error.

`PROJECT.json` lists further disagreements between code and comments under "findings", met while
modelling. The models contain the behaviour (`PowerCutLoss` speaks of the running process and
`SoleSaverDurable` of a sole saver for that reason; `astray`, `held`, `abandoned`, `Jammed`, `SetAfterSweep` and
`ReadFails` are others), and where a property holds only up to one, it names the exception.

**Fairness.** `Spec` has none; liveness is checked under `FairSpec`. In PeerLinks weak fairness of each
goroutine's next step (Go's scheduler runs runnable goroutines; a read on a dead
socket returns), of discovery's announcements (a ticker repeats them), of the
goroutine started for PeerAdded, of the heartbeat (a ticker) and of Close's
steps. In FileTransfer of each Send and of each pump; in ChatLog of each writer; in Gossip and
AutoScan of each channel's goroutine, and of the scan loop, whose scans end by timeouts.
In Discovery weak fairness of time, of each
timer's work and of the goroutines; the network owes no more than the bound on losses in a row. In Handshake of every run, which its deadline of 5 s ends, and of every pump's read.
In Transport of time, of each goroutine that is not blocked, and of a far end's read deadline; a stalled far end
need never read again. No fairness is assumed of users, faults, timeouts of peers, cancellation or the
subscriber. `HandshakeFails` is part of a goroutine's steps, for the 5 s deadline
ends every handshake. `HalfOpenResolves` relies on commands and faults being finite.

## 4. What is proved

TLAPS checks these for every value of the constants that satisfies the named
assumption of the module (`LinksAssumption`, `TableAssumption`, `DiscoveryAssumption` and so on): any number of
nodes, connections, peers, runs, writers or workers, any interval and capacity, and any bound on faults.

`PeerLinksProofs`: `TypeCorrect`, `RegistryOwned`, `PresenceMatches`,
`ImplementsPresence`, `NoSocketAbandoned`. `RegistryOwner` is nearly inductive. A task that is about to
register must know its peer (`TasksHavePeers`), or an entry could be written under
no node's name. `PresenceMatchesPump` needs `RegistryOwner`: only because at most one task
per peer holds the entry does a PeerOnline find no other pump. The inductive
invariant is `TypeInv /\ LinkInv`, type correctness and the conjunction of those
parts; there is one lemma for each kind of step, since most actions move one task
and leave the rest alone. The refinement follows from it: PublishOnline is the
abstract `Online` because no pump for the peer exists, PublishOffline is `Offline`
because one does, the end of a process is `Forget`, all else stutters. `NoSocketAbandoned` has an invariant of its
own, `SocketInv`: an open socket belongs to a goroutine that has it, or dialAddr left it when it found the peer connected
(`abandoned`, the exception that the theorem makes); and after closeAll every registered channel is closed. The last part is needed because a goroutine that
registered a channel gives it up through the registry: what is not found there has been closed by the sweep.

`AutoScanProofs`: `TypeCorrect`, `NeverScannedTwice`, `KnownAreSkipped`. The inductive
invariant is `ScanInv`: the queue holds no subnet twice and none whose scan has begun
(`QueueFresh`), which is kept because Enqueue accepts only what was never seen; and what
waits for the queue's lock was not known when its roster arrived (`JobInv`), which is
kept because known subnets stay known. `TypeCorrect` adds that every subnet
seen is accounted for.

`DiscoveryProofs`: `TypesHold`, `LeasesKept`, `SteadyPeersStay`, `QueueTells`. `TypeOK` bounds a peer's silence
by four intervals, which needs that the next sweep comes within one (`Swept`). From it follows the refinement
of `PeerLease`: handlePacket is `Hear`, gcOnce `Expel`, Tick `Pass`. `SteadyPeersStay` is arithmetic: a steady
peer's silence is at most the intervals that its lost announcements and the one under way take (`Heard`), and with
`MaxMissed` 1, which the theorem assumes, that is no more than three. `QueueTells` rests on lemmas about the last
report in a queue (`Final`), and on the fact that a peer whose PeerAdded is about to be emitted cannot
expire before it is (`ReaderFresh`).

`HandshakeProofs`: `TypesHold`, `RunsAreAnswered`, `HandshakeAgrees`. The invariant is `TypeOK /\ NonceInv /\ FrameInv /\ KeyInv`:
a nonce belongs to the run that drew it, so a helloB that repeats a run's nonce answers that run (`Answers`); hence
only the answered run goes past helloB; the responder then sends one `done`, which one run can read, and
derives its key from the same four names. Each action that settles a key is `Accept` or `Confirm` of `KeyAgreement`.

`TransportProofs`: `TypesHold`, `RegistryKeepsOpen`, `HeartbeatsArrive`, `OneOutlivesRun`. `Registry` says that open connections
are registered, one per address, and that the snapshot holds only registered ones, so that an unregister by address finds its own
connection. `Timely` ties a far end's wait to the ticker: between rounds the wait and what is left to the next
tick make at most one heartbeat and the time for which the loop was blocked; `Clocks` bounds the latter. `OneOutlivesRun` follows from `OneInHand`: after the sweep only the accept loop's hand is left.

`GossipProofs`: `TypesHold`, `EntriesReach`. `NoEntryLost` is inductive but for two facts: a message lists only what its
sender's roster has (part of `TypeOK`), and what a pump merged is known to the peer it came from (`AddedKnown`), to which it does not pass it on.
There is one lemma per action; the copy of the registry and the greeting of a channel registered behind it are the case that matters.

`StorageProofs`, of the chat log: `TypesHold`, `LossIsBounded`, `LogComesFirst`. No message is on file twice
(`Distinct`), because a message is new until its writer appends it (`Fresh`); so each acknowledged record behind
the last sync is one of the `unsynced` ones (`Bound`), also when a sync failed and the count ran past
`recordsPerSync`. A new process starts with nothing of its own at risk since what it acknowledged before is among
the frames it found (`AckedOnFile`). Of the tables: `TablesTyped`, `FileNeverOlder`, `SoleSaverKeeps`. The
inductive invariant is `TableTypeOK /\ TableInv`. A copy in flight is not older than the file, which needs that Saves
exclude each other (a part of `TableTypeOK`). For a sole saver, while its change is not on file the table is dirty, or
its own copy has the change; that no one else clears `dirty` is what a second saver breaks.

`FileTransferProofs`: `TypeCorrect`, `NoReplyStranded`, `ChunksFindParts`, `EndsAgree`, `TransfersDeliver`. `Types` says what may be where:
a frame is in the pipe to the end that reads such frames, a chunk under way has been sent, and a reply lies in the mail
only of a goroutine that waits for its type. With it `NoStrandedReply` is inductive: registering looks into the cache and
handling a reply looks for the waiter, each in one step of the receiver's lock. `ChunkFindsPart` and `Verdict` need `TransferInv`,
which ties a sender's state to what is in the two pipes. Chunks travel in order and none behind an abort (`Ordered`), so
that when a part is dropped no chunk of it is to come: the last one has been read, or the abort of a sender that withdrew. A
part holds only chunks that were sent and read (`Kept`). A reply tells the truth wherever it is, on its way, cached or in the
mail (`Justified`): an accept means that there is a part, a `done` that the file is stored, a refusal that it is not and
never will be. The last word needs a reason that no later step undoes, `Missed`: some chunk is neither in the part nor to come, so
finalize can never find the file whole. `Steady` shows all that for the steps that bring no chunk; `ChunkSent` and
`ChunkStored` are the two that do. `TransfersDeliver` adds `FoundInv`: whatever is in the save directory was moved there
behind the last chunk, so that finalize saves once, and never for a sender that withdrew. FinalizeOk and the failed copy are
then `Arrives` of `FileDelivery`, the steps by which Send returns are `Returns`, and all else stutters. `EndsAgree` states the
invariant that results, `Verdict`, which no run checks by itself, since the refinement implies it.

`KnownAreSkipped` and `EndsAgree` have no run of their own: they hold for every instance by their proofs.

Every inductive invariant was checked by TLC before it was proved, on the instance of its component's run. All
invariants, all action properties and all refinements of the passing runs are stated by theorems.

**Only model-checked:** the liveness properties, since temporal proofs under fairness need ENABLED, which is out of the prover's
reach: `HalfOpenResolves`, `TransferEnds`, `WritersProceed`, `Converges`, `QueueMoves`, `Found`, `OnlyDispatchStays`,
`BothOrNeither`, `DeadLeaves`, `RunReturns`. Each names its exceptions as alternatives: of `TransferEnds` they are
a lost connection, an aborted offer and pumps that wait for each other (`Jammed`), besides files without chunks.

## 5. Not modelled

Cryptography, key files, encodings, logging, the REPL's text and the end-to-end
harness: no shared state and no interleaving, or assumed from libraries. The
views of peers read what other modules own. Name resolution and History's filter change nothing.
`Store.Close` and what follows Close's wait are unreachable in the running program: a goroutine that Close waits
for reads a channel that nobody closes. `Receiver.Loop`, `Roster.Remove` and `DialStandalone` have no caller.
The worker pool of a scan and its CIDR arithmetic: workers share only the channels of jobs and of results,
which is as large as the number of jobs, and what each of
them does to the registry (`scanOne`) is in `PeerLinks`. The queue of 64 peer events drops the oldest like
the queue of messages in `ChatLog`, and no code depends on its order.

## 6. Plan

1. (done) `PeerLinks` with `PeerPresence`; `FileTransfer` with `FileDelivery`; `ChatLog`, `TableStore`, `Gossip`, `AutoScan`;
   `Discovery` with `PeerLease`, `Handshake` with `KeyAgreement`, and `Transport`; proofs of their invariants.
2. Three nodes in `PeerLinks`; the queue of peer events, as a refinement of `PeerPresence` with an observer.
