---------------------------- MODULE FileTransfer ----------------------------
(***************************************************************************)
(* Files sent over one channel, in both directions at once.  At each end   *)
(* one pump reads every envelope and hands the file envelopes to the       *)
(* Receiver, which stores incoming files and passes replies on to the      *)
(* goroutines that are sending.                                            *)
(*                                                                         *)
(* Code: internal/filetransfer (Send; Receiver.Handle, WaitForReply,       *)
(* deliverReply), pkg/node/messages.go (SendFile, Ping), the pump of       *)
(* pkg/node/node.go (wrapChannel).                                         *)
(*                                                                         *)
(* A file's content is the version of its chunks: the sender hashes the    *)
(* file once, as version "old", and reads it again chunk by chunk.  The    *)
(* channel is TCP under authenticated encryption: frames arrive unchanged  *)
(* and in order, so an index out of range or a wrong chunk hash, which     *)
(* handleChunk also refuses, do not occur.                                 *)
(***************************************************************************)
EXTENDS Integers, SequencesExt

CONSTANTS
    Side,       \* the two ends of the channel
    File,       \* transfers, by file ID
    From,       \* From[f]: the end that sends f
    Chunks,     \* Chunks[f]: ceil(size / ChunkSize)
    Cancellable,\* transfers whose Send was given a context that may be cancelled
    Pinging,    \* ends whose user gives the ping command, once
    PipeRoom,   \* chunks that fill the buffers of one direction of the connection
    MaxFault    \* bound on disk errors, files changing under Send, lost channels

ASSUME TransferAssumption ==
    /\ \E s, t \in Side : s # t /\ Side = {s, t}
    /\ From \in [File -> Side]
    /\ Chunks \in [File -> Nat]
    /\ Cancellable \subseteq File /\ Pinging \subseteq Side
    /\ PipeRoom \in Nat \ {0} /\ MaxFault \in Nat

VARIABLES
    sender,     \* sender[f]: progress of the goroutine in Send
    next,       \* next[f]: index of the chunk it sends next
    changed,    \* files that changed since Send hashed them
    mail,       \* mail[f]: reply in the buffered channel of f's waiter
    pending,    \* pending[f]: replies for f that found no waiter
    parts,      \* parts[f]: the receiving end's partFile for f
    saved,      \* <<f, content>> that were moved into the save directory
    pipe,       \* pipe[s]: envelopes on their way to s
    outbox,     \* outbox[s]: replies the handler running in s's pump has to send
    pings,      \* ping commands to come
    lost,       \* the connection is closed
    faults

senderVars == <<sender, next, changed>>
waiterVars == <<mail, pending>>
diskVars == <<parts, saved>>
envVars == <<pings, lost, faults>>
vars == <<senderVars, waiterVars, diskVars, pipe, outbox, envVars>>

Other(s) == CHOOSE t \in Side : t # s
To(f) == Other(From[f])

None == [type |-> "none"]
NoPart == [have |-> {-1}, hash |-> <<>>]
Offer(f) == [type |-> "offer", file |-> f]
Chunk(f, i) == [type |-> "chunk", file |-> f, index |-> i,
                version |-> IF f \in changed THEN "new" ELSE "old"]
Accept(f) == [type |-> "accept", file |-> f]
Done(f, ok) == [type |-> "done", file |-> f, ok |-> ok]
Abort(f) == [type |-> "abort", file |-> f]
Ping == [type |-> "ping"]
Pong == [type |-> "pong"]

\* The content whose hash is in the offer.
Whole(f) == [i \in 1..Chunks[f] |-> <<i - 1, "old">>]

Replies == {"accept", "done", "abort"}
\* "accept" and "done" precede WaitForReply, "accepting" and "finishing" are in it.
Waiting == {"accepting", "finishing"}
Results == {"ok", "refused", "withdrawn", "failed"}
SenderStates == {"idle", "offer", "accept", "stream", "done"} \cup Waiting \cup Results

\* The type of reply under which f's goroutine is registered.
WantOf(state) == IF state = "accepting" THEN "accept" ELSE "done"

TypeOK ==
    /\ sender \in [File -> SenderStates]
    /\ \A f \in File : next[f] \in 0..Chunks[f]
    /\ changed \subseteq File
    /\ \A f \in File : mail[f] # None =>
        sender[f] \in Waiting /\ mail[f].type = WantOf(sender[f])
    /\ \A f \in File : \A e \in pending[f] : e.type \in Replies /\ e.file = f
    /\ \A f \in File : parts[f] = NoPart \/ parts[f].have \subseteq 0..(Chunks[f] - 1)
    /\ \A x \in saved : x[1] \in File
    /\ \A s \in Side : \A i \in DOMAIN pipe[s] :
        pipe[s][i].type \in {"offer", "chunk"} => From[pipe[s][i].file] # s
    /\ \A s \in Side : Len(outbox[s]) <= 1
    /\ pings \subseteq Pinging /\ lost \in BOOLEAN /\ faults \in 0..MaxFault

Init ==
    /\ sender = [f \in File |-> "idle"]
    /\ next = [f \in File |-> 0]
    /\ changed = {}
    /\ mail = [f \in File |-> None]
    /\ pending = [f \in File |-> {}]
    /\ parts = [f \in File |-> NoPart]
    /\ saved = {}
    /\ pipe = [s \in Side |-> <<>>]
    /\ outbox = [s \in Side |-> <<>>]
    /\ pings = Pinging
    /\ lost = FALSE
    /\ faults = 0

-----------------------------------------------------------------------------
(* Helpers *)

Fault ==
    /\ faults < MaxFault
    /\ faults' = faults + 1
    /\ UNCHANGED <<pings, lost>>

\* A frame to s is written when the buffers have room; a writer that does not
\* fit waits, holding the connection's write lock.
Room(s) == Cardinality({i \in DOMAIN pipe[s] : pipe[s][i].type = "chunk"}) < PipeRoom

Write(s, e) == ~lost /\ Room(s) /\ pipe' = [pipe EXCEPT ![s] = Append(@, e)]

SetSender(f, state) == sender' = [sender EXCEPT ![f] = state]

-----------------------------------------------------------------------------
(* Send *)

\* SendFile starts the goroutine, which hashes the file.
SendFile(f) ==
    /\ sender[f] = "idle" /\ ~lost
    /\ SetSender(f, "offer")
    /\ UNCHANGED <<next, changed, waiterVars, diskVars, pipe, outbox, envVars>>

\* Somebody writes to the file while it is being sent.
FileChanges(f) ==
    /\ sender[f] \in {"offer", "accept", "accepting", "stream"} /\ f \notin changed
    /\ Fault
    /\ changed' = changed \cup {f}
    /\ UNCHANGED <<sender, next, waiterVars, diskVars, pipe, outbox>>

SendOffer(f) ==
    /\ sender[f] = "offer"
    /\ Write(To(f), Offer(f))
    /\ SetSender(f, "accept")
    /\ UNCHANGED <<next, changed, waiterVars, diskVars, outbox, envVars>>

\* What Send makes of the reply it waited for.
After(e) ==
    CASE e.type = "accept" -> "stream"
      [] e.type = "done" /\ e.ok -> "ok"
      [] OTHER -> "refused"

Cached(f, type) == {e \in pending[f] : e.type = type}

\* WaitForReply, under replyMu: a reply that came early is taken from the cache.
WaitForReply(f) ==
    /\ sender[f] \in {"accept", "done"}
    /\ \E e \in Cached(f, sender[f]) :
        /\ SetSender(f, After(e))
        /\ pending' = [pending EXCEPT ![f] = @ \ {e}]
    /\ UNCHANGED <<next, changed, mail, diskVars, pipe, outbox, envVars>>

\* Mutant: the waiter is registered without a look at the cache.
RegisterBlindly(f) ==
    /\ sender[f] \in {"accept", "done"}
    /\ SetSender(f, IF sender[f] = "accept" THEN "accepting" ELSE "finishing")
    /\ UNCHANGED <<next, changed, waiterVars, diskVars, pipe, outbox, envVars>>

\* Without one a waiter is registered, under the same lock.
RegisterWaiter(f) ==
    /\ sender[f] \in {"accept", "done"}
    /\ Cached(f, sender[f]) = {}
    /\ SetSender(f, IF sender[f] = "accept" THEN "accepting" ELSE "finishing")
    /\ UNCHANGED <<next, changed, waiterVars, diskVars, pipe, outbox, envVars>>

\* The waiter's reply is there: WaitForReply unregisters, drains the cache, and
\* Send goes on to the chunks or returns.
Replied(f) ==
    /\ sender[f] \in Waiting /\ mail[f] # None
    /\ SetSender(f, After(mail[f]))
    /\ mail' = [mail EXCEPT ![f] = None]
    /\ pending' = [pending EXCEPT ![f] = {e \in @ : e.type # mail[f].type}]
    /\ UNCHANGED <<next, changed, diskVars, pipe, outbox, envVars>>

SendChunk(f) ==
    /\ sender[f] = "stream" /\ next[f] < Chunks[f]
    /\ Write(To(f), Chunk(f, next[f]))
    /\ next' = [next EXCEPT ![f] = @ + 1]
    /\ UNCHANGED <<sender, changed, waiterVars, diskVars, outbox, envVars>>

ChunksSent(f) ==
    /\ sender[f] = "stream" /\ next[f] = Chunks[f]
    /\ SetSender(f, "done")
    /\ UNCHANGED <<next, changed, waiterVars, diskVars, pipe, outbox, envVars>>

\* The channel is closed or the file cannot be read any more: Send returns
\* without a word to the receiver.
SendFails(f) ==
    /\ \/ sender[f] \in {"offer", "stream"} /\ lost /\ UNCHANGED envVars
       \/ sender[f] = "stream" /\ next[f] < Chunks[f] /\ Fault
    /\ SetSender(f, "failed")
    /\ UNCHANGED <<next, changed, waiterVars, diskVars, pipe, outbox>>

\* The context is cancelled.  Between two chunks Send withdraws the offer.
Withdraw(f) ==
    /\ f \in Cancellable
    /\ sender[f] = "stream" /\ next[f] < Chunks[f]
    /\ Write(To(f), Abort(f))
    /\ SetSender(f, "withdrawn")
    /\ UNCHANGED <<next, changed, waiterVars, diskVars, outbox, envVars>>

\* Elsewhere, and between that look at the context and the write, it leaves
\* silently.  WaitForReply may do so with the reply at hand; it unregisters.
Cancelled(f) ==
    /\ f \in Cancellable
    /\ sender[f] \in {"offer"} \cup Waiting \/ (sender[f] = "stream" /\ next[f] < Chunks[f])
    /\ SetSender(f, "failed")
    /\ mail' = [mail EXCEPT ![f] = None]
    /\ pending' = [pending EXCEPT ![f] =
                     {e \in @ : sender[f] \notin Waiting \/ e.type # WantOf(sender[f])}]
    /\ UNCHANGED <<next, changed, diskVars, pipe, outbox, envVars>>

-----------------------------------------------------------------------------
(* The pump of end s, and Receiver.Handle *)

\* The pump reads its next envelope, when the handler of the last one is through.
Reads(s, type) ==
    /\ outbox[s] = <<>> /\ pipe[s] # <<>> /\ Head(pipe[s]).type = type
    /\ pipe' = [pipe EXCEPT ![s] = Tail(@)]

Reply(s, e) == outbox' = [outbox EXCEPT ![s] = <<e>>]

\* The handler sends its reply; until then the pump reads nothing.
PumpSends(s) ==
    /\ outbox[s] # <<>>
    /\ Write(Other(s), Head(outbox[s]))
    /\ outbox' = [outbox EXCEPT ![s] = <<>>]
    /\ UNCHANGED <<senderVars, waiterVars, diskVars, envVars>>

\* The reply cannot be sent.  finalize takes that for a failure of its own and
\* drops the part.
PumpSendFails(s) ==
    LET e == Head(outbox[s]) IN
    /\ outbox[s] # <<>> /\ lost
    /\ outbox' = [outbox EXCEPT ![s] = <<>>]
    /\ parts' = IF e.type = "done" /\ e.ok THEN [parts EXCEPT ![e.file] = NoPart] ELSE parts
    /\ UNCHANGED <<senderVars, waiterVars, saved, pipe, envVars>>

\* A part file is created and the offer accepted, or, if the save directory
\* does not let it, the offer is aborted.
handleOffer(s) ==
    LET f == Head(pipe[s]).file IN
    /\ Reads(s, "offer")
    /\ \/ /\ parts' = [parts EXCEPT ![f] = [have |-> {}, hash |-> <<>>]]
          /\ Reply(s, Accept(f))
          /\ UNCHANGED envVars
       \/ /\ Fault
          /\ Reply(s, Abort(f))
          /\ UNCHANGED parts
    /\ UNCHANGED <<senderVars, waiterVars, saved>>

\* handleChunk drops a chunk that has no part; there is none, see ChunkFindsPart.

\* Mutant: the part is dropped at the first write error.
ChunkFailsDropping(s) ==
    LET f == Head(pipe[s]).file IN
    /\ Reads(s, "chunk")
    /\ parts[f] # NoPart
    /\ Fault
    /\ parts' = [parts EXCEPT ![f] = NoPart]
    /\ Reply(s, Done(f, FALSE))
    /\ UNCHANGED <<senderVars, waiterVars, saved>>

\* The chunk cannot be written: Done(false), and the part stays.
ChunkFails(s) ==
    LET f == Head(pipe[s]).file IN
    /\ Reads(s, "chunk")
    /\ parts[f] # NoPart
    /\ Fault
    /\ Reply(s, Done(f, FALSE))
    /\ UNCHANGED <<senderVars, waiterVars, diskVars>>

\* The partFile of the chunk's file with that chunk written to it.
Written(e) ==
    [have |-> parts[e.file].have \cup {e.index},
     hash |-> Append(parts[e.file].hash, <<e.index, e.version>>)]

StoreChunk(s) ==
    LET e == Head(pipe[s]) IN
    /\ Reads(s, "chunk")
    /\ parts[e.file] # NoPart
    /\ e.index # Chunks[e.file] - 1
    /\ parts' = [parts EXCEPT ![e.file] = Written(e)]
    /\ UNCHANGED <<senderVars, waiterVars, saved, outbox, envVars>>

\* Mutant: the full-file hash is not compared.
CompleteUnhashed(f, pf) == pf.have = 0..(Chunks[f] - 1)

\* finalize's checks: every chunk is there, and the hash is the offer's.
Complete(f, pf) ==
    /\ pf.have = 0..(Chunks[f] - 1)
    /\ pf.hash = Whole(f)

\* The last chunk is written and finalize moves the file into the save
\* directory.  Its part stays registered.
FinalizeOk(s) ==
    LET e == Head(pipe[s])
        f == e.file
    IN
    /\ Reads(s, "chunk")
    /\ parts[f] # NoPart
    /\ e.index = Chunks[f] - 1
    /\ Complete(f, Written(e))
    /\ parts' = [parts EXCEPT ![f] = Written(e)]
    /\ saved' = saved \cup {<<f, Written(e).hash>>}
    /\ Reply(s, Done(f, TRUE))
    /\ UNCHANGED <<senderVars, waiterVars, envVars>>

\* A check fails, or the file can be neither renamed nor copied: the part is
\* dropped.  A copy that fails leaves a file in the save directory: a piece, or all of
\* it when only the copy's Close fails.  Its content, <<>>, is one nobody vouches for.
FinalizeFails(s) ==
    LET e == Head(pipe[s])
        f == e.file
    IN
    /\ Reads(s, "chunk")
    /\ parts[f] # NoPart
    /\ e.index = Chunks[f] - 1
    /\ \/ ~Complete(f, Written(e)) /\ UNCHANGED <<saved, envVars>>
       \/ Complete(f, Written(e)) /\ Fault /\ UNCHANGED saved
       \/ Complete(f, Written(e)) /\ Fault /\ saved' = saved \cup {<<f, <<>>>>}
    /\ parts' = [parts EXCEPT ![f] = NoPart]
    /\ Reply(s, Done(f, FALSE))
    /\ UNCHANGED <<senderVars, waiterVars>>

\* Mutant: a reply without a waiter is dropped instead of cached.
HandleReplyUncached(s) ==
    LET e == Head(pipe[s])
        f == e.file
        waiter == sender[f] \in Waiting /\ WantOf(sender[f]) = e.type /\ From[f] = s
    IN
    /\ \E type \in Replies : Reads(s, type)
    /\ mail' = [mail EXCEPT ![f] = IF waiter /\ @ = None THEN e ELSE @]
    /\ parts' = IF e.type = "abort" /\ From[f] # s
                THEN [parts EXCEPT ![f] = NoPart]
                ELSE parts
    /\ UNCHANGED <<senderVars, pending, saved, outbox, envVars>>

\* Mutant: waiters are found by file alone, whatever type of reply they wait for.
HandleReplyByFile(s) ==
    LET e == Head(pipe[s])
        f == e.file
        waiter == sender[f] \in Waiting /\ From[f] = s
    IN
    /\ \E type \in Replies : Reads(s, type)
    /\ \/ /\ waiter
          /\ mail' = [mail EXCEPT ![f] = IF @ = None THEN e ELSE @]
          /\ UNCHANGED pending
       \/ /\ ~waiter
          /\ pending' = [pending EXCEPT ![f] = {x \in @ : x.type # e.type} \cup {e}]
          /\ UNCHANGED mail
    /\ parts' = IF e.type = "abort" /\ From[f] # s
                THEN [parts EXCEPT ![f] = NoPart]
                ELSE parts
    /\ UNCHANGED <<senderVars, saved, outbox, envVars>>

\* deliverReply: a waiter registered under the reply's own type gets it, unless
\* its buffer is full; without one the reply is cached, the last of its type.
\* An abort drops the part first.
HandleReply(s) ==
    LET e == Head(pipe[s])
        f == e.file
        waiter == sender[f] \in Waiting /\ WantOf(sender[f]) = e.type /\ From[f] = s
    IN
    /\ \E type \in Replies : Reads(s, type)
    /\ \/ /\ waiter
          /\ mail' = [mail EXCEPT ![f] = IF @ = None THEN e ELSE @]
          /\ UNCHANGED pending
       \/ /\ ~waiter
          /\ pending' = [pending EXCEPT ![f] = {x \in @ : x.type # e.type} \cup {e}]
          /\ UNCHANGED mail
    /\ parts' = IF e.type = "abort" /\ From[f] # s
                THEN [parts EXCEPT ![f] = NoPart]
                ELSE parts
    /\ UNCHANGED <<senderVars, saved, outbox, envVars>>

\* The rest of the traffic: a ping is answered, a pong is noted.
HandlePing(s) ==
    /\ \/ Reads(s, "ping") /\ Reply(s, Pong)
       \/ Reads(s, "pong") /\ UNCHANGED outbox
    /\ UNCHANGED <<senderVars, waiterVars, diskVars, envVars>>

SendPing(s) ==
    /\ s \in pings
    /\ pings' = pings \ {s}
    /\ Write(Other(s), Ping)
    /\ UNCHANGED <<senderVars, waiterVars, diskVars, outbox, lost, faults>>

\* The connection dies; what the peer's kernel already has can still be read.
Lose ==
    /\ ~lost
    /\ faults < MaxFault
    /\ faults' = faults + 1
    /\ lost' = TRUE
    /\ UNCHANGED <<senderVars, waiterVars, diskVars, pipe, outbox, pings>>

LoseFrame(s) ==
    /\ lost /\ pipe[s] # <<>>
    /\ pipe' = [pipe EXCEPT ![s] = Front(@)]
    /\ UNCHANGED <<senderVars, waiterVars, diskVars, outbox, envVars>>

-----------------------------------------------------------------------------
\* What the goroutine in Send does next.
SendStep(f) ==
    \/ SendOffer(f)
    \/ WaitForReply(f)
    \/ RegisterWaiter(f)
    \/ Replied(f)
    \/ SendChunk(f)
    \/ ChunksSent(f)
    \/ SendFails(f)

PumpStep(s) ==
    \/ PumpSends(s)
    \/ PumpSendFails(s)
    \/ handleOffer(s)
    \/ ChunkFails(s)
    \/ StoreChunk(s)
    \/ FinalizeOk(s)
    \/ FinalizeFails(s)
    \/ HandleReply(s)
    \/ HandlePing(s)

Next ==
    \/ \E f \in File : SendStep(f) \/ SendFile(f) \/ Withdraw(f) \/ Cancelled(f) \/ FileChanges(f)
    \/ \E s \in Side : PumpStep(s) \/ SendPing(s) \/ LoseFrame(s)
    \/ Lose

\* Both pumps and every Send goroutine keep running.
Fairness ==
    /\ \A f \in File : WF_vars(SendStep(f))
    /\ \A s \in Side : WF_vars(PumpStep(s))

Spec == Init /\ [][Next]_vars
FairSpec == Spec /\ Fairness

-----------------------------------------------------------------------------
(* Properties *)

\* No lost reply: a goroutine that waits in WaitForReply never waits for a reply
\* that the pump has already cached, however Handle and WaitForReply interleave.
NoStrandedReply ==
    \A f \in File :
        sender[f] \in Waiting /\ mail[f] = None => Cached(f, WantOf(sender[f])) = {}

\* No chunk is sent in vain: the part of its transfer is registered before the
\* first chunk is sent and stays until the last one, or the abort behind them,
\* has been read.
ChunkFindsPart ==
    \A s \in Side : \A i \in DOMAIN pipe[s] :
        pipe[s][i].type = "chunk" => parts[pipe[s][i].file] # NoPart

\* Both ends agree on the outcome.  When Send returns nil the receiver has moved
\* exactly the content that was offered into its save directory; when the receiver
\* reported failure, or Send withdrew the offer, it never did and never will.  (What
\* a failed copy leaves there, see FinalizeFails, does not count as moved.)
Verdict ==
    \A f \in File :
        /\ sender[f] = "ok" => <<f, Whole(f)>> \in saved
        /\ sender[f] \in {"refused", "withdrawn"} => <<f, Whole(f)>> \notin saved

\* What Send returned for f, and how a file of that content compares with f; "torn"
\* is what a failed copy leaves.
Told(f) == IF sender[f] \in Results THEN sender[f] ELSE "nothing"
Found(f, content) ==
    IF content = Whole(f) THEN "whole" ELSE IF content = <<>> THEN "torn" ELSE "wrong"

\* What both users learn of a transfer comes once, in any order, and fits together:
\* Send's result is final, so is the file, and the two never contradict each other.
Delivery == INSTANCE FileDelivery WITH
    told <- [f \in File |-> Told(f)],
    found <- {<<x[1], Found(x[1], x[2])>> : x \in saved}
DeliverySpec == Delivery!Spec

\* The sender has been told, by an abort, that its transfer is over.
Aborted(f) == Cached(f, "abort") # {}

\* Both pumps have a reply to write and no room for it.  Only the other pump could
\* make room, so while the channel lives this lasts.
Jammed == \A s \in Side : outbox[s] # <<>> /\ ~Room(Other(s))

\* Every transfer ends while the channel lives, also after errors on the
\* receiver's disk: no Accept and no Done goes missing between the pump and Send.
\* There are three exceptions in the code: files without chunks, aborted offers, and
\* pumps that wait for each other (Jammed, see StreamsEnd).
TransferEnds ==
    \A f \in File : Chunks[f] > 0 =>
        (sender[f] = "offer" ~> sender[f] \in Results \/ lost \/ Aborted(f) \/ Jammed)

\* "a Receiver running on it does NOT block a Send call on the SAME side"
\* (doc.go): chunks keep flowing as long as the channel lives.
StreamsEnd == \A f \in File : sender[f] = "stream" ~> sender[f] # "stream" \/ lost
=============================================================================
