------------------------- MODULE FileTransferProofs -------------------------
(***************************************************************************)
(* Proofs about FileTransfer, for every set of transfers, of every number  *)
(* of chunks, and for every number of faults.                              *)
(*                                                                         *)
(* NoStrandedReply is inductive given the types.  ChunkFindsPart and       *)
(* Verdict rest on what both ends know of a transfer (TransferInv): chunks *)
(* travel in order and none behind an abort (Piped); a reply, wherever it  *)
(* waits, tells the truth (Justified); and a file that was refused lacks a *)
(* chunk that will not come any more (Missed), so that no later step of    *)
(* either end can complete it.  That FileTransfer implements FileDelivery  *)
(* follows, since a file is saved only behind its last chunk (FoundInv).   *)
(***************************************************************************)
EXTENDS FileTransfer, TLAPS

Version == {"old", "new"}
Content == Seq(Nat \X Version)
PartFile == [have : SUBSET Int, hash : Content]

ChunkFrame == [type : {"chunk"}, file : File, index : Nat, version : Version]
ReplyFrame ==
    [type : {"accept", "abort"}, file : File]
    \cup [type : {"done"}, file : File, ok : BOOLEAN]
Frame ==
    ReplyFrame \cup ChunkFrame \cup [type : {"offer"}, file : File] \cup [type : {"ping", "pong"}]

\* A handler has one reply to send, or none.
Outboxes == {<<>>} \cup {<<e>> : e \in ReplyFrame \cup {Pong}}

\* What is on its way to s was written by the end that writes such a frame, and a
\* chunk by a goroutine that has moved on.
Addressed(s, e) ==
    /\ e.type \in {"offer", "chunk"} => From[e.file] # s
    /\ e.type \in {"accept", "done"} => From[e.file] = s
    /\ e.type = "chunk" => e.index < next[e.file]

SendTypes ==
    /\ sender \in [File -> SenderStates]
    /\ next \in [File -> Nat] /\ \A f \in File : next[f] <= Chunks[f]
    /\ changed \subseteq File

\* A reply waits in the mail only for a goroutine that waits for its type.
WaiterTypes ==
    /\ mail \in [File -> ReplyFrame \cup {None}]
    /\ pending \in [File -> SUBSET ReplyFrame]
    /\ \A f \in File : mail[f] # None =>
        /\ sender[f] \in Waiting
        /\ mail[f].type = WantOf(sender[f]) /\ mail[f].file = f
    /\ \A f \in File : \A e \in pending[f] : e.file = f

DiskTypes ==
    /\ parts \in [File -> PartFile]
    /\ \A f \in File : parts[f] = NoPart \/ parts[f].have \subseteq 0..(Chunks[f] - 1)
    /\ saved \subseteq File \X Content

WireTypes ==
    /\ pipe \in [Side -> Seq(Frame)]
    /\ \A s \in Side : \A e \in ToSet(pipe[s]) : Addressed(s, e)
    /\ outbox \in [Side -> Outboxes]
    /\ \A s \in Side : \A e \in ToSet(outbox[s]) :
        e.type \in Replies => From[e.file] # s

EnvTypes == pings \subseteq Pinging /\ lost \in BOOLEAN /\ faults \in 0..MaxFault

Types == SendTypes /\ WaiterTypes /\ DiskTypes /\ WireTypes /\ EnvTypes

-----------------------------------------------------------------------------
(* Sides, frames and sequences of them *)

LEMMA Sides ==
  /\ \A s \in Side : Other(s) \in Side /\ Other(s) # s
  /\ \A s, t \in Side : t # s => t = Other(s)
  /\ \A f \in File : From[f] \in Side /\ To(f) \in Side /\ To(f) # From[f]
  /\ \A f \in File : Chunks[f] \in Nat
<1>1. PICK a \in Side, b \in Side : a # b /\ Side = {a, b}
  BY TransferAssumption
<1>2. \A s \in Side : \E t \in Side : t # s
  BY <1>1
<1>3. \A s \in Side : Other(s) \in Side /\ Other(s) # s
  BY <1>2 DEF Other
<1> QED
  BY <1>1, <1>3, TransferAssumption DEF To

\* A frame is what its type says.
LEMMA Shapes ==
  ASSUME NEW e \in Frame
  PROVE  /\ e.type \in Replies => e \in ReplyFrame
         /\ e.type = "chunk" => e \in ChunkFrame
         /\ e.type \in {"offer", "chunk", "accept", "done", "abort"} => e.file \in File
BY DEF Frame, ReplyFrame, ChunkFrame, Replies

LEMMA ReplyShapes ==
  ASSUME NEW e \in ReplyFrame
  PROVE  /\ e.type \in Replies /\ e.file \in File /\ e \in Frame /\ e # None
         /\ e.type # "chunk" /\ e.type # "offer"
         /\ e.type = "done" => e.ok \in BOOLEAN
BY DEF Frame, ReplyFrame, ChunkFrame, Replies, None

LEMMA ChunkShapes ==
  ASSUME NEW f \in File, NEW i \in Nat
  PROVE  /\ Chunk(f, i) \in ChunkFrame /\ Chunk(f, i) \in Frame
         /\ Chunk(f, i).type = "chunk" /\ Chunk(f, i).file = f /\ Chunk(f, i).index = i
BY DEF Chunk, ChunkFrame, Frame, Version

LEMMA OtherShapes ==
  ASSUME NEW f \in File
  PROVE  /\ Offer(f) \in Frame /\ Offer(f).type = "offer" /\ Offer(f).file = f
         /\ Accept(f) \in ReplyFrame /\ Accept(f).type = "accept" /\ Accept(f).file = f
         /\ Abort(f) \in ReplyFrame /\ Abort(f).type = "abort" /\ Abort(f).file = f
         /\ \A ok \in BOOLEAN :
              /\ Done(f, ok) \in ReplyFrame /\ Done(f, ok).type = "done"
              /\ Done(f, ok).file = f /\ Done(f, ok).ok = ok
BY DEF Offer, Accept, Abort, Done, Frame, ReplyFrame

LEMMA PingShapes ==
  /\ Ping \in Frame /\ Ping.type = "ping" /\ Pong \in Frame /\ Pong.type = "pong"
  /\ Pong \notin ReplyFrame
BY DEF Ping, Pong, Frame, ReplyFrame

\* A frame at the end of the queue.
LEMMA Queued ==
  ASSUME NEW S, NEW q \in Seq(S), NEW e \in S
  PROVE  /\ Append(q, e) \in Seq(S)
         /\ ToSet(Append(q, e)) = ToSet(q) \cup {e}
         /\ DOMAIN q = 1..Len(q) /\ Len(q) \in Nat
         /\ DOMAIN Append(q, e) = 1..(Len(q) + 1)
         /\ \A i \in 1..Len(q) : Append(q, e)[i] = q[i]
         /\ Append(q, e)[Len(q) + 1] = e
<1>1. /\ Append(q, e) \in Seq(S)
      /\ DOMAIN q = 1..Len(q) /\ Len(q) \in Nat
      /\ DOMAIN Append(q, e) = 1..(Len(q) + 1)
      /\ Append(q, e)[Len(q) + 1] = e
  OBVIOUS
<1>2. \A i \in 1..Len(q) : Append(q, e)[i] = q[i]
  OBVIOUS
<1>3. \A i \in 1..(Len(q) + 1) : i \in 1..Len(q) \/ i = Len(q) + 1
  BY <1>1
<1>4. \A i \in 1..Len(q) : i \in 1..(Len(q) + 1)
  BY <1>1
<1>5. Len(q) + 1 \in 1..(Len(q) + 1)
  BY <1>1
<1> QED
  BY <1>1, <1>2, <1>3, <1>4, <1>5 DEF ToSet

\* The frame at the head of the queue, and the ones behind it.
LEMMA Dequeued ==
  ASSUME NEW S, NEW q \in Seq(S), q # <<>>
  PROVE  /\ Tail(q) \in Seq(S) /\ Head(q) \in S
         /\ Head(q) \in ToSet(q) /\ ToSet(Tail(q)) \subseteq ToSet(q)
         /\ Head(q) = q[1] /\ 1 \in DOMAIN q /\ DOMAIN q \subseteq Nat
         /\ \A i \in DOMAIN Tail(q) :
              i + 1 \in DOMAIN q /\ 1 < i + 1 /\ Tail(q)[i] = q[i + 1]
<1>1. /\ DOMAIN q = 1..Len(q) /\ Len(q) \in Nat /\ Len(q) > 0
      /\ Tail(q) \in Seq(S) /\ DOMAIN Tail(q) = 1..(Len(q) - 1)
  OBVIOUS
<1>2. \A i \in 1..(Len(q) - 1) : Tail(q)[i] = q[i + 1]
  OBVIOUS
<1>3. \A i \in 1..(Len(q) - 1) : i + 1 \in 1..Len(q) /\ 1 < i + 1
  BY <1>1
<1>4. Head(q) = q[1] /\ 1 \in DOMAIN q /\ Head(q) \in S
  BY <1>1
<1> QED
  BY <1>1, <1>2, <1>3, <1>4 DEF ToSet

\* The queue without its last frame.
LEMMA Cut ==
  ASSUME NEW S, NEW q \in Seq(S), q # <<>>
  PROVE  /\ Front(q) \in Seq(S) /\ ToSet(Front(q)) \subseteq ToSet(q)
         /\ DOMAIN Front(q) \subseteq DOMAIN q
         /\ \A i \in DOMAIN Front(q) : Front(q)[i] = q[i]
<1>1. DOMAIN q = 1..Len(q) /\ Len(q) \in Nat /\ Len(q) > 0
  OBVIOUS
<1> DEFINE n == Len(q) - 1
<1>2. n \in Nat /\ n <= Len(q)
  BY <1>1
<1>3. Front(q) = SubSeq(q, 1, n)
  BY DEF Front
<1> HIDE DEF n
<1>4. /\ SubSeq(q, 1, n) \in Seq(S) /\ DOMAIN SubSeq(q, 1, n) = 1..n
      /\ \A i \in 1..n : SubSeq(q, 1, n)[i] = q[i]
  BY <1>1, <1>2
<1>5. 1..n \subseteq 1..Len(q)
  BY <1>1, <1>2
<1> QED
  BY <1>1, <1>3, <1>4, <1>5 DEF ToSet

-----------------------------------------------------------------------------
(* What the operations on the connection do *)

LEMMA Wrote ==
  ASSUME pipe \in [Side -> Seq(Frame)], NEW s \in Side, NEW e \in Frame, Write(s, e)
  PROVE  /\ pipe' \in [Side -> Seq(Frame)]
         /\ pipe'[s] = Append(pipe[s], e)
         /\ ToSet(pipe'[s]) = ToSet(pipe[s]) \cup {e}
         /\ \A t \in Side : t # s => pipe'[t] = pipe[t]
         /\ \A t \in Side : ToSet(pipe'[t]) \subseteq ToSet(pipe[t]) \cup {e}
<1>1. pipe' = [pipe EXCEPT ![s] = Append(@, e)]
  BY DEF Write
<1>2. pipe[s] \in Seq(Frame)
  OBVIOUS
<1>3. /\ Append(pipe[s], e) \in Seq(Frame)
      /\ ToSet(Append(pipe[s], e)) = ToSet(pipe[s]) \cup {e}
  BY <1>2, Queued
<1> QED
  BY <1>1, <1>3

LEMMA ReadOne ==
  ASSUME WireTypes, NEW s \in Side, NEW type, Reads(s, type)
  PROVE  /\ pipe[s] \in Seq(Frame) /\ pipe[s] # <<>> /\ outbox[s] = <<>>
         /\ Head(pipe[s]) \in Frame /\ Head(pipe[s]).type = type
         /\ Head(pipe[s]) \in ToSet(pipe[s]) /\ Addressed(s, Head(pipe[s]))
         /\ pipe' \in [Side -> Seq(Frame)] /\ pipe'[s] = Tail(pipe[s])
         /\ \A t \in Side : t # s => pipe'[t] = pipe[t]
         /\ \A t \in Side : ToSet(pipe'[t]) \subseteq ToSet(pipe[t])
<1>1. /\ pipe' = [pipe EXCEPT ![s] = Tail(@)] /\ pipe[s] # <<>>
      /\ outbox[s] = <<>> /\ Head(pipe[s]).type = type
  BY DEF Reads
<1>2. pipe \in [Side -> Seq(Frame)] /\ pipe[s] \in Seq(Frame)
  BY DEF WireTypes
<1>3. /\ Tail(pipe[s]) \in Seq(Frame) /\ Head(pipe[s]) \in Frame
      /\ Head(pipe[s]) \in ToSet(pipe[s]) /\ ToSet(Tail(pipe[s])) \subseteq ToSet(pipe[s])
  BY <1>1, <1>2, Dequeued
<1>4. Addressed(s, Head(pipe[s]))
  BY <1>3 DEF WireTypes
<1> QED
  BY <1>1, <1>2, <1>3, <1>4

LEMMA FrameLost ==
  ASSUME WireTypes, NEW s \in Side, LoseFrame(s)
  PROVE  /\ pipe' \in [Side -> Seq(Frame)] /\ pipe'[s] = Front(pipe[s])
         /\ pipe[s] \in Seq(Frame) /\ pipe[s] # <<>>
         /\ \A t \in Side : t # s => pipe'[t] = pipe[t]
         /\ \A t \in Side : ToSet(pipe'[t]) \subseteq ToSet(pipe[t])
<1>1. pipe' = [pipe EXCEPT ![s] = Front(@)] /\ pipe[s] # <<>>
  BY DEF LoseFrame
<1>2. pipe \in [Side -> Seq(Frame)] /\ pipe[s] \in Seq(Frame)
  BY DEF WireTypes
<1>3. Front(pipe[s]) \in Seq(Frame) /\ ToSet(Front(pipe[s])) \subseteq ToSet(pipe[s])
  BY <1>1, <1>2, Cut
<1> QED
  BY <1>1, <1>2, <1>3

LEMMA Singles ==
  /\ ToSet(<<>>) = {}
  /\ \A e : ToSet(<<e>>) = {e} /\ Head(<<e>>) = e /\ <<e>> # <<>> /\ Len(<<e>>) = 1
  /\ Len(<<>>) = 0
BY DEF ToSet

LEMMA Answered ==
  ASSUME WireTypes, NEW s \in Side, NEW e \in ReplyFrame \cup {Pong}, Reply(s, e)
  PROVE  /\ outbox' \in [Side -> Outboxes]
         /\ ToSet(outbox'[s]) = {e}
         /\ \A t \in Side : t # s => outbox'[t] = outbox[t]
<1>1. outbox' = [outbox EXCEPT ![s] = <<e>>]
  BY DEF Reply
<1>2. <<e>> \in Outboxes /\ outbox \in [Side -> Outboxes]
  BY DEF Outboxes, WireTypes
<1>3. outbox'[s] = <<e>>
  BY <1>1, <1>2
<1> QED
  BY <1>1, <1>2, <1>3, Singles

LEMMA Outgoing ==
  ASSUME WireTypes, NEW s \in Side, outbox[s] # <<>>
  PROVE  /\ Head(outbox[s]) \in ReplyFrame \cup {Pong} /\ Head(outbox[s]) \in Frame
         /\ ToSet(outbox[s]) = {Head(outbox[s])}
<1>1. PICK e \in ReplyFrame \cup {Pong} : outbox[s] = <<e>>
  BY DEF WireTypes, Outboxes
<1> QED
  BY <1>1, Singles, ReplyShapes, PingShapes

LEMMA Emptied ==
  ASSUME WireTypes, NEW s \in Side, outbox' = [outbox EXCEPT ![s] = <<>>]
  PROVE  /\ outbox' \in [Side -> Outboxes]
         /\ ToSet(outbox'[s]) = {}
         /\ \A t \in Side : t # s => outbox'[t] = outbox[t]
<1>1. <<>> \in Outboxes /\ outbox \in [Side -> Outboxes]
  BY DEF Outboxes, WireTypes
<1> QED
  BY <1>1, Singles

\* What the handler of a reply does, to a waiter or to the cache, and to the part.
LEMMA ReplyHandled ==
  ASSUME NEW s \in Side, NEW e, NEW f, e = Head(pipe[s]), f = e.file, HandleReply(s)
  PROVE  /\ \E type \in Replies : Reads(s, type)
         /\ \/ /\ sender[f] \in Waiting /\ WantOf(sender[f]) = e.type /\ From[f] = s
               /\ mail' = [mail EXCEPT ![f] = IF @ = None THEN e ELSE @]
               /\ pending' = pending
            \/ /\ ~(sender[f] \in Waiting /\ WantOf(sender[f]) = e.type /\ From[f] = s)
               /\ pending' = [pending EXCEPT ![f] = {x \in @ : x.type # e.type} \cup {e}]
               /\ mail' = mail
         /\ parts' = IF e.type = "abort" /\ From[f] # s
                     THEN [parts EXCEPT ![f] = NoPart]
                     ELSE parts
         /\ UNCHANGED <<sender, next, changed, saved, outbox, pings, lost, faults>>
<1>1. \E type \in Replies : Reads(s, type)
  BY DEF HandleReply
<1>2. \/ /\ sender[f] \in Waiting /\ WantOf(sender[f]) = e.type /\ From[f] = s
         /\ mail' = [mail EXCEPT ![f] = IF @ = None THEN e ELSE @]
         /\ pending' = pending
      \/ /\ ~(sender[f] \in Waiting /\ WantOf(sender[f]) = e.type /\ From[f] = s)
         /\ pending' = [pending EXCEPT ![f] = {x \in @ : x.type # e.type} \cup {e}]
         /\ mail' = mail
  BY SMTT(30) DEF HandleReply
<1>3. parts' = IF e.type = "abort" /\ From[f] # s THEN [parts EXCEPT ![f] = NoPart] ELSE parts
  BY SMTT(30) DEF HandleReply
<1>4. UNCHANGED <<sender, next, changed, saved, outbox, pings, lost, faults>>
  BY DEF HandleReply, senderVars, envVars
<1> QED
  BY <1>1, <1>2, <1>3, <1>4

-----------------------------------------------------------------------------
(* The type invariant *)

\* The wire keeps its type when what is new on it is addressed as it should be.
LEMMA WireStep ==
  ASSUME SendTypes, WireTypes, next' \in [File -> Nat],
         \A f \in File : next[f] <= next'[f],
         pipe' \in [Side -> Seq(Frame)], outbox' \in [Side -> Outboxes],
         \A s \in Side : \A e \in ToSet(pipe'[s]) :
            e \in ToSet(pipe[s]) \/ Addressed(s, e)',
         \A s \in Side : \A e \in ToSet(outbox'[s]) :
            \/ e \in ToSet(outbox[s])
            \/ e.type \in Replies => From[e.file] # s
  PROVE  WireTypes'
<1>1. ASSUME NEW s \in Side, NEW e \in ToSet(pipe'[s]) PROVE Addressed(s, e)'
  <2>1. CASE e \in ToSet(pipe[s])
    <3>1. Addressed(s, e) /\ e \in Frame
      BY <2>1 DEF WireTypes, ToSet
    <3>2. e.type = "chunk" => e.file \in File /\ e.index \in Nat
      BY <3>1, Shapes DEF ChunkFrame
    <3> QED
      BY <3>1, <3>2 DEF Addressed, SendTypes
  <2> QED
    BY <2>1
<1> QED
  BY <1>1 DEF WireTypes

\* Frames that a sending goroutine writes, or a handler: the rest of the wire stays.
LEMMA WireWritten ==
  ASSUME SendTypes, WireTypes, next' \in [File -> Nat],
         \A f \in File : next[f] <= next'[f],
         NEW s \in Side, NEW e \in Frame, Write(s, e), Addressed(s, e)',
         outbox' \in [Side -> Outboxes],
         \A t \in Side : ToSet(outbox'[t]) \subseteq ToSet(outbox[t])
  PROVE  WireTypes'
<1>1. pipe \in [Side -> Seq(Frame)]
  BY DEF WireTypes
<1>2. /\ pipe' \in [Side -> Seq(Frame)] /\ ToSet(pipe'[s]) = ToSet(pipe[s]) \cup {e}
      /\ \A t \in Side : t # s => pipe'[t] = pipe[t]
  BY <1>1, Wrote
<1>3. ASSUME NEW t \in Side, NEW d \in ToSet(pipe'[t])
      PROVE  d \in ToSet(pipe[t]) \/ Addressed(t, d)'
  <2>1. CASE t = s
    BY <1>2, <1>3, <2>1
  <2>2. CASE t # s
    BY <1>2, <1>3, <2>2
  <2> QED
    BY <2>1, <2>2
<1> QED
  BY <1>2, <1>3, WireStep

\* A handler reads a frame and leaves a reply to send, or none.
LEMMA WireRead ==
  ASSUME SendTypes, WireTypes, next' = next,
         NEW s \in Side, NEW type, Reads(s, type),
         \/ UNCHANGED outbox
         \/ \E e \in ReplyFrame \cup {Pong} :
               /\ Reply(s, e)
               /\ e.type \in Replies => From[e.file] # s
  PROVE  WireTypes'
<1>1. next' \in [File -> Nat] /\ \A f \in File : next[f] <= next'[f]
  BY DEF SendTypes
<1>2. /\ pipe' \in [Side -> Seq(Frame)]
      /\ \A t \in Side : ToSet(pipe'[t]) \subseteq ToSet(pipe[t])
  BY ReadOne
<1>3. CASE UNCHANGED outbox
  <2>1. outbox' \in [Side -> Outboxes]
    BY <1>3 DEF WireTypes
  <2> QED
    BY <1>1, <1>2, <1>3, <2>1, WireStep
<1>4. ASSUME NEW e \in ReplyFrame \cup {Pong}, Reply(s, e),
             e.type \in Replies => From[e.file] # s
      PROVE  WireTypes'
  <2>1. /\ outbox' \in [Side -> Outboxes] /\ ToSet(outbox'[s]) = {e}
        /\ \A t \in Side : t # s => outbox'[t] = outbox[t]
    BY <1>4, Answered
  <2>2. ASSUME NEW t \in Side, NEW d \in ToSet(outbox'[t])
        PROVE  \/ d \in ToSet(outbox[t])
               \/ d.type \in Replies => From[d.file] # t
    <3>1. CASE t = s
      BY <1>4, <2>1, <2>2, <3>1
    <3>2. CASE t # s
      BY <2>1, <2>2, <3>2
    <3> QED
      BY <3>1, <3>2
  <2> QED
    BY <1>1, <1>2, <2>1, <2>2, WireStep
<1> QED
  BY <1>3, <1>4

\* What Send makes of a reply.
LEMMA Verdicts ==
  ASSUME NEW e \in ReplyFrame
  PROVE  /\ e.type = "accept" => After(e) = "stream"
         /\ e.type = "abort" => After(e) = "refused"
         /\ e.type = "done" /\ e.ok => After(e) = "ok"
         /\ e.type = "done" /\ ~e.ok => After(e) = "refused"
         /\ After(e) \in {"stream", "ok", "refused"}
<1>1. CASE e.type = "accept"
  BY <1>1 DEF After
<1>2. CASE e.type = "abort"
  BY <1>2 DEF After
<1>3. CASE e.type = "done" /\ e.ok
  BY <1>3 DEF After
<1>4. CASE e.type = "done" /\ ~e.ok
  BY <1>4 DEF After
<1> QED
  BY <1>1, <1>2, <1>3, <1>4, ReplyShapes DEF Replies

\* A goroutine goes on: it had no mail, or has taken it.
LEMMA SenderGoes ==
  ASSUME SendTypes, WaiterTypes, NEW f \in File, NEW state \in SenderStates,
         SetSender(f, state), UNCHANGED <<next, changed>>,
         sender[f] \in Waiting => mail'[f] = None,
         sender[f] \notin Waiting => mail'[f] = mail[f],
         \A g \in File : g # f => mail'[g] = mail[g],
         mail' \in [File -> ReplyFrame \cup {None}],
         pending' \in [File -> SUBSET ReplyFrame],
         \A g \in File : pending'[g] \subseteq pending[g]
  PROVE  SendTypes' /\ WaiterTypes'
<1>1. sender' = [sender EXCEPT ![f] = state]
  BY DEF SetSender
<1>2. SendTypes'
  BY <1>1 DEF SendTypes
<1>3. mail'[f] = None
  BY DEF WaiterTypes
<1>4. ASSUME NEW g \in File, mail'[g] # None
      PROVE  /\ sender'[g] \in Waiting
             /\ mail'[g].type = WantOf(sender'[g]) /\ mail'[g].file = g
  <2>1. g # f /\ mail'[g] = mail[g] /\ sender'[g] = sender[g]
    BY <1>1, <1>3, <1>4 DEF SendTypes
  <2> QED
    BY <1>4, <2>1 DEF WaiterTypes
<1>5. \A g \in File : \A e \in pending'[g] : e.file = g
  BY DEF WaiterTypes
<1> QED
  BY <1>2, <1>4, <1>5 DEF WaiterTypes

\* The steps of Send.
LEMMA SendTyped ==
  ASSUME Types, NEW f \in File,
         \/ SendStep(f) \/ SendFile(f) \/ Withdraw(f) \/ Cancelled(f) \/ FileChanges(f)
  PROVE  Types'
<1> USE DEF senderVars, waiterVars, diskVars, envVars
<1>0. /\ SendTypes /\ WaiterTypes /\ DiskTypes /\ WireTypes /\ EnvTypes
      /\ sender[f] \in SenderStates /\ next[f] \in Nat /\ To(f) \in Side /\ To(f) # From[f]
      /\ mail \in [File -> ReplyFrame \cup {None}] /\ pending \in [File -> SUBSET ReplyFrame]
      /\ outbox \in [Side -> Outboxes] /\ next \in [File -> Nat]
  BY Sides DEF Types, SendTypes, WaiterTypes, WireTypes
<1>1. ASSUME UNCHANGED <<next, pipe, outbox>> PROVE WireTypes'
  BY <1>0, <1>1 DEF WireTypes, Addressed
<1>2. ASSUME UNCHANGED diskVars PROVE DiskTypes'
  BY <1>0, <1>2 DEF DiskTypes
<1>3. ASSUME UNCHANGED envVars \/ Fault PROVE EnvTypes'
  BY <1>0, <1>3, TransferAssumption DEF EnvTypes, Fault
<1>4. CASE SendFile(f)
  <2>1. SendTypes' /\ WaiterTypes'
    BY <1>0, <1>4, SenderGoes DEF SendFile, SenderStates, Waiting
  <2> QED
    BY <1>1, <1>2, <1>3, <1>4, <2>1 DEF SendFile, Types
<1>5. CASE FileChanges(f)
  <2>1. SendTypes' /\ WaiterTypes'
    BY <1>0, <1>5 DEF FileChanges, SendTypes, WaiterTypes
  <2> QED
    BY <1>1, <1>2, <1>3, <1>5, <2>1 DEF FileChanges, Types
<1>6. CASE SendOffer(f)
  <2>1. SendTypes' /\ WaiterTypes'
    BY <1>0, <1>6, SenderGoes DEF SendOffer, SenderStates, Waiting
  <2>2. Addressed(To(f), Offer(f))'
    BY <1>0, OtherShapes DEF Addressed
  <2>3. WireTypes'
    BY <1>0, <1>6, <2>2, WireWritten, OtherShapes DEF SendOffer
  <2> QED
    BY <1>2, <1>3, <1>6, <2>1, <2>3 DEF SendOffer, Types
<1>7. CASE WaitForReply(f)
  <2> PICK e \in Cached(f, sender[f]) :
        SetSender(f, After(e)) /\ pending' = [pending EXCEPT ![f] = @ \ {e}]
    BY <1>7 DEF WaitForReply
  <2>1. After(e) \in SenderStates
    BY <1>0, Verdicts DEF Cached, SenderStates, Results
  <2>2. /\ pending' \in [File -> SUBSET ReplyFrame]
        /\ \A g \in File : pending'[g] \subseteq pending[g]
    BY <1>0
  <2>3. SendTypes' /\ WaiterTypes'
    BY <1>0, <1>7, <2>1, <2>2, SenderGoes DEF WaitForReply, Waiting
  <2> QED
    BY <1>1, <1>2, <1>3, <1>7, <2>3 DEF WaitForReply, Types
<1>8. CASE RegisterWaiter(f)
  <2>1. SendTypes' /\ WaiterTypes'
    BY <1>0, <1>8, SenderGoes DEF RegisterWaiter, SenderStates, Waiting
  <2> QED
    BY <1>1, <1>2, <1>3, <1>8, <2>1 DEF RegisterWaiter, Types
<1>9. CASE Replied(f)
  <2>1. mail[f] \in ReplyFrame /\ After(mail[f]) \in SenderStates
    BY <1>0, <1>9, Verdicts DEF Replied, SenderStates, Results
  <2>2. /\ pending' \in [File -> SUBSET ReplyFrame]
        /\ \A g \in File : pending'[g] \subseteq pending[g]
    BY <1>0, <1>9 DEF Replied
  <2>3. /\ mail' \in [File -> ReplyFrame \cup {None}] /\ mail'[f] = None
        /\ \A g \in File : g # f => mail'[g] = mail[g]
    BY <1>0, <1>9 DEF Replied
  <2>4. SendTypes' /\ WaiterTypes'
    BY <1>0, <1>9, <2>1, <2>2, <2>3, SenderGoes DEF Replied
  <2> QED
    BY <1>1, <1>2, <1>3, <1>9, <2>4 DEF Replied, Types
<1>10. CASE SendChunk(f)
  <2>1. next' = [next EXCEPT ![f] = next[f] + 1] /\ next[f] < Chunks[f] /\ Chunks[f] \in Nat
    BY <1>10, Sides DEF SendChunk
  <2>2. next' \in [File -> Nat] /\ \A g \in File : next[g] <= next'[g] /\ next'[g] <= Chunks[g]
    BY <1>0, <2>1 DEF SendTypes
  <2>3. SendTypes' /\ WaiterTypes'
    BY <1>0, <1>10, <2>2 DEF SendChunk, SendTypes, WaiterTypes
  <2> PICK e \in Frame : e = Chunk(f, next[f])
    BY <1>0, ChunkShapes
  <2>4. Addressed(To(f), e)'
    <3>1. e.type = "chunk" /\ e.file = f /\ e.index = next[f]
      BY <1>0, ChunkShapes
    <3>2. next'[f] = next[f] + 1
      BY <1>0, <2>1
    <3> QED
      BY <1>0, <3>1, <3>2 DEF Addressed
  <2>5. WireTypes'
    BY <1>0, <1>10, <2>2, <2>4, WireWritten DEF SendChunk
  <2> QED
    BY <1>2, <1>3, <1>10, <2>3, <2>5 DEF SendChunk, Types
<1>11. CASE ChunksSent(f)
  <2>1. SendTypes' /\ WaiterTypes'
    BY <1>0, <1>11, SenderGoes DEF ChunksSent, SenderStates, Waiting
  <2> QED
    BY <1>1, <1>2, <1>3, <1>11, <2>1 DEF ChunksSent, Types
<1>12. CASE SendFails(f)
  <2>1. SendTypes' /\ WaiterTypes'
    BY <1>0, <1>12, SenderGoes DEF SendFails, SenderStates, Waiting, Results
  <2> QED
    BY <1>1, <1>2, <1>3, <1>12, <2>1 DEF SendFails, Types
<1>13. CASE Withdraw(f)
  <2>1. SendTypes' /\ WaiterTypes'
    BY <1>0, <1>13, SenderGoes DEF Withdraw, SenderStates, Waiting, Results
  <2>2. Addressed(To(f), Abort(f))'
    BY <1>0, OtherShapes DEF Addressed
  <2>3. WireTypes'
    BY <1>0, <1>13, <2>2, WireWritten, OtherShapes, ReplyShapes DEF Withdraw
  <2> QED
    BY <1>2, <1>3, <1>13, <2>1, <2>3 DEF Withdraw, Types
<1>14. CASE Cancelled(f)
  <2>1. /\ pending' \in [File -> SUBSET ReplyFrame]
        /\ \A g \in File : pending'[g] \subseteq pending[g]
    BY <1>0, <1>14 DEF Cancelled
  <2>2. /\ mail' \in [File -> ReplyFrame \cup {None}] /\ mail'[f] = None
        /\ \A g \in File : g # f => mail'[g] = mail[g]
    BY <1>0, <1>14 DEF Cancelled
  <2>3. sender[f] \notin Waiting => mail[f] = None
    BY <1>0 DEF WaiterTypes
  <2>4. SendTypes' /\ WaiterTypes'
    BY <1>0, <1>14, <2>1, <2>2, <2>3, SenderGoes DEF Cancelled, SenderStates, Results
  <2> QED
    BY <1>1, <1>2, <1>3, <1>14, <2>4 DEF Cancelled, Types
<1> QED
  BY <1>4, <1>5, <1>6, <1>7, <1>8, <1>9, <1>10, <1>11, <1>12, <1>13, <1>14 DEF SendStep

\* The part of a file with one more chunk.
LEMMA PartGrows ==
  ASSUME Types, NEW e \in ChunkFrame, e.index < next[e.file], parts[e.file] # NoPart
  PROVE  /\ e.file \in File /\ e.index \in Nat /\ e.index \in 0..(Chunks[e.file] - 1)
         /\ Chunks[e.file] \in Nat /\ next[e.file] \in Nat /\ next[e.file] <= Chunks[e.file]
         /\ parts[e.file].hash \in Content
         /\ Written(e) \in PartFile /\ Written(e) # NoPart
         /\ Written(e).have \subseteq 0..(Chunks[e.file] - 1)
         /\ Written(e).hash = Append(parts[e.file].hash, <<e.index, e.version>>)
         /\ [parts EXCEPT ![e.file] = Written(e)] \in [File -> PartFile]
<1>1. e.file \in File /\ e.index \in Nat /\ e.version \in Version
  BY DEF ChunkFrame
<1>2. next[e.file] \in Nat /\ Chunks[e.file] \in Nat /\ next[e.file] <= Chunks[e.file]
  BY <1>1, Sides DEF Types, SendTypes
<1>3. e.index \in 0..(Chunks[e.file] - 1)
  BY <1>1, <1>2
<1>4. parts \in [File -> PartFile] /\ parts[e.file] \in PartFile
  BY <1>1 DEF Types, DiskTypes
<1>5. parts[e.file].have \subseteq 0..(Chunks[e.file] - 1)
  BY <1>1 DEF Types, DiskTypes
<1>6. parts[e.file].hash \in Seq(Nat \X Version) /\ <<e.index, e.version>> \in Nat \X Version
  BY <1>1, <1>4 DEF PartFile, Content
<1>7. Append(parts[e.file].hash, <<e.index, e.version>>) \in Content
  BY <1>6, Queued DEF Content
<1>8. /\ Written(e).have = parts[e.file].have \cup {e.index}
      /\ Written(e).hash = Append(parts[e.file].hash, <<e.index, e.version>>)
  BY DEF Written
<1>9. parts[e.file].have \cup {e.index} \in SUBSET Int
  BY <1>1, <1>4 DEF PartFile
<1>10. Written(e) \in PartFile
  BY <1>7, <1>9 DEF Written, PartFile
<1>11. e.index \in Written(e).have /\ e.index \notin NoPart.have
  BY <1>1, <1>8 DEF NoPart
<1> QED
  BY <1>1, <1>2, <1>3, <1>4, <1>5, <1>6, <1>7, <1>8, <1>10, <1>11 DEF Content

\* The chunk at the head of the pipe to s.
LEMMA ReadChunk ==
  ASSUME Types, NEW s \in Side, Reads(s, "chunk")
  PROVE  /\ Head(pipe[s]) \in ChunkFrame /\ Head(pipe[s]).type = "chunk"
         /\ Head(pipe[s]).file \in File /\ Head(pipe[s]).index \in Nat
         /\ From[Head(pipe[s]).file] # s
         /\ Head(pipe[s]).index < next[Head(pipe[s]).file]
<1>1. /\ Head(pipe[s]) \in Frame /\ Head(pipe[s]).type = "chunk"
      /\ Addressed(s, Head(pipe[s]))
  BY ReadOne DEF Types
<1>2. Head(pipe[s]) \in ChunkFrame
  BY <1>1, Shapes
<1> QED
  BY <1>1, <1>2 DEF Addressed, ChunkFrame

LEMMA NoPartTyped ==
  /\ NoPart \in PartFile /\ NoPart.hash = <<>>
  /\ [have |-> {}, hash |-> <<>>] \in PartFile /\ [have |-> {}, hash |-> <<>>] # NoPart
BY DEF NoPart, PartFile, Content

\* The steps of a pump.
LEMMA PumpTyped ==
  ASSUME Types, NEW s \in Side, PumpStep(s) \/ SendPing(s) \/ LoseFrame(s)
  PROVE  Types'
<1> USE DEF senderVars, waiterVars, diskVars, envVars
<1>0. /\ SendTypes /\ WaiterTypes /\ DiskTypes /\ WireTypes /\ EnvTypes
      /\ Other(s) \in Side /\ Other(s) # s
      /\ mail \in [File -> ReplyFrame \cup {None}] /\ pending \in [File -> SUBSET ReplyFrame]
      /\ outbox \in [Side -> Outboxes] /\ next \in [File -> Nat]
      /\ \A f \in File : next[f] <= next[f]
      /\ parts \in [File -> PartFile]
  BY Sides DEF Types, SendTypes, WaiterTypes, WireTypes, DiskTypes
<1>1. ASSUME UNCHANGED senderVars PROVE SendTypes'
  BY <1>0, <1>1 DEF SendTypes
<1>2. ASSUME UNCHANGED <<sender, mail, pending>> PROVE WaiterTypes'
  BY <1>0, <1>2 DEF WaiterTypes
<1>3. ASSUME UNCHANGED diskVars PROVE DiskTypes'
  BY <1>0, <1>3 DEF DiskTypes
<1>4. ASSUME UNCHANGED envVars \/ Fault PROVE EnvTypes'
  BY <1>0, <1>4, TransferAssumption DEF EnvTypes, Fault
<1>5. CASE PumpSends(s)
  <2> PICK e \in Frame : /\ e = Head(outbox[s])
                        /\ e \in ReplyFrame \cup {Pong} /\ e \in ToSet(outbox[s])
    BY <1>0, <1>5, Outgoing DEF PumpSends
  <2>1. Addressed(Other(s), e)'
    <3>1. e.type \in {"accept", "done"} => From[e.file] # s /\ e.file \in File
      BY <1>0, Shapes DEF WireTypes, Replies
    <3>2. e.type # "chunk" /\ e.type # "offer"
      BY ReplyShapes, PingShapes
    <3> QED
      BY <3>1, <3>2, Sides DEF Addressed
  <2>2. /\ outbox' \in [Side -> Outboxes]
        /\ \A t \in Side : ToSet(outbox'[t]) \subseteq ToSet(outbox[t])
    BY <1>0, <1>5, Emptied DEF PumpSends
  <2>3. next' = next
    BY <1>5 DEF PumpSends
  <2>4. WireTypes'
    BY <1>0, <1>5, <2>1, <2>2, <2>3, WireWritten DEF PumpSends
  <2> QED
    BY <1>1, <1>2, <1>3, <1>4, <1>5, <2>4 DEF PumpSends, Types
<1>6. CASE PumpSendFails(s)
  <2>1. /\ outbox' \in [Side -> Outboxes]
        /\ \A t \in Side : ToSet(outbox'[t]) \subseteq ToSet(outbox[t])
    BY <1>0, <1>6, Emptied DEF PumpSendFails
  <2>2. WireTypes'
    BY <1>0, <1>6, <2>1 DEF PumpSendFails, WireTypes, Addressed
  <2>3. DiskTypes'
    <3>1. parts' = parts \/ parts' = [parts EXCEPT ![Head(outbox[s]).file] = NoPart]
      BY <1>6 DEF PumpSendFails
    <3>2. saved' = saved
      BY <1>6 DEF PumpSendFails
    <3> QED
      BY <1>0, <3>1, <3>2, NoPartTyped DEF DiskTypes
  <2> QED
    BY <1>1, <1>2, <1>4, <1>6, <2>2, <2>3 DEF PumpSendFails, Types
<1>7. CASE handleOffer(s)
  <2> DEFINE f == Head(pipe[s]).file
  <2>1. f \in File /\ From[f] # s
    <3>1. Head(pipe[s]) \in Frame /\ Head(pipe[s]).type = "offer" /\ Addressed(s, Head(pipe[s]))
      BY <1>0, <1>7, ReadOne DEF handleOffer
    <3> QED
      BY <3>1, Shapes DEF Addressed
  <2>2. WireTypes'
    <3>1. Reads(s, "offer") /\ next' = next /\ (Reply(s, Accept(f)) \/ Reply(s, Abort(f)))
      BY <1>7 DEF handleOffer
    <3>2. /\ Accept(f) \in ReplyFrame /\ Abort(f) \in ReplyFrame
          /\ Accept(f).file = f /\ Abort(f).file = f
      BY <2>1, OtherShapes
    <3> HIDE DEF f
    <3> QED
      BY <1>0, <2>1, <3>1, <3>2, WireRead
  <2>3. DiskTypes'
    <3>1. /\ parts' = parts \/ parts' = [parts EXCEPT ![f] = [have |-> {}, hash |-> <<>>]]
          /\ saved' = saved
      BY <1>7 DEF handleOffer
    <3> HIDE DEF f
    <3> DEFINE new == [have |-> {}, hash |-> <<>>]
    <3>2. new \in PartFile /\ new.have = {}
      BY NoPartTyped
    <3> HIDE DEF new
    <3>3. CASE parts' = [parts EXCEPT ![f] = new]
      BY <1>0, <2>1, <3>1, <3>2, <3>3 DEF DiskTypes
    <3>4. CASE parts' = parts
      BY <1>0, <3>1, <3>4 DEF DiskTypes
    <3> QED
      BY <3>1, <3>3, <3>4 DEF new
  <2> QED
    BY <1>1, <1>2, <1>4, <1>7, <2>2, <2>3 DEF handleOffer, Types
<1>8. CASE ChunkFails(s)
  <2> DEFINE f == Head(pipe[s]).file
  <2>1. f \in File /\ From[f] # s
    BY <1>8, ReadChunk DEF ChunkFails
  <2>2. WireTypes'
    <3>1. Reads(s, "chunk") /\ next' = next /\ Reply(s, Done(f, FALSE))
      BY <1>8 DEF ChunkFails
    <3>2. Done(f, FALSE) \in ReplyFrame /\ Done(f, FALSE).file = f
      BY <2>1, OtherShapes
    <3> HIDE DEF f
    <3> QED
      BY <1>0, <2>1, <3>1, <3>2, WireRead
  <2> QED
    BY <1>1, <1>2, <1>3, <1>4, <1>8, <2>2 DEF ChunkFails, Types
<1>9. CASE StoreChunk(s)
  <2> DEFINE e == Head(pipe[s])
  <2>1. e \in ChunkFrame /\ e.index < next[e.file] /\ parts[e.file] # NoPart
    BY <1>9, ReadChunk DEF StoreChunk
  <2>2. Reads(s, "chunk") /\ UNCHANGED <<next, outbox, saved>>
        /\ parts' = [parts EXCEPT ![e.file] = Written(e)]
    BY <1>9 DEF StoreChunk
  <2> HIDE DEF e
  <2>3. WireTypes'
    BY <1>0, <2>2, WireRead
  <2>4. DiskTypes'
    BY <1>0, <2>1, <2>2, PartGrows DEF DiskTypes
  <2> QED
    BY <1>1, <1>2, <1>4, <1>9, <2>3, <2>4 DEF StoreChunk, Types
<1>10. CASE FinalizeOk(s)
  <2> DEFINE e == Head(pipe[s])
  <2>1. e \in ChunkFrame /\ e.index < next[e.file] /\ parts[e.file] # NoPart /\ From[e.file] # s
    BY <1>10, ReadChunk DEF FinalizeOk
  <2>2. Reads(s, "chunk") /\ UNCHANGED next
        /\ parts' = [parts EXCEPT ![e.file] = Written(e)]
        /\ saved' = saved \cup {<<e.file, Written(e).hash>>}
        /\ Reply(s, Done(e.file, TRUE))
    BY <1>10 DEF FinalizeOk
  <2> HIDE DEF e
  <2>3. e.file \in File /\ Written(e).hash \in Content
    BY <2>1, PartGrows DEF PartFile
  <2>4. WireTypes'
    <3>1. Done(e.file, TRUE) \in ReplyFrame /\ Done(e.file, TRUE).file = e.file
      BY <2>3, OtherShapes
    <3> QED
      BY <1>0, <2>1, <2>2, <3>1, WireRead
  <2>5. DiskTypes'
    BY <1>0, <2>1, <2>2, <2>3, PartGrows DEF DiskTypes
  <2> QED
    BY <1>1, <1>2, <1>4, <1>10, <2>4, <2>5 DEF FinalizeOk, Types
<1>11. CASE FinalizeFails(s)
  <2> DEFINE f == Head(pipe[s]).file
  <2>1. f \in File /\ From[f] # s
    BY <1>11, ReadChunk DEF FinalizeFails
  <2>2. Reads(s, "chunk") /\ UNCHANGED next
        /\ parts' = [parts EXCEPT ![f] = NoPart]
        /\ saved' \subseteq saved \cup {<<f, <<>>>>}
        /\ Reply(s, Done(f, FALSE))
    BY <1>11 DEF FinalizeFails
  <2>3. EnvTypes'
    BY <1>4, <1>11 DEF FinalizeFails
  <2>4. UNCHANGED <<senderVars, waiterVars>>
    BY <1>11 DEF FinalizeFails
  <2> HIDE DEF f
  <2>5. WireTypes'
    <3>1. Done(f, FALSE) \in ReplyFrame /\ Done(f, FALSE).file = f
      BY <2>1, OtherShapes
    <3> QED
      BY <1>0, <2>1, <2>2, <3>1, WireRead
  <2>6. DiskTypes'
    <3>1. <<>> \in Content
      BY DEF Content
    <3>2. saved' \subseteq File \X Content
      BY <1>0, <2>1, <2>2, <3>1 DEF DiskTypes
    <3> QED
      BY <1>0, <2>1, <2>2, <3>2, NoPartTyped DEF DiskTypes
  <2> QED
    BY <1>1, <1>2, <2>3, <2>4, <2>5, <2>6 DEF Types
<1>12. CASE HandleReply(s)
  <2>a. PICK e, f : e = Head(pipe[s]) /\ f = e.file
    OBVIOUS
  <2>0. /\ e = Head(pipe[s]) /\ f = e.file /\ \E type \in Replies : Reads(s, type)
        /\ \/ /\ sender[f] \in Waiting /\ WantOf(sender[f]) = e.type /\ From[f] = s
              /\ mail' = [mail EXCEPT ![f] = IF @ = None THEN e ELSE @]
              /\ pending' = pending
           \/ /\ ~(sender[f] \in Waiting /\ WantOf(sender[f]) = e.type /\ From[f] = s)
              /\ pending' = [pending EXCEPT ![f] = {x \in @ : x.type # e.type} \cup {e}]
              /\ mail' = mail
        /\ parts' = IF e.type = "abort" /\ From[f] # s THEN [parts EXCEPT ![f] = NoPart] ELSE parts
        /\ UNCHANGED <<sender, next, changed, saved, outbox, pings, lost, faults>>
    BY <1>12, <2>a, ReplyHandled
  <2> PICK type \in Replies : Reads(s, type)
    BY <2>0
  <2>1. e \in ReplyFrame /\ f \in File
    <3>1. e \in Frame /\ e.type \in Replies
      BY <1>0, <2>0, ReadOne
    <3> QED
      BY <2>0, <3>1, Shapes, ReplyShapes
  <2>2. /\ \/ /\ mail' = [mail EXCEPT ![f] = IF @ = None THEN e ELSE @]
              /\ sender[f] \in Waiting /\ WantOf(sender[f]) = e.type
              /\ UNCHANGED pending
           \/ /\ pending' = [pending EXCEPT ![f] = {x \in @ : x.type # e.type} \cup {e}]
              /\ UNCHANGED mail
        /\ parts' = parts \/ parts' = [parts EXCEPT ![f] = NoPart]
        /\ UNCHANGED <<sender, next, changed, saved, outbox, pings, lost, faults>>
    BY <2>0
  <2>3. WireTypes'
    BY <1>0, <2>0, <2>2, WireRead
  <2>4. DiskTypes'
    BY <1>0, <2>1, <2>2, NoPartTyped DEF DiskTypes
  <2>5. WaiterTypes'
    <3>1. CASE /\ mail' = [mail EXCEPT ![f] = IF @ = None THEN e ELSE @]
               /\ sender[f] \in Waiting /\ WantOf(sender[f]) = e.type
               /\ pending' = pending
      <4>1. mail'[f] = e \/ mail'[f] = mail[f]
        BY <1>0, <2>1, <3>1
      <4>2. \A g \in File : g # f => mail'[g] = mail[g]
        BY <1>0, <3>1
      <4>3. mail' \in [File -> ReplyFrame \cup {None}]
        BY <1>0, <2>1, <3>1
      <4>4. e.file = f
        BY <2>0
      <4> QED
        BY <1>0, <2>1, <2>2, <3>1, <4>1, <4>2, <4>3, <4>4 DEF WaiterTypes
    <3>2. CASE /\ pending' = [pending EXCEPT ![f] = {x \in @ : x.type # e.type} \cup {e}]
               /\ mail' = mail
      <4>1. e.file = f
        BY <2>0
      <4>2. \A g \in File : \A x \in pending'[g] : x \in pending[g] \/ (g = f /\ x = e)
        BY <1>0, <2>1, <3>2
      <4>3. pending' \in [File -> SUBSET ReplyFrame]
        BY <1>0, <2>1, <3>2
      <4> QED
        BY <1>0, <2>2, <3>2, <4>1, <4>2, <4>3 DEF WaiterTypes
    <3> QED
      BY <2>2, <3>1, <3>2
  <2> QED
    BY <1>1, <1>4, <2>2, <2>3, <2>4, <2>5 DEF Types
<1>13. CASE HandlePing(s)
  <2>1. WireTypes'
    <3>1. Pong.type \notin Replies /\ Pong \in ReplyFrame \cup {Pong}
      BY PingShapes DEF Replies
    <3> QED
      BY <1>0, <1>13, <3>1, WireRead DEF HandlePing
  <2> QED
    BY <1>1, <1>2, <1>3, <1>4, <1>13, <2>1 DEF HandlePing, Types
<1>14. CASE SendPing(s)
  <2>1. Addressed(Other(s), Ping)'
    BY PingShapes DEF Addressed
  <2>2. next' = next /\ outbox' = outbox /\ Write(Other(s), Ping)
    BY <1>14 DEF SendPing
  <2>3. WireTypes'
    BY <1>0, <2>1, <2>2, WireWritten, PingShapes
  <2>4. EnvTypes'
    BY <1>0, <1>14 DEF SendPing, EnvTypes
  <2> QED
    BY <1>1, <1>2, <1>3, <1>14, <2>3, <2>4 DEF SendPing, Types
<1>15. CASE LoseFrame(s)
  <2>1. /\ pipe' \in [Side -> Seq(Frame)]
        /\ \A t \in Side : ToSet(pipe'[t]) \subseteq ToSet(pipe[t])
    BY <1>0, <1>15, FrameLost
  <2>2. UNCHANGED <<next, outbox>>
    BY <1>15 DEF LoseFrame
  <2>3. WireTypes'
    BY <1>0, <2>1, <2>2, WireStep
  <2> QED
    BY <1>1, <1>2, <1>3, <1>4, <1>15, <2>3 DEF LoseFrame, Types
<1> QED
  BY <1>5, <1>6, <1>7, <1>8, <1>9, <1>10, <1>11, <1>12, <1>13, <1>14, <1>15 DEF PumpStep

LEMMA TypesStep == Types /\ [Next]_vars => Types'
<1> SUFFICES ASSUME Types, [Next]_vars PROVE Types'
  OBVIOUS
<1> USE DEF senderVars, waiterVars, diskVars, envVars
<1>1. CASE Lose
  BY <1>1, TransferAssumption
  DEF Lose, Types, SendTypes, WaiterTypes, DiskTypes, WireTypes, EnvTypes, Addressed
<1>2. CASE UNCHANGED vars
  BY <1>2 DEF vars, Types, SendTypes, WaiterTypes, DiskTypes, WireTypes, EnvTypes, Addressed
<1> QED
  BY <1>1, <1>2, SendTyped, PumpTyped DEF Next

LEMMA InitTyped == Init => Types
<1> SUFFICES ASSUME Init PROVE Types
  OBVIOUS
<1>1. SendTypes
  BY Sides DEF Init, SendTypes, SenderStates
<1>2. EnvTypes
  <2>1. pings = Pinging /\ lost = FALSE /\ faults = 0
    BY DEF Init
  <2>2. 0 \in 0..MaxFault
    BY TransferAssumption
  <2> QED
    BY <2>1, <2>2 DEF EnvTypes
<1>3. WaiterTypes
  BY DEF Init, WaiterTypes
<1>4. DiskTypes
  BY NoPartTyped DEF Init, DiskTypes
<1>5. WireTypes
  <2>1. <<>> \in Seq(Frame) /\ <<>> \in Outboxes
    BY DEF Outboxes
  <2> QED
    BY <2>1, Singles DEF Init, WireTypes
<1> QED
  BY <1>1, <1>2, <1>3, <1>4, <1>5 DEF Types

LEMMA TypesImply == Types => TypeOK
<1> SUFFICES ASSUME Types PROVE TypeOK
  OBVIOUS
<1> USE DEF Types
<1>1. \A f \in File : next[f] \in 0..Chunks[f]
  BY Sides DEF SendTypes
<1>2. \A f \in File : \A e \in pending[f] : e.type \in Replies /\ e.file = f
  BY ReplyShapes DEF WaiterTypes
<1>3. \A x \in saved : x[1] \in File
  BY DEF DiskTypes
<1>4. \A s \in Side : \A i \in DOMAIN pipe[s] :
        pipe[s][i].type \in {"offer", "chunk"} => From[pipe[s][i].file] # s
  BY DEF WireTypes, Addressed, ToSet
<1>5. \A s \in Side : Len(outbox[s]) <= 1
  <2> SUFFICES ASSUME NEW s \in Side PROVE Len(outbox[s]) <= 1
    OBVIOUS
  <2>1. CASE outbox[s] = <<>>
    BY <2>1
  <2>2. CASE outbox[s] # <<>>
    <3>1. PICK e \in ReplyFrame \cup {Pong} : outbox[s] = <<e>>
      BY <2>2 DEF WireTypes, Outboxes
    <3> QED
      BY <3>1, Singles
  <2> QED
    BY <2>1, <2>2
<1> QED
  BY <1>1, <1>2, <1>3, <1>4, <1>5 DEF TypeOK, SendTypes, WaiterTypes, DiskTypes, EnvTypes

\* Type correctness: also the sender's chunks stay within the file, and every reply
\* in a waiter's buffer is of the type it waits for.
THEOREM TypeCorrect == Spec => []TypeOK
BY InitTyped, TypesStep, TypesImply, PTL DEF Spec

-----------------------------------------------------------------------------
(* No waiter misses its reply *)

\* Waiters that were there before, and no new reply in the cache.
LEMMA StillServed ==
  ASSUME NoStrandedReply,
         \A g \in File : sender'[g] \in Waiting /\ mail'[g] = None =>
            /\ sender'[g] = sender[g] /\ mail[g] = None
            /\ pending'[g] \subseteq pending[g]
  PROVE  NoStrandedReply'
BY DEF NoStrandedReply, Cached

\* A goroutine that leaves WaitForReply, or is not in it.
LEMMA NotWaiting ==
  ASSUME Types, NoStrandedReply, NEW f \in File, NEW state,
         SetSender(f, state), state \notin Waiting,
         \A g \in File : g # f => mail'[g] = mail[g] /\ pending'[g] = pending[g]
  PROVE  NoStrandedReply'
<1>1. sender'[f] = state /\ \A g \in File : g # f => sender'[g] = sender[g]
  BY DEF SetSender, Types, SendTypes
<1> QED
  BY <1>1, StillServed

LEMMA StrandedStep == Types /\ NoStrandedReply /\ [Next]_vars => NoStrandedReply'
<1> SUFFICES ASSUME Types, NoStrandedReply, [Next]_vars PROVE NoStrandedReply'
  OBVIOUS
<1> USE DEF senderVars, waiterVars, diskVars, envVars
<1>0. /\ sender \in [File -> SenderStates]
      /\ mail \in [File -> ReplyFrame \cup {None}] /\ pending \in [File -> SUBSET ReplyFrame]
  BY DEF Types, SendTypes, WaiterTypes
<1>1. ASSUME UNCHANGED <<sender, mail, pending>> PROVE NoStrandedReply'
  BY <1>1, StillServed
<1>2. ASSUME NEW f \in File,
                 \/ SendFile(f) \/ SendOffer(f) \/ ChunksSent(f)
                 \/ SendFails(f) \/ Withdraw(f)
      PROVE  NoStrandedReply'
  <2>1. PICK state \in {"offer", "accept", "done", "failed", "withdrawn"} : SetSender(f, state)
    BY <1>2 DEF SendFile, SendOffer, ChunksSent, SendFails, Withdraw
  <2>2. UNCHANGED <<mail, pending>>
    BY <1>2 DEF SendFile, SendOffer, ChunksSent, SendFails, Withdraw
  <2> QED
    BY <2>1, <2>2, NotWaiting DEF Waiting
<1>3. ASSUME NEW f \in File, WaitForReply(f) PROVE NoStrandedReply'
  <2> PICK e \in Cached(f, sender[f]) :
        SetSender(f, After(e)) /\ pending' = [pending EXCEPT ![f] = @ \ {e}]
    BY <1>3 DEF WaitForReply
  <2>1. After(e) \notin Waiting
    BY <1>0, Verdicts DEF Cached, Waiting
  <2>2. mail' = mail /\ \A g \in File : g # f => pending'[g] = pending[g]
    BY <1>0, <1>3 DEF WaitForReply
  <2> QED
    BY <2>1, <2>2, NotWaiting
<1>4. ASSUME NEW f \in File, RegisterWaiter(f) PROVE NoStrandedReply'
  <2>1. /\ sender[f] = "accept" \/ sender[f] = "done"
        /\ Cached(f, sender[f]) = {} /\ UNCHANGED <<mail, pending>>
        /\ sender' = [sender EXCEPT ![f] =
                         IF sender[f] = "accept" THEN "accepting" ELSE "finishing"]
    BY <1>4 DEF RegisterWaiter, SetSender
  <2>2. WantOf(sender'[f]) = sender[f]
    BY <1>0, <2>1 DEF WantOf
  <2>3. \A g \in File : g # f => sender'[g] = sender[g]
    BY <1>0, <2>1
  <2> SUFFICES ASSUME NEW g \in File, sender'[g] \in Waiting, mail'[g] = None
               PROVE  Cached(g, WantOf(sender'[g])) = {} /\ pending'[g] = pending[g]
    BY DEF NoStrandedReply, Cached
  <2>4. CASE g = f
    BY <2>1, <2>2, <2>4
  <2>5. CASE g # f
    BY <2>1, <2>3, <2>5 DEF NoStrandedReply
  <2> QED
    BY <2>4, <2>5
<1>5. ASSUME NEW f \in File, Replied(f) PROVE NoStrandedReply'
  <2>1. After(mail[f]) \notin Waiting
    BY <1>0, <1>5, Verdicts DEF Replied, Waiting
  <2>2. SetSender(f, After(mail[f]))
        /\ \A g \in File : g # f => mail'[g] = mail[g] /\ pending'[g] = pending[g]
    BY <1>0, <1>5 DEF Replied
  <2> QED
    BY <2>1, <2>2, NotWaiting
<1>6. ASSUME NEW f \in File, Cancelled(f) PROVE NoStrandedReply'
  <2>1. SetSender(f, "failed")
        /\ \A g \in File : g # f => mail'[g] = mail[g] /\ pending'[g] = pending[g]
    BY <1>0, <1>6 DEF Cancelled
  <2> QED
    BY <2>1, NotWaiting DEF Waiting
<1>7. ASSUME NEW s \in Side, HandleReply(s) PROVE NoStrandedReply'
  <2> DEFINE Waits(e, f) == sender[f] \in Waiting /\ WantOf(sender[f]) = e.type /\ From[f] = s
  <2>a. PICK e, f : e = Head(pipe[s]) /\ f = e.file
    OBVIOUS
  <2>0. /\ e = Head(pipe[s]) /\ f = e.file /\ \E type \in Replies : Reads(s, type)
        /\ \/ /\ Waits(e, f)
              /\ mail' = [mail EXCEPT ![f] = IF @ = None THEN e ELSE @]
              /\ pending' = pending
           \/ /\ ~Waits(e, f)
              /\ pending' = [pending EXCEPT ![f] = {x \in @ : x.type # e.type} \cup {e}]
              /\ mail' = mail
        /\ sender' = sender
    BY <1>7, <2>a, ReplyHandled
  <2> PICK type \in Replies : Reads(s, type)
    BY <2>0
  <2>1. /\ e \in Frame /\ e.type \in Replies /\ Addressed(s, e)
    BY <2>0, ReadOne DEF Types
  <2>2. sender' = sender
    BY <2>0
  <2>3. e \in ReplyFrame /\ f \in File /\ e # None
    BY <2>0, <2>1, Shapes, ReplyShapes
  <2>4. f = e.file
    BY <2>0
  <2>5. CASE /\ Waits(e, f) /\ pending' = pending
             /\ mail' = [mail EXCEPT ![f] = IF @ = None THEN e ELSE @]
    <3>1. mail'[f] # None /\ \A g \in File : g # f => mail'[g] = mail[g]
      BY <1>0, <2>3, <2>5
    <3> QED
      BY <2>2, <2>5, <3>1, StillServed
  <2>6. CASE /\ ~Waits(e, f)
             /\ pending' = [pending EXCEPT ![f] = {x \in @ : x.type # e.type} \cup {e}]
             /\ mail' = mail
    <3>1. \A g \in File : g # f => pending'[g] = pending[g]
      BY <1>0, <2>6
    <3>2. \A x \in pending'[f] : x \in pending[f] \/ x = e
      BY <1>0, <2>3, <2>6
    <3>3. sender[f] \in Waiting => WantOf(sender[f]) # e.type
      <4> SUFFICES ASSUME sender[f] \in Waiting, WantOf(sender[f]) = e.type PROVE FALSE
        OBVIOUS
      <4>1. e.type \in {"accept", "done"}
        BY DEF WantOf
      <4>2. From[f] = s
        BY <2>1, <2>4, <4>1 DEF Addressed
      <4> QED
        BY <2>6, <4>2
    <3> SUFFICES ASSUME NEW g \in File, sender[g] \in Waiting, mail[g] = None,
                        NEW x \in pending'[g], x.type = WantOf(sender[g])
                 PROVE  FALSE
      BY <2>2, <2>6 DEF NoStrandedReply, Cached
    <3>4. x \in pending[g]
      BY <3>1, <3>2, <3>3
    <3> QED
      BY <3>4 DEF NoStrandedReply, Cached
  <2> QED
    BY <2>0, <2>5, <2>6
<1>8. ASSUME NEW f \in File, FileChanges(f) \/ SendChunk(f) PROVE NoStrandedReply'
  BY <1>1, <1>8 DEF FileChanges, SendChunk
<1>9. ASSUME NEW s \in Side,
             \/ PumpSends(s) \/ PumpSendFails(s) \/ handleOffer(s) \/ ChunkFails(s)
             \/ StoreChunk(s) \/ FinalizeOk(s) \/ FinalizeFails(s) \/ HandlePing(s)
             \/ SendPing(s) \/ LoseFrame(s)
      PROVE  NoStrandedReply'
  BY <1>1, <1>9 DEF PumpSends, PumpSendFails, handleOffer, ChunkFails, StoreChunk, FinalizeOk,
     FinalizeFails, HandlePing, SendPing, LoseFrame
<1>10. CASE Lose \/ UNCHANGED vars
  BY <1>1, <1>10 DEF Lose, vars
<1> QED
  BY <1>2, <1>3, <1>4, <1>5, <1>6, <1>7, <1>8, <1>9, <1>10 DEF Next, SendStep, PumpStep

\* No lost reply: whoever waits in WaitForReply finds the reply or will be handed it.
THEOREM NoReplyStranded == Spec => []NoStrandedReply
<1>1. Init => NoStrandedReply
  BY DEF Init, NoStrandedReply, Waiting
<1> QED
  BY <1>1, InitTyped, TypesStep, StrandedStep, PTL DEF Spec

-----------------------------------------------------------------------------
(* What both ends know of a transfer *)

\* Every chunk of f under way has an index beyond i: chunk i has been read, if it
\* was sent, or lost with the connection.
Behind(f, i) ==
    \A s \in Side : \A e \in ToSet(pipe[s]) :
        e.type = "chunk" /\ e.file = f => i < e.index

\* The receiver has moved the content that was offered into its save directory.
Stored(f) == <<f, Whole(f)>> \in saved

\* Some chunk is neither in the part nor to come: finalize will find it missing.
Missed(f) ==
    \E i \in Nat :
        /\ i < next[f] /\ Behind(f, i)
        /\ \A k \in DOMAIN parts[f].hash : parts[f].hash[k][1] # i

\* Frames that may be in one pipe, for the same file: chunks by index, and none
\* behind an abort.
Ordered(q) ==
    \A i, j \in DOMAIN q :
        /\ i < j /\ q[j].type = "chunk"
        /\ q[i].type \in {"chunk", "abort"} /\ q[i].file = q[j].file
        => q[i].type = "chunk" /\ q[i].index < q[j].index

Piped ==
    /\ \A s \in Side : Ordered(pipe[s])
    /\ \A s \in Side : \A e \in ToSet(pipe[s]) :
        /\ e.type = "chunk" => parts[e.file] # NoPart
        /\ e.type = "abort" /\ From[e.file] # s => sender[e.file] = "withdrawn"

\* What is in the part was sent, and has been read.
Kept(f) ==
    \A k \in DOMAIN parts[f].hash :
        /\ parts[f].hash[k][1] < next[f]
        /\ \A s \in Side : \A e \in ToSet(pipe[s]) :
            e.type = "chunk" /\ e.file = f => parts[f].hash[k][1] < e.index

\* Send has not been accepted yet.
Early == {"idle", "offer", "accept", "accepting"}

Progress(f) ==
    /\ sender[f] \in Early => next[f] = 0
    /\ sender[f] = "stream" /\ next[f] < Chunks[f] => parts[f] # NoPart
    /\ sender[f] = "withdrawn" => next[f] < Chunks[f]
    /\ sender[f] = "ok" => Stored(f)
    /\ sender[f] = "refused" => Missed(f) /\ ~Stored(f)
    /\ Stored(f) => 0 < Chunks[f] /\ next[f] = Chunks[f] /\ Behind(f, Chunks[f])
    /\ Kept(f)

\* A reply that was given and not yet acted on, wherever it is.
Heard(e) ==
    \/ \E s \in Side : e \in ToSet(pipe[s]) \/ e \in ToSet(outbox[s])
    \/ \E f \in File : e \in pending[f] \/ e = mail[f]

\* ... and what it tells the sender is true.
Justified(e) ==
    /\ e.type = "accept" /\ sender[e.file] \in Early => parts[e.file] # NoPart
    /\ e.type = "done" /\ e.ok => Stored(e.file)
    /\ e.type = "done" /\ ~e.ok => Missed(e.file) /\ ~Stored(e.file)

TransferInv ==
    /\ Piped
    /\ \A f \in File : Progress(f)
    /\ \A e \in ReplyFrame : Heard(e) => Justified(e)

\* No chunk is under way to a part that is dropped, and none will be sent.
Over(f) ==
    /\ Behind(f, Chunks[f])'
    /\ (next[f] = Chunks[f] /\ 0 < Chunks[f]) \/ sender'[f] = "withdrawn"

\* What a goroutine in Send may do without a new chunk.
Moves(f) ==
    /\ sender[f] # "withdrawn"
    /\ \/ sender[f] \in Early /\ sender'[f] \in Early
       \/ sender'[f] = "stream" /\ parts'[f] # NoPart
       \/ sender'[f] \in {"done", "finishing", "failed"}
       \/ sender'[f] = "withdrawn" /\ next[f] < Chunks[f]
       \/ sender'[f] = "ok" /\ Stored(f)
       \/ sender'[f] = "refused" /\ Missed(f) /\ ~Stored(f)

\* No chunk goes into a pipe, and an abort only from a sender that withdrew.
NoNewChunk ==
    /\ \A s \in Side : Ordered(pipe'[s])
    /\ \A s \in Side : \A e \in ToSet(pipe'[s]) :
        /\ e.type = "chunk" => e \in ToSet(pipe[s])
        /\ e.type = "abort" /\ From[e.file] # s
            => e \in ToSet(pipe[s]) \/ sender'[e.file] = "withdrawn"

\* Steps that put no chunk into a pipe and none into a part: what both ends know
\* stays true when new replies are, and parts are dropped only when all is over.
LEMMA Steady ==
  ASSUME Types, TransferInv, next' = next, NoNewChunk,
         \A f \in File : Stored(f)' <=> Stored(f),
         \A f \in File :
            \/ parts'[f] = parts[f]
            \/ parts'[f].hash = <<>> /\ (parts'[f] # NoPart \/ Over(f)),
         \A e \in ReplyFrame : Heard(e)' => Heard(e) \/ Justified(e)',
         \A f \in File : sender'[f] = sender[f] \/ Moves(f)
  PROVE  TransferInv'
<1>1. \A f \in File : \A i : Behind(f, i) => Behind(f, i)'
  BY DEF Behind, NoNewChunk
<1>2. \A f \in File : \A k \in DOMAIN parts'[f].hash :
        k \in DOMAIN parts[f].hash /\ parts'[f].hash[k] = parts[f].hash[k]
  <2> SUFFICES ASSUME NEW f \in File, parts'[f].hash = <<>> PROVE DOMAIN parts'[f].hash = {}
    OBVIOUS
  <2> QED
    OBVIOUS
<1>3. \A f \in File : Missed(f) => Missed(f)'
  BY <1>1, <1>2 DEF Missed
<1>4. \A f \in File : next[f] \in Nat /\ Chunks[f] \in Nat /\ next[f] <= Chunks[f]
  BY Sides DEF Types, SendTypes
<1>5. \A f \in File : Progress(f)
  BY DEF TransferInv
<1>6. ASSUME NEW f \in File, parts'[f] = NoPart, parts[f] # NoPart
      PROVE  Over(f)
  BY <1>6
<1>7. ASSUME NEW f \in File PROVE Progress(f)'
  <2>1. sender'[f] \in Early => next'[f] = 0
    BY <1>5, <1>7 DEF Progress, Moves, Early
  <2>2. sender'[f] = "stream" /\ next'[f] < Chunks[f] => parts'[f] # NoPart
    <3> SUFFICES ASSUME sender'[f] = "stream", next[f] < Chunks[f], parts'[f] = NoPart PROVE FALSE
      OBVIOUS
    <3>1. sender[f] = "stream"
      BY DEF Moves, Early
    <3>2. parts[f] # NoPart
      BY <1>5, <3>1 DEF Progress
    <3> QED
      BY <1>4, <1>6, <3>2 DEF Over
  <2>3. sender'[f] = "withdrawn" => next'[f] < Chunks[f]
    BY <1>5 DEF Progress, Moves, Early
  <2>4. sender'[f] = "ok" => Stored(f)'
    BY <1>5 DEF Progress, Moves, Early
  <2>5. sender'[f] = "refused" => Missed(f)' /\ ~Stored(f)'
    BY <1>3, <1>5 DEF Progress, Moves, Early
  <2>6. Stored(f)' => 0 < Chunks[f] /\ next'[f] = Chunks[f] /\ Behind(f, Chunks[f])'
    BY <1>1, <1>5 DEF Progress
  <2>7. Kept(f)'
    <3>1. Kept(f)
      BY <1>5 DEF Progress
    <3> SUFFICES ASSUME NEW k \in DOMAIN parts'[f].hash
                 PROVE  /\ parts'[f].hash[k][1] < next'[f]
                        /\ \A s \in Side : \A e \in ToSet(pipe'[s]) :
                            e.type = "chunk" /\ e.file = f => parts'[f].hash[k][1] < e.index
      BY DEF Kept
    <3>2. k \in DOMAIN parts[f].hash /\ parts'[f].hash[k] = parts[f].hash[k]
      BY <1>2
    <3> QED
      BY <3>1, <3>2 DEF Kept, NoNewChunk
  <2> QED
    BY <2>1, <2>2, <2>3, <2>4, <2>5, <2>6, <2>7 DEF Progress
<1>8. Piped'
  <2>1. ASSUME NEW s \in Side, NEW e \in ToSet(pipe'[s]), e.type = "chunk"
        PROVE  parts'[e.file] # NoPart
    <3>1. e \in ToSet(pipe[s])
      BY <2>1 DEF NoNewChunk
    <3>2. e \in Frame /\ Addressed(s, e)
      BY <3>1 DEF Types, WireTypes, ToSet
    <3>3. e.file \in File /\ e.index \in Nat /\ e.index < next[e.file]
      BY <2>1, <3>2, Shapes DEF Addressed, ChunkFrame
    <3>4. parts[e.file] # NoPart
      BY <2>1, <3>1 DEF TransferInv, Piped
    <3>5. ~Over(e.file)
      <4> SUFFICES ASSUME Over(e.file) PROVE FALSE
        OBVIOUS
      <4>1. Chunks[e.file] < e.index
        BY <2>1 DEF Over, Behind
      <4> QED
        BY <1>4, <3>3, <4>1
    <3> QED
      BY <1>6, <3>3, <3>4, <3>5
  <2>2. ASSUME NEW s \in Side, NEW e \in ToSet(pipe'[s]), e.type = "abort", From[e.file] # s
        PROVE  sender'[e.file] = "withdrawn"
    <3>1. CASE e \in ToSet(pipe[s])
      <4>1. sender[e.file] = "withdrawn"
        BY <2>2, <3>1 DEF TransferInv, Piped
      <4>2. e \in Frame
        BY <3>1 DEF Types, WireTypes, ToSet
      <4>3. e.file \in File
        BY <2>2, <4>2, Shapes
      <4> QED
        BY <4>1, <4>3 DEF Moves
    <3> QED
      BY <2>2, <3>1 DEF NoNewChunk
  <2> QED
    BY <2>1, <2>2 DEF Piped, NoNewChunk
<1>9. ASSUME NEW e \in ReplyFrame, Heard(e)' PROVE Justified(e)'
  <2>1. CASE Justified(e)'
    BY <2>1
  <2>2. CASE Heard(e)
    <3>1. Justified(e) /\ e.file \in File
      BY <2>2, ReplyShapes DEF TransferInv
    <3>2. e.type = "accept" /\ sender'[e.file] \in Early => parts'[e.file] # NoPart
      <4> SUFFICES ASSUME e.type = "accept", sender'[e.file] \in Early, parts'[e.file] = NoPart
                   PROVE  FALSE
        OBVIOUS
      <4>1. sender[e.file] \in Early
        BY <3>1 DEF Moves, Early
      <4>2. parts[e.file] # NoPart /\ next[e.file] = 0
        BY <1>5, <3>1, <4>1 DEF Justified, Progress
      <4>3. Over(e.file)
        BY <1>6, <3>1, <4>2
      <4> QED
        BY <1>4, <3>1, <4>2, <4>3 DEF Over, Early
    <3> QED
      BY <1>3, <3>1, <3>2 DEF Justified
  <2> QED
    BY <1>9, <2>1, <2>2
<1> QED
  BY <1>7, <1>8, <1>9 DEF TransferInv

-----------------------------------------------------------------------------
(* The order of frames in a pipe *)

\* The parts of the invariants that the steps below use.
LEMMA Known ==
  ASSUME Types, TransferInv
  PROVE  /\ WireTypes /\ pipe \in [Side -> Seq(Frame)] /\ sender \in [File -> SenderStates]
         /\ mail \in [File -> ReplyFrame \cup {None}] /\ pending \in [File -> SUBSET ReplyFrame]
         /\ next \in [File -> Nat] /\ parts \in [File -> PartFile]
         /\ \A f \in File : /\ next[f] \in Nat /\ Chunks[f] \in Nat /\ next[f] <= Chunks[f]
                            /\ Progress(f)
         /\ \A s \in Side : Ordered(pipe[s])
         /\ \A s \in Side : \A e \in ToSet(pipe[s]) : e \in Frame /\ Addressed(s, e)
<1>1. \A f \in File : next[f] \in Nat /\ Chunks[f] \in Nat /\ next[f] <= Chunks[f]
  BY Sides DEF Types, SendTypes
<1>2. \A s \in Side : \A e \in ToSet(pipe[s]) : e \in Frame /\ Addressed(s, e)
  BY DEF Types, WireTypes, ToSet
<1> QED
  BY <1>1, <1>2 DEF Types, SendTypes, WaiterTypes, WireTypes, DiskTypes, TransferInv, Piped

LEMMA SamePipes == ASSUME Types, TransferInv, pipe' = pipe PROVE NoNewChunk
BY Known DEF NoNewChunk

LEMMA NonChunkWritten ==
  ASSUME Types, TransferInv, NEW s \in Side, NEW e \in Frame, Write(s, e), e.type # "chunk",
         e.type = "abort" /\ From[e.file] # s => sender'[e.file] = "withdrawn"
  PROVE  NoNewChunk
<1>1. /\ pipe'[s] = Append(pipe[s], e) /\ pipe[s] \in Seq(Frame)
      /\ \A t \in Side : t # s => pipe'[t] = pipe[t]
      /\ \A t \in Side : ToSet(pipe'[t]) \subseteq ToSet(pipe[t]) \cup {e}
      /\ ToSet(pipe'[s]) = ToSet(pipe[s]) \cup {e}
  BY Known, Wrote
<1>2. Ordered(pipe'[s])
  <2> DEFINE q == pipe[s]
             r == pipe'[s]
  <2>1. /\ DOMAIN q = 1..Len(q) /\ Len(q) \in Nat /\ DOMAIN r = 1..(Len(q) + 1)
        /\ \A i \in 1..Len(q) : r[i] = q[i]
        /\ r[Len(q) + 1] = e
    BY <1>1, Queued
  <2>2. Ordered(q)
    BY Known
  <2> HIDE DEF q, r
  <2> SUFFICES ASSUME NEW i \in DOMAIN r, NEW j \in DOMAIN r, i < j, r[j].type = "chunk",
                      r[i].type \in {"chunk", "abort"}, r[i].file = r[j].file
               PROVE  r[i].type = "chunk" /\ r[i].index < r[j].index
    BY DEF Ordered, r
  <2>3. j # Len(q) + 1
    BY <2>1
  <2>4. i \in 1..Len(q) /\ j \in 1..Len(q)
    BY <2>1, <2>3
  <2> QED
    BY <2>1, <2>2, <2>4 DEF Ordered
<1>3. \A t \in Side : Ordered(pipe'[t])
  BY <1>1, <1>2, Known
<1> QED
  BY <1>1, <1>3 DEF NoNewChunk

\* A reader takes the first frame; chunks of the same file behind it come later in
\* the file, and no chunk is behind an abort of its file.
LEMMA FrameRead ==
  ASSUME Types, TransferInv, NEW s \in Side, NEW type, Reads(s, type)
  PROVE  /\ NoNewChunk
         /\ \A t \in Side : ToSet(pipe'[t]) \subseteq ToSet(pipe[t])
         /\ Head(pipe[s]) \in Frame /\ Head(pipe[s]) \in ToSet(pipe[s])
         /\ Head(pipe[s]).type = type
         /\ \A d \in ToSet(pipe'[s]) :
              /\ d.type = "chunk" /\ Head(pipe[s]).type \in {"chunk", "abort"}
              /\ d.file = Head(pipe[s]).file
              => Head(pipe[s]).type = "chunk" /\ Head(pipe[s]).index < d.index
<1>1. /\ pipe[s] \in Seq(Frame) /\ pipe[s] # <<>> /\ pipe'[s] = Tail(pipe[s])
      /\ \A t \in Side : t # s => pipe'[t] = pipe[t]
      /\ \A t \in Side : ToSet(pipe'[t]) \subseteq ToSet(pipe[t])
      /\ Head(pipe[s]) \in Frame /\ Head(pipe[s]) \in ToSet(pipe[s])
      /\ Head(pipe[s]).type = type
  BY Known, ReadOne
<1> DEFINE q == pipe[s]
           r == pipe'[s]
<1>2. /\ Head(q) = q[1] /\ 1 \in DOMAIN q
      /\ \A i \in DOMAIN r : i + 1 \in DOMAIN q /\ 1 < i + 1 /\ r[i] = q[i + 1]
  BY <1>1, Dequeued
<1>3. DOMAIN r \subseteq Nat
  BY <1>1, Dequeued
<1>4. Ordered(q)
  BY Known
<1>5. Ordered(r)
  <2> HIDE DEF q, r
  <2> SUFFICES ASSUME NEW i \in DOMAIN r, NEW j \in DOMAIN r, i < j, r[j].type = "chunk",
                      r[i].type \in {"chunk", "abort"}, r[i].file = r[j].file
               PROVE  r[i].type = "chunk" /\ r[i].index < r[j].index
    BY DEF Ordered
  <2>1. i + 1 < j + 1
    BY <1>3
  <2> QED
    BY <1>2, <1>4, <2>1 DEF Ordered
<1>6. \A d \in ToSet(r) :
        d.type = "chunk" /\ Head(q).type \in {"chunk", "abort"} /\ d.file = Head(q).file
        => Head(q).type = "chunk" /\ Head(q).index < d.index
  <2> HIDE DEF q, r
  <2> SUFFICES ASSUME NEW i \in DOMAIN r, r[i].type = "chunk",
                      Head(q).type \in {"chunk", "abort"}, r[i].file = Head(q).file
               PROVE  Head(q).type = "chunk" /\ Head(q).index < r[i].index
    BY DEF ToSet
  <2> QED
    BY <1>2, <1>4 DEF Ordered
<1>7. \A t \in Side : Ordered(pipe'[t])
  BY <1>1, <1>5, Known
<1> QED
  BY <1>1, <1>6, <1>7 DEF NoNewChunk

LEMMA FrameCut ==
  ASSUME Types, TransferInv, NEW s \in Side, LoseFrame(s)
  PROVE  NoNewChunk /\ \A t \in Side : ToSet(pipe'[t]) \subseteq ToSet(pipe[t])
<1>1. /\ pipe[s] \in Seq(Frame) /\ pipe[s] # <<>> /\ pipe'[s] = Front(pipe[s])
      /\ \A t \in Side : t # s => pipe'[t] = pipe[t]
      /\ \A t \in Side : ToSet(pipe'[t]) \subseteq ToSet(pipe[t])
  BY Known, FrameLost
<1> DEFINE q == pipe[s]
           r == pipe'[s]
<1>2. DOMAIN r \subseteq DOMAIN q /\ \A i \in DOMAIN r : r[i] = q[i]
  BY <1>1, Cut
<1>3. Ordered(q)
  BY Known
<1>4. Ordered(r)
  <2> HIDE DEF q, r
  <2> QED
    BY <1>2, <1>3 DEF Ordered
<1> QED
  BY <1>1, <1>4, Known DEF NoNewChunk

\* What is on its way behind a chunk or an abort that the receiving end reads.
LEMMA HeadRead ==
  ASSUME Types, TransferInv, NEW s \in Side, NEW type \in {"chunk", "abort"}, Reads(s, type),
         From[Head(pipe[s]).file] # s
  PROVE  /\ \A t \in Side : \A d \in ToSet(pipe'[t]) :
              d.type = "chunk" /\ d.file = Head(pipe[s]).file
              => type = "chunk" /\ Head(pipe[s]).index < d.index
<1>1. SUFFICES ASSUME NEW t \in Side, NEW d \in ToSet(pipe'[t]),
                      d.type = "chunk", d.file = Head(pipe[s]).file
               PROVE  type = "chunk" /\ Head(pipe[s]).index < d.index
  OBVIOUS
<1>2. d \in ToSet(pipe[t])
  BY FrameRead
<1>3. From[d.file] # t /\ d.file \in File
  BY <1>1, <1>2, Known, Shapes DEF Addressed
<1>4. t = s
  BY <1>1, <1>3, Sides
<1> QED
  BY <1>1, <1>4, FrameRead

-----------------------------------------------------------------------------
(* Steps that put no chunk anywhere *)

LEMMA SendSteady ==
  ASSUME Types, TransferInv, NEW f \in File,
         \/ SendFile(f) \/ FileChanges(f) \/ SendOffer(f) \/ WaitForReply(f) \/ RegisterWaiter(f)
         \/ Replied(f) \/ ChunksSent(f) \/ SendFails(f) \/ Withdraw(f) \/ Cancelled(f)
  PROVE  TransferInv'
<1> USE DEF senderVars, waiterVars, diskVars, envVars
<1>0. /\ sender \in [File -> SenderStates]
      /\ mail \in [File -> ReplyFrame \cup {None}] /\ pending \in [File -> SUBSET ReplyFrame]
      /\ WireTypes /\ To(f) \in Side /\ To(f) # From[f] /\ Progress(f)
  BY Known, Sides
<1>1. UNCHANGED <<next, diskVars, outbox>>
  BY DEF SendFile, FileChanges, SendOffer, WaitForReply, RegisterWaiter, Replied,
     ChunksSent, SendFails, Withdraw, Cancelled
<1>2. \A g \in File : Stored(g)' <=> Stored(g)
  BY <1>1 DEF Stored, Whole
<1>3. \/ pipe' = pipe
      \/ Write(To(f), Offer(f))
      \/ Write(To(f), Abort(f)) /\ sender'[f] = "withdrawn"
  BY <1>0 DEF SendFile, FileChanges, SendOffer, WaitForReply, RegisterWaiter, Replied,
     ChunksSent, SendFails, Withdraw, Cancelled, SetSender
<1>4. NoNewChunk
  <2>1. CASE pipe' = pipe
    BY <2>1, SamePipes
  <2>2. CASE Write(To(f), Offer(f))
    BY <1>0, <2>2, OtherShapes, NonChunkWritten
  <2>3. CASE Write(To(f), Abort(f)) /\ sender'[f] = "withdrawn"
    BY <1>0, <2>3, OtherShapes, ReplyShapes, NonChunkWritten
  <2> QED
    BY <1>3, <2>1, <2>2, <2>3
<1>5. ASSUME NEW g \in File, NEW e \in pending'[g] PROVE e \in pending[g]
  BY <1>0, <1>5 DEF SendFile, FileChanges, SendOffer, WaitForReply, RegisterWaiter, Replied,
     ChunksSent, SendFails, Withdraw, Cancelled
<1>6. ASSUME NEW g \in File PROVE mail'[g] = mail[g] \/ mail'[g] = None
  BY <1>0, <1>6 DEF SendFile, FileChanges, SendOffer, WaitForReply, RegisterWaiter, Replied,
     ChunksSent, SendFails, Withdraw, Cancelled
<1>7. ASSUME NEW e \in ReplyFrame, Heard(e)' PROVE Heard(e) \/ Justified(e)'
  <2>1. CASE \E s \in Side : e \in ToSet(pipe'[s]) \/ e \in ToSet(outbox'[s])
    <3>1. \A s \in Side : ToSet(pipe'[s]) \subseteq ToSet(pipe[s]) \cup {Offer(f), Abort(f)}
      BY <1>0, <1>3, Wrote, OtherShapes, ReplyShapes DEF WireTypes
    <3>2. CASE e = Abort(f)
      BY <3>2, OtherShapes DEF Justified
    <3>3. CASE e # Abort(f)
      <4>1. e # Offer(f)
        BY OtherShapes, ReplyShapes
      <4> QED
        BY <1>1, <2>1, <3>1, <3>3, <4>1 DEF Heard
    <3> QED
      BY <3>2, <3>3
  <2>2. CASE \E g \in File : e \in pending'[g] \/ e = mail'[g]
    BY <1>5, <1>6, <2>2, ReplyShapes DEF Heard
  <2> QED
    BY <1>7, <2>1, <2>2 DEF Heard
<1>8. \A e \in ReplyFrame : Heard(e) => Justified(e)
  BY DEF TransferInv
<1>9. sender'[f] = sender[f] \/ Moves(f)
  <2>1. CASE SendFile(f) \/ SendOffer(f) \/ FileChanges(f)
    BY <1>0, <2>1 DEF SendFile, SendOffer, FileChanges, SetSender, Moves, Early
  <2>2. CASE RegisterWaiter(f) \/ ChunksSent(f) \/ SendFails(f) \/ Withdraw(f) \/ Cancelled(f)
    BY <1>0, <2>2 DEF RegisterWaiter, ChunksSent, SendFails, Withdraw, Cancelled, SetSender, Moves,
       Early, Waiting
  <2>3. ASSUME NEW e \in ReplyFrame, e.file = f, Heard(e), sender'[f] = After(e),
               \/ e.type = "accept" /\ sender[f] \in {"accept", "accepting"}
               \/ e.type = "done" /\ sender[f] \in {"done", "finishing"}
        PROVE  Moves(f)
    <3>1. Justified(e)
      BY <1>8, <2>3
    <3>2. CASE e.type = "accept"
      BY <1>1, <2>3, <3>1, <3>2, Verdicts DEF Justified, Moves, Early
    <3>3. CASE e.type = "done"
      <4>1. e.ok \in BOOLEAN
        BY <3>3, ReplyShapes
      <4> QED
        BY <2>3, <3>1, <3>3, <4>1, Verdicts DEF Justified, Moves
    <3> QED
      BY <2>3, <3>2, <3>3
  <2>4. CASE WaitForReply(f)
    <3> PICK e \in Cached(f, sender[f]) : SetSender(f, After(e))
      BY <2>4 DEF WaitForReply
    <3>1. e \in pending[f] /\ e.type = sender[f] /\ sender[f] \in {"accept", "done"}
      BY <2>4 DEF Cached, WaitForReply
    <3>2. e \in ReplyFrame /\ e.file = f /\ Heard(e)
      BY <1>0, <3>1 DEF Heard, Types, WaiterTypes
    <3>3. sender'[f] = After(e)
      BY <1>0 DEF SetSender
    <3> QED
      BY <2>3, <3>1, <3>2, <3>3
  <2>5. CASE Replied(f)
    <3>1. /\ mail[f] # None /\ sender[f] \in Waiting /\ sender'[f] = After(mail[f])
      BY <1>0, <2>5 DEF Replied, SetSender
    <3> PICK e \in ReplyFrame : e = mail[f]
      BY <1>0, <3>1
    <3>2. e.type = WantOf(sender[f]) /\ e.file = f /\ Heard(e)
      BY <3>1 DEF Heard, Types, WaiterTypes
    <3>3. \/ e.type = "accept" /\ sender[f] = "accepting"
          \/ e.type = "done" /\ sender[f] = "finishing"
      BY <3>1, <3>2 DEF Waiting, WantOf
    <3> QED
      BY <2>3, <3>1, <3>2, <3>3
  <2> QED
    BY <2>1, <2>2, <2>4, <2>5
<1>10. \A g \in File : sender'[g] = sender[g] \/ Moves(g)
  <2>1. \A g \in File : g # f => sender'[g] = sender[g]
    BY <1>0 DEF SendFile, FileChanges, SendOffer, WaitForReply, RegisterWaiter, Replied, ChunksSent,
       SendFails, Withdraw, Cancelled, SetSender
  <2> QED
    BY <1>9, <2>1
<1> QED
  BY <1>1, <1>2, <1>4, <1>7, <1>10, Steady

\* A reply is told once more, to the next place on its way.
LEMMA HeardBefore ==
  ASSUME \A s \in Side : ToSet(pipe'[s]) \subseteq ToSet(pipe[s]),
         \A s \in Side : ToSet(outbox'[s]) \subseteq ToSet(outbox[s]),
         UNCHANGED waiterVars
  PROVE  \A e \in ReplyFrame : Heard(e)' => Heard(e)
BY DEF Heard, waiterVars

\* The handler of an envelope, at the receiving end, leaves reply a.
LEMMA HeardOrAnswer ==
  ASSUME Types, TransferInv, NEW s \in Side, NEW type, Reads(s, type),
         NEW a \in ReplyFrame \cup {Pong}, Reply(s, a), UNCHANGED waiterVars
  PROVE  \A e \in ReplyFrame : Heard(e)' => Heard(e) \/ e = a
<1>1. /\ \A t \in Side : ToSet(pipe'[t]) \subseteq ToSet(pipe[t])
      /\ ToSet(outbox'[s]) = {a}
      /\ \A t \in Side : t # s => outbox'[t] = outbox[t]
  BY Known, FrameRead, Answered
<1> QED
  BY <1>1 DEF Heard, waiterVars

\* A chunk that is read was not missing before, and the file was not complete.
LEMMA ChunkRead ==
  ASSUME Types, TransferInv, NEW s \in Side, Reads(s, "chunk"),
         NEW e, e = Head(pipe[s])
  PROVE  /\ e \in ChunkFrame /\ e.file \in File /\ e.index \in Nat /\ e.index < next[e.file]
         /\ From[e.file] # s /\ parts[e.file] # NoPart
         /\ Behind(e.file, e.index)'
         /\ \A i : Behind(e.file, i) => i < e.index
         /\ \A k \in DOMAIN parts[e.file].hash : parts[e.file].hash[k][1] < e.index
         /\ ~Stored(e.file)
<1>1. /\ e \in ChunkFrame /\ e.type = "chunk" /\ e.file \in File /\ e.index \in Nat
      /\ From[e.file] # s /\ e.index < next[e.file]
  BY ReadChunk
<1>2. e \in ToSet(pipe[s])
  BY FrameRead
<1>3. Behind(e.file, e.index)'
  <2>1. From[Head(pipe[s]).file] # s
    BY <1>1
  <2>2. \A t \in Side : \A d \in ToSet(pipe'[t]) :
          d.type = "chunk" /\ d.file = e.file => e.index < d.index
    BY <2>1, HeadRead
  <2> QED
    BY <2>2 DEF Behind
<1>4. \A i : Behind(e.file, i) => i < e.index
  BY <1>1, <1>2 DEF Behind
<1>5. parts[e.file] # NoPart
  BY <1>1, <1>2 DEF TransferInv, Piped
<1>6. \A k \in DOMAIN parts[e.file].hash : parts[e.file].hash[k][1] < e.index
  BY <1>1, <1>2, Known DEF Progress, Kept
<1>7. ~Stored(e.file)
  <2> SUFFICES ASSUME Stored(e.file) PROVE FALSE
    OBVIOUS
  <2>1. Chunks[e.file] < e.index
    BY <1>1, <1>4, Known DEF Progress
  <2> QED
    BY <1>1, <2>1, Known
<1> QED
  BY <1>1, <1>3, <1>4, <1>5, <1>6, <1>7

\* The last chunk: there is nothing behind it.
LEMMA LastRead ==
  ASSUME Types, TransferInv, NEW s \in Side, Reads(s, "chunk"),
         NEW e, e = Head(pipe[s]), e.index = Chunks[e.file] - 1
  PROVE  /\ next[e.file] = Chunks[e.file] /\ 0 < Chunks[e.file]
         /\ Behind(e.file, Chunks[e.file])'
<1>1. /\ e.file \in File /\ e.index \in Nat /\ e.index < next[e.file]
      /\ Behind(e.file, e.index)'
  BY ChunkRead
<1>2. next[e.file] \in Nat /\ Chunks[e.file] \in Nat /\ next[e.file] <= Chunks[e.file]
  BY <1>1, Known
<1>3. next[e.file] = Chunks[e.file] /\ 0 < Chunks[e.file]
  BY <1>1, <1>2
<1>4. ASSUME NEW t \in Side, NEW d \in ToSet(pipe'[t]), d.type = "chunk", d.file = e.file
      PROVE  FALSE
  <2>1. d \in Frame /\ Addressed(t, d)
    BY <1>4, FrameRead, Known
  <2>2. d.index \in Nat /\ d.index < Chunks[e.file]
    BY <1>2, <1>3, <1>4, <2>1, Shapes DEF Addressed, ChunkFrame
  <2>3. e.index < d.index
    BY <1>1, <1>4 DEF Behind
  <2> QED
    BY <1>1, <1>2, <2>2, <2>3
<1> QED
  BY <1>3, <1>4 DEF Behind

LEMMA PumpSteady ==
  ASSUME Types, TransferInv, NEW s \in Side,
         \/ PumpSends(s) \/ PumpSendFails(s) \/ handleOffer(s) \/ ChunkFails(s) \/ FinalizeFails(s)
         \/ HandleReply(s) \/ HandlePing(s) \/ SendPing(s) \/ LoseFrame(s)
  PROVE  TransferInv'
<1> USE DEF senderVars, waiterVars, diskVars, envVars
<1>0. /\ sender \in [File -> SenderStates] /\ parts \in [File -> PartFile]
      /\ mail \in [File -> ReplyFrame \cup {None}] /\ pending \in [File -> SUBSET ReplyFrame]
      /\ WireTypes /\ Other(s) \in Side /\ Other(s) # s
      /\ \A e \in ReplyFrame : Heard(e) => Justified(e)
  BY Known, Sides DEF TransferInv
<1>1. UNCHANGED <<sender, next>>
  BY DEF PumpSends, PumpSendFails, handleOffer, ChunkFails, FinalizeFails, HandleReply, HandlePing,
     SendPing, LoseFrame
<1>2. ASSUME saved' = saved PROVE \A f \in File : Stored(f)' <=> Stored(f)
  BY <1>2 DEF Stored, Whole
<1>3. \A f \in File : sender'[f] = sender[f] \/ Moves(f)
  BY <1>1
<1>4. CASE PumpSends(s)
  <2>1. UNCHANGED <<parts, saved, mail, pending>> /\ outbox' = [outbox EXCEPT ![s] = <<>>]
        /\ outbox[s] # <<>> /\ Write(Other(s), Head(outbox[s]))
    BY <1>4 DEF PumpSends
  <2> PICK a \in Frame : /\ a = Head(outbox[s])
                        /\ a \in ReplyFrame \cup {Pong} /\ a \in ToSet(outbox[s])
    BY <1>0, <2>1, Outgoing
  <2>2. a.type # "chunk" /\ (a.type = "abort" => From[a.file] # s /\ a.file \in File)
    BY <1>0, ReplyShapes, PingShapes, Shapes DEF WireTypes, Replies
  <2>3. a.type = "abort" => From[a.file] = Other(s)
    BY <2>2, Sides
  <2>4. NoNewChunk
    BY <1>0, <2>1, <2>2, <2>3, NonChunkWritten
  <2>5. /\ \A t \in Side : ToSet(pipe'[t]) \subseteq ToSet(pipe[t]) \cup {a}
        /\ \A t \in Side : ToSet(outbox'[t]) \subseteq ToSet(outbox[t])
    BY <1>0, <2>1, Wrote, Emptied DEF WireTypes
  <2>6. \A e \in ReplyFrame : Heard(e)' => Heard(e)
    BY <2>1, <2>5 DEF Heard
  <2> QED
    BY <1>1, <1>2, <1>3, <2>1, <2>4, <2>6, Steady
<1>5. CASE PumpSendFails(s)
  <2> DEFINE a == Head(outbox[s])
  <2>1. /\ UNCHANGED <<saved, mail, pending, pipe>> /\ outbox' = [outbox EXCEPT ![s] = <<>>]
        /\ outbox[s] # <<>>
        /\ parts' = IF a.type = "done" /\ a.ok THEN [parts EXCEPT ![a.file] = NoPart] ELSE parts
    BY <1>5 DEF PumpSendFails
  <2>2. a \in ReplyFrame \cup {Pong} /\ a \in ToSet(outbox[s])
    BY <1>0, <2>1, Outgoing
  <2> HIDE DEF a
  <2>3. NoNewChunk
    BY <2>1, SamePipes
  <2>4. \A t \in Side : ToSet(outbox'[t]) \subseteq ToSet(outbox[t])
    BY <1>0, <2>1, Emptied
  <2>5. \A e \in ReplyFrame : Heard(e)' => Heard(e)
    BY <2>1, <2>4 DEF Heard
  <2>6. ASSUME NEW f \in File, parts'[f] # parts[f]
        PROVE  parts'[f].hash = <<>> /\ Over(f)
    <3>1. a.type = "done" /\ a.ok /\ parts' = [parts EXCEPT ![a.file] = NoPart]
      BY <2>1, <2>6
    <3>2. a \in ReplyFrame
      BY <2>2, <3>1, PingShapes
    <3>3. a.file = f /\ parts'[f] = NoPart
      BY <1>0, <2>6, <3>1
    <3>4. Stored(f)
      BY <1>0, <2>2, <3>1, <3>2, <3>3 DEF Heard, Justified
    <3>5. 0 < Chunks[f] /\ next[f] = Chunks[f] /\ Behind(f, Chunks[f])
      BY <3>4, Known DEF Progress
    <3>6. Behind(f, Chunks[f])'
      BY <2>1, <3>5 DEF Behind
    <3> QED
      BY <3>3, <3>5, <3>6, NoPartTyped DEF Over
  <2> QED
    BY <1>1, <1>2, <1>3, <2>1, <2>3, <2>5, <2>6, Steady
<1>6. CASE handleOffer(s)
  <2> DEFINE f == Head(pipe[s]).file
             new == [have |-> {}, hash |-> <<>>]
  <2>1. /\ Reads(s, "offer") /\ UNCHANGED <<saved, mail, pending>>
        /\ \/ parts' = [parts EXCEPT ![f] = new] /\ Reply(s, Accept(f))
           \/ parts' = parts /\ Reply(s, Abort(f))
    BY <1>6 DEF handleOffer
  <2>2. NoNewChunk
    BY <2>1, FrameRead
  <2>3. f \in File
    BY <2>1, FrameRead, Shapes
  <2>4. new # NoPart /\ new.hash = <<>>
    BY NoPartTyped
  <2> HIDE DEF f, new
  <2>5. CASE parts' = [parts EXCEPT ![f] = new] /\ Reply(s, Accept(f))
    <3>1. \A g \in File : parts'[g] = parts[g] \/ parts'[g] = new
      BY <1>0, <2>5
    <3>2. Accept(f) \in ReplyFrame /\ Accept(f).type = "accept" /\ Accept(f).file = f
      BY <2>3, OtherShapes
    <3>3. parts'[f] = new
      BY <1>0, <2>3, <2>5
    <3>4. \A e : e = Accept(f) => Justified(e)'
      BY <2>4, <3>2, <3>3 DEF Justified
    <3>5. \A e \in ReplyFrame : Heard(e)' => Heard(e) \/ Justified(e)'
      BY <2>1, <2>5, <3>2, <3>4, HeardOrAnswer
    <3> QED
      BY <1>1, <1>2, <1>3, <2>1, <2>2, <2>4, <3>1, <3>5, Steady
  <2>6. CASE parts' = parts /\ Reply(s, Abort(f))
    <3>1. Abort(f) \in ReplyFrame /\ Abort(f).type = "abort"
      BY <2>3, OtherShapes
    <3>2. \A e : e = Abort(f) => Justified(e)'
      BY <3>1 DEF Justified
    <3>3. \A e \in ReplyFrame : Heard(e)' => Heard(e) \/ Justified(e)'
      BY <2>1, <2>6, <3>1, <3>2, HeardOrAnswer
    <3> QED
      BY <1>1, <1>2, <1>3, <2>1, <2>2, <2>6, <3>3, Steady
  <2> QED
    BY <2>1, <2>5, <2>6
<1>7. ASSUME NEW f \in File, Reads(s, "chunk"), Reply(s, Done(f, FALSE)),
             UNCHANGED <<mail, pending>>, Missed(f)', ~Stored(f)'
      PROVE  \A e \in ReplyFrame : Heard(e)' => Heard(e) \/ Justified(e)'
  <2>1. Done(f, FALSE) \in ReplyFrame /\ Done(f, FALSE).type = "done" /\ Done(f, FALSE).file = f
        /\ ~Done(f, FALSE).ok
    BY OtherShapes
  <2>2. \A e : e = Done(f, FALSE) => Justified(e)'
    BY <1>7, <2>1 DEF Justified
  <2> QED
    BY <1>7, <2>1, <2>2, HeardOrAnswer
<1>8. CASE ChunkFails(s)
  <2>1. PICK e : e = Head(pipe[s])
    OBVIOUS
  <2>2. /\ Reads(s, "chunk") /\ UNCHANGED <<parts, saved, mail, pending>>
        /\ Reply(s, Done(e.file, FALSE))
    BY <1>8, <2>1 DEF ChunkFails
  <2>3. /\ e.file \in File /\ e.index \in Nat /\ e.index < next[e.file]
        /\ Behind(e.file, e.index)' /\ ~Stored(e.file)
        /\ \A k \in DOMAIN parts[e.file].hash : parts[e.file].hash[k][1] < e.index
    BY <2>1, <2>2, ChunkRead
  <2> PICK f \in File, i \in Nat : f = e.file /\ i = e.index
    BY <2>3
  <2>4. \A k \in DOMAIN parts[f].hash : parts[f].hash[k][1] # i
    <3> SUFFICES ASSUME NEW k \in DOMAIN parts[f].hash, parts[f].hash[k][1] = i PROVE FALSE
      OBVIOUS
    <3>1. i < i
      BY <2>3
    <3> QED
      BY <3>1
  <2>5. Missed(f)'
    BY <1>1, <2>2, <2>3, <2>4 DEF Missed
  <2>6. ~Stored(f)'
    BY <1>2, <2>2, <2>3
  <2>7. NoNewChunk
    BY <2>2, FrameRead
  <2> QED
    BY <1>1, <1>2, <1>3, <1>7, <2>2, <2>5, <2>6, <2>7, Steady
<1>9. CASE FinalizeFails(s)
  <2>1. PICK e : e = Head(pipe[s])
    OBVIOUS
  <2>2. /\ Reads(s, "chunk") /\ UNCHANGED <<mail, pending>> /\ Reply(s, Done(e.file, FALSE))
        /\ parts' = [parts EXCEPT ![e.file] = NoPart] /\ e.index = Chunks[e.file] - 1
        /\ saved' = saved \/ saved' = saved \cup {<<e.file, <<>>>>}
    BY <1>9, <2>1 DEF FinalizeFails
  <2>3. /\ e.file \in File /\ e.index \in Nat /\ e.index < next[e.file]
        /\ Behind(e.file, e.index)' /\ ~Stored(e.file)
    BY <2>1, <2>2, ChunkRead
  <2>4. next[e.file] = Chunks[e.file] /\ 0 < Chunks[e.file] /\ Behind(e.file, Chunks[e.file])'
    BY <2>1, <2>2, LastRead
  <2> PICK f \in File, i \in Nat : f = e.file /\ i = e.index
    BY <2>3
  <2>5. parts'[f] = NoPart /\ parts'[f].hash = <<>> /\ \A g \in File : g # f => parts'[g] = parts[g]
    BY <1>0, <2>2, NoPartTyped
  <2>6. Missed(f)'
    BY <1>1, <2>3, <2>5 DEF Missed
  <2>7. \A g \in File : Stored(g)' <=> Stored(g)
    <3>1. \A g \in File : <<g, Whole(g)>> # <<f, <<>>>>
      <4> SUFFICES Whole(f) # <<>>
        OBVIOUS
      <4>1. 1 \in DOMAIN Whole(f)
        BY <2>4, Sides DEF Whole
      <4> QED
        BY <4>1
    <3> QED
      BY <2>2, <3>1 DEF Stored, Whole
  <2>8. Over(f)
    BY <2>4 DEF Over
  <2>9. NoNewChunk
    BY <2>2, FrameRead
  <2>10. \A d \in ReplyFrame : Heard(d)' => Heard(d) \/ Justified(d)'
    BY <1>7, <2>2, <2>3, <2>6, <2>7
  <2> QED
    BY <1>1, <1>3, <2>5, <2>7, <2>8, <2>9, <2>10, Steady
<1>10. CASE HandleReply(s)
  <2>a. PICK a, f : a = Head(pipe[s]) /\ f = a.file
    OBVIOUS
  <2>0. /\ a = Head(pipe[s]) /\ f = a.file /\ \E type \in Replies : Reads(s, type)
        /\ \/ /\ sender[f] \in Waiting /\ WantOf(sender[f]) = a.type /\ From[f] = s
              /\ mail' = [mail EXCEPT ![f] = IF @ = None THEN a ELSE @]
              /\ pending' = pending
           \/ /\ ~(sender[f] \in Waiting /\ WantOf(sender[f]) = a.type /\ From[f] = s)
              /\ pending' = [pending EXCEPT ![f] = {x \in @ : x.type # a.type} \cup {a}]
              /\ mail' = mail
        /\ parts' = IF a.type = "abort" /\ From[f] # s THEN [parts EXCEPT ![f] = NoPart] ELSE parts
        /\ UNCHANGED <<sender, next, changed, saved, outbox, pings, lost, faults>>
    BY <1>10, <2>a, ReplyHandled
  <2> PICK type \in Replies : Reads(s, type)
    BY <2>0
  <2>1. /\ UNCHANGED <<saved, outbox>>
        /\ parts' = IF a.type = "abort" /\ From[f] # s THEN [parts EXCEPT ![f] = NoPart] ELSE parts
        /\ \/ mail' = [mail EXCEPT ![f] = IF @ = None THEN a ELSE @] /\ pending' = pending
           \/ /\ pending' = [pending EXCEPT ![f] = {x \in @ : x.type # a.type} \cup {a}]
              /\ mail' = mail
    BY <2>0
  <2>2. /\ NoNewChunk /\ a \in ToSet(pipe[s]) /\ a.type = type /\ f \in File
        /\ \A t \in Side : ToSet(pipe'[t]) \subseteq ToSet(pipe[t])
    BY <2>0, FrameRead, Shapes DEF Replies
  <2>3. ASSUME a.type = "abort", From[f] # s PROVE Over(f)
    <3>1. sender[f] = "withdrawn"
      BY <2>0, <2>2, <2>3 DEF TransferInv, Piped
    <3>2. \A t \in Side : \A d \in ToSet(pipe'[t]) : ~(d.type = "chunk" /\ d.file = f)
      BY <2>0, <2>2, <2>3, HeadRead
    <3> QED
      BY <1>1, <3>1, <3>2 DEF Over, Behind
  <2>4. \A g \in File : mail'[g] \in {mail[g], a} /\ pending'[g] \subseteq pending[g] \cup {a}
    BY <1>0, <2>1, <2>2
  <2>5. \A e \in ReplyFrame : Heard(e)' => Heard(e)
    <3> SUFFICES ASSUME NEW e \in ReplyFrame, Heard(e)' PROVE Heard(e)
      OBVIOUS
    <3>1. CASE \E t \in Side : e \in ToSet(pipe'[t]) \/ e \in ToSet(outbox'[t])
      BY <2>1, <2>2, <3>1 DEF Heard
    <3>2. CASE \E g \in File : e \in pending'[g] \/ e = mail'[g]
      BY <2>2, <2>4, <3>2 DEF Heard
    <3> QED
      BY <3>1, <3>2 DEF Heard
  <2>6. \A g \in File : parts'[g] = parts[g] \/ (parts'[g].hash = <<>> /\ Over(g))
    <3>1. CASE a.type = "abort" /\ From[f] # s
      BY <1>0, <2>1, <2>2, <2>3, <3>1, NoPartTyped
    <3>2. CASE ~(a.type = "abort" /\ From[f] # s)
      BY <2>1, <3>2
    <3> QED
      BY <3>1, <3>2
  <2> QED
    BY <1>1, <1>2, <1>3, <2>1, <2>2, <2>5, <2>6, Steady
<1>11. CASE HandlePing(s)
  <2>1. UNCHANGED <<parts, saved, mail, pending>>
    BY <1>11 DEF HandlePing
  <2>2. CASE Reads(s, "ping") /\ Reply(s, Pong)
    <3>1. NoNewChunk
      BY <2>2, FrameRead
    <3>2. \A e \in ReplyFrame : Heard(e)' => Heard(e)
      BY <2>1, <2>2, HeardOrAnswer, PingShapes
    <3> QED
      BY <1>1, <1>2, <1>3, <2>1, <3>1, <3>2, Steady
  <2>3. CASE Reads(s, "pong") /\ UNCHANGED outbox
    <3>1. NoNewChunk /\ \A t \in Side : ToSet(pipe'[t]) \subseteq ToSet(pipe[t])
      BY <2>3, FrameRead
    <3>2. \A e \in ReplyFrame : Heard(e)' => Heard(e)
      BY <2>1, <2>3, <3>1, HeardBefore
    <3> QED
      BY <1>1, <1>2, <1>3, <2>1, <3>1, <3>2, Steady
  <2> QED
    BY <1>11, <2>2, <2>3 DEF HandlePing
<1>12. CASE SendPing(s)
  <2>1. UNCHANGED <<parts, saved, mail, pending, outbox>> /\ Write(Other(s), Ping)
    BY <1>12 DEF SendPing
  <2>2. NoNewChunk
    BY <1>0, <2>1, PingShapes, NonChunkWritten
  <2>3. \A t \in Side : ToSet(pipe'[t]) \subseteq ToSet(pipe[t]) \cup {Ping}
    BY <1>0, <2>1, Wrote, PingShapes DEF WireTypes
  <2>4. \A e \in ReplyFrame : Heard(e)' => Heard(e)
    <3>1. Ping \notin ReplyFrame
      BY PingShapes, ReplyShapes DEF Replies
    <3> QED
      BY <2>1, <2>3, <3>1 DEF Heard
  <2> QED
    BY <1>1, <1>2, <1>3, <2>1, <2>2, <2>4, Steady
<1>13. CASE LoseFrame(s)
  <2>1. UNCHANGED <<parts, saved, mail, pending, outbox>>
    BY <1>13 DEF LoseFrame
  <2>2. NoNewChunk /\ \A t \in Side : ToSet(pipe'[t]) \subseteq ToSet(pipe[t])
    BY <1>13, FrameCut
  <2>3. \A e \in ReplyFrame : Heard(e)' => Heard(e)
    BY <2>1, <2>2, HeardBefore
  <2> QED
    BY <1>1, <1>2, <1>3, <2>1, <2>2, <2>3, Steady
<1> QED
  BY <1>4, <1>5, <1>6, <1>8, <1>9, <1>10, <1>11, <1>12, <1>13

-----------------------------------------------------------------------------
(* Chunks are sent and stored *)

LEMMA ChunkSent ==
  ASSUME Types, TransferInv, NEW f \in File, SendChunk(f)
  PROVE  TransferInv'
<1> USE DEF senderVars, waiterVars, diskVars, envVars
<1>0. /\ next \in [File -> Nat] /\ next[f] \in Nat /\ Chunks[f] \in Nat /\ next[f] < Chunks[f]
      /\ next' = [next EXCEPT ![f] = next[f] + 1]
      /\ sender[f] = "stream" /\ UNCHANGED <<sender, mail, pending, parts, saved, outbox>>
      /\ pipe \in [Side -> Seq(Frame)] /\ To(f) \in Side /\ From[f] # To(f)
      /\ \A g \in File : Progress(g)
      /\ \A s \in Side : Ordered(pipe[s])
      /\ \A s \in Side : \A e \in ToSet(pipe[s]) : e \in Frame /\ Addressed(s, e)
  BY Known, Sides DEF SendChunk
<1> PICK c \in Frame : /\ c = Chunk(f, next[f]) /\ c \in ChunkFrame
                      /\ c.type = "chunk" /\ c.file = f /\ c.index = next[f]
  BY <1>0, ChunkShapes
<1> PICK s \in Side : s = To(f)
  BY <1>0
<1>1. /\ pipe'[s] = Append(pipe[s], c) /\ pipe[s] \in Seq(Frame)
      /\ ToSet(pipe'[s]) = ToSet(pipe[s]) \cup {c}
      /\ \A t \in Side : t # s => pipe'[t] = pipe[t]
      /\ \A t \in Side : ToSet(pipe'[t]) \subseteq ToSet(pipe[t]) \cup {c}
  BY <1>0, Wrote DEF SendChunk
<1>2. next'[f] = next[f] + 1 /\ \A g \in File : g # f => next'[g] = next[g]
  BY <1>0
<1>3. parts[f] # NoPart
  BY <1>0 DEF Progress
<1>4. ASSUME NEW e \in ToSet(pipe[s]), e.type \in {"chunk", "abort"}, e.file = f
      PROVE  e.type = "chunk" /\ e.index < next[f]
  <2>1. e.type # "abort"
    BY <1>0, <1>4 DEF TransferInv, Piped
  <2> QED
    BY <1>0, <1>4, <2>1 DEF Addressed
<1>5. Ordered(pipe'[s])
  <2> DEFINE q == pipe[s]
             r == pipe'[s]
  <2>1. /\ DOMAIN q = 1..Len(q) /\ Len(q) \in Nat /\ DOMAIN r = 1..(Len(q) + 1)
        /\ \A i \in 1..Len(q) : r[i] = q[i]
        /\ r[Len(q) + 1] = c
    BY <1>1, Queued
  <2>2. Ordered(q)
    BY <1>0
  <2>3. \A i \in DOMAIN q : q[i] \in ToSet(pipe[s])
    BY DEF ToSet
  <2> HIDE DEF q, r
  <2> SUFFICES ASSUME NEW i \in DOMAIN r, NEW j \in DOMAIN r, i < j, r[j].type = "chunk",
                      r[i].type \in {"chunk", "abort"}, r[i].file = r[j].file
               PROVE  r[i].type = "chunk" /\ r[i].index < r[j].index
    BY DEF Ordered, r
  <2>4. i \in 1..Len(q) /\ r[i] = q[i]
    BY <2>1
  <2>5. CASE j = Len(q) + 1
    BY <1>4, <2>1, <2>3, <2>4, <2>5
  <2>6. CASE j \in 1..Len(q)
    BY <2>1, <2>2, <2>4, <2>6 DEF Ordered
  <2> QED
    BY <2>1, <2>5, <2>6
<1>6. Piped'
  <2>1. \A t \in Side : Ordered(pipe'[t])
    BY <1>0, <1>1, <1>5
  <2>2. ASSUME NEW t \in Side, NEW e \in ToSet(pipe'[t])
        PROVE  /\ e.type = "chunk" => parts'[e.file] # NoPart
               /\ e.type = "abort" /\ From[e.file] # t => sender'[e.file] = "withdrawn"
    <3>1. CASE e \in ToSet(pipe[t])
      BY <1>0, <3>1 DEF TransferInv, Piped
    <3>2. CASE e = c
      BY <1>0, <1>3, <3>2
    <3> QED
      BY <1>1, <2>2, <3>1, <3>2
  <2> QED
    BY <2>1, <2>2 DEF Piped
<1>7. ASSUME NEW g \in File, NEW i \in Nat, i < next[g], Behind(g, i) PROVE Behind(g, i)'
  BY <1>1, <1>7 DEF Behind
<1>8. ASSUME NEW g \in File, NEW i \in Nat, g # f, Behind(g, i) PROVE Behind(g, i)'
  BY <1>1, <1>8 DEF Behind
<1>9. ASSUME NEW g \in File, Missed(g) PROVE Missed(g)'
  <2> PICK i \in Nat : /\ i < next[g] /\ Behind(g, i)
                      /\ \A k \in DOMAIN parts[g].hash : parts[g].hash[k][1] # i
    BY <1>9 DEF Missed
  <2>1. i < next'[g]
    BY <1>0, <1>2
  <2> QED
    BY <1>0, <1>7, <2>1 DEF Missed
<1>10. ASSUME NEW g \in File PROVE Stored(g)' <=> Stored(g)
  BY <1>0 DEF Stored, Whole
<1>11. ~Stored(f)
  BY <1>0 DEF Progress
<1>12. ASSUME NEW g \in File PROVE Progress(g)'
  <2>1. Kept(g)'
    <3>1. Kept(g) /\ parts'[g] = parts[g]
      BY <1>0 DEF Progress
    <3>2. CASE g # f
      BY <1>1, <1>2, <3>1, <3>2 DEF Kept
    <3>3. CASE g = f
      <4> SUFFICES ASSUME NEW k \in DOMAIN parts[f].hash
                   PROVE  /\ parts[f].hash[k][1] < next'[f]
                          /\ \A t \in Side : \A e \in ToSet(pipe'[t]) :
                               e.type = "chunk" /\ e.file = f => parts[f].hash[k][1] < e.index
        BY <1>0, <3>3 DEF Kept
      <4>1. /\ parts[f].hash[k][1] < next[f]
            /\ \A t \in Side : \A e \in ToSet(pipe[t]) :
                 e.type = "chunk" /\ e.file = f => parts[f].hash[k][1] < e.index
        BY <3>1, <3>3 DEF Kept
      <4>2. parts[f].hash[k][1] \in Nat
        <5>1. parts[f].hash \in Seq(Nat \X Version)
          BY Known DEF PartFile, Content
        <5>2. parts[f].hash[k] \in Nat \X Version
          BY <5>1
        <5> QED
          BY <5>2
      <4>3. parts[f].hash[k][1] < next'[f]
        BY <1>0, <1>2, <4>1, <4>2
      <4> QED
        BY <1>1, <4>1, <4>3
    <3> QED
      BY <3>2, <3>3
  <2>2. CASE g = f
    BY <1>0, <1>3, <1>10, <1>11, <2>1, <2>2 DEF Progress, Early
  <2>3. CASE g # f
    <3>1. Progress(g) /\ Chunks[g] \in Nat
      BY <1>0, Known
    <3>2. Stored(g)' => 0 < Chunks[g] /\ next'[g] = Chunks[g] /\ Behind(g, Chunks[g])'
      BY <1>2, <1>8, <1>10, <2>3, <3>1 DEF Progress
    <3>3. sender'[g] = "refused" => Missed(g)' /\ ~Stored(g)'
      BY <1>0, <1>9, <1>10, <3>1 DEF Progress
    <3> QED
      BY <1>0, <1>2, <1>10, <2>1, <2>3, <3>1, <3>2, <3>3 DEF Progress
  <2> QED
    BY <2>2, <2>3
<1>13. ASSUME NEW e \in ReplyFrame, Heard(e)' PROVE Justified(e)'
  <2>1. e # c
    BY ReplyShapes
  <2>2. Heard(e)
    BY <1>0, <1>1, <1>13, <2>1 DEF Heard
  <2>3. Justified(e) /\ e.file \in File
    BY <2>2, ReplyShapes DEF TransferInv
  <2> QED
    BY <1>0, <1>9, <1>10, <2>3 DEF Justified
<1> QED
  BY <1>6, <1>12, <1>13 DEF TransferInv

\* A chunk is added to its part, which was not missing it.
LEMMA ChunkWritten ==
  ASSUME Types, TransferInv, NEW s \in Side, Reads(s, "chunk"),
         NEW e, e = Head(pipe[s])
  PROVE  /\ \E h : /\ h = parts[e.file].hash
                   /\ DOMAIN h = 1..Len(h) /\ Len(h) \in Nat
                   /\ DOMAIN Written(e).hash = 1..(Len(h) + 1)
                   /\ \A k \in 1..Len(h) : Written(e).hash[k] = h[k]
                   /\ Written(e).hash[Len(h) + 1] = <<e.index, e.version>>
         /\ Written(e) # NoPart
         /\ Written(e).hash = Whole(e.file) => ~Missed(e.file)
<1>0. PICK h : h = parts[e.file].hash
  OBVIOUS
<1>1. /\ e \in ChunkFrame /\ e.file \in File /\ e.index \in Nat /\ e.index < next[e.file]
      /\ parts[e.file] # NoPart
      /\ \A i : Behind(e.file, i) => i < e.index
  BY ChunkRead
<1>2. PICK f \in File, i \in Nat, v \in Version : f = e.file /\ i = e.index /\ v = e.version
  BY <1>1 DEF ChunkFrame
<1>3. next[f] \in Nat /\ Chunks[f] \in Nat /\ next[f] <= Chunks[f]
  BY Known
<1>4. /\ Written(e) # NoPart /\ Written(e).hash = Append(h, <<i, v>>)
      /\ h \in Seq(Nat \X Version)
  <2>1. /\ Written(e) # NoPart /\ parts[e.file].hash \in Content
        /\ Written(e).hash = Append(parts[e.file].hash, <<e.index, e.version>>)
    BY <1>1, PartGrows, ZenonT(30)
  <2> QED
    BY <1>0, <1>2, <2>1, ZenonT(30) DEF Content
<1>5. PICK x \in Nat \X Version : x = <<i, v>>
  BY <1>2
<1>6. /\ DOMAIN h = 1..Len(h) /\ Len(h) \in Nat
      /\ DOMAIN Written(e).hash = 1..(Len(h) + 1)
      /\ \A k \in 1..Len(h) : Written(e).hash[k] = h[k]
      /\ Written(e).hash[Len(h) + 1] = x
  <2>1. h \in Seq(Nat \X Version) /\ Written(e).hash = Append(h, x)
    BY <1>4, <1>5
  <2> QED
    BY <2>1, Queued
<1>7. ASSUME Written(e).hash = Whole(f) PROVE ~Missed(f)
  <2> SUFFICES ASSUME Missed(f) PROVE FALSE
    OBVIOUS
  <2>0. PICK j \in Nat : /\ j < next[f] /\ Behind(f, j)
                         /\ \A k \in DOMAIN h : h[k][1] # j
    BY <1>0, <1>2 DEF Missed
  <2>1. j < i
    BY <1>1, <1>2, <2>0
  <2>2. j + 1 \in 1..Chunks[f]
    BY <1>3, <2>0
  <2>3. Whole(f)[j + 1] = <<(j + 1) - 1, "old">> /\ j + 1 \in DOMAIN Whole(f)
    BY <2>2 DEF Whole
  <2>4. Whole(f)[j + 1][1] = j
    BY <2>3
  <2>5. CASE j + 1 \in 1..Len(h)
    BY <1>6, <1>7, <2>0, <2>4, <2>5
  <2>6. CASE j + 1 = Len(h) + 1
    <3>1. Whole(f)[j + 1] = <<i, v>>
      BY <1>5, <1>6, <1>7, <2>6
    <3>2. i = j
      BY <2>4, <3>1
    <3> QED
      BY <2>0, <2>1, <3>2
  <2>7. j + 1 \in 1..(Len(h) + 1)
    BY <1>6, <1>7, <2>3
  <2>8. j + 1 \in 1..Len(h) \/ j + 1 = Len(h) + 1
    BY <1>6, <2>0, <2>7
  <2> QED
    BY <2>5, <2>6, <2>8
<1>8. Written(e).hash[Len(h) + 1] = <<e.index, e.version>>
  BY <1>2, <1>5, <1>6
<1>9. Written(e).hash = Whole(e.file) => ~Missed(e.file)
  BY <1>2, <1>7
<1> QED
  BY <1>0, <1>4, <1>6, <1>8, <1>9, ZenonT(30)

\* A chunk is written to its part; with the last one finalize may save the file.
LEMMA ChunkStored ==
  ASSUME Types, TransferInv, NEW s \in Side, StoreChunk(s) \/ FinalizeOk(s)
  PROVE  TransferInv'
<1> USE DEF senderVars, waiterVars, diskVars, envVars
<1>0. PICK e : e = Head(pipe[s])
  OBVIOUS
<1>1. /\ Reads(s, "chunk") /\ UNCHANGED <<sender, next, mail, pending>>
      /\ parts' = [parts EXCEPT ![e.file] = Written(e)]
      /\ \/ saved' = saved /\ outbox' = outbox
         \/ /\ e.index = Chunks[e.file] - 1
            /\ Written(e).hash = Whole(e.file)
            /\ saved' = saved \cup {<<e.file, Written(e).hash>>}
            /\ Reply(s, Done(e.file, TRUE))
  BY <1>0 DEF StoreChunk, FinalizeOk, Complete
<1>2. /\ e \in ChunkFrame /\ e.file \in File /\ e.index \in Nat /\ e.index < next[e.file]
      /\ parts[e.file] # NoPart
      /\ Behind(e.file, e.index)'
      /\ \A i : Behind(e.file, i) => i < e.index
      /\ \A k \in DOMAIN parts[e.file].hash : parts[e.file].hash[k][1] < e.index
      /\ ~Stored(e.file)
  BY <1>0, <1>1, ChunkRead
<1>3. e.index = Chunks[e.file] - 1 =>
        next[e.file] = Chunks[e.file] /\ 0 < Chunks[e.file] /\ Behind(e.file, Chunks[e.file])'
  BY <1>0, <1>1, LastRead
<1> PICK f \in File, i \in Nat, v \in Version : f = e.file /\ i = e.index /\ v = e.version
  BY <1>2 DEF ChunkFrame
<1>4. /\ NoNewChunk
      /\ \A t \in Side : ToSet(pipe'[t]) \subseteq ToSet(pipe[t])
  BY <1>1, FrameRead
<1>5. /\ parts \in [File -> PartFile] /\ \A g \in File : Progress(g)
      /\ \A g \in File : next[g] \in Nat /\ Chunks[g] \in Nat /\ next[g] <= Chunks[g]
  BY Known
<1>6. PICK h : /\ h = parts[e.file].hash
               /\ DOMAIN h = 1..Len(h) /\ Len(h) \in Nat
               /\ DOMAIN Written(e).hash = 1..(Len(h) + 1)
               /\ \A k \in 1..Len(h) : Written(e).hash[k] = h[k]
               /\ Written(e).hash[Len(h) + 1] = <<e.index, e.version>>
  BY <1>0, <1>1, ChunkWritten
<1>7. /\ Written(e) # NoPart /\ h = parts[f].hash
      /\ Written(e).hash = Whole(f) => ~Missed(f)
  <2>1. Written(e) # NoPart /\ (Written(e).hash = Whole(e.file) => ~Missed(e.file))
    BY <1>0, <1>1, ChunkWritten
  <2> QED
    BY <1>6, <2>1
<1>8. parts'[f] = Written(e) /\ \A g \in File : g # f => parts'[g] = parts[g]
  BY <1>1, <1>2, <1>5
<1>9. \A g \in File : parts[g] # NoPart => parts'[g] # NoPart
  BY <1>7, <1>8
<1>10. \A k \in DOMAIN parts'[f].hash :
        \/ k \in DOMAIN h /\ parts'[f].hash[k] = h[k]
        \/ k = Len(h) + 1 /\ parts'[f].hash[k] = <<i, v>>
  <2>1. \A k \in 1..(Len(h) + 1) : k \in 1..Len(h) \/ k = Len(h) + 1
    BY <1>6
  <2> QED
    BY <1>6, <1>8, <2>1
<1>11. ASSUME NEW g \in File, NEW j, Behind(g, j) PROVE Behind(g, j)'
  BY <1>4, <1>11 DEF Behind
<1>12. ASSUME NEW g \in File, Missed(g) PROVE Missed(g)'
  <2>1. CASE g # f
    BY <1>1, <1>8, <1>11, <1>12, <2>1 DEF Missed
  <2>2. CASE g = f
    <3> PICK j \in Nat : /\ j < next[f] /\ Behind(f, j)
                        /\ \A k \in DOMAIN h : h[k][1] # j
      BY <1>7, <1>12, <2>2 DEF Missed
    <3>1. j < i
      BY <1>2
    <3>2. \A k \in DOMAIN parts'[f].hash : parts'[f].hash[k][1] # j
      <4> SUFFICES ASSUME NEW k \in DOMAIN parts'[f].hash, parts'[f].hash[k][1] = j PROVE FALSE
        OBVIOUS
      <4>1. CASE k \in DOMAIN h /\ parts'[f].hash[k] = h[k]
        BY <4>1
      <4>2. CASE parts'[f].hash[k] = <<i, v>>
        BY <3>1, <4>2
      <4> QED
        BY <1>10, <4>1, <4>2
    <3> QED
      BY <1>1, <1>11, <2>2, <3>2 DEF Missed
  <2> QED
    BY <2>1, <2>2
<1>13. \A g \in File : \/ Stored(g)' <=> Stored(g)
                       \/ /\ g = f /\ Stored(f)' /\ ~Missed(f) /\ i = Chunks[f] - 1
  <2>1. CASE saved' = saved
    BY <2>1 DEF Stored, Whole
  <2>2. CASE /\ i = Chunks[f] - 1 /\ Written(e).hash = Whole(f)
             /\ saved' = saved \cup {<<f, Written(e).hash>>}
    <3>1. saved' = saved \cup {<<f, Whole(f)>>} /\ ~Missed(f)
      BY <1>7, <2>2
    <3>2. Stored(f)' /\ \A g \in File : g # f => (Stored(g)' <=> Stored(g))
      BY <3>1 DEF Stored, Whole
    <3> QED
      BY <2>2, <3>1, <3>2
  <2> QED
    BY <1>1, <2>1, <2>2
<1>14. Piped'
  <2>1. ASSUME NEW t \in Side, NEW d \in ToSet(pipe'[t])
        PROVE  /\ d.type = "chunk" => parts'[d.file] # NoPart
               /\ d.type = "abort" /\ From[d.file] # t => sender'[d.file] = "withdrawn"
    <3>1. d \in ToSet(pipe[t]) /\ d \in Frame
      BY <1>4, <2>1, Known
    <3>2. d.type = "chunk" => d.file \in File
      BY <3>1, Shapes
    <3> QED
      BY <1>1, <1>9, <3>1, <3>2 DEF TransferInv, Piped
  <2> QED
    BY <1>4, <2>1 DEF Piped, NoNewChunk
<1>15. ASSUME NEW g \in File PROVE Kept(g)'
  <2>1. Kept(g)
    BY <1>5 DEF Progress
  <2>2. CASE g # f
    BY <1>1, <1>4, <1>8, <2>1, <2>2 DEF Kept
  <2>3. CASE g = f
    <3> SUFFICES ASSUME NEW k \in DOMAIN parts'[f].hash
                 PROVE  /\ parts'[f].hash[k][1] < next[f]
                        /\ \A t \in Side : \A d \in ToSet(pipe'[t]) :
                             d.type = "chunk" /\ d.file = f => parts'[f].hash[k][1] < d.index
      BY <1>1, <2>3 DEF Kept
    <3>1. CASE k \in DOMAIN h /\ parts'[f].hash[k] = h[k]
      BY <1>4, <1>7, <2>1, <2>3, <3>1 DEF Kept
    <3>2. CASE parts'[f].hash[k] = <<i, v>>
      <4>1. parts'[f].hash[k][1] = i
        BY <3>2
      <4> QED
        BY <1>2, <4>1 DEF Behind
    <3> QED
      BY <1>10, <3>1, <3>2
  <2> QED
    BY <2>2, <2>3
<1>16. ASSUME NEW g \in File PROVE Progress(g)'
  <2>1. Stored(g)' => 0 < Chunks[g] /\ next'[g] = Chunks[g] /\ Behind(g, Chunks[g])'
    BY <1>1, <1>3, <1>5, <1>11, <1>13 DEF Progress
  <2>2. sender[g] = "ok" => Stored(g)'
    BY <1>5, <1>13 DEF Progress
  <2>3. sender[g] = "refused" => Missed(g)' /\ ~Stored(g)'
    BY <1>5, <1>12, <1>13 DEF Progress
  <2>4. sender[g] = "stream" /\ next[g] < Chunks[g] => parts'[g] # NoPart
    BY <1>5, <1>9 DEF Progress
  <2> QED
    BY <1>1, <1>5, <1>15, <2>1, <2>2, <2>3, <2>4 DEF Progress
<1>17. ASSUME NEW d \in ReplyFrame, Heard(d)' PROVE Justified(d)'
  <2>1. CASE Heard(d)
    <3>1. Justified(d) /\ d.file \in File
      BY <2>1, ReplyShapes DEF TransferInv
    <3>2. d.type = "accept" /\ sender'[d.file] \in Early => parts'[d.file] # NoPart
      BY <1>1, <1>9, <3>1 DEF Justified
    <3>3. d.type = "done" /\ d.ok => Stored(d.file)'
      BY <1>13, <3>1 DEF Justified
    <3>4. d.type = "done" /\ ~d.ok => Missed(d.file)' /\ ~Stored(d.file)'
      BY <1>12, <1>13, <3>1 DEF Justified
    <3> QED
      BY <3>2, <3>3, <3>4 DEF Justified
  <2>2. CASE ~Heard(d)
    <3>1. /\ Done(f, TRUE) \in ReplyFrame /\ Done(f, TRUE).type = "done"
          /\ Done(f, TRUE).file = f /\ Done(f, TRUE).ok
      BY OtherShapes
    <3>2. saved' = saved \cup {<<f, Whole(f)>>} /\ d = Done(f, TRUE)
      <4>1. CASE saved' = saved /\ outbox' = outbox
        BY <1>1, <1>4, <1>17, <2>2, <4>1, HeardBefore
      <4>2. CASE Written(e).hash = Whole(f) /\ saved' = saved \cup {<<f, Written(e).hash>>}
                 /\ Reply(s, Done(f, TRUE))
        BY <1>1, <1>17, <2>2, <3>1, <4>2, HeardOrAnswer
      <4> QED
        BY <1>1, <4>1, <4>2
    <3>3. Stored(f)'
      BY <3>2 DEF Stored, Whole
    <3> QED
      BY <3>1, <3>2, <3>3 DEF Justified
  <2> QED
    BY <2>1, <2>2
<1> QED
  BY <1>14, <1>16, <1>17 DEF TransferInv

LEMMA TransferStep == Types /\ TransferInv /\ [Next]_vars => TransferInv'
<1> SUFFICES ASSUME Types, TransferInv, [Next]_vars PROVE TransferInv'
  OBVIOUS
<1>1. CASE Lose \/ UNCHANGED vars
  <2>1. UNCHANGED <<sender, next, mail, pending, parts, saved, pipe, outbox>>
    BY <1>1 DEF Lose, vars, senderVars, waiterVars, diskVars
  <2>2. NoNewChunk
    BY <2>1, SamePipes
  <2>3. \A e \in ReplyFrame : Heard(e)' => Heard(e)
    BY <2>1 DEF Heard
  <2>4. \A f \in File : Stored(f)' <=> Stored(f)
    BY <2>1 DEF Stored, Whole
  <2> QED
    BY <2>1, <2>2, <2>3, <2>4, Steady
<1> QED
  BY <1>1, SendSteady, PumpSteady, ChunkSent, ChunkStored DEF Next, SendStep, PumpStep

LEMMA TransferInit == Init => TransferInv
<1> SUFFICES ASSUME Init PROVE TransferInv
  OBVIOUS
<1>1. /\ \A s \in Side : pipe[s] = <<>> /\ outbox[s] = <<>>
      /\ \A f \in File : /\ sender[f] = "idle" /\ next[f] = 0 /\ parts[f] = NoPart
                         /\ mail[f] = None /\ pending[f] = {}
      /\ saved = {}
  BY DEF Init
<1>2. Piped
  BY <1>1, Singles DEF Piped, Ordered
<1>3. \A f \in File : Progress(f)
  BY <1>1, NoPartTyped DEF Progress, Kept, Stored, Early
<1>4. \A e \in ReplyFrame : ~Heard(e)
  BY <1>1, Singles, ReplyShapes DEF Heard
<1> QED
  BY <1>2, <1>3, <1>4 DEF TransferInv

\* A chunk on its way finds the part it goes into: handleChunk drops none, for any
\* number of transfers in both directions, however their frames interleave.
THEOREM ChunksFindParts == Spec => []ChunkFindsPart
<1>1. Types /\ TransferInv => ChunkFindsPart
  <2> SUFFICES ASSUME Types, TransferInv, NEW s \in Side, NEW i \in DOMAIN pipe[s],
                      pipe[s][i].type = "chunk"
               PROVE  parts[pipe[s][i].file] # NoPart
    BY DEF ChunkFindsPart
  <2>1. pipe[s][i] \in ToSet(pipe[s])
    BY DEF ToSet
  <2> QED
    BY <2>1 DEF TransferInv, Piped
<1> QED
  BY <1>1, InitTyped, TypesStep, TransferInit, TransferStep, PTL DEF Spec

\* Both ends agree on the outcome of a transfer, and the receiver never changes its
\* mind: nil from Send means that the offered content is in the save directory, a
\* refusal or a withdrawal that it is not.
THEOREM EndsAgree == Spec => []Verdict
<1>1. Types /\ TransferInv => Verdict
  <2> SUFFICES ASSUME Types, TransferInv, NEW f \in File
               PROVE  /\ sender[f] = "ok" => Stored(f)
                      /\ sender[f] \in {"refused", "withdrawn"} => ~Stored(f)
    BY DEF Verdict, Stored
  <2>1. Progress(f) /\ next[f] \in Nat /\ Chunks[f] \in Nat
    BY Known
  <2> QED
    BY <2>1 DEF Progress
<1> QED
  BY <1>1, InitTyped, TypesStep, TransferInit, TransferStep, PTL DEF Spec
-----------------------------------------------------------------------------
(* FileTransfer implements FileDelivery *)

\* Whatever is in the save directory was moved there behind the last chunk.
FoundInv ==
    \A x \in saved :
        /\ x[1] \in File /\ x[2] \in {Whole(x[1]), <<>>}
        /\ 0 < Chunks[x[1]] /\ next[x[1]] = Chunks[x[1]] /\ Behind(x[1], Chunks[x[1]])

\* Only SendChunk puts a chunk into a pipe.
LEMMA ChunksComeFrom ==
  ASSUME Types, TransferInv, [Next]_vars, NEW f \in File, ~SendChunk(f), NEW i, Behind(f, i)
  PROVE  Behind(f, i)'
<1> USE DEF senderVars, waiterVars, diskVars, envVars
<1>1. WireTypes /\ pipe \in [Side -> Seq(Frame)]
  BY Known
<1>2. CASE \E g \in File :
             SendStep(g) \/ SendFile(g) \/ Withdraw(g) \/ Cancelled(g) \/ FileChanges(g)
  <2>1. PICK g \in File :
          SendStep(g) \/ SendFile(g) \/ Withdraw(g) \/ Cancelled(g) \/ FileChanges(g)
    BY <1>2
  <2>2. To(g) \in Side
    BY Sides
  <2>3. CASE SendChunk(g)
    <3>1. g # f /\ Write(To(g), Chunk(g, next[g])) /\ next[g] \in Nat
      BY <2>3, Known DEF SendChunk
    <3>2. PICK c \in Frame : c = Chunk(g, next[g]) /\ c.file = g
      BY <3>1, ChunkShapes
    <3>3. \A t \in Side : ToSet(pipe'[t]) \subseteq ToSet(pipe[t]) \cup {c}
      BY <1>1, <2>2, <3>1, <3>2, Wrote
    <3> QED
      BY <3>1, <3>2, <3>3 DEF Behind
  <2>4. CASE SendOffer(g) \/ Withdraw(g)
    <3>1. PICK c \in Frame : c.type # "chunk" /\ Write(To(g), c)
      BY <2>4, OtherShapes, ReplyShapes DEF SendOffer, Withdraw
    <3>2. \A t \in Side : ToSet(pipe'[t]) \subseteq ToSet(pipe[t]) \cup {c}
      BY <1>1, <2>2, <3>1, Wrote
    <3> QED
      BY <3>1, <3>2 DEF Behind
  <2>5. CASE pipe' = pipe
    BY <2>5 DEF Behind
  <2> QED
    BY <2>1, <2>3, <2>4, <2>5 DEF SendStep, SendFile, WaitForReply, RegisterWaiter, Replied,
       ChunksSent, SendFails, Cancelled, FileChanges
<1>3. CASE \E s \in Side : PumpStep(s) \/ SendPing(s) \/ LoseFrame(s)
  <2>1. PICK s \in Side : PumpStep(s) \/ SendPing(s) \/ LoseFrame(s)
    BY <1>3
  <2>2. CASE \A t \in Side : ToSet(pipe'[t]) \subseteq ToSet(pipe[t])
    BY <2>2 DEF Behind
  <2>3. CASE \E type : Reads(s, type)
    BY <2>2, <2>3, FrameRead
  <2>4. CASE LoseFrame(s)
    BY <2>2, <2>4, FrameCut
  <2>5. CASE \E t \in Side, c \in Frame : c.type # "chunk" /\ Write(t, c)
    <3>1. PICK t \in Side, c \in Frame : c.type # "chunk" /\ Write(t, c)
      BY <2>5
    <3>2. \A u \in Side : ToSet(pipe'[u]) \subseteq ToSet(pipe[u]) \cup {c}
      BY <1>1, <3>1, Wrote
    <3> QED
      BY <3>1, <3>2 DEF Behind
  <2>6. CASE PumpSends(s)
    <3>1. outbox[s] # <<>> /\ Write(Other(s), Head(outbox[s])) /\ Other(s) \in Side
      BY <2>6, Sides DEF PumpSends
    <3>2. PICK a \in Frame : a = Head(outbox[s]) /\ a \in ReplyFrame \cup {Pong}
      BY <1>1, <3>1, Outgoing
    <3>3. a.type # "chunk"
      BY <3>2, ReplyShapes, PingShapes DEF Replies
    <3> QED
      BY <2>5, <3>1, <3>2, <3>3
  <2>7. CASE SendPing(s)
    <3>1. Write(Other(s), Ping) /\ Other(s) \in Side /\ Ping \in Frame /\ Ping.type # "chunk"
      BY <2>7, Sides, PingShapes DEF SendPing
    <3> QED
      BY <2>5, <3>1
  <2>8. CASE PumpSendFails(s)
    BY <2>8 DEF PumpSendFails, Behind
  <2> QED
    BY <2>1, <2>3, <2>4, <2>6, <2>7, <2>8 DEF PumpStep, handleOffer, ChunkFails, StoreChunk,
       FinalizeOk, FinalizeFails, HandleReply, HandlePing
<1>4. CASE Lose \/ UNCHANGED vars
  BY <1>4 DEF Lose, vars, Behind
<1> QED
  BY <1>2, <1>3, <1>4 DEF Next

\* Which goroutines move what.
LEMMA Movers ==
  ASSUME [Next]_vars
  PROVE  \/ UNCHANGED <<sender, next, saved>>
         \/ \E f \in File : SendStep(f) \/ SendFile(f) \/ Withdraw(f) \/ Cancelled(f)
         \/ \E s \in Side : (FinalizeOk(s) \/ FinalizeFails(s)) /\ UNCHANGED <<sender, next>>
<1> USE DEF senderVars, waiterVars, diskVars, envVars
<1>1. CASE Lose \/ UNCHANGED vars
  BY <1>1 DEF Lose, vars
<1>2. CASE \E f \in File : FileChanges(f)
  BY <1>2 DEF FileChanges
<1>3. CASE \E s \in Side : PumpStep(s)
  <2>1. PICK s \in Side : PumpStep(s)
    BY <1>3
  <2>2. CASE PumpSends(s) \/ PumpSendFails(s) \/ handleOffer(s) \/ HandlePing(s)
    BY <2>2 DEF PumpSends, PumpSendFails, handleOffer, HandlePing
  <2>3. CASE ChunkFails(s) \/ StoreChunk(s) \/ HandleReply(s)
    BY <2>3 DEF ChunkFails, StoreChunk, HandleReply
  <2>4. CASE FinalizeOk(s) \/ FinalizeFails(s)
    BY <2>4, ZenonT(30) DEF FinalizeOk, FinalizeFails
  <2> QED
    BY <2>1, <2>2, <2>3, <2>4 DEF PumpStep
<1>4. CASE \E s \in Side : SendPing(s) \/ LoseFrame(s)
  BY <1>4 DEF SendPing, LoseFrame
<1> QED
  BY <1>1, <1>2, <1>3, <1>4 DEF Next

LEMMA SendMoves ==
  ASSUME NEW f \in File, SendStep(f) \/ SendFile(f) \/ Withdraw(f) \/ Cancelled(f)
  PROVE  /\ saved' = saved /\ sender[f] \notin Results
         /\ sender' = sender \/ \E state : sender' = [sender EXCEPT ![f] = state]
         /\ next' = next \/ SendChunk(f)
<1> USE DEF senderVars, diskVars, SetSender, Results
<1>1. CASE SendOffer(f) \/ WaitForReply(f) \/ RegisterWaiter(f) \/ Replied(f)
  BY <1>1 DEF SendOffer, WaitForReply, RegisterWaiter, Replied, Waiting
<1>2. CASE SendChunk(f) \/ ChunksSent(f) \/ SendFails(f)
  BY <1>2 DEF SendChunk, ChunksSent, SendFails
<1>3. CASE SendFile(f) \/ Withdraw(f) \/ Cancelled(f)
  BY <1>3 DEF SendFile, Withdraw, Cancelled, Waiting
<1> QED
  BY <1>1, <1>2, <1>3 DEF SendStep

\* finalize has saved the file, or an interrupted copy of it.
Saves(s, e, content) ==
    /\ FinalizeOk(s) \/ FinalizeFails(s)
    /\ Reads(s, "chunk") /\ e = Head(pipe[s]) /\ e.index = Chunks[e.file] - 1
    /\ Written(e).hash = Whole(e.file) /\ content \in {Whole(e.file), <<>>}
    /\ saved' = saved \cup {<<e.file, content>>}

\* A step saves a file or leaves the save directory as it is.
LEMMA SavedBy ==
  ASSUME [Next]_vars, saved' # saved
  PROVE  \E s \in Side : \E e, content : Saves(s, e, content)
<1> USE DEF senderVars, waiterVars, diskVars, envVars
<1>1. \E s \in Side : FinalizeOk(s) \/ FinalizeFails(s)
  BY Movers, SendMoves
<1>2. PICK s \in Side : FinalizeOk(s) \/ FinalizeFails(s)
  BY <1>1
<1>3. PICK e : e = Head(pipe[s])
  OBVIOUS
<1>4. CASE FinalizeOk(s)
  <2>1. Saves(s, e, Whole(e.file))
    BY <1>3, <1>4 DEF FinalizeOk, Complete, Saves
  <2> QED
    BY <2>1
<1>5. CASE FinalizeFails(s)
  <2>1. Saves(s, e, <<>>)
    BY <1>3, <1>5 DEF FinalizeFails, Complete, Saves
  <2> QED
    BY <2>1
<1> QED
  BY <1>2, <1>4, <1>5

\* Nothing was there before, and the file lacks nothing.
LEMMA FirstSaved ==
  ASSUME Types, TransferInv, FoundInv, NEW s \in Side, NEW e, NEW content, Saves(s, e, content)
  PROVE  /\ e.file \in File /\ \A x \in saved : x[1] # e.file
         /\ 0 < Chunks[e.file] /\ next[e.file] = Chunks[e.file] /\ Behind(e.file, Chunks[e.file])'
         /\ ~Missed(e.file) /\ ~Stored(e.file)
<1>1. Reads(s, "chunk") /\ e = Head(pipe[s]) /\ e.index = Chunks[e.file] - 1
  BY DEF Saves
<1>2. /\ e.file \in File /\ ~Stored(e.file)
      /\ \A i : Behind(e.file, i) => i < e.index
  BY <1>1, ChunkRead
<1>3. next[e.file] = Chunks[e.file] /\ 0 < Chunks[e.file] /\ Behind(e.file, Chunks[e.file])'
  BY <1>1, LastRead
<1>4. ~Missed(e.file)
  BY <1>1, ChunkWritten DEF Saves
<1>5. ASSUME NEW x \in saved, x[1] = e.file PROVE FALSE
  <2>1. Chunks[e.file] < e.index /\ Chunks[e.file] \in Nat
    BY <1>2, <1>5, Known DEF FoundInv
  <2> QED
    BY <1>1, <2>1
<1> QED
  BY <1>2, <1>3, <1>4, <1>5

LEMMA FoundStep == Types /\ TransferInv /\ FoundInv /\ [Next]_vars => FoundInv'
<1> SUFFICES ASSUME Types, TransferInv, FoundInv, [Next]_vars, NEW x \in saved'
             PROVE  /\ x[1] \in File /\ x[2] \in {Whole(x[1]), <<>>}
                    /\ 0 < Chunks[x[1]] /\ next'[x[1]] = Chunks[x[1]]
                    /\ Behind(x[1], Chunks[x[1]])'
  BY DEF FoundInv, Whole
<1> USE DEF senderVars, waiterVars, diskVars, envVars
<1>1. CASE x \in saved
  <2>1. PICK f \in File : /\ f = x[1] /\ x[2] \in {Whole(x[1]), <<>>} /\ 0 < Chunks[f]
                          /\ next[f] = Chunks[f] /\ Behind(f, Chunks[f])
    BY <1>1 DEF FoundInv
  <2>2. next \in [File -> Nat] /\ Chunks[f] \in Nat
    BY Known
  <2>3. ~SendChunk(f)
    BY <2>1, <2>2 DEF SendChunk
  <2>4. Behind(f, Chunks[f])'
    BY <2>1, <2>3, ChunksComeFrom
  <2>5. next' = next \/ \E g \in File : SendChunk(g)
    BY Movers, SendMoves
  <2>6. next'[f] = next[f]
    BY <2>2, <2>3, <2>5 DEF SendChunk
  <2> QED
    BY <2>1, <2>4, <2>6
<1>2. CASE x \notin saved
  <2>1. PICK s \in Side : \E e, content : Saves(s, e, content)
    BY <1>2, SavedBy
  <2>2. PICK e, content : Saves(s, e, content)
    BY <2>1
  <2>3. next' = next /\ x = <<e.file, content>> /\ content \in {Whole(e.file), <<>>}
    BY <1>2, <2>2 DEF Saves, FinalizeOk, FinalizeFails
  <2> QED
    BY <2>2, <2>3, FirstSaved
<1> QED
  BY <1>1, <1>2

-----------------------------------------------------------------------------
\* What Send returned is final, and one goroutine returns at a time.
LEMMA OneReturns ==
  ASSUME Types, [Next]_vars, sender' # sender
  PROVE  \E f \in File, state \in SenderStates :
            sender[f] \notin Results /\ sender' = [sender EXCEPT ![f] = state] /\ UNCHANGED saved
<1>1. PICK f \in File : SendStep(f) \/ SendFile(f) \/ Withdraw(f) \/ Cancelled(f)
  BY Movers
<1>2. saved' = saved /\ sender[f] \notin Results
  BY <1>1, SendMoves
<1>3. PICK state : sender' = [sender EXCEPT ![f] = state]
  BY <1>1, SendMoves
<1>4. state = sender'[f] /\ sender'[f] \in SenderStates
  BY <1>3, TypesStep DEF Types, SendTypes
<1> QED
  BY <1>2, <1>3, <1>4

\* DeliverySpec: FinalizeOk and the interrupted copy of FinalizeFails are Arrives, the
\* steps by which Send returns are Returns, and all others change nothing that the
\* two users see.
LEMMA StepDelivers ==
  ASSUME Types, TransferInv, FoundInv, [Next]_vars
  PROVE  [Delivery!Next]_(Delivery!vars)
<1> DEFINE told == [f \in File |-> Told(f)]
           found == {<<x[1], Found(x[1], x[2])>> : x \in saved}
<1>0. TransferInv' /\ FoundInv'
  BY TransferStep, FoundStep
<1>1. CASE saved' # saved
  <2>1. PICK s \in Side : \E e, content : Saves(s, e, content)
    BY <1>1, SavedBy
  <2>2. PICK e, content : Saves(s, e, content)
    BY <2>1
  <2>3. PICK f \in File : f = e.file
    BY <2>2, FirstSaved
  <2>4. /\ \A x \in saved : x[1] # f
        /\ 0 < Chunks[f] /\ next[f] = Chunks[f] /\ ~Missed(f) /\ ~Stored(f)
    BY <2>2, <2>3, FirstSaved
  <2>5. /\ sender' = sender /\ content \in {Whole(f), <<>>}
        /\ saved' = saved \cup {<<f, content>>}
    BY <2>2, <2>3 DEF Saves, FinalizeOk, FinalizeFails, senderVars
  <2>6. told' = told
    BY <2>5 DEF Told
  <2>7. told[f] \in {"nothing", "failed"}
    <3>1. sender[f] \notin {"ok", "refused", "withdrawn"}
      BY <2>4, Known DEF Progress
    <3> QED
      BY <3>1 DEF Told, Results
  <2>8. PICK state \in {"whole", "torn"} : state = Found(f, content)
    BY <2>5 DEF Found
  <2>9. found' = found \cup {<<f, state>>}
    <3>1. found' = {<<x[1], Found(x[1], x[2])>> : x \in saved'}
      BY DEF Found, Whole
    <3>2. PICK y : y = <<f, content>>
      OBVIOUS
    <3>3. saved' = saved \cup {y} /\ y[1] = f /\ y[2] = content
      BY <2>5, <3>2
    <3> QED
      BY <2>8, <3>1, <3>3
  <2>10. \A y \in found : y[1] # f
    BY <2>4
  <2>11. Delivery!Arrives(f, state)
    BY <2>6, <2>7, <2>9, <2>10 DEF Delivery!Arrives
  <2> QED
    BY <2>11 DEF Delivery!Next
<1>2. CASE saved' = saved /\ sender' = sender
  BY <1>2 DEF Delivery!vars, Told, Found, Whole
<1>3. CASE saved' = saved /\ sender' # sender
  <2>1. PICK f \in File, state \in SenderStates :
          sender[f] \notin Results /\ sender' = [sender EXCEPT ![f] = state]
    BY <1>3, OneReturns
  <2>2. found' = found
    BY <1>3 DEF Found, Whole
  <2>3. sender \in [File -> SenderStates] /\ sender'[f] = state
    BY <2>1, Known
  <2>4. told' = [told EXCEPT ![f] = IF state \in Results THEN state ELSE "nothing"]
    BY <2>1, <2>3 DEF Told
  <2>5. told[f] = "nothing"
    BY <2>1 DEF Told
  <2>6. CASE state \notin Results
    <3>1. told' = told
      BY <2>4, <2>5, <2>6
    <3> QED
      BY <2>2, <3>1 DEF Delivery!vars
  <2>7. CASE state \in Results
    <3>1. state \in {"ok", "refused", "withdrawn", "failed"}
      BY <2>7 DEF Results
    <3>2. Progress(f)'
      BY <1>0 DEF TransferInv
    <3>3. state = "ok" => <<f, "whole">> \in found
      <4>1. state = "ok" => <<f, Whole(f)>> \in saved
        BY <1>3, <2>3, <3>2 DEF Progress, Stored, Whole
      <4>2. Found(f, Whole(f)) = "whole"
        BY DEF Found
      <4> QED
        BY <4>1, <4>2
    <3>4. state = "refused" => <<f, "whole">> \notin found
      <4> SUFFICES ASSUME state = "refused", NEW x \in saved,
                          x[1] = f, Found(f, x[2]) = "whole"
                   PROVE  FALSE
        OBVIOUS
      <4>1. x[2] = Whole(f)
        BY DEF Found
      <4>2. x = <<x[1], x[2]>>
        BY DEF Types, DiskTypes
      <4>3. ~Stored(f)
        BY <1>3, <2>3, <3>2 DEF Progress, Stored, Whole
      <4> QED
        BY <4>1, <4>2, <4>3 DEF Stored
    <3>5. state = "withdrawn" => \A y \in found : y[1] # f
      <4> SUFFICES ASSUME state = "withdrawn", NEW x \in saved, x[1] = f PROVE FALSE
        OBVIOUS
      <4>1. next'[f] = Chunks[f]
        BY <1>0, <1>3 DEF FoundInv
      <4>2. next'[f] < Chunks[f] /\ Chunks[f] \in Nat
        BY <2>3, <3>2, Known DEF Progress
      <4> QED
        BY <4>1, <4>2
    <3>6. told' = [told EXCEPT ![f] = state]
      BY <2>4, <2>7
    <3>7. Delivery!Returns(f, state)
      BY <2>2, <2>5, <3>3, <3>4, <3>5, <3>6 DEF Delivery!Returns
    <3> QED
      BY <3>1, <3>7 DEF Delivery!Next
  <2> QED
    BY <2>6, <2>7
<1> QED
  BY <1>1, <1>2, <1>3

\* FileTransfer implements FileDelivery: what Send returns and what the receiver's user
\* finds are each settled once, and never contradict each other, in whatever order they
\* come and whatever is lost.
THEOREM TransfersDeliver == Spec => DeliverySpec
<1>1. Init => Delivery!Init /\ FoundInv
  BY DEF Init, Delivery!Init, FoundInv, Told, Results
<1> QED
  BY <1>1, InitTyped, TypesStep, TransferInit, TransferStep, FoundStep, StepDelivers,
     PTL DEF Spec, DeliverySpec, Delivery!Spec
=============================================================================
