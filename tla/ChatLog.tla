------------------------------- MODULE ChatLog -------------------------------
(***************************************************************************)
(* The chat log: goroutines that send or receive text append it to         *)
(* chat.enc, to the history in memory and to the queue a subscriber reads; *)
(* the process may end and the power may fail between any two steps, and   *)
(* the next process reads the file back.                                   *)
(*                                                                         *)
(* Code: internal/storage/store.go, pkg/node/messages.go (SendText after   *)
(* the message is sent), pkg/node/node.go (Start, the TypeText case of the *)
(* pump, appendHistory, publishMessage).                                   *)
(*                                                                         *)
(* A frame of chat.enc is a record or what is left of one.  A record's     *)
(* bytes, its IV and its encryption are left out; a frame whose ciphertext *)
(* is longer than readAll accepts is an oversized message.                 *)
(***************************************************************************)
EXTENDS Integers, SequencesExt

CONSTANTS
    Writer,         \* goroutines that log messages: pumps, callers of SendText
    Count,          \* messages of each writer
    Oversized,      \* messages whose frame is longer than readAll's maxFrame
    recordsPerSync, \* appended records per fsync
    QueueRoom,      \* capacity of messageCh
    MaxFault        \* bound on failed writes and syncs, exits and power cuts

Message == Writer \X (1..Count)

ASSUME ChatLogAssumption ==
    /\ Count \in Nat \ {0}
    /\ Oversized \subseteq Message
    /\ recordsPerSync \in Nat \ {0} /\ QueueRoom \in Nat \ {0} /\ MaxFault \in Nat

VARIABLES
    file,       \* chat.enc as the operating system has it, frame by frame
    durable,    \* frames of it that a power cut cannot take
    unsynced,   \* Store.unsynced
    acked,      \* messages whose Append returned nil, and that no power cut took
    refused,    \* messages of this process whose Append returned an error
    up,         \* a process is there
    inherited,  \* frames it found on file
    history,    \* Node.history
    queue,      \* messageCh
    seen,       \* messages of this process that the subscriber has received
    at,         \* at[w]: what writer w does with its message
    written,    \* written[w]: messages w has begun
    faults

storeVars == <<file, durable, unsynced, acked, refused>>
nodeVars == <<inherited, history, queue, seen>>
writerVars == <<at, written>>
vars == <<storeVars, up, nodeVars, writerVars, faults>>

Frame(kind, m) == [kind |-> kind, msg |-> m]
Kinds == {"record", "header", "body"}    \* whole, or cut in its header or its body
Steps == {"idle", "append", "history", "publish", "drain", "retry"}

TypeOK ==
    /\ \A i \in DOMAIN file : file[i] \in [kind : Kinds, msg : Message]
    /\ durable \in 0..Len(file)
    /\ unsynced \in 0..Len(file)
    /\ acked \subseteq Message /\ refused \subseteq Message /\ acked \cap refused = {}
    /\ up \in BOOLEAN /\ inherited \in 0..Len(file)
    /\ \A i \in DOMAIN history : history[i] \in Message
    /\ Len(queue) <= QueueRoom
    /\ seen \subseteq Message
    /\ at \in [Writer -> Steps]
    /\ written \in [Writer -> 0..Count]
    /\ faults \in 0..MaxFault

Init ==
    /\ file = <<>>
    /\ durable = 0
    /\ unsynced = 0
    /\ acked = {}
    /\ refused = {}
    /\ up = FALSE
    /\ inherited = 0
    /\ history = <<>>
    /\ queue = <<>>
    /\ seen = {}
    /\ at = [w \in Writer |-> "idle"]
    /\ written = [w \in Writer |-> 0]
    /\ faults = 0

Fault == faults < MaxFault /\ faults' = faults + 1

Goes(w, step) == at' = [at EXCEPT ![w] = step]

\* The message that writer w is busy with.
Current(w) == <<w, written[w]>>

-----------------------------------------------------------------------------
(* Store *)

Unreadable(frame) == frame.kind # "record" \/ frame.msg \in Oversized

\* readAll: the records before the first unreadable frame, and whether it reports
\* no error.  A header cut short in an otherwise empty file passes for its end.
readAll(frames) ==
    LET bad == {i \in DOMAIN frames : Unreadable(frames[i])}
        good == IF bad = {} THEN Len(frames) ELSE Min(bad) - 1
    IN  [records |-> [i \in 1..good |-> frames[i].msg],
         ok |-> bad = {} \/ (Len(frames) = 1 /\ frames[1].kind = "header")]

\* Append writes the frame; the recordsPerSync-th since the last sync is synced.
AppendOk(m) ==
    /\ file' = Append(file, Frame("record", m))
    /\ IF unsynced + 1 >= recordsPerSync
       THEN durable' = Len(file) + 1 /\ unsynced' = 0
       ELSE unsynced' = unsynced + 1 /\ UNCHANGED durable
    /\ acked' = acked \cup {m}
    /\ UNCHANGED refused

\* Mutant: the counter starts anew although the sync failed, and the error is lost.
AppendUnsyncedAcked(m) ==
    /\ unsynced + 1 >= recordsPerSync
    /\ file' = Append(file, Frame("record", m))
    /\ unsynced' = 0
    /\ acked' = acked \cup {m}
    /\ UNCHANGED <<durable, refused>>

\* The sync fails: Append returns the error, though the frame is written.
AppendUnsynced(m) ==
    /\ unsynced + 1 >= recordsPerSync
    /\ file' = Append(file, Frame("record", m))
    /\ unsynced' = unsynced + 1
    /\ refused' = refused \cup {m}
    /\ UNCHANGED <<durable, acked>>

\* The write fails, before or in the middle of the frame.
AppendFails(m) ==
    /\ \/ UNCHANGED file
       \/ \E kind \in {"header", "body"} : file' = Append(file, Frame(kind, m))
    /\ refused' = refused \cup {m}
    /\ UNCHANGED <<durable, unsynced, acked>>

-----------------------------------------------------------------------------
(* A writer: SendText after the message went out, or the pump on a text *)

\* Mutant: the message is published before it is logged.
BeginPublishing(w) ==
    /\ up /\ at[w] = "idle" /\ written[w] < Count
    /\ written' = [written EXCEPT ![w] = @ + 1]
    /\ Goes(w, "publish")
    /\ UNCHANGED <<storeVars, up, nodeVars, faults>>

Begin(w) ==
    /\ up /\ at[w] = "idle" /\ written[w] < Count
    /\ written' = [written EXCEPT ![w] = @ + 1]
    /\ Goes(w, "append")
    /\ UNCHANGED <<storeVars, up, nodeVars, faults>>

\* chatStore.Append; its error is only logged.
Log(w) ==
    /\ at[w] = "append"
    /\ Goes(w, "history")
    /\ \/ AppendOk(Current(w)) /\ UNCHANGED faults
       \/ (AppendUnsynced(Current(w)) \/ AppendFails(Current(w))) /\ Fault
    /\ UNCHANGED <<up, nodeVars, written>>

appendHistory(w) ==
    /\ at[w] = "history"
    /\ Goes(w, "publish")
    /\ history' = Append(history, Current(w))
    /\ UNCHANGED <<storeVars, up, inherited, queue, seen, written, faults>>

Full == Len(queue) = QueueRoom

\* publishMessage's first attempt.
publishMessage(w) ==
    /\ at[w] = "publish"
    /\ \/ ~Full /\ Goes(w, "idle") /\ queue' = Append(queue, Current(w))
       \/ Full /\ Goes(w, "drain") /\ UNCHANGED queue
    /\ UNCHANGED <<storeVars, up, inherited, history, seen, written, faults>>

\* It makes room by taking a message out, if one is still there.
Drain(w) ==
    /\ at[w] = "drain"
    /\ Goes(w, "retry")
    /\ queue' = IF queue = <<>> THEN queue ELSE Tail(queue)
    /\ UNCHANGED <<storeVars, up, inherited, history, seen, written, faults>>

\* Mutant: the second attempt waits for room.
RetryBlocking(w) ==
    /\ at[w] = "retry" /\ ~Full
    /\ Goes(w, "idle")
    /\ queue' = Append(queue, Current(w))
    /\ UNCHANGED <<storeVars, up, inherited, history, seen, written, faults>>

\* Mutant: the message is queued even if there is no room.
RetryOverfull(w) ==
    /\ at[w] = "retry"
    /\ Goes(w, "idle")
    /\ queue' = Append(queue, Current(w))
    /\ UNCHANGED <<storeVars, up, inherited, history, seen, written, faults>>

\* Another writer may have taken the room: then the message is dropped.
Retry(w) ==
    /\ at[w] = "retry"
    /\ Goes(w, "idle")
    /\ queue' = IF Full THEN queue ELSE Append(queue, Current(w))
    /\ UNCHANGED <<storeVars, up, inherited, history, seen, written, faults>>

\* The subscriber takes a message, when it pleases.
Receive ==
    /\ up /\ queue # <<>>
    /\ seen' = seen \cup {Head(queue)}
    /\ queue' = Tail(queue)
    /\ UNCHANGED <<storeVars, up, inherited, history, writerVars, faults>>

-----------------------------------------------------------------------------
(* Processes come and go *)

\* New opens the store and Start reads it; an error means an empty history.
Start ==
    /\ ~up
    /\ up' = TRUE
    /\ inherited' = Len(file)
    /\ history' = IF readAll(file).ok THEN readAll(file).records ELSE <<>>
    /\ UNCHANGED <<storeVars, queue, seen, writerVars, faults>>

ProcessEnds ==
    /\ up' = FALSE
    /\ inherited' = 0
    /\ history' = <<>>
    /\ queue' = <<>>
    /\ seen' = {}
    /\ refused' = {}
    /\ unsynced' = 0
    /\ at' = [w \in Writer |-> "idle"]
    /\ UNCHANGED written

\* The process is killed, or the REPL's quit calls os.Exit: the operating system
\* has every byte it was given.
Exit ==
    /\ up /\ Fault
    /\ ProcessEnds
    /\ UNCHANGED <<file, durable, acked>>

\* The power fails: of the frames that were not synced the disk has the first
\* ones, and perhaps a piece of the next.
PowerCut ==
    /\ Fault
    /\ ProcessEnds
    /\ \E n \in durable..Len(file) :
        /\ \/ file' = SubSeq(file, 1, n)
           \/ /\ n < Len(file)
              /\ \E kind \in {"header", "body"} :
                    file' = Append(SubSeq(file, 1, n), Frame(kind, file[n + 1].msg))
        /\ durable' = Len(file')
        /\ acked' = acked \ {file[i].msg : i \in (n + 1)..Len(file)}

-----------------------------------------------------------------------------
WriterStep(w) ==
    \/ Log(w)
    \/ appendHistory(w)
    \/ publishMessage(w)
    \/ Drain(w)
    \/ Retry(w)

Next ==
    \/ \E w \in Writer : Begin(w) \/ WriterStep(w)
    \/ Receive
    \/ Start
    \/ Exit
    \/ PowerCut

\* Writers keep running.  The subscriber need not.
Fairness == \A w \in Writer : WF_vars(WriterStep(w))

Spec == Init /\ [][Next]_vars
FairSpec == Spec /\ Fairness

-----------------------------------------------------------------------------
(* Properties *)

OnFile == {file[i].msg : i \in DOMAIN file}

\* Messages whose Append returned nil and that a power cut may take.
AtRisk == {m \in acked : \A i \in 1..durable : file[i].msg # m}

\* fsync every recordsPerSync records: however writes and syncs fail in between,
\* a power cut takes fewer than recordsPerSync of the messages that the running
\* process has logged without an error.  (What store.go says of all records does
\* not hold: those of earlier processes that ended without Store.Close add up.)
PowerCutLoss ==
    up => Cardinality({m \in AtRisk : \A i \in 1..inherited : file[i].msg # m}) < recordsPerSync

\* The log is the source of truth: nothing is in the history, in the queue or
\* with the subscriber that is not on file, or whose Append failed; and the
\* history, read back or not, has no message twice.
LogLeads ==
    /\ ToSet(history) \cup ToSet(queue) \cup seen \subseteq OnFile \cup refused
    /\ IsInjective(history)

\* A full queue never holds a writer up, whatever the subscriber does: the pump
\* goes on reading the connection.
WritersProceed == \A w \in Writer : at[w] = "append" ~> at[w] = "idle"

\* "the records that came before are still readable" (store.go), "drop the
\* corrupt tail at start" (ARCHITECTURE.md): each record before the damage is in
\* the history of the next process.
EarlierRecordsKept ==
    up => \A m \in ToSet(readAll(file).records) :
        m \in ToSet(history) \/ \E w \in Writer : at[w] = "history" /\ Current(w) = m
=============================================================================
