---------------------------- MODULE StorageProofs ----------------------------
(***************************************************************************)
(* Proofs about what a node keeps on its disk: the chat log, for any       *)
(* writers, messages, fsync interval, queue and faults, and the tables of  *)
(* peers, for every number of peers, of goroutines, of changes and of      *)
(* faults.                                                                 *)
(*                                                                         *)
(* PowerCutLoss counts messages by means of file positions, so what it     *)
(* rests on is that no message is on file twice (Distinct), that a message *)
(* is new until it is appended (Fresh), and that Append returned nil only  *)
(* for what is on file (AckedOnFile).                                      *)
(***************************************************************************)
EXTENDS ChatLog, TableStore, FiniteSetTheorems, WellFoundedInduction, TLAPS

Frames == [kind : Kinds, msg : Message]

Seqs == file \in Seq(Frames) /\ history \in Seq(Message) /\ queue \in Seq(Message)

Begun(w) == up /\ written[w] \in 1..Count

Busy == \A w \in Writer : at[w] # "idle" => Begun(w)

\* A message is on file or refused only after its writer has begun it and called Append.
Fresh ==
    \A m \in OnFile \cup refused :
        m[2] <= written[m[1]] /\ (at[m[1]] = "append" => m[2] # written[m[1]])

\* What a writer takes to the history and to the queue has gone through Append.
Known ==
    \A w \in Writer : at[w] \in {"history", "publish", "drain", "retry"} =>
        Current(w) \in OnFile \cup refused

\* appendHistory finds its message not there yet.
Unshown == \A w \in Writer : at[w] = "history" => Current(w) \notin ToSet(history)

Distinct == \A i, j \in DOMAIN file : file[i].msg = file[j].msg => i = j

AckedOnFile == acked \subseteq OnFile

\* What PowerCutLoss counts.
Risk == {m \in AtRisk : \A i \in 1..inherited : file[i].msg # m}

Bound ==
    up => /\ IsFiniteSet(Risk) /\ Cardinality(Risk) <= unsynced
          /\ Cardinality(Risk) < recordsPerSync

Writers == Busy /\ Fresh /\ Known /\ Unshown
Store == Distinct /\ AckedOnFile /\ Bound
Inv == TypeOK /\ Seqs /\ Writers /\ Store /\ LogLeads

USE ChatLogAssumption

-----------------------------------------------------------------------------
(* Sequences and files *)

LEMMA Least ==
    ASSUME NEW S \in SUBSET Nat, S # {}
    PROVE  Min(S) \in S
<1> DEFINE R == OpToRel(<, Nat)
<1>1. IsWellFoundedOn(R, Nat)
  BY NatLessThanWellFounded
<1>2. \A x, y \in Nat : <<y, x>> \in R <=> y < x
  BY DEF OpToRel
<1> HIDE DEF R
<1>3. PICK x \in S : \A y \in S : ~(<<y, x>> \in R)
  BY <1>1, WFMin
<1>4. ASSUME NEW y \in S PROVE x <= y
  <2>1. x \in Nat /\ y \in Nat
    OBVIOUS
  <2>2. ~(y < x)
    BY <1>2, <1>3, <2>1
  <2> QED
    BY <2>1, <2>2
<1> QED
  BY <1>4 DEF Min

LEMMA Queued ==
    ASSUME NEW S, NEW q \in Seq(S), NEW x \in S
    PROVE  /\ Append(q, x) \in Seq(S) /\ Len(Append(q, x)) = Len(q) + 1
           /\ ToSet(Append(q, x)) = ToSet(q) \cup {x}
<1>1. /\ Append(q, x) \in Seq(S) /\ Len(Append(q, x)) = Len(q) + 1
      /\ DOMAIN Append(q, x) = 1 .. Len(q) + 1 /\ DOMAIN q = 1 .. Len(q) /\ Len(q) \in Nat
  OBVIOUS
<1>2. \A i \in 1 .. Len(q) : Append(q, x)[i] = q[i]
  OBVIOUS
<1>3. Append(q, x)[Len(q) + 1] = x /\ Len(q) + 1 \in 1 .. Len(q) + 1
  BY <1>1
<1>4. \A i \in 1 .. Len(q) + 1 : i \in 1 .. Len(q) \/ i = Len(q) + 1
  BY <1>1
<1>5. \A i \in 1 .. Len(q) : i \in 1 .. Len(q) + 1
  BY <1>1
<1> QED
  BY <1>1, <1>2, <1>3, <1>4, <1>5 DEF ToSet

LEMMA Dequeued ==
    ASSUME NEW S, NEW q \in Seq(S), q # <<>>
    PROVE  /\ Tail(q) \in Seq(S) /\ Len(Tail(q)) = Len(q) - 1 /\ Len(q) \in Nat \ {0}
           /\ Head(q) \in S /\ Head(q) \in ToSet(q) /\ ToSet(Tail(q)) \subseteq ToSet(q)
<1>1. /\ DOMAIN q = 1 .. Len(q) /\ Len(q) \in Nat \ {0}
      /\ Tail(q) \in Seq(S) /\ Len(Tail(q)) = Len(q) - 1 /\ DOMAIN Tail(q) = 1 .. Len(q) - 1
  OBVIOUS
<1>2. \A i \in 1 .. Len(q) - 1 : Tail(q)[i] = q[i + 1]
  OBVIOUS
<1>3. \A i \in 1 .. Len(q) - 1 : i + 1 \in 1 .. Len(q)
  BY <1>1
<1>4. Head(q) = q[1] /\ 1 \in DOMAIN q
  BY <1>1
<1>5. Head(q) \in ToSet(q) /\ ToSet(Tail(q)) \subseteq ToSet(q)
  BY <1>1, <1>2, <1>3, <1>4 DEF ToSet
<1> QED
  BY <1>1, <1>4, <1>5

\* A frame is appended.
LEMMA Grown ==
    ASSUME file \in Seq(Frames), NEW f \in Frames, file' = Append(file, f)
    PROVE  /\ file' \in Seq(Frames) /\ Len(file) \in Nat /\ Len(file') = Len(file) + 1
           /\ DOMAIN file = 1 .. Len(file) /\ DOMAIN file' = 1 .. Len(file) + 1
           /\ \A i \in 1 .. Len(file) : file'[i] = file[i]
           /\ file'[Len(file) + 1] = f
           /\ OnFile' = OnFile \cup {f.msg}
<1>1. /\ file' \in Seq(Frames) /\ Len(file) \in Nat /\ Len(file') = Len(file) + 1
      /\ DOMAIN file = 1 .. Len(file) /\ DOMAIN file' = 1 .. Len(file) + 1
  OBVIOUS
<1>2. \A i \in 1 .. Len(file) : file'[i] = file[i]
  OBVIOUS
<1>3. file'[Len(file) + 1] = f
  BY <1>1
<1>4. \A i \in 1 .. Len(file) + 1 : i \in 1 .. Len(file) \/ i = Len(file) + 1
  BY <1>1
<1>5. \A i \in 1 .. Len(file) : i \in 1 .. Len(file) + 1
  BY <1>1
<1>6. Len(file) + 1 \in 1 .. Len(file) + 1
  BY <1>1
<1>7. OnFile' = OnFile \cup {f.msg}
  BY <1>1, <1>2, <1>3, <1>4, <1>5, <1>6 DEF OnFile
<1> QED
  BY <1>1, <1>2, <1>3, <1>7

\* The file is as long as a power cut left it.
LEMMA Prefix ==
    ASSUME file \in Seq(Frames), NEW n \in 0 .. Len(file)
    PROVE  /\ SubSeq(file, 1, n) \in Seq(Frames) /\ Len(SubSeq(file, 1, n)) = n
           /\ DOMAIN SubSeq(file, 1, n) = 1 .. n /\ 1 .. n \subseteq DOMAIN file
           /\ \A i \in 1 .. n : SubSeq(file, 1, n)[i] = file[i]
<1>1. n \in Nat /\ DOMAIN file = 1 .. Len(file) /\ Len(file) \in Nat /\ n <= Len(file)
  OBVIOUS
<1>2. /\ DOMAIN SubSeq(file, 1, n) = 1 .. n /\ Len(SubSeq(file, 1, n)) = n
      /\ \A i \in 1 .. n : SubSeq(file, 1, n)[i] = file[i]
  BY <1>1
<1>3. SubSeq(file, 1, n) \in Seq(Frames)
  BY <1>1
<1> QED
  BY <1>1, <1>2, <1>3

-----------------------------------------------------------------------------
(* Append *)

\* The message of a writer that is about to append it is new.
LEMMA NewMessage ==
    ASSUME Inv, NEW w \in Writer, at[w] = "append"
    PROVE  /\ up /\ Current(w) \in Message
           /\ Current(w) \notin OnFile /\ Current(w) \notin refused /\ Current(w) \notin acked
<1>1. up /\ written[w] \in 1..Count
  BY DEF Inv, Writers, Busy, Begun
<1>2. Current(w) \in Message /\ Current(w)[1] = w /\ Current(w)[2] = written[w]
  BY <1>1 DEF Current, Message
<1>3. Current(w) \notin OnFile \cup refused
  BY <1>2 DEF Inv, Writers, Fresh
<1> QED
  BY <1>1, <1>2, <1>3 DEF Inv, Store, AckedOnFile

\* Append's message is then accounted for, whether it is on file or refused.
LEMMA WritersLogged ==
    ASSUME Inv, NEW w \in Writer, at[w] = "append", Goes(w, "history"),
           UNCHANGED <<up, nodeVars, written>>,
           OnFile' \cup refused' = OnFile \cup refused \cup {Current(w)}
    PROVE  Writers' /\ LogLeads' /\ at' \in [Writer -> Steps]
<1>1. /\ at' \in [Writer -> Steps] /\ at'[w] = "history"
      /\ \A v \in Writer : v # w => at'[v] = at[v]
  BY DEF Inv, TypeOK, Goes, Steps
<1>2. UNCHANGED <<up, inherited, history, queue, seen, written>>
  BY DEF nodeVars
<1>3. /\ Current(w) \in Message /\ Current(w)[1] = w /\ Current(w)[2] = written[w] /\ up
      /\ written[w] \in 1..Count
  <2>1. up /\ written[w] \in 1..Count
    BY DEF Inv, Writers, Busy, Begun
  <2> QED
    BY <2>1 DEF Current, Message
<1>4. Busy'
  BY <1>1, <1>2, <1>3 DEF Inv, Writers, Busy, Begun
<1>5. Fresh'
  <2> SUFFICES ASSUME NEW m \in OnFile' \cup refused'
               PROVE  m[2] <= written[m[1]] /\ (at'[m[1]] = "append" => m[2] # written[m[1]])
    BY <1>2 DEF Fresh
  <2>1. CASE m = Current(w)
    BY <2>1, <1>1, <1>3
  <2>2. CASE m # Current(w)
    <3>1. m \in OnFile \cup refused
      BY <2>2
    <3>2. m[2] <= written[m[1]] /\ (at[m[1]] = "append" => m[2] # written[m[1]])
      BY <3>1 DEF Inv, Writers, Fresh
    <3>3. at'[m[1]] = "append" => at[m[1]] = "append"
      BY <1>1 DEF Goes, Inv, TypeOK
    <3> QED
      BY <3>2, <3>3
  <2> QED
    BY <2>1, <2>2
<1>6. Known'
  BY <1>1, <1>2 DEF Inv, Writers, Known, Current
<1>7. ToSet(history) \cup ToSet(queue) \cup seen \subseteq OnFile \cup refused
  BY DEF Inv, LogLeads
<1>8. Unshown'
  <2>1. Current(w) \notin ToSet(history)
    BY NewMessage, <1>7
  <2> QED
    BY <1>1, <1>2, <2>1 DEF Inv, Writers, Unshown, Current
<1>9. LogLeads'
  <2>1. IsInjective(history')
    BY <1>2 DEF Inv, LogLeads
  <2> QED
    BY <1>2, <1>7, <2>1 DEF LogLeads
<1> QED
  BY <1>1, <1>4, <1>5, <1>6, <1>8, <1>9 DEF Writers

\* A new message or a piece of it at the end: no message is on file twice.
LEMMA FileGrows ==
    ASSUME Inv, NEW w \in Writer, at[w] = "append", NEW kind \in Kinds,
           file' = Append(file, Frame(kind, Current(w)))
    PROVE  /\ file' \in Seq(Frames) /\ Len(file) \in Nat /\ Len(file') = Len(file) + 1
           /\ \A i \in DOMAIN file' : file'[i] \in [kind : Kinds, msg : Message]
           /\ OnFile' = OnFile \cup {Current(w)} /\ Distinct'
           /\ \A i \in 1 .. Len(file) : file'[i] = file[i]
<1> DEFINE m == Current(w)
           f == Frame(kind, m)
<1>1. m \in Message /\ m \notin OnFile
  BY NewMessage
<1>2. f \in Frames /\ f.msg = m
  BY <1>1 DEF Frame, Frames
<1> HIDE DEF f
<1>3. /\ file' \in Seq(Frames) /\ Len(file) \in Nat /\ Len(file') = Len(file) + 1
      /\ DOMAIN file = 1 .. Len(file) /\ DOMAIN file' = 1 .. Len(file) + 1
      /\ \A i \in 1 .. Len(file) : file'[i] = file[i]
      /\ file'[Len(file) + 1] = f
      /\ OnFile' = OnFile \cup {f.msg}
  <2>1. file \in Seq(Frames) /\ file' = Append(file, f)
    BY DEF Inv, Seqs, f
  <2> QED
    BY <1>2, <2>1, Grown
<1>4. Distinct'
  <2> SUFFICES ASSUME NEW i \in DOMAIN file', NEW j \in DOMAIN file', file'[i].msg = file'[j].msg
               PROVE  i = j
    BY DEF Distinct
  <2>1. (i \in 1 .. Len(file) \/ i = Len(file) + 1) /\ (j \in 1 .. Len(file) \/ j = Len(file) + 1)
    BY <1>3
  <2>2. \A k \in 1 .. Len(file) : file'[k].msg # m
    BY <1>1, <1>3 DEF OnFile
  <2>3. CASE i \in 1 .. Len(file) /\ j \in 1 .. Len(file)
    BY <2>3, <1>3 DEF Inv, Store, Distinct
  <2> QED
    BY <1>2, <1>3, <2>1, <2>2, <2>3
<1>5. \A i \in DOMAIN file' : file'[i] \in [kind : Kinds, msg : Message]
  <2>1. \A i \in DOMAIN file' : file'[i] \in Frames
    BY <1>3
  <2> QED
    BY <2>1 DEF Frames
<1> QED
  BY <1>2, <1>3, <1>4, <1>5

\* What is at risk does not grow but by what is acknowledged.
LEMMA RiskGrows ==
    ASSUME Inv, \A i \in 1 .. Len(file) : file'[i] = file[i], NEW M, acked' \subseteq acked \cup M,
           UNCHANGED <<durable, inherited>>
    PROVE  Risk' \subseteq Risk \cup M
<1>1. 1 .. durable \subseteq 1 .. Len(file) /\ 1 .. inherited \subseteq 1 .. Len(file)
  <2>1. file \in Seq(Frames) /\ durable \in 0 .. Len(file) /\ inherited \in 0 .. Len(file)
    BY DEF Inv, Seqs, TypeOK
  <2> QED
    BY <2>1
<1>2. AtRisk' \subseteq AtRisk \cup M
  BY <1>1 DEF AtRisk
<1> QED
  BY <1>1, <1>2 DEF Risk

\* Part of what was at risk, or that and one message more.
LEMMA FewAtRisk ==
    ASSUME Inv, up, NEW S, NEW m, S \subseteq Risk \cup {m}
    PROVE  /\ IsFiniteSet(S) /\ Cardinality(S) \in Nat /\ Cardinality(Risk) \in Nat
           /\ Cardinality(S) <= Cardinality(Risk) + 1
           /\ S \subseteq Risk => Cardinality(S) <= Cardinality(Risk)
<1>1. IsFiniteSet(Risk)
  BY DEF Inv, Store, Bound
<1>2. /\ IsFiniteSet(Risk \cup {m}) /\ Cardinality(Risk) \in Nat
      /\ \/ Cardinality(Risk \cup {m}) = Cardinality(Risk)
         \/ Cardinality(Risk \cup {m}) = Cardinality(Risk) + 1
  BY <1>1, FS_AddElement, FS_CardinalityType
<1>3. IsFiniteSet(S) /\ Cardinality(S) <= Cardinality(Risk \cup {m}) /\ Cardinality(S) \in Nat
  BY <1>2, FS_Subset, FS_CardinalityType
<1>4. S \subseteq Risk => Cardinality(S) <= Cardinality(Risk)
  BY <1>1, FS_Subset
<1> QED
  BY <1>2, <1>3, <1>4

LEMMA LogKeeps ==
    ASSUME Inv, NEW w \in Writer, Log(w)
    PROVE  Inv'
<1> DEFINE m == Current(w)
<1>1. /\ at[w] = "append" /\ Goes(w, "history") /\ UNCHANGED <<up, nodeVars, written>>
      /\ \/ AppendOk(m) /\ UNCHANGED faults
         \/ (AppendUnsynced(m) \/ AppendFails(m)) /\ Fault
  BY DEF Log
<1>2. UNCHANGED <<up, inherited, history, queue, seen, written>> /\ faults' \in 0..MaxFault
  BY <1>1 DEF nodeVars, Fault, Inv, TypeOK
<1>3. up /\ m \in Message /\ m \notin OnFile /\ m \notin refused /\ m \notin acked
  BY <1>1, NewMessage
<1>4. /\ file \in Seq(Frames) /\ Len(file) \in Nat /\ durable \in 0..Len(file)
      /\ unsynced \in 0..Len(file) /\ inherited \in 0..Len(file)
      /\ acked \subseteq Message /\ refused \subseteq Message /\ acked \cap refused = {}
      /\ acked \subseteq OnFile /\ Distinct
      /\ \A i \in DOMAIN file : file[i] \in [kind : Kinds, msg : Message]
  BY DEF Inv, Seqs, TypeOK, Store, AckedOnFile
<1>5. /\ Cardinality(Risk) \in Nat /\ Cardinality(Risk) <= unsynced
      /\ Cardinality(Risk) < recordsPerSync /\ Risk \subseteq Risk \cup {m}
  BY <1>3, FewAtRisk DEF Inv, Store, Bound
\* The rest of the state is typed as before, once the file, the counts and the
\* outcomes are.
<1>6. ASSUME /\ file' \in Seq(Frames)
             /\ \A i \in DOMAIN file' : file'[i] \in [kind : Kinds, msg : Message]
             /\ Len(file') \in Nat /\ Len(file) <= Len(file')
             /\ durable' \in 0..Len(file') /\ unsynced' \in 0..Len(file')
             /\ acked' \subseteq Message /\ refused' \subseteq Message /\ acked' \cap refused' = {},
             OnFile' \cup refused' = OnFile \cup refused \cup {m}, Store'
      PROVE  Inv'
  <2>1. Writers' /\ LogLeads' /\ at' \in [Writer -> Steps]
    BY <1>1, <1>6, WritersLogged
  <2>2. inherited' \in 0..Len(file')
    BY <1>2, <1>4, <1>6
  <2>3. /\ up' \in BOOLEAN /\ seen' \subseteq Message /\ written' \in [Writer -> 0..Count]
        /\ Len(queue') <= QueueRoom /\ history' \in Seq(Message) /\ queue' \in Seq(Message)
        /\ \A i \in DOMAIN history' : history'[i] \in Message
    BY <1>2 DEF Inv, TypeOK, Seqs
  <2>4. TypeOK'
    BY <1>2, <1>6, <2>1, <2>2, <2>3 DEF TypeOK
  <2> QED
    BY <1>6, <2>1, <2>3, <2>4 DEF Inv, Seqs
<1>7. CASE AppendOk(m)
  <2>1. /\ file' = Append(file, Frame("record", m)) /\ acked' = acked \cup {m} /\ refused' = refused
        /\ IF unsynced + 1 >= recordsPerSync
           THEN durable' = Len(file) + 1 /\ unsynced' = 0
           ELSE unsynced' = unsynced + 1 /\ durable' = durable
    BY <1>7 DEF AppendOk
  <2>2. /\ file' \in Seq(Frames) /\ Len(file') = Len(file) + 1
        /\ \A i \in DOMAIN file' : file'[i] \in [kind : Kinds, msg : Message]
        /\ OnFile' = OnFile \cup {m} /\ Distinct'
        /\ \A i \in 1 .. Len(file) : file'[i] = file[i]
    BY <1>1, <2>1, FileGrows DEF Kinds
  <2>3. AckedOnFile'
    BY <1>4, <2>1, <2>2 DEF AckedOnFile
  <2>4. Bound'
    <3>1. CASE unsynced + 1 >= recordsPerSync
      <4>1. durable' = Len(file') /\ unsynced' = 0
        BY <2>1, <2>2, <3>1
      <4>2. \A a \in acked' : \E i \in 1 .. Len(file') : file'[i].msg = a
        BY <2>2, <2>3 DEF AckedOnFile, OnFile
      <4>3. Risk' = {}
        BY <4>1, <4>2 DEF Risk, AtRisk
      <4>4. IsFiniteSet({}) /\ Cardinality({}) = 0
        BY FS_EmptySet
      <4> QED
        BY <4>1, <4>3, <4>4 DEF Bound
    <3>2. CASE ~(unsynced + 1 >= recordsPerSync)
      <4>1. unsynced' = unsynced + 1 /\ durable' = durable /\ unsynced + 1 < recordsPerSync
        BY <1>4, <2>1, <3>2
      <4>2. Risk' \subseteq Risk \cup {m}
        BY <1>2, <2>1, <2>2, <4>1, RiskGrows
      <4>3. IsFiniteSet(Risk') /\ Cardinality(Risk') \in Nat
            /\ Cardinality(Risk') <= Cardinality(Risk) + 1
        BY <1>3, <4>2, FewAtRisk
      <4>4. Cardinality(Risk') <= unsynced + 1 /\ Cardinality(Risk') < recordsPerSync
        BY <1>4, <1>5, <4>1, <4>3
      <4> QED
        BY <4>1, <4>3, <4>4 DEF Bound
    <3> QED
      BY <3>1, <3>2
  <2>5. durable' \in 0..Len(file') /\ unsynced' \in 0..Len(file')
    BY <1>4, <2>1, <2>2
  <2>6. acked' \subseteq Message /\ refused' \subseteq Message /\ acked' \cap refused' = {}
    BY <1>3, <1>4, <2>1
  <2>7. OnFile' \cup refused' = OnFile \cup refused \cup {m} /\ Len(file) <= Len(file')
    BY <1>4, <2>1, <2>2
  <2> QED
    BY <1>4, <1>6, <2>2, <2>3, <2>4, <2>5, <2>6, <2>7 DEF Store
\* An error: nothing is acknowledged, and the count does not fall.
<1>8. ASSUME acked' = acked, durable' = durable, inherited' = inherited,
             unsynced' \in {unsynced, unsynced + 1},
             \A i \in 1 .. Len(file) : file'[i] = file[i], OnFile \subseteq OnFile'
      PROVE  AckedOnFile' /\ Bound'
  <2>1. Risk' \subseteq Risk
    <3>1. acked' \subseteq acked \cup {}
      BY <1>8
    <3>2. Risk' \subseteq Risk \cup {}
      BY <1>8, <3>1, RiskGrows
    <3> QED
      BY <3>2
  <2>2. IsFiniteSet(Risk') /\ Cardinality(Risk') \in Nat /\ Cardinality(Risk') <= Cardinality(Risk)
    BY <1>3, <2>1, FewAtRisk
  <2>3. Cardinality(Risk') <= unsynced' /\ Cardinality(Risk') < recordsPerSync
    BY <1>4, <1>5, <1>8, <2>2
  <2> QED
    BY <1>4, <1>8, <2>2, <2>3 DEF AckedOnFile, Bound
<1>9. CASE AppendUnsynced(m)
  <2>1. /\ file' = Append(file, Frame("record", m)) /\ unsynced' = unsynced + 1
        /\ refused' = refused \cup {m} /\ durable' = durable /\ acked' = acked
    BY <1>9 DEF AppendUnsynced
  <2>2. /\ file' \in Seq(Frames) /\ Len(file') = Len(file) + 1
        /\ \A i \in DOMAIN file' : file'[i] \in [kind : Kinds, msg : Message]
        /\ OnFile' = OnFile \cup {m} /\ Distinct'
        /\ \A i \in 1 .. Len(file) : file'[i] = file[i]
    BY <1>1, <2>1, FileGrows DEF Kinds
  <2>3. AckedOnFile' /\ Bound'
    BY <1>2, <1>8, <2>1, <2>2
  <2>4. durable' \in 0..Len(file') /\ unsynced' \in 0..Len(file')
    BY <1>4, <2>1, <2>2
  <2>5. acked' \subseteq Message /\ refused' \subseteq Message /\ acked' \cap refused' = {}
    BY <1>3, <1>4, <2>1
  <2>6. OnFile' \cup refused' = OnFile \cup refused \cup {m} /\ Len(file) <= Len(file')
    BY <1>4, <2>1, <2>2
  <2> QED
    BY <1>4, <1>6, <2>2, <2>3, <2>4, <2>5, <2>6 DEF Store
<1>10. CASE AppendFails(m)
  <2>1. /\ refused' = refused \cup {m} /\ durable' = durable /\ unsynced' = unsynced /\ acked' = acked
        /\ \/ file' = file
           \/ \E kind \in {"header", "body"} : file' = Append(file, Frame(kind, m))
    BY <1>10 DEF AppendFails
  <2>2. /\ file' \in Seq(Frames) /\ Len(file') \in {Len(file), Len(file) + 1}
        /\ \A i \in DOMAIN file' : file'[i] \in [kind : Kinds, msg : Message]
        /\ (OnFile' = OnFile \/ OnFile' = OnFile \cup {m}) /\ Distinct'
        /\ \A i \in 1 .. Len(file) : file'[i] = file[i]
    <3>1. CASE file' = file
      BY <1>4, <3>1 DEF OnFile, Distinct
    <3>2. ASSUME NEW kind \in {"header", "body"}, file' = Append(file, Frame(kind, m))
          PROVE  /\ file' \in Seq(Frames) /\ Len(file') = Len(file) + 1
                 /\ \A i \in DOMAIN file' : file'[i] \in [kind : Kinds, msg : Message]
                 /\ OnFile' = OnFile \cup {m} /\ Distinct'
                 /\ \A i \in 1 .. Len(file) : file'[i] = file[i]
      <4>1. kind \in Kinds
        BY DEF Kinds
      <4> QED
        BY <1>1, <3>2, <4>1, FileGrows
    <3> QED
      BY <2>1, <3>1, <3>2
  <2>3. AckedOnFile' /\ Bound'
    BY <1>2, <1>8, <2>1, <2>2
  <2>4. Len(file') \in Nat /\ Len(file) <= Len(file')
    BY <1>4, <2>2
  <2>5. durable' \in 0..Len(file') /\ unsynced' \in 0..Len(file')
    BY <1>4, <2>1, <2>4
  <2>6. acked' \subseteq Message /\ refused' \subseteq Message /\ acked' \cap refused' = {}
    BY <1>3, <1>4, <2>1
  <2>7. OnFile' \cup refused' = OnFile \cup refused \cup {m}
    BY <2>1, <2>2
  <2> QED
    BY <1>6, <2>2, <2>3, <2>4, <2>5, <2>6, <2>7 DEF Store
<1> QED
  BY <1>1, <1>7, <1>9, <1>10

-----------------------------------------------------------------------------
(* The other steps of a writer, and the subscriber *)

LEMMA BeginKeeps ==
    ASSUME Inv, NEW w \in Writer, Begin(w)
    PROVE  Inv'
<1>1. /\ up /\ at[w] = "idle" /\ written[w] < Count
      /\ written' = [written EXCEPT ![w] = @ + 1] /\ at' = [at EXCEPT ![w] = "append"]
      /\ UNCHANGED <<file, durable, unsynced, acked, refused, up, inherited, history, queue, seen, faults>>
  BY DEF Begin, Goes, storeVars, nodeVars
<1>2. /\ at' \in [Writer -> Steps] /\ at'[w] = "append"
      /\ \A v \in Writer : v # w => at'[v] = at[v] /\ written'[v] = written[v]
      /\ written' \in [Writer -> 0..Count] /\ written'[w] = written[w] + 1
      /\ written[w] \in 0..Count /\ written'[w] \in 1..Count
  BY <1>1 DEF Inv, TypeOK, Steps
<1>3. OnFile' = OnFile /\ Risk' = Risk
  BY <1>1 DEF OnFile, Risk, AtRisk
<1>4. TypeOK'
  BY <1>1, <1>2 DEF Inv, TypeOK
<1>5. Seqs' /\ Store' /\ LogLeads'
  BY <1>1, <1>3 DEF Inv, Seqs, Store, Distinct, AckedOnFile, Bound, LogLeads
<1>6. Busy'
  BY <1>1, <1>2 DEF Inv, Writers, Busy, Begun
<1>7. Fresh'
  <2> SUFFICES ASSUME NEW m \in OnFile \cup refused
               PROVE  m[2] <= written'[m[1]] /\ (at'[m[1]] = "append" => m[2] # written'[m[1]])
    BY <1>1, <1>3 DEF Fresh
  <2>1. m[2] <= written[m[1]] /\ (at[m[1]] = "append" => m[2] # written[m[1]])
    BY DEF Inv, Writers, Fresh
  <2>2. m \in Message
    BY DEF Inv, TypeOK, OnFile
  <2>3. m[1] \in Writer /\ m[2] \in Nat
    BY <2>2 DEF Message
  <2>4. CASE m[1] = w
    BY <1>2, <2>1, <2>3, <2>4
  <2>5. CASE m[1] # w
    BY <1>2, <2>1, <2>3, <2>5
  <2> QED
    BY <2>4, <2>5
<1>8. Known' /\ Unshown'
  <2>1. \A v \in Writer : at'[v] \in {"history", "publish", "drain", "retry"} =>
            at'[v] = at[v] /\ written'[v] = written[v]
    BY <1>2
  <2> QED
    BY <1>1, <1>3, <2>1 DEF Inv, Writers, Known, Unshown, Current
<1> QED
  BY <1>4, <1>5, <1>6, <1>7, <1>8 DEF Inv, Writers

\* A message that is on file or refused may be shown.
LEMMA ShowKeeps ==
    ASSUME Inv, NEW w \in Writer, at[w] \in {"history", "publish", "drain", "retry"},
           NEW step \in {"idle", "publish", "drain", "retry"}, Goes(w, step),
           UNCHANGED <<storeVars, up, inherited, seen, written, faults>>,
           history' \in Seq(Message), queue' \in Seq(Message), Len(queue') <= QueueRoom,
           ToSet(queue') \subseteq ToSet(queue) \cup {Current(w)},
           \/ history' = history
           \/ /\ at[w] = "history" /\ ToSet(history') = ToSet(history) \cup {Current(w)}
              /\ IsInjective(history')
    PROVE  Inv'
<1>1. UNCHANGED <<file, durable, unsynced, acked, refused, up, inherited, seen, written, faults>>
  BY DEF storeVars
<1>2. /\ at' \in [Writer -> Steps] /\ at'[w] = step
      /\ \A v \in Writer : v # w => at'[v] = at[v]
  BY DEF Inv, TypeOK, Goes, Steps
<1>3. OnFile' = OnFile /\ Risk' = Risk
  BY <1>1 DEF OnFile, Risk, AtRisk
<1>4. Current(w) \in OnFile \cup refused /\ up /\ written[w] \in 1..Count
  BY DEF Inv, Writers, Known, Busy, Begun
<1>5. TypeOK'
  <2>1. \A i \in DOMAIN history' : history'[i] \in Message
    OBVIOUS
  <2> QED
    BY <1>1, <1>2, <2>1 DEF Inv, TypeOK
<1>6. Seqs' /\ Store'
  BY <1>1, <1>3 DEF Inv, Seqs, Store, Distinct, AckedOnFile, Bound
<1>7. LogLeads'
  <2>1. ToSet(history) \cup ToSet(queue) \cup seen \subseteq OnFile \cup refused /\ IsInjective(history)
    BY DEF Inv, LogLeads
  <2>2. ToSet(history') \subseteq ToSet(history) \cup {Current(w)} /\ IsInjective(history')
    BY <2>1
  <2>3. ToSet(history') \cup ToSet(queue') \cup seen \subseteq OnFile \cup refused
    <3>1. \A x \in ToSet(history') : x \in ToSet(history) \/ x = Current(w)
      BY <2>2
    <3>2. \A x \in ToSet(queue') : x \in ToSet(queue) \/ x = Current(w)
      OBVIOUS
    <3> QED
      BY <1>4, <2>1, <3>1, <3>2
  <2> QED
    BY <1>1, <1>3, <2>2, <2>3 DEF LogLeads
<1>8. Busy' /\ Known'
  <2>1. Busy'
    BY <1>1, <1>2, <1>4 DEF Inv, Writers, Busy, Begun
  <2>2. ASSUME NEW v \in Writer, at'[v] \in {"history", "publish", "drain", "retry"}
        PROVE  Current(v) \in OnFile \cup refused
    <3>1. CASE v = w
      BY <1>4, <3>1
    <3>2. CASE v # w
      BY <1>2, <2>2, <3>2 DEF Inv, Writers, Known
    <3> QED
      BY <3>1, <3>2
  <2>3. Known'
    BY <1>1, <1>3, <2>2 DEF Known, Current
  <2> QED
    BY <2>1, <2>3
<1>9. Fresh'
  <2>1. \A v : at'[v] = "append" => at[v] = "append"
    BY DEF Goes, Inv, TypeOK
  <2> QED
    BY <1>1, <1>3, <2>1 DEF Inv, Writers, Fresh
<1>10. Unshown'
  <2> SUFFICES ASSUME NEW v \in Writer, at'[v] = "history" PROVE Current(v) \notin ToSet(history')
    BY <1>1 DEF Unshown, Current
  <2>1. v # w /\ at[v] = "history"
    BY <1>2
  <2>2. Current(v) # Current(w)
    BY <2>1 DEF Current
  <2>3. Current(v) \notin ToSet(history)
    BY <2>1 DEF Inv, Writers, Unshown
  <2> QED
    BY <2>2, <2>3
<1> QED
  BY <1>5, <1>6, <1>7, <1>8, <1>9, <1>10 DEF Inv, Writers

LEMMA HistoryKeeps ==
    ASSUME Inv, NEW w \in Writer, appendHistory(w)
    PROVE  Inv'
<1> DEFINE m == Current(w)
<1>1. /\ at[w] = "history" /\ Goes(w, "publish") /\ history' = Append(history, m) /\ queue' = queue
      /\ UNCHANGED <<storeVars, up, inherited, seen, written, faults>>
  BY DEF appendHistory
<1>2. /\ m \notin ToSet(history) /\ m \in OnFile \cup refused
  BY <1>1 DEF Inv, Writers, Unshown, Known
<1>3. m \in Message
  BY <1>2 DEF Inv, TypeOK, OnFile
<1>4. history \in Seq(Message) /\ queue \in Seq(Message) /\ Len(queue) <= QueueRoom /\ IsInjective(history)
  BY DEF Inv, Seqs, TypeOK, LogLeads
<1>5. history' \in Seq(Message) /\ ToSet(history') = ToSet(history) \cup {m}
  BY <1>1, <1>3, <1>4, Queued
<1>6. IsInjective(history')
  <2> SUFFICES ASSUME NEW i \in DOMAIN history', NEW j \in DOMAIN history', history'[i] = history'[j]
               PROVE  i = j
    BY DEF IsInjective
  <2>1. /\ DOMAIN history' = 1 .. Len(history) + 1 /\ DOMAIN history = 1 .. Len(history)
        /\ Len(history) \in Nat /\ history'[Len(history) + 1] = m
        /\ \A k \in 1 .. Len(history) : history'[k] = history[k]
    BY <1>1, <1>3, <1>4
  <2>2. \A k \in 1 .. Len(history) : history[k] # m
    BY <1>2, <2>1 DEF ToSet
  <2>3. (i \in 1 .. Len(history) \/ i = Len(history) + 1) /\ (j \in 1 .. Len(history) \/ j = Len(history) + 1)
    BY <2>1
  <2>4. CASE i \in 1 .. Len(history) /\ j \in 1 .. Len(history)
    BY <1>4, <2>1, <2>4 DEF IsInjective
  <2> QED
    BY <2>1, <2>2, <2>3, <2>4
<1> QED
  BY <1>1, <1>4, <1>5, <1>6, ShowKeeps

LEMMA PublishKeeps ==
    ASSUME Inv, NEW w \in Writer, publishMessage(w) \/ Drain(w) \/ Retry(w)
    PROVE  Inv'
<1>1. /\ history \in Seq(Message) /\ queue \in Seq(Message) /\ Len(queue) <= QueueRoom
      /\ Len(queue) \in Nat
  BY DEF Inv, Seqs, TypeOK
<1>2. at[w] \in {"publish", "drain", "retry"}
  BY DEF publishMessage, Drain, Retry
<1>3. Current(w) \in Message
  <2>1. Current(w) \in OnFile \cup refused
    BY <1>2 DEF Inv, Writers, Known
  <2> QED
    BY <2>1 DEF Inv, TypeOK, OnFile
<1>4. UNCHANGED <<storeVars, up, inherited, seen, written, faults>> /\ history' = history
  BY DEF publishMessage, Drain, Retry
<1>5. PICK step \in {"idle", "drain", "retry"} : Goes(w, step)
  BY DEF publishMessage, Drain, Retry
<1>6. \/ queue' = queue
      \/ ~Full /\ queue' = Append(queue, Current(w))
      \/ queue # <<>> /\ queue' = Tail(queue)
  BY DEF publishMessage, Drain, Retry
<1>7. /\ queue' \in Seq(Message) /\ Len(queue') <= QueueRoom
      /\ ToSet(queue') \subseteq ToSet(queue) \cup {Current(w)}
  <2>1. CASE queue' = queue
    BY <1>1, <2>1
  <2>2. CASE ~Full /\ queue' = Append(queue, Current(w))
    <3>1. Len(queue) + 1 <= QueueRoom
      BY <1>1, <2>2 DEF Full
    <3> QED
      BY <1>1, <1>3, <2>2, <3>1, Queued
  <2>3. CASE queue # <<>> /\ queue' = Tail(queue)
    <3>1. /\ queue' \in Seq(Message) /\ Len(queue') = Len(queue) - 1
          /\ ToSet(queue') \subseteq ToSet(queue)
      BY <1>1, <2>3, Dequeued
    <3> QED
      BY <1>1, <3>1
  <2> QED
    BY <1>6, <2>1, <2>2, <2>3
<1> QED
  BY <1>1, <1>2, <1>4, <1>5, <1>7, ShowKeeps

LEMMA ReceiveKeeps ==
    ASSUME Inv, Receive
    PROVE  Inv'
<1>1. /\ queue # <<>> /\ seen' = seen \cup {Head(queue)} /\ queue' = Tail(queue)
      /\ UNCHANGED <<file, durable, unsynced, acked, refused, up, inherited, history, at, written, faults>>
  BY DEF Receive, storeVars, writerVars
<1>2. /\ queue' \in Seq(Message) /\ Len(queue') = Len(queue) - 1 /\ Len(queue) \in Nat \ {0}
      /\ Head(queue) \in Message /\ Head(queue) \in ToSet(queue) /\ ToSet(queue') \subseteq ToSet(queue)
  <2>1. queue \in Seq(Message)
    BY DEF Inv, Seqs
  <2> QED
    BY <1>1, <2>1, Dequeued
<1>3. OnFile' = OnFile /\ Risk' = Risk
  BY <1>1 DEF OnFile, Risk, AtRisk
<1>4. TypeOK'
  <2>1. Len(queue') <= QueueRoom /\ seen' \subseteq Message
    BY <1>1, <1>2 DEF Inv, TypeOK
  <2> QED
    BY <1>1, <2>1 DEF Inv, TypeOK
<1>5. Seqs' /\ Store' /\ Writers'
  BY <1>1, <1>2, <1>3 DEF Inv, Seqs, Store, Distinct, AckedOnFile, Bound,
     Writers, Busy, Begun, Fresh, Known, Unshown, Current
<1>6. LogLeads'
  BY <1>1, <1>2, <1>3 DEF Inv, LogLeads
<1> QED
  BY <1>4, <1>5, <1>6 DEF Inv

-----------------------------------------------------------------------------
(* Processes come and go *)

\* readAll's records are messages on file, each once.
LEMMA ReadBack ==
    ASSUME file \in Seq(Frames), Distinct
    PROVE  LET records == readAll(file).records
           IN  records \in Seq(Message) /\ ToSet(records) \subseteq OnFile /\ IsInjective(records)
<1> DEFINE bad == {i \in DOMAIN file : Unreadable(file[i])}
           good == IF bad = {} THEN Len(file) ELSE Min(bad) - 1
           records == [i \in 1..good |-> file[i].msg]
<1>1. readAll(file).records = records
  BY DEF readAll
<1>2. DOMAIN file = 1 .. Len(file) /\ Len(file) \in Nat
  OBVIOUS
<1>3. good \in 0 .. Len(file)
  <2>1. CASE bad = {}
    BY <1>2, <2>1
  <2>2. CASE bad # {}
    <3>1. bad \in SUBSET Nat
      BY <1>2
    <3>2. Min(bad) \in bad
      BY <2>2, <3>1, Least
    <3>3. Min(bad) \in 1 .. Len(file)
      BY <1>2, <3>2
    <3> QED
      BY <1>2, <2>2, <3>3
  <2> QED
    BY <2>1, <2>2
<1> HIDE DEF bad, good
<1>4. \A i \in 1 .. good : i \in DOMAIN file /\ file[i].msg \in Message
  <2>1. \A i \in 1 .. good : i \in DOMAIN file
    BY <1>2, <1>3
  <2>2. \A i \in DOMAIN file : file[i] \in Frames
    OBVIOUS
  <2> QED
    BY <2>1, <2>2 DEF Frames
<1>5. records \in Seq(Message)
  BY <1>3, <1>4
<1>6. DOMAIN records = 1 .. good /\ \A i \in 1 .. good : records[i] = file[i].msg
  OBVIOUS
<1> HIDE DEF records
<1>7. ToSet(records) \subseteq OnFile
  BY <1>4, <1>6 DEF ToSet, OnFile
<1>8. IsInjective(records)
  BY <1>4, <1>6 DEF IsInjective, Distinct
<1> QED
  BY <1>1, <1>5, <1>7, <1>8

LEMMA StartKeeps ==
    ASSUME Inv, Start
    PROVE  Inv'
<1>1. /\ ~up /\ up' = TRUE /\ inherited' = Len(file)
      /\ history' = IF readAll(file).ok THEN readAll(file).records ELSE <<>>
      /\ UNCHANGED <<file, durable, unsynced, acked, refused, queue, seen, at, written, faults>>
  BY DEF Start, storeVars, writerVars
<1>2. file \in Seq(Frames) /\ Len(file) \in Nat /\ DOMAIN file = 1 .. Len(file)
  BY DEF Inv, Seqs
<1>3. \A w \in Writer : at[w] = "idle"
  BY <1>1 DEF Inv, Writers, Busy, Begun
<1>4. history' \in Seq(Message) /\ ToSet(history') \subseteq OnFile /\ IsInjective(history')
  <2>1. CASE readAll(file).ok
    BY <1>1, <1>2, <2>1, ReadBack DEF Inv, Store
  <2>2. CASE ~readAll(file).ok
    <3>1. history' = <<>>
      BY <1>1, <2>2
    <3>2. <<>> \in Seq(Message) /\ DOMAIN <<>> = {}
      OBVIOUS
    <3> QED
      BY <3>1, <3>2 DEF ToSet, IsInjective
  <2> QED
    BY <2>1, <2>2
<1>5. OnFile' = OnFile
  BY <1>1 DEF OnFile
<1>6. Risk' = {}
  <2>1. \A m \in acked' : \E i \in 1 .. inherited' : file'[i].msg = m
    BY <1>1, <1>2 DEF Inv, Store, AckedOnFile, OnFile
  <2> QED
    BY <2>1 DEF Risk, AtRisk
<1>7. TypeOK'
  <2>1. \A i \in DOMAIN history' : history'[i] \in Message
    BY <1>4
  <2>2. inherited' \in 0..Len(file')
    BY <1>1, <1>2
  <2> QED
    BY <1>1, <2>1, <2>2 DEF Inv, TypeOK
<1>8. Bound'
  <2>1. IsFiniteSet({}) /\ Cardinality({}) = 0
    BY FS_EmptySet
  <2>2. unsynced' \in Nat
    BY <1>1, <1>2 DEF Inv, TypeOK
  <2> QED
    BY <1>6, <2>1, <2>2 DEF Bound
<1>9. Store' /\ Seqs'
  BY <1>1, <1>4, <1>5, <1>8 DEF Inv, Store, Distinct, AckedOnFile, Seqs
<1>10. Writers'
  BY <1>1, <1>3, <1>5 DEF Inv, Writers, Busy, Fresh, Known, Unshown
<1>11. LogLeads'
  BY <1>1, <1>4, <1>5 DEF Inv, LogLeads
<1> QED
  BY <1>7, <1>9, <1>10, <1>11 DEF Inv

\* A process ends, and the file has no more than it had.
LEMMA EndsKeeps ==
    ASSUME Inv, ProcessEnds, faults' \in 0..MaxFault,
           file' \in Seq(Frames), OnFile' \subseteq OnFile, Distinct',
           durable' \in 0..Len(file'), acked' \subseteq acked, acked' \subseteq OnFile'
    PROVE  Inv'
<1>1. /\ up' = FALSE /\ inherited' = 0 /\ history' = <<>> /\ queue' = <<>> /\ seen' = {}
      /\ refused' = {} /\ unsynced' = 0 /\ at' = [w \in Writer |-> "idle"] /\ written' = written
  BY DEF ProcessEnds
<1>2. <<>> \in Seq(Message) /\ DOMAIN <<>> = {} /\ Len(<<>>) = 0
  OBVIOUS
<1>3. TypeOK'
  <2>1. \A i \in DOMAIN file' : file'[i] \in [kind : Kinds, msg : Message]
    <3>1. \A i \in DOMAIN file' : file'[i] \in Frames
      OBVIOUS
    <3> QED
      BY <3>1 DEF Frames
  <2>2. unsynced' \in 0..Len(file') /\ inherited' \in 0..Len(file')
    BY <1>1
  <2>3. /\ acked' \subseteq Message /\ refused' \subseteq Message /\ acked' \cap refused' = {}
        /\ up' \in BOOLEAN /\ seen' \subseteq Message /\ at' \in [Writer -> Steps]
        /\ written' \in [Writer -> 0..Count]
    BY <1>1 DEF Inv, TypeOK, Steps
  <2>4. Len(queue') <= QueueRoom /\ \A i \in DOMAIN history' : history'[i] \in Message
    BY <1>1, <1>2
  <2> QED
    BY <2>1, <2>2, <2>3, <2>4 DEF TypeOK
<1>4. Seqs' /\ Store'
  BY <1>1, <1>2 DEF Seqs, Store, AckedOnFile, Bound
<1>5. Writers'
  <2>1. \A w \in Writer : at'[w] = "idle"
    BY <1>1
  <2>2. Fresh'
    <3> SUFFICES ASSUME NEW m \in OnFile
                 PROVE  m[2] <= written[m[1]] /\ at'[m[1]] # "append"
      BY <1>1 DEF Fresh
    <3>1. m[2] <= written[m[1]]
      BY DEF Inv, Writers, Fresh
    <3>2. m \in Message
      BY DEF Inv, TypeOK, OnFile
    <3>3. m[1] \in Writer
      BY <3>2 DEF Message
    <3> QED
      BY <2>1, <3>1, <3>3
  <2> QED
    BY <2>1, <2>2 DEF Writers, Busy, Known, Unshown
<1>6. LogLeads'
  BY <1>1, <1>2 DEF LogLeads, ToSet, IsInjective
<1> QED
  BY <1>3, <1>4, <1>5, <1>6 DEF Inv

LEMMA ExitKeeps ==
    ASSUME Inv, Exit
    PROVE  Inv'
<1>1. Fault /\ ProcessEnds /\ file' = file /\ durable' = durable /\ acked' = acked
  BY DEF Exit
<1>2. file' \in Seq(Frames) /\ OnFile' = OnFile /\ Distinct'
  BY <1>1 DEF Inv, Seqs, Store, OnFile, Distinct
<1>3. durable' \in 0..Len(file') /\ acked' \subseteq OnFile' /\ faults' \in 0..MaxFault
  BY <1>1, <1>2 DEF Inv, Store, AckedOnFile, TypeOK, Fault
<1> QED
  BY <1>1, <1>2, <1>3, EndsKeeps

LEMMA CutKeeps ==
    ASSUME Inv, PowerCut
    PROVE  Inv'
<1>1. PICK n \in durable..Len(file) :
        /\ \/ file' = SubSeq(file, 1, n)
           \/ /\ n < Len(file)
              /\ \E kind \in {"header", "body"} :
                    file' = Append(SubSeq(file, 1, n), Frame(kind, file[n + 1].msg))
        /\ durable' = Len(file')
        /\ acked' = acked \ {file[i].msg : i \in (n + 1)..Len(file)}
  BY DEF PowerCut
<1>2. /\ file \in Seq(Frames) /\ Len(file) \in Nat /\ n \in 0..Len(file)
      /\ DOMAIN file = 1 .. Len(file)
  BY DEF Inv, Seqs, TypeOK
<1> DEFINE kept == SubSeq(file, 1, n)
<1>3. /\ kept \in Seq(Frames) /\ Len(kept) = n /\ DOMAIN kept = 1 .. n /\ 1 .. n \subseteq DOMAIN file
      /\ \A i \in 1 .. n : kept[i] = file[i]
  BY <1>2, Prefix
<1> HIDE DEF kept
\* What is left, a piece at its end included, has the messages it had.
<1>4. /\ file' \in Seq(Frames) /\ Len(file') \in Nat /\ DOMAIN file' \subseteq DOMAIN file
      /\ \A i \in DOMAIN file' : file'[i].msg = file[i].msg
      /\ 1 .. n \subseteq DOMAIN file'
  <2>1. CASE file' = kept
    BY <1>2, <1>3, <2>1
  <2>2. ASSUME n < Len(file), NEW kind \in {"header", "body"},
               file' = Append(kept, Frame(kind, file[n + 1].msg))
        PROVE  /\ file' \in Seq(Frames) /\ Len(file') \in Nat /\ DOMAIN file' \subseteq DOMAIN file
               /\ \A i \in DOMAIN file' : file'[i].msg = file[i].msg
               /\ 1 .. n \subseteq DOMAIN file'
    <3> DEFINE f == Frame(kind, file[n + 1].msg)
    <3>1. n + 1 \in DOMAIN file
      BY <1>2, <2>2
    <3>2. file[n + 1] \in Frames
      BY <1>2, <3>1
    <3>3. f \in Frames /\ f.msg = file[n + 1].msg
      BY <3>2 DEF Frame, Frames, Kinds
    <3> HIDE DEF f
    <3>4. file' = Append(kept, f)
      BY <2>2 DEF f
    <3>5. /\ file' \in Seq(Frames) /\ Len(file') = n + 1 /\ DOMAIN file' = 1 .. n + 1
          /\ \A i \in 1 .. n : file'[i] = kept[i]
      BY <1>2, <1>3, <3>3, <3>4
    <3>6. file'[n + 1] = f
      BY <1>2, <1>3, <3>3, <3>4
    <3>7. \A i \in 1 .. n + 1 : i \in DOMAIN file /\ (i \in 1 .. n \/ i = n + 1)
      BY <1>2, <2>2
    <3>8. \A i \in 1 .. n : i \in 1 .. n + 1
      BY <1>2
    <3> QED
      BY <1>2, <1>3, <3>3, <3>5, <3>6, <3>7, <3>8
  <2> QED
    BY <1>1, <2>1, <2>2 DEF kept
<1>5. OnFile' \subseteq OnFile /\ Distinct'
  BY <1>4 DEF Inv, Store, Distinct, OnFile
<1>6. acked' \subseteq OnFile'
  <2>1. ASSUME NEW m \in acked' PROVE \E i \in 1 .. n : file[i].msg = m
    <3>1. PICK i \in DOMAIN file : file[i].msg = m
      BY <1>1, <2>1 DEF Inv, Store, AckedOnFile, OnFile
    <3>2. i \notin (n + 1)..Len(file)
      BY <1>1, <2>1, <3>1
    <3>3. i \in 1 .. n
      BY <1>2, <3>2
    <3> QED
      BY <3>1, <3>3
  <2> QED
    BY <1>4, <2>1 DEF OnFile
<1>7. durable' \in 0..Len(file') /\ faults' \in 0..MaxFault
  BY <1>1, <1>4 DEF PowerCut, Fault, Inv, TypeOK
<1> QED
  BY <1>1, <1>4, <1>5, <1>6, <1>7, EndsKeeps DEF PowerCut

-----------------------------------------------------------------------------
(* The theorems *)

LEMMA InvInit == Init => Inv
<1> SUFFICES ASSUME Init PROVE Inv
  OBVIOUS
<1>1. <<>> \in Seq(Frames) /\ <<>> \in Seq(Message) /\ Len(<<>>) = 0 /\ DOMAIN <<>> = {}
  OBVIOUS
<1>2. OnFile = {} /\ ToSet(history) = {} /\ ToSet(queue) = {}
  BY <1>1 DEF Init, OnFile, ToSet
<1>3. TypeOK /\ Seqs
  <2>1. /\ at \in [Writer -> Steps] /\ written \in [Writer -> 0..Count]
        /\ 0 \in 0..Len(file) /\ 0 \in 0..MaxFault
    BY <1>1 DEF Init, Steps
  <2>2. Seqs /\ Len(queue) <= QueueRoom /\ DOMAIN file = {} /\ DOMAIN history = {}
    BY <1>1 DEF Init, Seqs
  <2> QED
    BY <2>1, <2>2 DEF Init, TypeOK
<1>4. Writers /\ Store /\ LogLeads
  BY <1>1, <1>2 DEF Init, Writers, Busy, Fresh, Known, Unshown, Store, Distinct, AckedOnFile,
     Bound, LogLeads, IsInjective
<1> QED
  BY <1>3, <1>4 DEF Inv

LEMMA InvNext ==
    ASSUME Inv, [Next]_vars
    PROVE  Inv'
<1>1. CASE UNCHANGED vars
  <2>1. UNCHANGED <<file, durable, unsynced, acked, refused, up, inherited, history, queue, seen,
                    at, written, faults>>
    BY <1>1 DEF vars, storeVars, nodeVars, writerVars
  <2>2. OnFile' = OnFile /\ Risk' = Risk
    BY <2>1 DEF OnFile, Risk, AtRisk
  <2>3. TypeOK' /\ Seqs'
    BY <2>1 DEF Inv, TypeOK, Seqs
  <2>4. Writers' /\ Store' /\ LogLeads'
    BY <2>1, <2>2 DEF Inv, Writers, Busy, Begun, Fresh, Known, Unshown, Current, Store, Distinct,
       AckedOnFile, Bound, LogLeads
  <2> QED
    BY <2>3, <2>4 DEF Inv
<1>2. CASE Next
  BY <1>2, BeginKeeps, LogKeeps, HistoryKeeps, PublishKeeps, ReceiveKeeps, StartKeeps, ExitKeeps,
     CutKeeps DEF Next, WriterStep
<1> QED
  BY <1>1, <1>2

LEMMA Invariance == Spec => []Inv
BY InvInit, InvNext, PTL DEF Spec

\* The file, the counts of frames, the history, the queue and its bound are well
\* formed, and no message is both acknowledged and refused.
THEOREM TypesHold == Spec => []TypeOK
<1>1. Inv => TypeOK
  BY DEF Inv
<1> QED
  BY <1>1, Invariance, PTL

\* PowerCutLoss: Store.unsynced bounds what a power cut takes of the records that the
\* running process was told are written, also when a sync failed and the count went on.
THEOREM LossIsBounded == Spec => []PowerCutLoss
<1>1. Inv => PowerCutLoss
  BY DEF Inv, Store, Bound, Risk, PowerCutLoss
<1> QED
  BY <1>1, Invariance, PTL

\* LogLeads: SendText and the pump show only what went through Append, and no message
\* is in the history twice, whether it was shown or read back.
THEOREM LogComesFirst == Spec => []LogLeads
<1>1. Inv => LogLeads
  BY DEF Inv
<1> QED
  BY <1>1, Invariance, PTL

-----------------------------------------------------------------------------
(* The tables: types *)

USE TableAssumption DEF Tables, Versions, Empty, Locked, Rest

\* The memory keeps its type when a change is marked, and when there is none.
LEMMA MarkedTyped ==
  ASSUME TableTypeOK, NEW changed \in SUBSET Peer, Marked(changed) \/ UNCHANGED memoryVars
  PROVE  rows' \subseteq Peer /\ clock' \in 0..MaxClock /\ dirty' \in BOOLEAN
<1>1. CASE Marked(changed)
  BY <1>1 DEF TableTypeOK, Marked
<1>2. CASE UNCHANGED memoryVars
  BY <1>2 DEF TableTypeOK, memoryVars
<1> QED
  BY <1>1, <1>2

LEMMA TableTypeStep == TableTypeOK /\ [TableNext]_tableVars => TableTypeOK'
<1> SUFFICES ASSUME TableTypeOK, [TableNext]_tableVars PROVE TableTypeOK'
  OBVIOUS
<1> USE DEF TableTypeOK
<1>1. ASSUME NEW w \in Worker, NEW p \in Peer, SetAlias(w, p) PROVE TableTypeOK'
  <2>1. rows' \subseteq Peer /\ clock' \in 0..MaxClock /\ dirty' \in BOOLEAN
    BY <1>1, MarkedTyped, rows \cup {p} \in SUBSET Peer DEF SetAlias
  <2> QED
    BY <1>1, <2>1 DEF SetAlias, ThenSave, SaveGoes
<1>2. ASSUME NEW w \in Worker, NEW p \in Peer, RemoveAlias(w, p) PROVE TableTypeOK'
  <2>1. rows' \subseteq Peer /\ clock' \in 0..MaxClock /\ dirty' \in BOOLEAN
    BY <1>2, MarkedTyped, rows \ {p} \in SUBSET Peer DEF RemoveAlias
  <2> QED
    BY <1>2, <2>1 DEF RemoveAlias, ThenSave, SaveGoes
<1>3. ASSUME NEW w \in Worker, NEW remote \in SUBSET Peer, MergeFromGossip(w, remote)
      PROVE  TableTypeOK'
  <2>1. rows' \subseteq Peer /\ clock' \in 0..MaxClock /\ dirty' \in BOOLEAN
    BY <1>3, MarkedTyped, rows \cup remote \in SUBSET Peer DEF MergeFromGossip
  <2> QED
    BY <1>3, <2>1 DEF MergeFromGossip, ThenSave, SaveGoes
<1>4. ASSUME NEW p \in Peer, Touch(p) PROVE TableTypeOK'
  BY <1>4 DEF Touch, Marked, workerVars
<1>5. ASSUME NEW w \in Worker, Lock(w) PROVE TableTypeOK'
  BY <1>5 DEF Lock, SaveGoes, memoryVars
<1>6. ASSUME NEW w \in Worker, Clean(w) PROVE TableTypeOK'
  BY <1>6 DEF Clean, SaveGoes, memoryVars
<1>7. ASSUME NEW w \in Worker, SeesDirty(w) PROVE TableTypeOK'
  BY <1>7 DEF SeesDirty, SaveGoes, memoryVars
<1>8. ASSUME NEW w \in Worker, Copy(w) PROVE TableTypeOK'
  BY <1>8 DEF Copy, SaveGoes, memoryVars
<1>9. ASSUME NEW w \in Worker, Rename(w) PROVE TableTypeOK'
  BY <1>9 DEF Rename, SaveGoes, memoryVars
<1>10. ASSUME NEW w \in Worker, SaveFails(w) PROVE TableTypeOK'
  BY <1>10 DEF SaveFails, SaveGoes, memoryVars
<1>11. ASSUME NEW w \in Worker, ClearDirty(w) PROVE TableTypeOK'
  BY <1>11 DEF ClearDirty, SaveGoes
<1>12. CASE Restart
  BY <1>12 DEF Restart, Opened
<1>13. CASE UNCHANGED tableVars
  BY <1>13 DEF tableVars, memoryVars, workerVars
<1> QED
  BY <1>1, <1>2, <1>3, <1>4, <1>5, <1>6, <1>7, <1>8, <1>9, <1>10, <1>11, <1>12, <1>13
  DEF TableNext, SaveStep

\* The variables keep their types, and at most one goroutine is inside saveMu.
THEOREM TablesTyped == TableSpec => []TableTypeOK
<1>1. TableInit => TableTypeOK
  BY DEF TableInit, TableTypeOK, Opened
<1> QED
  BY <1>1, TableTypeStep, PTL DEF TableSpec

-----------------------------------------------------------------------------
(* What a goroutine inside saveMu knows about the file *)

\* The file lies behind the table, and the copy that is being written between them.
CopyIsNewer ==
    /\ onDisk.time <= clock
    /\ \A w \in Worker :
        saving[w] = "copied" => onDisk.time <= snapshot[w].time /\ snapshot[w].time <= clock

\* With a single saver s: what s has changed is on disk, unless the table is dirty;
\* a copy contains it, and so does the file when dirty is about to be cleared.
SaverInv(s) ==
    /\ \A x \in Worker \ {s} : saving[x] = "idle" /\ own[x] = 0
    /\ own[s] <= clock
    /\ ~dirty => own[s] <= onDisk.time
    /\ saving[s] = "copied" => own[s] <= snapshot[s].time
    /\ saving[s] \in {"renamed", "saved"} => own[s] <= onDisk.time

TableInv == CopyIsNewer /\ \A s \in Worker : savers = {s} => SaverInv(s)

LEMMA CopyStep == TableTypeOK /\ CopyIsNewer /\ [TableNext]_tableVars
                    => CopyIsNewer' /\ (onDisk.time <= onDisk'.time)
<1> SUFFICES ASSUME TableTypeOK, CopyIsNewer, [TableNext]_tableVars
             PROVE  CopyIsNewer' /\ (onDisk.time <= onDisk'.time)
  OBVIOUS
<1> DEFINE Goal == CopyIsNewer' /\ (onDisk.time <= onDisk'.time)
<1> USE DEF TableTypeOK, CopyIsNewer
<1>1. ASSUME NEW w \in Worker, NEW p \in Peer, SetAlias(w, p) PROVE Goal
  BY <1>1 DEF SetAlias, Marked, ThenSave, SaveGoes
<1>2. ASSUME NEW w \in Worker, NEW p \in Peer, RemoveAlias(w, p) PROVE Goal
  BY <1>2 DEF RemoveAlias, Marked, ThenSave, SaveGoes, memoryVars
<1>3. ASSUME NEW w \in Worker, NEW remote \in SUBSET Peer, MergeFromGossip(w, remote)
      PROVE  Goal
  BY <1>3 DEF MergeFromGossip, Marked, ThenSave, SaveGoes, memoryVars
<1>4. ASSUME NEW p \in Peer, Touch(p) PROVE Goal
  BY <1>4 DEF Touch, Marked, workerVars
<1>5. ASSUME NEW w \in Worker, Lock(w) PROVE Goal
  BY <1>5 DEF Lock, SaveGoes, memoryVars
<1>6. ASSUME NEW w \in Worker, Clean(w) PROVE Goal
  BY <1>6 DEF Clean, SaveGoes, memoryVars
<1>7. ASSUME NEW w \in Worker, SeesDirty(w) PROVE Goal
  BY <1>7 DEF SeesDirty, SaveGoes, memoryVars
<1>8. ASSUME NEW w \in Worker, Copy(w) PROVE Goal
  BY <1>8 DEF Copy, SaveGoes, memoryVars
<1>9. ASSUME NEW w \in Worker, Rename(w) PROVE Goal
  <2>1. \A x \in Worker : saving'[x] # "copied"
    BY <1>9 DEF Rename, SaveGoes
  <2> QED
    BY <1>9, <2>1 DEF Rename, SaveGoes, memoryVars
<1>10. ASSUME NEW w \in Worker, SaveFails(w) PROVE Goal
  BY <1>10 DEF SaveFails, SaveGoes, memoryVars
<1>11. ASSUME NEW w \in Worker, ClearDirty(w) PROVE Goal
  BY <1>11 DEF ClearDirty, SaveGoes
<1>12. CASE Restart
  BY <1>12 DEF Restart, Opened
<1>13. CASE UNCHANGED tableVars
  BY <1>13 DEF tableVars, memoryVars, workerVars
<1> QED
  BY <1>1, <1>2, <1>3, <1>4, <1>5, <1>6, <1>7, <1>8, <1>9, <1>10, <1>11, <1>12, <1>13
  DEF TableNext, SaveStep

LEMMA SaverStep ==
  ASSUME TableTypeOK, CopyIsNewer, NEW s \in Worker, savers = {s}, SaverInv(s),
         [TableNext]_tableVars
  PROVE  SaverInv(s)'
<1> USE DEF TableTypeOK, CopyIsNewer, SaverInv
<1>1. ASSUME NEW w \in Worker, NEW p \in Peer, SetAlias(w, p) PROVE SaverInv(s)'
  BY <1>1 DEF SetAlias, Marked, ThenSave, SaveGoes
<1>2. ASSUME NEW w \in Worker, NEW p \in Peer, RemoveAlias(w, p) PROVE SaverInv(s)'
  BY <1>2 DEF RemoveAlias, Marked, ThenSave, SaveGoes, memoryVars
<1>3. ASSUME NEW w \in Worker, NEW remote \in SUBSET Peer, MergeFromGossip(w, remote)
      PROVE  SaverInv(s)'
  BY <1>3 DEF MergeFromGossip, Marked, ThenSave, SaveGoes, memoryVars
<1>4. ASSUME NEW p \in Peer, Touch(p) PROVE SaverInv(s)'
  BY <1>4 DEF Touch, Marked, workerVars
<1>5. ASSUME NEW w \in Worker, Lock(w) PROVE SaverInv(s)'
  BY <1>5 DEF Lock, SaveGoes, memoryVars
<1>6. ASSUME NEW w \in Worker, Clean(w) PROVE SaverInv(s)'
  BY <1>6 DEF Clean, SaveGoes, memoryVars
<1>7. ASSUME NEW w \in Worker, SeesDirty(w) PROVE SaverInv(s)'
  BY <1>7 DEF SeesDirty, SaveGoes, memoryVars
<1>8. ASSUME NEW w \in Worker, Copy(w) PROVE SaverInv(s)'
  BY <1>8 DEF Copy, SaveGoes, memoryVars
<1>9. ASSUME NEW w \in Worker, Rename(w) PROVE SaverInv(s)'
  BY <1>9 DEF Rename, SaveGoes, memoryVars
<1>10. ASSUME NEW w \in Worker, SaveFails(w) PROVE SaverInv(s)'
  BY <1>10 DEF SaveFails, SaveGoes, memoryVars
<1>11. ASSUME NEW w \in Worker, ClearDirty(w) PROVE SaverInv(s)'
  BY <1>11 DEF ClearDirty, SaveGoes
<1>12. CASE Restart
  BY <1>12 DEF Restart, Opened
<1>13. CASE UNCHANGED tableVars
  BY <1>13 DEF tableVars, memoryVars, workerVars
<1> QED
  BY <1>1, <1>2, <1>3, <1>4, <1>5, <1>6, <1>7, <1>8, <1>9, <1>10, <1>11, <1>12, <1>13
  DEF TableNext, SaveStep

\* Neither the table nor its savers change.
LEMMA SameScenario == [TableNext]_tableVars => savers' = savers
BY DEF TableNext, tableVars, SetAlias, RemoveAlias, MergeFromGossip, Touch, SaveStep, Lock,
       Clean, SeesDirty, Copy, Rename, SaveFails, ClearDirty, Restart, ThenSave

LEMMA TableInvariant == TableSpec => [](TableTypeOK /\ TableInv)
<1>1. TableInit => TableTypeOK /\ TableInv
  BY DEF TableInit, TableTypeOK, Opened, TableInv, CopyIsNewer, SaverInv
<1>2. TableTypeOK /\ TableInv /\ [TableNext]_tableVars => (TableTypeOK /\ TableInv)'
  <2> SUFFICES ASSUME TableTypeOK, TableInv, [TableNext]_tableVars PROVE TableTypeOK' /\ TableInv'
    OBVIOUS
  <2>1. CopyIsNewer'
    BY CopyStep DEF TableInv
  <2>2. ASSUME NEW s \in Worker, savers' = {s} PROVE SaverInv(s)'
    BY <2>2, SaverStep, SameScenario DEF TableInv
  <2> QED
    BY <2>1, <2>2, TableTypeStep DEF TableInv
<1> QED
  BY <1>1, <1>2, PTL DEF TableSpec

\* The file is never replaced by an older version of the table.
THEOREM FileNeverOlder == TableSpec => NeverOlder
<1>1. TableTypeOK /\ TableInv /\ [TableNext]_tableVars => [onDisk.time <= onDisk'.time]_onDisk
  BY CopyStep DEF TableInv
<1> QED
  BY <1>1, TableInvariant, PTL DEF TableSpec, NeverOlder

\* A change whose Save returned nil is on disk, as long as one goroutine saves.
THEOREM SoleSaverKeeps == TableSpec => []SoleSaverDurable
<1>1. TableTypeOK /\ TableInv => SoleSaverDurable
  <2> SUFFICES ASSUME TableTypeOK, TableInv, NEW s \in Worker, savers = {s},
                      NEW w \in Worker, saving[w] = "saved"
               PROVE  own[w] <= onDisk.time
    BY DEF SoleSaverDurable, SaveDurable
  <2> QED
    BY DEF TableInv, SaverInv
<1> QED
  BY <1>1, TableInvariant, PTL
=============================================================================
