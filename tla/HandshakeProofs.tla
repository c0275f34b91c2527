--------------------------- MODULE HandshakeProofs --------------------------
(***************************************************************************)
(* Proofs that the run of the initiator that goes on is the one that the   *)
(* responder answered, and that the handshake implements KeyAgreement, for *)
(* any number of runs of the initiator on one connection.                  *)
(***************************************************************************)
EXTENDS Handshake, Naturals, TLAPS

LEMMA FrameQueued ==
    ASSUME NEW q \in Seq(Frame), NEW f \in Frame
    PROVE  /\ Append(q, f) \in Seq(Frame)
           /\ Len(q) \in Nat /\ Len(Append(q, f)) = Len(q) + 1
           /\ \A i \in 1 .. Len(Append(q, f)) :
                \/ i \in 1 .. Len(q) /\ Append(q, f)[i] = q[i]
                \/ i = Len(q) + 1 /\ Append(q, f)[i] = f
OBVIOUS

LEMMA FrameRead ==
    ASSUME NEW q \in Seq(Frame), q # <<>>
    PROVE  /\ Tail(q) \in Seq(Frame)
           /\ Len(q) \in Nat /\ Len(Tail(q)) \in Nat /\ Len(Tail(q)) = Len(q) - 1
           /\ \A i \in 1 .. Len(Tail(q)) : i + 1 \in 1 .. Len(q) /\ Tail(q)[i] = q[i + 1]
           /\ 1 \in 1 .. Len(q) /\ Head(q) = q[1] /\ Head(q) \in Frame
OBVIOUS

\* What the frames of the runs look like.
LEMMA FramesTyped ==
    ASSUME TypeOK, NEW t \in Try
    PROVE  /\ HelloA(t) \in Frame /\ Done \in Frame
           /\ \A f \in Frame : HelloB(f) \in Frame /\ HelloAPrime(t, f) \in Frame
           /\ HelloA(t).kind = "helloA" /\ HelloA(t).from = t /\ HelloA(t).nonce = nonceA[t]
           /\ Done.kind = "done"
           /\ \A f \in Frame : HelloAPrime(t, f).kind = "helloA'"
BY DEF TypeOK, Run, Frame, HelloA, HelloB, HelloAPrime, Done

LEMMA HelloBTyped ==
    ASSUME TypeOK, NEW f \in Frame
    PROVE  /\ HelloB(f) \in Frame /\ HelloB(f).kind = "helloB" /\ HelloB(f).from = R
           /\ HelloB(f).nonce = nonceB[R] /\ HelloB(f).echo = f.nonce /\ HelloB(f).sig = f.nonce
BY DEF TypeOK, Run, Frame, HelloB

LEMMA DoneTyped ==
    ASSUME TypeOK
    PROVE  Done \in Frame /\ Done.kind = "done"
BY DEF TypeOK, Run, Frame, Done

LEMMA KeyTyped ==
    ASSUME NEW x \in Run, NEW y \in Run, NEW a \in Nonce, NEW b \in Nonce
    PROVE  deriveSessionKey(x, y, a, b) \in Key
BY DEF deriveSessionKey, Key

LEMMA InitTyped == Init => TypeOK
<1> SUFFICES ASSUME Init PROVE TypeOK
  OBVIOUS
<1> USE DEF Init
<1>1. step \in [Run -> Steps]
  BY DEF Steps
<1>2. nonceA \in [Run -> Nonce] /\ nonceB \in [Run -> Nonce]
  BY DEF Nonce
<1>3. remote \in [Run -> Run] /\ key \in [Run -> SUBSET Key]
  OBVIOUS
<1>4. toR \in Seq(Frame) /\ toI \in Seq(Frame) /\ open \subseteq Ends
  OBVIOUS
<1>5. cut \in BOOLEAN
  BY Zenon
<1> QED
  BY <1>1, <1>2, <1>3, <1>4, <1>5 DEF TypeOK

LEMMA FailTyped ==
    ASSUME TypeOK, NEW x \in Run, Fail(x)
    PROVE  step' \in [Run -> Steps] /\ open' \subseteq Ends
BY DEF TypeOK, Fail, Steps

LEMMA TypedStep == TypeOK /\ [Next]_vars => TypeOK'
<1> SUFFICES ASSUME TypeOK, [Next]_vars PROVE TypeOK'
  OBVIOUS
<1>1. CASE UNCHANGED vars
  BY <1>1 DEF TypeOK, vars, runVars
<1>2. ASSUME NEW t \in Try, sendHelloA(t) PROVE TypeOK'
  <2>1. toR' \in Seq(Frame)
    BY <1>2, FramesTyped, FrameQueued DEF sendHelloA, TypeOK
  <2> QED
    BY <1>2, <2>1 DEF sendHelloA, TypeOK, Steps
<1>3. ASSUME NEW t \in Try, recvHelloB(t) PROVE TypeOK'
  <2>1. toI' \in Seq(Frame) /\ Head(toI) \in Frame
    BY <1>3, FrameRead DEF recvHelloB, TypeOK
  <2>2. Head(toI).nonce \in Nonce /\ Head(toI).from \in Run
    BY <2>1 DEF Frame
  <2>3. CASE GoodHelloB(t, Head(toI))
    <3>1. /\ toR' = Append(toR, HelloAPrime(t, Head(toI)))
          /\ nonceB' = [nonceB EXCEPT ![t] = Head(toI).nonce]
          /\ remote' = [remote EXCEPT ![t] = Head(toI).from]
          /\ step' = [step EXCEPT ![t] = "done"]
      BY <1>3, <2>3 DEF recvHelloB
    <3>0. UNCHANGED <<nonceA, key, open, cut>>
      BY <1>3, <2>3 DEF recvHelloB
    <3>2. toR' \in Seq(Frame)
      BY <2>1, <3>1, FramesTyped, FrameQueued DEF TypeOK
    <3>3. /\ nonceB' \in [Run -> Nonce] /\ remote' \in [Run -> Run]
          /\ step' \in [Run -> Steps]
      BY <2>2, <3>1 DEF TypeOK, Steps
    <3> QED
      BY <2>1, <3>0, <3>2, <3>3 DEF TypeOK
  <2>4. CASE ~GoodHelloB(t, Head(toI))
    <3>1. Fail(t) /\ t \in Run
      BY <1>3, <2>4 DEF recvHelloB, Run
    <3>2. step' \in [Run -> Steps] /\ open' \subseteq Ends
      BY <3>1, FailTyped
    <3> QED
      BY <1>3, <2>1, <2>4, <3>2 DEF recvHelloB, TypeOK
  <2> QED
    BY <2>3, <2>4
<1>4. ASSUME NEW t \in Try, recvDone(t) PROVE TypeOK'
  <2>1. toI' \in Seq(Frame) /\ t \in Run
    BY <1>4, FrameRead DEF recvDone, TypeOK, Run
  <2>2. CASE Head(toI).kind = "done"
    <3> DEFINE k == deriveSessionKey(t, remote[t], nonceA[t], nonceB[t])
    <3>1. /\ step' = [step EXCEPT ![t] = "ready"]
          /\ key' = [key EXCEPT ![t] = {k}]
          /\ UNCHANGED <<nonceA, nonceB, remote, toR, open, cut>>
      BY <1>4, <2>2 DEF recvDone
    <3>2. k \in Key
      BY <2>1, KeyTyped DEF TypeOK
    <3> HIDE DEF k
    <3> QED
      BY <2>1, <3>1, <3>2 DEF TypeOK, Steps
  <2>3. CASE Head(toI).kind # "done"
    <3>1. step' \in [Run -> Steps] /\ open' \subseteq Ends
      BY <1>4, <2>1, <2>3, FailTyped DEF recvDone
    <3> QED
      BY <1>4, <2>1, <2>3, <3>1 DEF recvDone, TypeOK
  <2> QED
    BY <2>2, <2>3
<1>5. ASSUME NEW t \in Try, TornRead(t) PROVE TypeOK'
  <2>1. toI' \in Seq(Frame) /\ t \in Run
    BY <1>5, FrameRead DEF TornRead, TypeOK, Run
  <2>2. step' \in [Run -> Steps] /\ open' \subseteq Ends
    <3>1. CASE step[t] = "ready"
      BY <1>5, <3>1 DEF TornRead, TypeOK
    <3>2. CASE step[t] # "ready"
      BY <1>5, <2>1, <3>2, FailTyped DEF TornRead
    <3> QED
      BY <3>1, <3>2
  <2> QED
    BY <1>5, <2>1, <2>2 DEF TornRead, TypeOK
<1>6. CASE recvHelloA
  <2>1. toR' \in Seq(Frame) /\ Head(toR) \in Frame /\ R \in Run
    BY <1>6, FrameRead DEF recvHelloA, TypeOK, Run
  <2>2. Head(toR).nonce \in Nonce /\ Head(toR).from \in Run
    BY <2>1 DEF Frame
  <2>3. CASE Head(toR).kind = "helloA"
    <3>1. /\ toI' = Append(toI, HelloB(Head(toR)))
          /\ nonceA' = [nonceA EXCEPT ![R] = Head(toR).nonce]
          /\ remote' = [remote EXCEPT ![R] = Head(toR).from]
          /\ step' = [step EXCEPT ![R] = "helloA'"]
          /\ UNCHANGED <<nonceB, key, open, cut>>
      BY <1>6, <2>3 DEF recvHelloA
    <3>2. HelloB(Head(toR)) \in Frame
      BY <2>1, HelloBTyped
    <3>3. toI' \in Seq(Frame)
      BY <3>1, <3>2, FrameQueued DEF TypeOK
    <3>4. /\ nonceA' \in [Run -> Nonce] /\ remote' \in [Run -> Run]
          /\ step' \in [Run -> Steps]
      BY <2>2, <3>1 DEF TypeOK, Steps
    <3> QED
      BY <2>1, <3>1, <3>3, <3>4 DEF TypeOK
  <2>4. CASE Head(toR).kind # "helloA"
    <3>1. step' \in [Run -> Steps] /\ open' \subseteq Ends
      BY <1>6, <2>1, <2>4, FailTyped DEF recvHelloA
    <3> QED
      BY <1>6, <2>1, <2>4, <3>1 DEF recvHelloA, TypeOK
  <2> QED
    BY <2>3, <2>4
<1>7. CASE recvHelloAPrime
  <2>1. toR' \in Seq(Frame) /\ Head(toR) \in Frame /\ R \in Run
    BY <1>7, FrameRead DEF recvHelloAPrime, TypeOK, Run
  <2>2. CASE GoodHelloAPrime(Head(toR))
    <3> DEFINE k == deriveSessionKey(R, remote[R], nonceA[R], nonceB[R])
    <3>1. /\ toI' = Append(toI, Done)
          /\ step' = [step EXCEPT ![R] = "ready"]
          /\ key' = [key EXCEPT ![R] = {k}]
          /\ UNCHANGED <<nonceA, nonceB, remote, open, cut>>
      BY <1>7, <2>2 DEF recvHelloAPrime
    <3>2. toI' \in Seq(Frame)
      BY <3>1, DoneTyped, FrameQueued DEF TypeOK
    <3>3. k \in Key
      BY <2>1, KeyTyped DEF TypeOK
    <3> HIDE DEF k
    <3> QED
      BY <2>1, <3>1, <3>2, <3>3 DEF TypeOK, Steps
  <2>3. CASE ~GoodHelloAPrime(Head(toR))
    <3>1. step' \in [Run -> Steps] /\ open' \subseteq Ends
      BY <1>7, <2>1, <2>3, FailTyped DEF recvHelloAPrime
    <3> QED
      BY <1>7, <2>1, <2>3, <3>1 DEF recvHelloAPrime, TypeOK
  <2> QED
    BY <2>2, <2>3
<1>8. ASSUME NEW x \in Run, RunFails(x) PROVE TypeOK'
  BY <1>8, FailTyped DEF RunFails, TypeOK
<1>9. ASSUME NEW x \in Run, PumpEnds(x) PROVE TypeOK'
  BY <1>9 DEF PumpEnds, TypeOK, runVars
<1>10. CASE Break
  BY <1>10 DEF Break, TypeOK, runVars
<1> QED
  BY <1>1, <1>2, <1>3, <1>4, <1>5, <1>6, <1>7, <1>8, <1>9, <1>10 DEF Next, RunStep

-----------------------------------------------------------------------------
(* The inductive invariant *)

\* A nonce belongs to the run that has drawn it.
NonceInv ==
    /\ \A t \in Try : nonceA[t] = <<t, "A">>
    /\ nonceB[R] = <<R, "B">>

\* A frame helloB answers the run that the responder goes on with.
Answers(f) ==
    /\ f.from = R /\ f.nonce = nonceB[R]
    /\ f.echo = nonceA[R] /\ f.sig = nonceA[R]
    /\ remote[R] \in Try /\ nonceA[R] = <<remote[R], "A">>
    /\ step[R] # "helloA"

\* Frames are what a run has sent, and only the run whose helloA was answered goes on.
FrameInv ==
    /\ \A i \in 1 .. Len(toR) :
         toR[i].kind = "helloA" =>
             toR[i].from \in Try /\ toR[i].nonce = <<toR[i].from, "A">>
    /\ \A i \in 1 .. Len(toI) : toI[i].kind = "helloB" => Answers(toI[i])
    /\ \A t \in Try : step[t] \in {"done", "ready"} => step[R] # "helloA"
    /\ AnsweredRun

\* The responder's key comes first, with one frame done, which one run reads.
KeyInv ==
    /\ step[R] \in {"helloA", "helloA'"} => key[R] = {}
    /\ key[R] # {} => key[R] = {deriveSessionKey(R, remote[R], nonceA[R], nonceB[R])}
    /\ key[R] = {} => \A t \in Try : key[t] = {}
    /\ \A i \in 1 .. Len(toI) : toI[i].kind = "done" =>
         /\ key[R] # {}
         /\ \A t \in Try : key[t] = {}
         /\ \A j \in 1 .. Len(toI) : toI[j].kind = "done" => j = i

Inv == TypeOK /\ NonceInv /\ FrameInv /\ KeyInv

LEMMA InitInv == Init => NonceInv /\ FrameInv /\ KeyInv
<1> SUFFICES ASSUME Init PROVE NonceInv /\ FrameInv /\ KeyInv
  OBVIOUS
<1>1. R \in Run /\ \A t \in Try : t \in Run /\ t # R
  BY HandshakeAssumption DEF Run
<1>2. NonceInv
  BY <1>1 DEF Init, NonceInv
<1>3. FrameInv
  BY <1>1 DEF Init, FrameInv, AnsweredRun
<1>4. KeyInv
  BY <1>1 DEF Init, KeyInv
<1> QED
  BY <1>2, <1>3, <1>4

\* A step that takes a frame, or ends a run, and sends nothing.
LEMMA QuietStep ==
    ASSUME Inv, UNCHANGED <<nonceA, nonceB, remote, key>>,
           \A x \in Run : step'[x] = step[x] \/ step'[x] = "failed",
           toR' = toR \/ (toR # <<>> /\ toR' = Tail(toR)),
           toI' = toI \/ (toI # <<>> /\ toI' = Tail(toI))
    PROVE  NonceInv' /\ FrameInv' /\ KeyInv'
<1>1. R \in Run /\ \A t \in Try : t \in Run
  BY DEF Run
<1>2. NonceInv'
  BY DEF Inv, NonceInv
<1>3. \/ toR' = toR
      \/ \A i \in 1 .. Len(toR') : i + 1 \in 1 .. Len(toR) /\ toR'[i] = toR[i + 1]
  BY FrameRead DEF Inv, TypeOK
<1>4. \/ toI' = toI
      \/ /\ Len(toI') \in Nat /\ Len(toI) \in Nat
         /\ \A i \in 1 .. Len(toI') : i + 1 \in 1 .. Len(toI) /\ toI'[i] = toI[i + 1]
  BY FrameRead DEF Inv, TypeOK
<1>5. \A i \in 1 .. Len(toI') : \E j \in 1 .. Len(toI) : toI'[i] = toI[j]
  BY <1>4
<1>6. FrameInv'
  <2>1. \A i \in 1 .. Len(toR') : toR'[i].kind = "helloA" =>
            toR'[i].from \in Try /\ toR'[i].nonce = <<toR'[i].from, "A">>
    BY <1>3 DEF Inv, FrameInv
  <2>2. \A i \in 1 .. Len(toI') : toI'[i].kind = "helloB" => Answers(toI[i])'
    BY <1>1, <1>5 DEF Inv, FrameInv, Answers
  <2>3. \A t \in Try : step'[t] \in {"done", "ready"} => step'[R] # "helloA"
    BY <1>1 DEF Inv, FrameInv
  <2>4. AnsweredRun'
    BY <1>1 DEF Inv, FrameInv, AnsweredRun
  <2> QED
    BY <2>1, <2>2, <2>3, <2>4 DEF FrameInv
<1>7. KeyInv'
  <2>1. step'[R] \in {"helloA", "helloA'"} => key'[R] = {}
    BY <1>1 DEF Inv, KeyInv
  <2>2. \A i \in 1 .. Len(toI') : toI'[i].kind = "done" =>
         /\ key'[R] # {}
         /\ \A t \in Try : key'[t] = {}
         /\ \A j \in 1 .. Len(toI') : toI'[j].kind = "done" => j = i
    <3>1. \A i \in 1 .. Len(toI) : toI[i].kind = "done" =>
            /\ key'[R] # {}
            /\ \A t \in Try : key'[t] = {}
            /\ \A j \in 1 .. Len(toI) : toI[j].kind = "done" => j = i
      BY DEF Inv, KeyInv
    <3>2. CASE toI' = toI
      BY <3>1, <3>2
    <3>3. CASE toI' # toI
      <4> SUFFICES ASSUME NEW i \in 1 .. Len(toI'), toI'[i].kind = "done"
                   PROVE  /\ key'[R] # {}
                          /\ \A t \in Try : key'[t] = {}
                          /\ \A j \in 1 .. Len(toI') : toI'[j].kind = "done" => j = i
        OBVIOUS
      <4>1. i + 1 \in 1 .. Len(toI) /\ toI[i + 1].kind = "done"
        BY <1>4, <3>3
      <4>2. ASSUME NEW j \in 1 .. Len(toI'), toI'[j].kind = "done" PROVE j = i
        <5>1. j + 1 \in 1 .. Len(toI) /\ toI[j + 1].kind = "done"
          BY <1>4, <3>3, <4>2
        <5>2. j + 1 = i + 1
          BY <3>1, <4>1, <5>1
        <5> QED
          BY <5>2
      <4> QED
        BY <3>1, <4>1, <4>2
    <3> QED
      BY <3>2, <3>3
  <2>3. /\ key'[R] # {} => key'[R] = {deriveSessionKey(R, remote[R], nonceA[R], nonceB[R])'}
        /\ key'[R] = {} => \A t \in Try : key'[t] = {}
    BY DEF Inv, KeyInv, deriveSessionKey
  <2> QED
    BY <2>1, <2>2, <2>3 DEF KeyInv
<1> QED
  BY <1>2, <1>6, <1>7

LEMMA SendHelloAInv ==
    ASSUME Inv, NEW t \in Try, sendHelloA(t)
    PROVE  NonceInv' /\ FrameInv' /\ KeyInv'
<1>1. R \in Run /\ t \in Run /\ t # R
  BY HandshakeAssumption DEF Run
<1>2. /\ toR' = Append(toR, HelloA(t))
      /\ step' = [step EXCEPT ![t] = "helloB"]
      /\ UNCHANGED <<nonceA, nonceB, remote, key, toI>>
  BY DEF sendHelloA
<1>3. step'[R] = step[R] /\ \A u \in Try : step'[u] = step[u] \/ step'[u] = "helloB"
  BY <1>1, <1>2 DEF Inv, TypeOK, Run
<1>4. \A i \in 1 .. Len(toR') : toR'[i].kind = "helloA" =>
          toR'[i].from \in Try /\ toR'[i].nonce = <<toR'[i].from, "A">>
  <2>1. HelloA(t) \in Frame /\ HelloA(t).from = t /\ HelloA(t).nonce = <<t, "A">>
    BY FramesTyped DEF Inv, NonceInv
  <2>2. \A i \in 1 .. Len(toR') :
            \/ i \in 1 .. Len(toR) /\ toR'[i] = toR[i]
            \/ toR'[i] = HelloA(t)
    BY <1>2, <2>1, FrameQueued DEF Inv, TypeOK
  <2> QED
    BY <2>1, <2>2 DEF Inv, FrameInv
<1>5. FrameInv'
  BY <1>2, <1>3, <1>4 DEF Inv, FrameInv, Answers, AnsweredRun
<1>6. NonceInv' /\ KeyInv'
  BY <1>2, <1>3 DEF Inv, NonceInv, KeyInv, deriveSessionKey
<1> QED
  BY <1>5, <1>6

LEMMA RecvHelloBInv ==
    ASSUME Inv, NEW t \in Try, recvHelloB(t), GoodHelloB(t, Head(toI))
    PROVE  NonceInv' /\ FrameInv' /\ KeyInv'
<1> DEFINE f == Head(toI)
<1>1. R \in Run /\ t \in Run /\ t # R
  BY HandshakeAssumption DEF Run
<1>2. /\ toI # <<>> /\ toI' = Tail(toI)
      /\ toR' = Append(toR, HelloAPrime(t, f))
      /\ nonceB' = [nonceB EXCEPT ![t] = f.nonce]
      /\ remote' = [remote EXCEPT ![t] = f.from]
      /\ step' = [step EXCEPT ![t] = "done"]
      /\ UNCHANGED <<nonceA, key>>
  BY DEF recvHelloB
<1>3. /\ Len(toI') \in Nat /\ Len(toI) \in Nat
      /\ \A i \in 1 .. Len(toI') : i + 1 \in 1 .. Len(toI) /\ toI'[i] = toI[i + 1]
      /\ f \in Frame /\ 1 \in 1 .. Len(toI) /\ f = toI[1]
  BY <1>2, FrameRead DEF Inv, TypeOK
<1>4. f.kind = "helloB" /\ f.echo = nonceA[t] /\ Answers(f)
  BY <1>3 DEF GoodHelloB, Inv, FrameInv
<1> HIDE DEF f
<1>5. remote[R] = t /\ nonceA[t] = nonceA[R] /\ f.nonce = nonceB[R] /\ f.from = R
  <2>1. f.from = R /\ f.nonce = nonceB[R] /\ nonceA[t] = nonceA[R]
    BY <1>4 DEF Answers
  <2>2. <<remote[R], "A">> = <<t, "A">>
    BY <1>4 DEF Answers, Inv, NonceInv
  <2> QED
    BY <2>1, <2>2
<1>6. /\ step'[R] = step[R] /\ remote'[R] = remote[R] /\ nonceB'[R] = nonceB[R]
      /\ step'[t] = "done" /\ remote'[t] = R /\ nonceB'[t] = nonceB[R]
      /\ \A u \in Try \ {t} :
           step'[u] = step[u] /\ remote'[u] = remote[u] /\ nonceB'[u] = nonceB[u]
  BY <1>1, <1>2, <1>5 DEF Inv, TypeOK, Run
<1>7. \A i \in 1 .. Len(toR') : toR'[i].kind = "helloA" =>
          toR'[i].from \in Try /\ toR'[i].nonce = <<toR'[i].from, "A">>
  <2>1. HelloAPrime(t, f) \in Frame /\ HelloAPrime(t, f).kind = "helloA'"
    BY <1>3, FramesTyped DEF Inv
  <2>2. \A i \in 1 .. Len(toR') :
            \/ i \in 1 .. Len(toR) /\ toR'[i] = toR[i]
            \/ toR'[i] = HelloAPrime(t, f)
    BY <1>2, <2>1, FrameQueued DEF Inv, TypeOK
  <2> QED
    BY <2>1, <2>2 DEF Inv, FrameInv
<1>8. \A i \in 1 .. Len(toI') : toI'[i].kind = "helloB" => Answers(toI[i])'
  BY <1>2, <1>3, <1>6 DEF Inv, FrameInv, Answers
<1>9. FrameInv'
  <2>1. \A u \in Try : step'[u] \in {"done", "ready"} => step'[R] # "helloA"
    BY <1>4, <1>6 DEF Inv, FrameInv, Answers
  <2>2. AnsweredRun'
    BY <1>2, <1>5, <1>6 DEF Inv, FrameInv, AnsweredRun
  <2> QED
    BY <1>7, <1>8, <2>1, <2>2 DEF FrameInv
<1>10. NonceInv' /\ KeyInv'
  <2>1. \A i \in 1 .. Len(toI') : toI'[i].kind = "done" =>
         /\ key[R] # {}
         /\ \A u \in Try : key[u] = {}
         /\ \A j \in 1 .. Len(toI') : toI'[j].kind = "done" => j = i
    BY <1>3 DEF Inv, KeyInv
  <2> QED
    BY <1>2, <1>6, <2>1 DEF Inv, NonceInv, KeyInv, deriveSessionKey
<1> QED
  BY <1>9, <1>10

\* The key that run t confirms is the responder's.
LEMMA RecvDoneInv ==
    ASSUME Inv, NEW t \in Try, recvDone(t), Head(toI).kind = "done"
    PROVE  /\ NonceInv' /\ FrameInv' /\ KeyInv'
           /\ key[R] # {} /\ key' = [key EXCEPT ![t] = key[R]]
           /\ \A u \in Try : key[u] = {}
<1> DEFINE k == deriveSessionKey(t, remote[t], nonceA[t], nonceB[t])
<1>1. R \in Run /\ t \in Run /\ t # R
  BY HandshakeAssumption DEF Run
<1>2. /\ step[t] = "done" /\ toI # <<>> /\ toI' = Tail(toI)
      /\ step' = [step EXCEPT ![t] = "ready"]
      /\ key' = [key EXCEPT ![t] = {k}]
      /\ UNCHANGED <<nonceA, nonceB, remote, toR>>
  BY DEF recvDone
<1>3. /\ Len(toI') \in Nat /\ Len(toI) \in Nat
      /\ \A i \in 1 .. Len(toI') : i + 1 \in 1 .. Len(toI) /\ toI'[i] = toI[i + 1]
      /\ 1 \in 1 .. Len(toI) /\ Head(toI) = toI[1]
  BY <1>2, FrameRead DEF Inv, TypeOK
<1>4. /\ key[R] # {}
      /\ \A u \in Try : key[u] = {}
      /\ \A j \in 1 .. Len(toI) : toI[j].kind = "done" => j = 1
  BY <1>3 DEF Inv, KeyInv
<1>5. \A i \in 1 .. Len(toI') : toI'[i].kind # "done"
  BY <1>3, <1>4
<1>6. /\ step[R] # "helloA" /\ remote[t] = R /\ remote[R] = t
      /\ nonceA[t] = nonceA[R] /\ nonceB[t] = nonceB[R]
  BY <1>2 DEF Inv, FrameInv, AnsweredRun
<1>7. key[R] = {k}
  BY <1>4, <1>6 DEF Inv, KeyInv, deriveSessionKey
<1> HIDE DEF k
<1>8. key' = [key EXCEPT ![t] = key[R]]
  BY <1>2, <1>7
<1>9. /\ step'[R] = step[R] /\ step'[t] = "ready" /\ key'[R] = key[R]
      /\ \A u \in Try \ {t} : step'[u] = step[u]
  BY <1>1, <1>2 DEF Inv, TypeOK, Run
<1>10. FrameInv'
  <2>1. \A i \in 1 .. Len(toI') : toI'[i].kind = "helloB" => Answers(toI[i])'
    BY <1>2, <1>3, <1>9 DEF Inv, FrameInv, Answers
  <2>2. \A u \in Try : step'[u] \in {"done", "ready"} => step'[R] # "helloA"
    BY <1>6, <1>9
  <2>3. AnsweredRun'
    BY <1>2, <1>6, <1>9 DEF Inv, FrameInv, AnsweredRun
  <2> QED
    BY <1>2, <2>1, <2>2, <2>3 DEF Inv, FrameInv
<1>11. NonceInv' /\ KeyInv'
  BY <1>2, <1>4, <1>5, <1>9 DEF Inv, NonceInv, KeyInv, deriveSessionKey
<1> QED
  BY <1>4, <1>8, <1>10, <1>11

LEMMA RecvHelloAInv ==
    ASSUME Inv, recvHelloA, Head(toR).kind = "helloA"
    PROVE  NonceInv' /\ FrameInv' /\ KeyInv'
<1> DEFINE f == Head(toR)
<1>1. R \in Run /\ \A t \in Try : t \in Run /\ t # R
  BY HandshakeAssumption DEF Run
<1>2. /\ step[R] = "helloA" /\ toR # <<>> /\ toR' = Tail(toR)
      /\ toI' = Append(toI, HelloB(f))
      /\ nonceA' = [nonceA EXCEPT ![R] = f.nonce]
      /\ remote' = [remote EXCEPT ![R] = f.from]
      /\ step' = [step EXCEPT ![R] = "helloA'"]
      /\ UNCHANGED <<nonceB, key>>
  BY DEF recvHelloA
<1>3. /\ \A i \in 1 .. Len(toR') : i + 1 \in 1 .. Len(toR) /\ toR'[i] = toR[i + 1]
      /\ f \in Frame /\ 1 \in 1 .. Len(toR) /\ f = toR[1]
  BY <1>2, FrameRead DEF Inv, TypeOK
<1>4. f.from \in Try /\ f.nonce = <<f.from, "A">>
  BY <1>3 DEF Inv, FrameInv
<1>5. /\ HelloB(f) \in Frame /\ HelloB(f).kind = "helloB" /\ HelloB(f).from = R
      /\ HelloB(f).nonce = nonceB[R] /\ HelloB(f).echo = f.nonce /\ HelloB(f).sig = f.nonce
  BY <1>3, HelloBTyped DEF Inv
<1> HIDE DEF f
<1>6. /\ step'[R] = "helloA'" /\ remote'[R] = f.from /\ nonceA'[R] = f.nonce
      /\ \A t \in Try :
           step'[t] = step[t] /\ remote'[t] = remote[t] /\ nonceA'[t] = nonceA[t]
  BY <1>1, <1>2 DEF Inv, TypeOK
<1>7. \A i \in 1 .. Len(toI') :
          \/ i \in 1 .. Len(toI) /\ toI'[i] = toI[i]
          \/ toI'[i] = HelloB(f)
  BY <1>2, <1>5, FrameQueued DEF Inv, TypeOK
<1>8. \A i \in 1 .. Len(toI) : toI[i].kind \notin {"helloB", "done"}
  BY <1>2 DEF Inv, FrameInv, Answers, KeyInv
<1>9. \A t \in Try : step'[t] \notin {"done", "ready"}
  BY <1>2, <1>6 DEF Inv, FrameInv
<1>10. FrameInv'
  <2>1. \A i \in 1 .. Len(toR') : toR'[i].kind = "helloA" =>
            toR'[i].from \in Try /\ toR'[i].nonce = <<toR'[i].from, "A">>
    BY <1>3 DEF Inv, FrameInv
  <2>2. \A i \in 1 .. Len(toI') : toI'[i].kind = "helloB" => Answers(toI[i])'
    <3>1. \A i \in 1 .. Len(toI') : toI'[i].kind = "helloB" => toI'[i] = HelloB(f)
      BY <1>7, <1>8
    <3>2. nonceB'[R] = nonceB[R]
      BY <1>2
    <3> QED
      BY <1>4, <1>5, <1>6, <3>1, <3>2 DEF Answers
  <2> QED
    BY <1>9, <2>1, <2>2 DEF FrameInv, AnsweredRun
<1>11. NonceInv' /\ KeyInv'
  <2>1. \A i \in 1 .. Len(toI') : toI'[i].kind # "done"
    BY <1>5, <1>7, <1>8
  <2> QED
    BY <1>2, <1>6, <2>1 DEF Inv, NonceInv, KeyInv
<1> QED
  BY <1>10, <1>11

LEMMA RecvHelloAPrimeInv ==
    ASSUME Inv, recvHelloAPrime, GoodHelloAPrime(Head(toR))
    PROVE  /\ NonceInv' /\ FrameInv' /\ KeyInv'
           /\ key[R] = {} /\ \A t \in Try : key[t] = {}
           /\ \E k \in Key : key' = [key EXCEPT ![R] = {k}]
<1> DEFINE k == deriveSessionKey(R, remote[R], nonceA[R], nonceB[R])
<1>1. R \in Run /\ \A t \in Try : t \in Run /\ t # R
  BY HandshakeAssumption DEF Run
<1>2. /\ step[R] = "helloA'" /\ toR # <<>> /\ toR' = Tail(toR)
      /\ toI' = Append(toI, Done)
      /\ step' = [step EXCEPT ![R] = "ready"]
      /\ key' = [key EXCEPT ![R] = {k}]
      /\ UNCHANGED <<nonceA, nonceB, remote>>
  BY DEF recvHelloAPrime
<1>3. k \in Key
  BY <1>1, KeyTyped DEF Inv, TypeOK
<1>4. k = k'
  BY <1>2 DEF deriveSessionKey
<1>5. Done \in Frame /\ Done.kind = "done"
  BY DoneTyped DEF Inv
<1>6. \A i \in 1 .. Len(toR') : i + 1 \in 1 .. Len(toR) /\ toR'[i] = toR[i + 1]
  BY <1>2, FrameRead DEF Inv, TypeOK
<1>7. \A i \in 1 .. Len(toI') :
          \/ i \in 1 .. Len(toI) /\ toI'[i] = toI[i]
          \/ i = Len(toI) + 1 /\ toI'[i] = Done
  BY <1>2, <1>5, FrameQueued DEF Inv, TypeOK
<1>8. /\ key[R] = {} /\ \A t \in Try : key[t] = {}
      /\ \A i \in 1 .. Len(toI) : toI[i].kind # "done"
  BY <1>2 DEF Inv, KeyInv
<1>9. /\ step'[R] = "ready" /\ key'[R] = {k}
      /\ \A t \in Try : step'[t] = step[t] /\ key'[t] = key[t]
  BY <1>1, <1>2 DEF Inv, TypeOK
<1>10. FrameInv'
  <2>1. \A i \in 1 .. Len(toR') : toR'[i].kind = "helloA" =>
            toR'[i].from \in Try /\ toR'[i].nonce = <<toR'[i].from, "A">>
    BY <1>6 DEF Inv, FrameInv
  <2>2. \A i \in 1 .. Len(toI') : toI'[i].kind = "helloB" => Answers(toI[i])'
    <3>1. \A i \in 1 .. Len(toI') : toI'[i].kind = "helloB" =>
              toI'[i] = toI[i] /\ Answers(toI[i])
      BY <1>5, <1>7 DEF Inv, FrameInv
    <3>2. UNCHANGED <<nonceA, nonceB, remote>>
      BY <1>2
    <3> QED
      BY <1>9, <3>1, <3>2 DEF Answers
  <2>3. AnsweredRun'
    BY <1>2, <1>9 DEF Inv, FrameInv, AnsweredRun
  <2> QED
    BY <1>9, <2>1, <2>2, <2>3 DEF FrameInv
<1>11. NonceInv'
  BY <1>2 DEF Inv, NonceInv
<1>12. KeyInv'
  <2>1. key'[R] = {deriveSessionKey(R, remote[R], nonceA[R], nonceB[R])'}
    BY <1>4, <1>9
  <2>2. \A i \in 1 .. Len(toI') : toI'[i].kind = "done" => i = Len(toI) + 1
    BY <1>7, <1>8
  <2> HIDE DEF k
  <2> QED
    BY <1>8, <1>9, <2>1, <2>2 DEF KeyInv
<1> QED
  BY <1>2, <1>3, <1>8, <1>10, <1>11, <1>12

\* The abstraction of a step that gives no run a key.
NoKey == UNCHANGED key

\* The abstraction of the step that gives the responder its key.
Accepts ==
    /\ key[R] = {} /\ \A t \in Try : key[t] = {}
    /\ \E k \in Key : key' = [key EXCEPT ![R] = {k}]

\* The abstraction of the step that gives a run of the initiator its key.
Confirms ==
    /\ key[R] # {} /\ \A t \in Try : key[t] = {}
    /\ \E t \in Try : key' = [key EXCEPT ![t] = key[R]]

LEMMA InvStep ==
    ASSUME Inv, [Next]_vars
    PROVE  NonceInv' /\ FrameInv' /\ KeyInv' /\ (NoKey \/ Accepts \/ Confirms)
<1> DEFINE Goal == NonceInv' /\ FrameInv' /\ KeyInv' /\ (NoKey \/ Accepts \/ Confirms)
<1>1. \A x \in Run : Fail(x) => \A y \in Run : step'[y] = step[y] \/ step'[y] = "failed"
  BY DEF Fail, Inv, TypeOK
<1>2. \A t \in Try : t \in Run
  BY DEF Run
<1>3. R \in Run
  BY DEF Run
<1>4. CASE UNCHANGED vars
  BY <1>4, QuietStep DEF vars, runVars, NoKey
<1>5. ASSUME NEW t \in Try, sendHelloA(t) PROVE Goal
  BY <1>5, SendHelloAInv DEF sendHelloA, NoKey
<1>6. ASSUME NEW t \in Try, recvHelloB(t) PROVE Goal
  <2>1. CASE GoodHelloB(t, Head(toI))
    <3>1. UNCHANGED key
      BY <1>6, <2>1 DEF recvHelloB
    <3> QED
      BY <1>6, <2>1, <3>1, RecvHelloBInv DEF NoKey
  <2>2. CASE ~GoodHelloB(t, Head(toI))
    <3>1. Fail(t) /\ UNCHANGED <<nonceA, nonceB, remote, key, toR>>
          /\ toI # <<>> /\ toI' = Tail(toI)
      BY <1>6, <2>2 DEF recvHelloB
    <3> QED
      BY <1>1, <1>2, <3>1, QuietStep DEF NoKey
  <2> QED
    BY <2>1, <2>2
<1>7. ASSUME NEW t \in Try, recvDone(t) PROVE Goal
  <2>1. CASE Head(toI).kind = "done"
    BY <1>7, <2>1, RecvDoneInv DEF Confirms
  <2>2. CASE Head(toI).kind # "done"
    <3>1. Fail(t) /\ UNCHANGED <<nonceA, nonceB, remote, key, toR>>
          /\ toI # <<>> /\ toI' = Tail(toI)
      BY <1>7, <2>2 DEF recvDone
    <3> QED
      BY <1>1, <1>2, <3>1, QuietStep DEF NoKey
  <2> QED
    BY <2>1, <2>2
<1>8. ASSUME NEW t \in Try, TornRead(t) PROVE Goal
  <2>1. UNCHANGED <<nonceA, nonceB, remote, key, toR>> /\ toI # <<>> /\ toI' = Tail(toI)
    BY <1>8 DEF TornRead
  <2>2. step' = step \/ Fail(t)
    BY <1>8 DEF TornRead
  <2> QED
    BY <1>1, <1>2, <2>1, <2>2, QuietStep DEF NoKey
<1>9. CASE recvHelloA
  <2>1. CASE Head(toR).kind = "helloA"
    BY <1>9, <2>1, RecvHelloAInv DEF recvHelloA, NoKey
  <2>2. CASE Head(toR).kind # "helloA"
    <3>1. Fail(R) /\ UNCHANGED <<nonceA, nonceB, remote, key, toI>>
          /\ toR # <<>> /\ toR' = Tail(toR)
      BY <1>9, <2>2 DEF recvHelloA
    <3> QED
      BY <1>1, <1>3, <3>1, QuietStep DEF NoKey
  <2> QED
    BY <2>1, <2>2
<1>10. CASE recvHelloAPrime
  <2>1. CASE GoodHelloAPrime(Head(toR))
    BY <1>10, <2>1, RecvHelloAPrimeInv DEF Accepts
  <2>2. CASE ~GoodHelloAPrime(Head(toR))
    <3>1. Fail(R) /\ UNCHANGED <<nonceA, nonceB, remote, key, toI>>
          /\ toR # <<>> /\ toR' = Tail(toR)
      BY <1>10, <2>2 DEF recvHelloAPrime
    <3> QED
      BY <1>1, <1>3, <3>1, QuietStep DEF NoKey
  <2> QED
    BY <2>1, <2>2
<1>11. ASSUME NEW x \in Run, RunFails(x) PROVE Goal
  <2>1. Fail(x) /\ UNCHANGED <<nonceA, nonceB, remote, key, toR, toI>>
    BY <1>11 DEF RunFails
  <2> QED
    BY <1>1, <2>1, QuietStep DEF NoKey
<1>12. ASSUME NEW x \in Run, PumpEnds(x) PROVE Goal
  <2>1. UNCHANGED <<step, nonceA, nonceB, remote, key, toR, toI>>
    BY <1>12 DEF PumpEnds, runVars
  <2> QED
    BY <2>1, QuietStep DEF NoKey
<1>13. CASE Break
  <2>1. UNCHANGED <<step, nonceA, nonceB, remote, key, toR, toI>>
    BY <1>13 DEF Break, runVars
  <2> QED
    BY <2>1, QuietStep DEF NoKey
<1> QED
  BY <1>4, <1>5, <1>6, <1>7, <1>8, <1>9, <1>10, <1>11, <1>12, <1>13 DEF Next, RunStep

THEOREM InvHolds == Spec => []Inv
<1>1. Init => Inv
  BY InitTyped, InitInv DEF Inv
<1>2. Inv /\ [Next]_vars => Inv'
  BY TypedStep, InvStep DEF Inv
<1> QED
  BY <1>1, <1>2, PTL DEF Spec

\* AnsweredRun always holds, however many runs share the connection: the nonces of a
\* run that has gone past helloB are those of the responder (handshake.go:207-310).
THEOREM RunsAreAnswered == Spec => []AnsweredRun
<1>1. Inv => AnsweredRun
  BY DEF Inv, FrameInv
<1> QED
  BY <1>1, InvHolds, PTL

-----------------------------------------------------------------------------
(* Refinement *)

LEMMA StepRefines ==
    ASSUME Inv, NoKey \/ Accepts \/ Confirms
    PROVE  [Agreement!Next]_(Agreement!vars)
<1> DEFINE U == UNION {key[t] : t \in Try}
<1>1. R \in Run /\ \A t \in Try : t \in Run /\ t # R
  BY HandshakeAssumption DEF Run
<1>2. CASE NoKey
  BY <1>2 DEF NoKey, Agreement!vars
<1>3. CASE Accepts
  <2>1. PICK k \in Key : key' = [key EXCEPT ![R] = {k}]
    BY <1>3 DEF Accepts
  <2>2. key'[R] = {k} /\ \A t \in Try : key'[t] = {}
    BY <1>1, <1>3, <2>1 DEF Accepts, Inv, TypeOK
  <2>3. U = {} /\ U' = {}
    BY <1>3, <2>2 DEF Accepts
  <2>4. Agreement!Accept(k)
    BY <1>3, <2>2, <2>3 DEF Accepts, Agreement!Accept
  <2> QED
    BY <2>4 DEF Agreement!Next
<1>4. CASE Confirms
  <2>1. PICK t \in Try : key' = [key EXCEPT ![t] = key[R]]
    BY <1>4 DEF Confirms
  <2>2. PICK k \in Key : key[R] = {k}
    <3>1. key[R] = {deriveSessionKey(R, remote[R], nonceA[R], nonceB[R])}
      BY <1>4 DEF Confirms, Inv, KeyInv
    <3>2. deriveSessionKey(R, remote[R], nonceA[R], nonceB[R]) \in Key
      BY <1>1, KeyTyped DEF Inv, TypeOK
    <3> QED
      BY <3>1, <3>2
  <2>3. /\ key'[R] = {k} /\ key'[t] = {k}
        /\ \A u \in Try \ {t} : key'[u] = {}
    BY <1>1, <1>4, <2>1, <2>2 DEF Confirms, Inv, TypeOK
  <2>4. U = {}
    BY <1>4 DEF Confirms
  <2>5. U' = {k}
    BY <2>3
  <2>6. Agreement!Confirm(k)
    BY <2>2, <2>3, <2>4, <2>5 DEF Agreement!Confirm
  <2> QED
    BY <2>2, <2>6 DEF Agreement!Next
<1> QED
  BY <1>2, <1>3, <1>4

\* AgreementSpec: the handshake implements KeyAgreement.  The responder's key is the
\* first, at most one run of the initiator gets one, and it is the same
\* (handshake.go, deriveSessionKey and its callers).
THEOREM HandshakeAgrees == Spec => AgreementSpec
<1>1. Init => Agreement!Init
  <2> SUFFICES ASSUME Init PROVE Agreement!Init
    OBVIOUS
  <2>1. key[R] = {} /\ \A t \in Try : key[t] = {}
    BY DEF Init, Run
  <2>2. UNION {key[t] : t \in Try} = {}
    BY <2>1
  <2> QED
    BY <2>1, <2>2 DEF Agreement!Init
<1>2. Inv /\ [Next]_vars => [Agreement!Next]_(Agreement!vars)
  BY InvStep, StepRefines
<1> QED
  BY <1>1, <1>2, InvHolds, PTL DEF Spec, AgreementSpec, Agreement!Spec

\* TypeOK always holds (internal/handshake/handshake.go).
THEOREM TypesHold == Spec => []TypeOK
BY InitTyped, TypedStep, PTL DEF Spec
=============================================================================
