----------------------------- MODULE Handshake ------------------------------
(***************************************************************************)
(* The handshake on one connection: helloA, helloB, helloA', done.  The    *)
(* dialling node may run it more than once at a time, since Transport.Dial *)
(* hands out the connection it has; then the frames meant for one run are  *)
(* read by another, and whichever run fails closes the connection of all.  *)
(*                                                                         *)
(* Code: internal/handshake/handshake.go; internal/transport (Conn.Send,   *)
(* Recv, Close; register's reuse); the pumps that take over the connection *)
(* (pkg/node/node.go) as far as they read a frame that is no envelope.     *)
(*                                                                         *)
(* Both nodes follow the protocol.  A nonce is named after the run that    *)
(* draws it; a signature is what it signs; a session key is what goes into *)
(* the key exchange and the derivation, which are the library's.           *)
(***************************************************************************)
EXTENDS Sequences

CONSTANTS
    Try,        \* runs of RunAsInitiator on this connection
    R           \* the run of RunAsResponder

ASSUME HandshakeAssumption == R \notin Try

VARIABLES
    step,       \* step[x]: the frame that run x waits for, or how it ended
    nonceA, nonceB,     \* nonceA[x], nonceB[x]: x's local variables of these names
    remote,     \* remote[x]: whose ephemeral key x has been sent
    key,        \* key[x]: x's session keys, one at most
    toR, toI,   \* frames on their way to either end
    open,       \* ends of the connection that are open
    cut         \* the network has lost the connection

runVars == <<step, nonceA, nonceB, remote, key>>
vars == <<runVars, toR, toI, open, cut>>

Run == Try \cup {R}
Nonce == Run \X {"A", "B"}
Steps == {"start", "helloA", "helloB", "helloA'", "done", "ready", "failed"}
Ends == {"I", "R"}

Frame == [kind : {"helloA", "helloB", "helloA'", "done"}, nonce : Nonce, echo : Nonce,
          sig : Nonce, from : Run]
Key == [ephemeral : SUBSET Run, A : Nonce, B : Nonce]

TypeOK ==
    /\ step \in [Run -> Steps]
    /\ nonceA \in [Run -> Nonce] /\ nonceB \in [Run -> Nonce]
    /\ remote \in [Run -> Run]
    /\ key \in [Run -> SUBSET Key]
    /\ toR \in Seq(Frame) /\ toI \in Seq(Frame)
    /\ open \subseteq Ends
    /\ cut \in BOOLEAN

Init ==
    /\ step = [x \in Run |-> IF x = R THEN "helloA" ELSE "start"]
    /\ nonceA = [x \in Run |-> <<x, "A">>]
    /\ nonceB = [x \in Run |-> <<x, "B">>]
    /\ remote = [x \in Run |-> x]
    /\ key = [x \in Run |-> {}]
    /\ toR = <<>> /\ toI = <<>>
    /\ open = Ends
    /\ cut = FALSE

-----------------------------------------------------------------------------
(* Helpers *)

End(x) == IF x = R THEN "R" ELSE "I"

\* Runs and pumps that read at the initiator's end.
Readers == {t \in Try : step[t] \in {"helloB", "done", "ready"}}

\* deriveSessionKey: both static keys are the nodes' own and left out.
deriveSessionKey(x, y, a, b) == [ephemeral |-> {x, y}, A |-> a, B |-> b]

HelloA(t) ==
    [kind |-> "helloA", nonce |-> nonceA[t], echo |-> nonceA[t], sig |-> nonceA[t], from |-> t]

\* Mutant: helloB comes without the echo.
HelloBNoEcho(f) ==
    [kind |-> "helloB", nonce |-> nonceB[R], sig |-> f.nonce, from |-> R]

HelloB(f) ==
    [kind |-> "helloB", nonce |-> nonceB[R], echo |-> f.nonce, sig |-> f.nonce, from |-> R]

HelloAPrime(t, f) ==
    [kind |-> "helloA'", nonce |-> f.nonce, echo |-> f.nonce, sig |-> f.nonce, from |-> t]

Done == [kind |-> "done", nonce |-> nonceB[R], echo |-> nonceB[R], sig |-> nonceB[R], from |-> R]

\* Mutant: a run that fails leaves the connection open.
FailsOpen(x) ==
    /\ step' = [step EXCEPT ![x] = "failed"]
    /\ UNCHANGED open

\* RunAsInitiator and RunAsResponder close the connection when the run has failed.
Fail(x) ==
    /\ step' = [step EXCEPT ![x] = "failed"]
    /\ open' = open \ {End(x)}

-----------------------------------------------------------------------------
(* The initiator *)

sendHelloA(t) ==
    /\ step[t] = "start"
    /\ "I" \in open
    /\ toR' = Append(toR, HelloA(t))
    /\ step' = [step EXCEPT ![t] = "helloB"]
    /\ UNCHANGED <<nonceA, nonceB, remote, key, toI, open, cut>>

\* Mutant: the echo of nonceA is not compared.
AnyEcho(t, f) == f.kind = "helloB" /\ f.sig = f.echo

\* The echo and the signature are those of this run's nonceA.
GoodHelloB(t, f) == f.kind = "helloB" /\ f.echo = nonceA[t] /\ f.sig = nonceA[t]

\* helloB arrives; helloA' follows.
recvHelloB(t) ==
    /\ step[t] = "helloB"
    /\ toI # <<>> /\ toI' = Tail(toI)
    /\ LET f == Head(toI) IN
       \/ /\ GoodHelloB(t, f) /\ "I" \in open /\ ~cut
          /\ toR' = Append(toR, HelloAPrime(t, f))
          /\ nonceB' = [nonceB EXCEPT ![t] = f.nonce]
          /\ remote' = [remote EXCEPT ![t] = f.from]
          /\ step' = [step EXCEPT ![t] = "done"]
          /\ UNCHANGED <<nonceA, key, open>>
       \/ /\ ~GoodHelloB(t, f) /\ "I" \in open /\ ~cut
          /\ Fail(t)
          /\ UNCHANGED <<nonceA, nonceB, remote, key, toR>>
    /\ UNCHANGED cut

\* done arrives: the session is ready.
recvDone(t) ==
    /\ step[t] = "done"
    /\ "I" \in open /\ ~cut
    /\ toI # <<>> /\ toI' = Tail(toI)
    /\ \/ /\ Head(toI).kind = "done"
          /\ step' = [step EXCEPT ![t] = "ready"]
          /\ key' = [key EXCEPT ![t] = {deriveSessionKey(t, remote[t], nonceA[t], nonceB[t])}]
          /\ UNCHANGED open
       \/ Head(toI).kind # "done" /\ Fail(t) /\ UNCHANGED key
    /\ UNCHANGED <<nonceA, nonceB, remote, toR, cut>>

\* Two readers of one end: the one's header is the other's body, which makes no
\* frame, and the connection is closed.
TornRead(t) ==
    /\ t \in Readers /\ Readers # {t}
    /\ "I" \in open /\ ~cut
    /\ toI # <<>> /\ toI' = Tail(toI)
    /\ IF step[t] = "ready" THEN step' = step /\ open' = open \ {"I"} ELSE Fail(t)
    /\ UNCHANGED <<nonceA, nonceB, remote, key, toR, cut>>

-----------------------------------------------------------------------------
(* The responder *)

\* Mutant: the responder goes on with the nonceA it has drawn itself.
KeepsOwnNonce ==
    /\ step[R] = "helloA"
    /\ "R" \in open /\ ~cut
    /\ toR # <<>> /\ toR' = Tail(toR)
    /\ LET f == Head(toR) IN
       \/ /\ f.kind = "helloA"
          /\ toI' = Append(toI, HelloB(f))
          /\ remote' = [remote EXCEPT ![R] = f.from]
          /\ step' = [step EXCEPT ![R] = "helloA'"]
          /\ UNCHANGED <<open, nonceA>>
       \/ f.kind # "helloA" /\ Fail(R) /\ UNCHANGED <<nonceA, remote, toI>>
    /\ UNCHANGED <<nonceB, key, cut>>

\* helloA arrives; helloB follows.
recvHelloA ==
    /\ step[R] = "helloA"
    /\ "R" \in open /\ ~cut
    /\ toR # <<>> /\ toR' = Tail(toR)
    /\ LET f == Head(toR) IN
       \/ /\ f.kind = "helloA"
          /\ toI' = Append(toI, HelloB(f))
          /\ nonceA' = [nonceA EXCEPT ![R] = f.nonce]
          /\ remote' = [remote EXCEPT ![R] = f.from]
          /\ step' = [step EXCEPT ![R] = "helloA'"]
          /\ UNCHANGED open
       \/ f.kind # "helloA" /\ Fail(R) /\ UNCHANGED <<nonceA, remote, toI>>
    /\ UNCHANGED <<nonceB, key, cut>>

\* The echo and the signature are those of this run's nonceB.
GoodHelloAPrime(f) == f.kind = "helloA'" /\ f.nonce = nonceB[R] /\ f.sig = nonceB[R]

\* helloA' arrives; done follows, and the session is ready.
recvHelloAPrime ==
    /\ step[R] = "helloA'"
    /\ "R" \in open /\ ~cut
    /\ toR # <<>> /\ toR' = Tail(toR)
    /\ \/ /\ GoodHelloAPrime(Head(toR))
          /\ toI' = Append(toI, Done)
          /\ step' = [step EXCEPT ![R] = "ready"]
          /\ key' = [key EXCEPT ![R] = {deriveSessionKey(R, remote[R], nonceA[R], nonceB[R])}]
          /\ UNCHANGED open
       \/ ~GoodHelloAPrime(Head(toR)) /\ Fail(R) /\ UNCHANGED <<key, toI>>
    /\ UNCHANGED <<nonceA, nonceB, remote, cut>>

-----------------------------------------------------------------------------
(* What ends a run, or the connection *)

\* The 5 s are over, or a read or a write fails.
RunFails(x) ==
    /\ step[x] \notin {"start", "ready", "failed"}
    /\ Fail(x)
    /\ UNCHANGED <<nonceA, nonceB, remote, key, toR, toI, cut>>

\* The pump that has taken over reads a frame of another run, which does not
\* decrypt, or the end of the stream: its channel is deleted and closed.
PumpEnds(x) ==
    /\ step[x] = "ready" /\ End(x) \in open
    /\ \/ cut
       \/ open # Ends
       \/ IF x = R THEN toR # <<>> ELSE toI # <<>>
    /\ open' = open \ {End(x)}
    /\ UNCHANGED <<runVars, toR, toI, cut>>

Break ==
    /\ ~cut
    /\ cut' = TRUE
    /\ UNCHANGED <<runVars, toR, toI, open>>

-----------------------------------------------------------------------------

RunStep(t) == sendHelloA(t) \/ recvHelloB(t) \/ recvDone(t) \/ TornRead(t)

Next ==
    \/ \E t \in Try : RunStep(t)
    \/ recvHelloA \/ recvHelloAPrime
    \/ \E x \in Run : RunFails(x) \/ PumpEnds(x)
    \/ Break

\* The run that has dialled the connection; others may or may not follow.
FirstRun == \E t \in Try : (\A u \in Try : step[u] = "start") /\ sendHelloA(t)

\* Every run goes on until its 5 s are over, and every pump reads.
Fairness ==
    /\ WF_vars(FirstRun)
    /\ \A t \in Try : WF_vars(recvHelloB(t) \/ recvDone(t) \/ TornRead(t))
    /\ WF_vars(recvHelloA \/ recvHelloAPrime)
    /\ \A x \in Run : WF_vars(RunFails(x)) /\ WF_vars(PumpEnds(x))

Spec == Init /\ [][Next]_vars
FairSpec == Spec /\ Fairness

-----------------------------------------------------------------------------
(* Properties *)

\* However many runs the dialler starts on the connection, at most one of them
\* gets a session, the responder had one before, and their keys are the same.
Agreement == INSTANCE KeyAgreement WITH
    accepted <- key[R], confirmed <- UNION {key[t] : t \in Try}
AgreementSpec == Agreement!Spec

\* The run of the initiator that sent helloA' is the one whose helloA the responder
\* answered, and the two hold the same nonces and each other's ephemeral key.
AnsweredRun ==
    \A t \in Try :
        step[t] \in {"done", "ready"} =>
            /\ remote[t] = R /\ remote[R] = t
            /\ nonceA[t] = nonceA[R] /\ nonceB[t] = nonceB[R]

\* No end is left alone: either both have a session on an open connection, or
\* each has closed it.  The end that fails, or is too late, tells the other one by
\* closing.
BothOrNeither ==
    <>[](\/ open = {}
         \/ open = Ends /\ step[R] = "ready" /\ \E t \in Try : step[t] = "ready")
=============================================================================
