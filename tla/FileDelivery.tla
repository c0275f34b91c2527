---------------------------- MODULE FileDelivery ----------------------------
(***************************************************************************)
(* What a transfer promises its two users, the one who waits for Send and  *)
(* the one who looks into the save directory: each is told once, in either *)
(* order, and what they are told fits together for ever.                   *)
(* (internal/filetransfer, the comments of Send and of Receiver.finalize.) *)
(***************************************************************************)
CONSTANT File

VARIABLES
    told,       \* told[f]: what Send returned for f, or "nothing" so far
    found       \* <<f, state>>: what is in the save directory of f, and how

vars == <<told, found>>

Init ==
    /\ told = [f \in File |-> "nothing"]
    /\ found = {}

\* f turns up in the save directory, whole or as what a failed copy leaves ("torn"),
\* once, and not behind a result that says otherwise.  Send may have given up without a word.
Arrives(f, state) ==
    /\ told[f] \in {"nothing", "failed"}
    /\ \A x \in found : x[1] # f
    /\ found' = found \cup {<<f, state>>}
    /\ UNCHANGED told

\* Send returns: nil, the receiver's refusal, its own withdrawal or another error.
Returns(f, result) ==
    /\ told[f] = "nothing"
    /\ result = "ok" => <<f, "whole">> \in found
    /\ result = "refused" => <<f, "whole">> \notin found
    /\ result = "withdrawn" => \A x \in found : x[1] # f
    /\ told' = [told EXCEPT ![f] = result]
    /\ UNCHANGED found

Next ==
    \/ \E f \in File, state \in {"whole", "torn"} : Arrives(f, state)
    \/ \E f \in File, result \in {"ok", "refused", "withdrawn", "failed"} : Returns(f, result)

Spec == Init /\ [][Next]_vars
=============================================================================
