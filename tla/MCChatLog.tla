----------------------------- MODULE MCChatLog ------------------------------
(***************************************************************************)
(* Instances of ChatLog for TLC: two writers, v and w.                     *)
(***************************************************************************)
EXTENDS ChatLog

CONSTANTS v, w

\* w's second message is too long to be read back.
Long == {<<w, 2>>}
=============================================================================
