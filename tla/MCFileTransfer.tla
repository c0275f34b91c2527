--------------------------- MODULE MCFileTransfer ---------------------------
(***************************************************************************)
(* Instances of FileTransfer for TLC: f1 and f3 go from a to b, f2 and f4  *)
(* from b to a.                                                            *)
(***************************************************************************)
EXTENDS FileTransfer

CONSTANTS a, b, f1, f2, f3, f4

BothFrom == f1 :> a @@ f2 :> b

BothChunks == f1 :> 2 @@ f2 :> 2

\* Two files each way: one is offered while the other one is under way.
PairFrom == f1 :> a @@ f3 :> a @@ f2 :> b @@ f4 :> b

PairChunks == f1 :> 2 @@ f3 :> 1 @@ f2 :> 2 @@ f4 :> 1
=============================================================================
