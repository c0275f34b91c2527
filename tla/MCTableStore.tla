---------------------------- MODULE MCTableStore ----------------------------
(***************************************************************************)
(* Instances of TableStore for TLC.                                        *)
(***************************************************************************)
EXTENDS TableStore

CONSTANTS v, w, a, b

Both == {v, w}

\* The prompt alone saves aliases; two pumps merge gossip into the roster.
Usual == {[table |-> "alias", savers |-> {v}], [table |-> "roster", savers |-> Both]}

\* Two callers of SetAlias, as pkg/node allows.
Callers == {[table |-> "alias", savers |-> Both]}
=============================================================================
