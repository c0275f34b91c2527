----------------------------- MODULE TableStore -----------------------------
(***************************************************************************)
(* A table of peers that is kept in memory and saved to a file: the alias  *)
(* table, changed and saved by commands and touched by every pump, or the  *)
(* roster, which every pump merges gossip into and saves.                  *)
(*                                                                         *)
(* Code: internal/alias/alias.go and internal/roster/roster.go, which      *)
(* share their design, with their callers in pkg/node.                     *)
(*                                                                         *)
(* A version of the table is the peers that have a row and the time of the *)
(* last change that was marked dirty.  What a row says is left out, so a   *)
(* change of last_seen alone, which alias.Touch does not mark, is none.    *)
(***************************************************************************)
EXTENDS Naturals

CONSTANTS
    Peer,       \* the peers a table may have rows for
    Self,       \* the node itself
    Worker,     \* goroutines that use the table
    Scenarios,  \* which table it is, and which goroutines change and save it
    MaxClock,   \* bound on changes
    MaxFailure  \* bound on failed writes and on crashes

Tables == {"alias", "roster"}

ASSUME TableAssumption ==
    /\ Self \in Peer
    /\ Scenarios \subseteq [table : Tables, savers : SUBSET Worker]
    /\ MaxClock \in Nat /\ MaxFailure \in Nat

VARIABLES
    table,      \* the table this is
    savers,     \* goroutines that run commands (alias) or merge gossip (roster)
    rows,       \* peers with a row in memory
    clock,      \* changes so far
    dirty,      \* Store.dirty
    onDisk,     \* the version on disk
    saving,     \* saving[w]: what w does in Save, or how its last Save ended
    own,        \* own[w]: time of the last change that w made to be saved, or 0
    snapshot,   \* snapshot[w]: version that w is writing
    failures

memoryVars == <<rows, clock, dirty>>
workerVars == <<saving, own, snapshot>>
tableVars == <<table, savers, memoryVars, onDisk, workerVars, failures>>

Versions == [rows : SUBSET Peer, time : 0..MaxClock]
Empty == [rows |-> {}, time |-> 0]
Locked == {"locked", "checked", "copied", "renamed"}
Rest == {"idle", "saved", "failed"}

TableTypeOK ==
    /\ table \in Tables /\ savers \subseteq Worker
    /\ rows \subseteq Peer /\ clock \in 0..MaxClock /\ dirty \in BOOLEAN
    /\ onDisk \in Versions
    /\ saving \in [Worker -> Locked \cup Rest \cup {"save"}]
    /\ own \in [Worker -> 0..MaxClock]
    /\ snapshot \in [Worker -> Versions]
    /\ \A w, x \in Worker : saving[w] \in Locked /\ saving[x] \in Locked => w = x
    /\ failures \in 0..MaxFailure

\* New opens the table; the roster gets the node's own entry at once.
Opened(version) ==
    IF table = "roster" THEN version.rows \cup {Self} ELSE version.rows

TableInit ==
    /\ \E s \in Scenarios : table = s.table /\ savers = s.savers
    /\ rows = Opened(Empty)
    /\ clock = 0
    /\ dirty = (table = "roster")
    /\ onDisk = Empty
    /\ saving = [w \in Worker |-> "idle"]
    /\ own = [w \in Worker |-> 0]
    /\ snapshot = [w \in Worker |-> Empty]
    /\ failures = 0

-----------------------------------------------------------------------------
(* Changes, each under the write lock *)

Marked(changed) ==
    /\ clock < MaxClock
    /\ clock' = clock + 1
    /\ dirty' = TRUE
    /\ rows' = changed

SaveGoes(w, step) == saving' = [saving EXCEPT ![w] = step]

\* w is about to save, after a change or a call that changed nothing.
ThenSave(w) ==
    /\ saving[w] \in Rest /\ w \in savers
    /\ SaveGoes(w, "save")
    /\ own' = [own EXCEPT ![w] = IF clock' # clock THEN clock' ELSE @]
    /\ UNCHANGED <<table, savers, onDisk, snapshot, failures>>

\* Set, then Save.
SetAlias(w, p) ==
    /\ table = "alias"
    /\ Marked(rows \cup {p})
    /\ ThenSave(w)

\* Remove, a no-op without a row, then Save.
RemoveAlias(w, p) ==
    /\ table = "alias"
    /\ \/ p \in rows /\ Marked(rows \ {p})
       \/ p \notin rows /\ UNCHANGED memoryVars
    /\ ThenSave(w)

\* The pump on a RosterSync: entries that are new are added, known ones are kept
\* as they are; then Save.
MergeFromGossip(w, remote) ==
    /\ table = "roster"
    /\ \/ ~(remote \subseteq rows) /\ Marked(rows \cup remote)
       \/ remote \subseteq rows /\ UNCHANGED memoryVars
    /\ ThenSave(w)

\* Activity of a peer, at any time and in any goroutine; nobody saves it.  The
\* alias table gets a row for a peer without one, the roster marks a known peer.
Touch(p) ==
    /\ \/ table = "alias" /\ p \notin rows
       \/ table = "roster" /\ p \in rows
    /\ Marked(rows \cup {p})
    /\ UNCHANGED <<table, savers, onDisk, workerVars, failures>>

-----------------------------------------------------------------------------
(* Save *)

\* Mutant: saveMu is not taken.
LockNothing(w) ==
    /\ saving[w] = "save"
    /\ SaveGoes(w, "locked")
    /\ UNCHANGED <<table, savers, memoryVars, onDisk, own, snapshot, failures>>

\* saveMu.
Lock(w) ==
    /\ saving[w] = "save"
    /\ \A x \in Worker : saving[x] \notin Locked
    /\ SaveGoes(w, "locked")
    /\ UNCHANGED <<table, savers, memoryVars, onDisk, own, snapshot, failures>>

\* Nothing to save: nil is returned at once.
Clean(w) ==
    /\ saving[w] = "locked" /\ ~dirty
    /\ SaveGoes(w, "saved")
    /\ UNCHANGED <<table, savers, memoryVars, onDisk, own, snapshot, failures>>

\* The alias table looks at dirty under one read lock and copies under another.
SeesDirty(w) ==
    /\ table = "alias"
    /\ saving[w] = "locked" /\ dirty
    /\ SaveGoes(w, "checked")
    /\ UNCHANGED <<table, savers, memoryVars, onDisk, own, snapshot, failures>>

\* The table is copied; the roster looks at dirty under the same lock.
Copy(w) ==
    /\ \/ saving[w] = "checked"
       \/ table = "roster" /\ saving[w] = "locked" /\ dirty
    /\ SaveGoes(w, "copied")
    /\ snapshot' = [snapshot EXCEPT ![w] = [rows |-> rows, time |-> clock]]
    /\ UNCHANGED <<table, savers, memoryVars, onDisk, own, failures>>

\* The copy is written to a temporary file, which replaces the table's file.
Rename(w) ==
    /\ saving[w] = "copied"
    /\ SaveGoes(w, "renamed")
    /\ onDisk' = snapshot[w]
    /\ UNCHANGED <<table, savers, memoryVars, own, snapshot, failures>>

\* Mutant: dirty is cleared although the file could not be written.
SaveFailsClean(w) ==
    /\ saving[w] = "copied"
    /\ failures < MaxFailure /\ failures' = failures + 1
    /\ SaveGoes(w, "failed")
    /\ dirty' = FALSE
    /\ UNCHANGED <<table, savers, rows, clock, onDisk, own, snapshot>>

\* The temporary file cannot be created, written or renamed: Save returns the
\* error, dirty stays.
SaveFails(w) ==
    /\ saving[w] = "copied"
    /\ failures < MaxFailure /\ failures' = failures + 1
    /\ SaveGoes(w, "failed")
    /\ UNCHANGED <<table, savers, memoryVars, onDisk, own, snapshot>>

\* dirty is cleared, under the write lock.
ClearDirty(w) ==
    /\ saving[w] = "renamed"
    /\ SaveGoes(w, "saved")
    /\ dirty' = FALSE
    /\ UNCHANGED <<table, savers, rows, clock, onDisk, own, snapshot, failures>>

\* The process ends, at any point and without Close; the next one opens the file.
Restart ==
    /\ failures < MaxFailure /\ failures' = failures + 1
    /\ rows' = Opened(onDisk)
    /\ dirty' = (table = "roster")
    /\ saving' = [w \in Worker |-> "idle"]
    /\ own' = [w \in Worker |-> 0]
    /\ snapshot' = [w \in Worker |-> Empty]
    /\ UNCHANGED <<table, savers, clock, onDisk>>

-----------------------------------------------------------------------------
SaveStep(w) ==
    \/ Lock(w)
    \/ Clean(w)
    \/ SeesDirty(w)
    \/ Copy(w)
    \/ Rename(w)
    \/ SaveFails(w)
    \/ ClearDirty(w)

TableNext ==
    \/ \E w \in Worker, p \in Peer : SetAlias(w, p) \/ RemoveAlias(w, p)
    \/ \E w \in Worker, remote \in SUBSET Peer : MergeFromGossip(w, remote)
    \/ \E p \in Peer : Touch(p)
    \/ \E w \in Worker : SaveStep(w)
    \/ Restart

TableSpec == TableInit /\ [][TableNext]_tableVars

-----------------------------------------------------------------------------
(* Properties *)

\* Savers overtake each other only outside Save: the file is never replaced by an
\* older version of the table, across restarts too.
NeverOlder == [][onDisk.time <= onDisk'.time]_onDisk

\* "keeps the per-Set cost down without sacrificing durability" (alias.go): when
\* Save returns nil, every change of its caller is on disk.
SaveDurable == \A w \in Worker : saving[w] = "saved" => own[w] <= onDisk.time

\* It is, as long as a single goroutine saves (the prompt that runs the commands),
\* whatever pumps touch meanwhile, and after failed saves and restarts.
SoleSaverDurable == (\E w \in Worker : savers = {w}) => SaveDurable
=============================================================================
