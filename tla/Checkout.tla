------------------------------ MODULE Checkout ------------------------------
(***************************************************************************)
(* The checkout of a daemon's --source directory (cli-lib/src/checkout.rs):*)
(* for each path the store's entry (_tree), the directory's entry, and the *)
(* entry the two last agreed on as _checkout_index recorded it.  Proposals *)
(* commit to the store, people edit the directory, and reconcile brings    *)
(* the two together: it classifies every path of its scope, removes and    *)
(* writes files, parses the directory into the store (cmd_parse.rs,        *)
(* cmd_parse/tree_sync.rs) and commits the index.  The daemon's writer     *)
(* lock keeps proposals and other reconciles out of a reconcile; people    *)
(* and crashes are not kept out.                                           *)
(*                                                                         *)
(* An entry is the number of the write that made it, 0 where there is no   *)
(* entry, so no two writes are equal.  Paths hold files: modes, symlinks   *)
(* and directories are left out.  What a power loss may take back is what  *)
(* cli-lib/src/durable.rs says it may: index rows and installed files that *)
(* no full flush has followed.                                             *)
(***************************************************************************)
EXTENDS Integers, FiniteSets

CONSTANTS Paths,
          Projected,     \* the paths whose files have a language
          Allow,         \* events of the environment this instance has:
                         \*   "window"  an edit inside a read-to-use window
                         \*   "lag"     a change back to what a late index holds
                         \*   "refuse"  the directory refuses a write of a
                         \*             reconcile of the whole directory
          MaxProposals, MaxEdits, MaxDeaths

ASSUME CheckoutAssumption ==
  /\ Projected \subseteq Paths
  /\ Allow \subseteq {"window", "lag", "refuse"}
  /\ {MaxProposals, MaxEdits, MaxDeaths} \subseteq Nat

VARIABLES store,         \* _tree: the entry the store holds at each path
          disk,          \* the directory's entry at each path
          index,         \* _checkout_index
          conflicts,     \* the paths in _checkout_conflict
          fresh,         \* paths whose file has the stat _tree recorded
          pc,            \* where the reconcile is
          whole, scope,  \* its scope
          booting,       \* it is the one a starting daemon makes
          plan, held,    \* each path's Action, and the store's entry it saw
          todo,          \* writes and removals not yet made
          refused,       \* paths the directory refused
          read,          \* what the parse read of a projected file
          synced,        \* the index as of the last full flush
          replaced,      \* the entry a not yet flushed write replaced
          accepted,      \* ghost: proposals the directory never received
          edited,        \* ghost: edits the store never received
          agreed,        \* ghost: the entry both sides last held
          disturbed,     \* ghost: an edit or a refusal since the reconcile began
          proposals, edits, deaths

db == <<store, index, conflicts>>
rec == <<whole, scope, booting, plan, held, todo, refused, read>>
flushed == <<synced, replaced>>
ghosts == <<accepted, edited, agreed, disturbed>>
bounds == <<proposals, edits, deaths>>
vars == <<db, disk, fresh, pc, rec, flushed, ghosts, bounds>>

NoEntry == 0
Unread == -1
Version == 2 + proposals + edits   \* the number of the next write

Idle ==
  /\ whole' = FALSE /\ scope' = {} /\ booting' = FALSE /\ todo' = {} /\ refused' = {}
  /\ plan' = [p \in Paths |-> "Nothing"]
  /\ held' = [p \in Paths |-> NoEntry]
  /\ read' = [p \in Paths |-> Unread]
  /\ disturbed' = FALSE

\* The daemon is down; each path is absent, or a file both sides have.
Init ==
  /\ store \in [Paths -> {NoEntry, 1}]
  /\ disk = store /\ index = store /\ agreed = store /\ synced = store
  /\ conflicts = {} /\ accepted = {} /\ edited = {}
  /\ fresh = {p \in Paths : store[p] # NoEntry}
  /\ pc = "down"
  /\ whole = FALSE /\ scope = {} /\ booting = FALSE /\ todo = {} /\ refused = {}
  /\ disturbed = FALSE
  /\ plan = [p \in Paths |-> "Nothing"]
  /\ held = [p \in Paths |-> NoEntry]
  /\ read = [p \in Paths |-> Unread]
  /\ replaced = [p \in Paths |-> Unread]
  /\ proposals = 0 /\ edits = 0 /\ deaths = 0

-----------------------------------------------------------------------------
(* What reconciling one path does. *)

\* Mutant: a file both sides changed is taken from the store.
classifyStoreWins(d, s, i) ==
  IF s # i THEN "Materialize" ELSE IF d # i THEN "Ingest" ELSE "Nothing"

\* Mutant: both sides moving to the same entry is nothing to record.
classifyNoConverge(d, s, i) ==
  CASE d = i /\ s = i -> "Nothing"
    [] d = i /\ s # i -> "Materialize"
    [] d # i /\ s = i -> "Ingest"
    [] d # i /\ s # i -> IF d = s THEN "Nothing" ELSE "Conflict"

classify(d, s, i) ==
  CASE d = i /\ s = i -> "Nothing"
    [] d = i /\ s # i -> "Materialize"
    [] d # i /\ s = i -> "Ingest"
    [] d # i /\ s # i -> IF d = s THEN "Converge" ELSE "Conflict"

\* A path the store does not hold.
classify_unstored(d, i) ==
  CASE d = NoEntry /\ i = NoEntry -> "Nothing"
    [] d # NoEntry /\ i = NoEntry -> "Ingest"
    [] d = NoEntry /\ i # NoEntry -> "Converge"
    [] d # NoEntry /\ i # NoEntry -> IF d = i THEN "Remove" ELSE "Conflict"

\* The directory's side as reconcile reads it: a file whose stat matches the store's
\* record is taken to hold the stored entry.
DiskSide(p) ==
  IF disk[p] # NoEntry /\ store[p] # NoEntry /\ p \in fresh THEN store[p] ELSE disk[p]

ActionFor(p) ==
  IF store[p] # NoEntry THEN classify(DiskSide(p), store[p], index[p])
                        ELSE classify_unstored(DiskSide(p), index[p])

With(action) == {p \in scope : plan[p] = action}

\* A conflict keeps the store's file, or its deletion, through the parse; so does a
\* deletion the directory refused.
Kept == {p \in With("Conflict") : held[p] # NoEntry}
KeptOut == {p \in With("Conflict") : held[p] = NoEntry}
             \cup (refused \cap With("Remove"))

-----------------------------------------------------------------------------
(* Bookkeeping of the ghosts and of what a full flush covers. *)

\* Wherever the two sides hold the same entry, neither has anything to lose.
Settle(s, d, acc, ed) ==
  /\ accepted' = {p \in acc : s[p] # d[p]}
  /\ edited' = {p \in ed : s[p] # d[p]}
  /\ agreed' = [p \in Paths |-> IF s[p] = d[p] THEN s[p] ELSE agreed[p]]

FullFlush(i) ==
  /\ synced' = i
  /\ replaced' = [p \in Paths |-> Unread]

\* A change back to the entry a late index holds, or is about to be given, reads as
\* no change at all.
Lag(p, e) ==
  /\ e # agreed[p]
  /\ e = index[p] \/ (plan[p] \in {"Materialize", "Remove", "Converge"} /\ e = held[p])

\* Between reading a file and acting on what was read: until the planned write or
\* removal is made, and from the parse's read to tree_sync's stat.
Window(p) == (pc = "write" /\ p \in todo) \/ (pc = "sync" /\ read[p] # Unread)

-----------------------------------------------------------------------------
(* The sides move. *)

BeginScoped(paths) ==
  /\ pc' = "classify" /\ whole' = FALSE /\ scope' = paths
  /\ disturbed' = FALSE
  /\ UNCHANGED <<booting, plan, held, todo, refused, read>>

\* Mutant: the row keeps the stat of the file the directory has.
ProposeKeepsStat(p, e) ==
  /\ pc = "idle" /\ proposals < MaxProposals
  /\ e # store[p] /\ (Lag(p, e) => "lag" \in Allow)
  /\ store' = [store EXCEPT ![p] = e]
  /\ FullFlush(index)
  /\ Settle(store', disk, IF e = agreed[p] THEN accepted \ {p} ELSE accepted \cup {p}, edited)
  /\ proposals' = proposals + 1
  /\ BeginScoped({p})
  /\ UNCHANGED <<index, conflicts, disk, fresh, edits, deaths>>

\* op_propose: the accepted proposal commits to the store, which records no stat for
\* it, and its paths are reconciled under the same hold of the writer lock.
op_propose(p, e) ==
  /\ pc = "idle" /\ proposals < MaxProposals
  /\ e # store[p] /\ (Lag(p, e) => "lag" \in Allow)
  /\ store' = [store EXCEPT ![p] = e]
  /\ fresh' = fresh \ {p}
  /\ FullFlush(index)
  /\ Settle(store', disk, IF e = agreed[p] THEN accepted \ {p} ELSE accepted \cup {p}, edited)
  /\ proposals' = proposals + 1
  /\ BeginScoped({p})
  /\ UNCHANGED <<index, conflicts, disk, edits, deaths>>

\* A person, an editor or git changes the directory, whether the daemon is up or not.
Edit(p, e) ==
  /\ edits < MaxEdits
  /\ e # disk[p]
  /\ Lag(p, e) => "lag" \in Allow
  /\ Window(p) => "window" \in Allow
  /\ disk' = [disk EXCEPT ![p] = e]
  /\ fresh' = fresh \ {p}
  /\ replaced' = [replaced EXCEPT ![p] = Unread]
  /\ Settle(store, disk', accepted, IF e = agreed[p] THEN edited \ {p} ELSE edited \cup {p})
  /\ disturbed' = (pc \notin {"down", "idle"})
  /\ edits' = edits + 1
  /\ UNCHANGED <<db, pc, rec, synced, proposals, deaths>>

-----------------------------------------------------------------------------
(* reconcile *)

\* The start of a daemon, and a reparse, reconcile the whole directory; the watcher
\* and a scoped reparse the paths they name.
BeginWhole ==
  /\ pc \in {"down", "idle"}
  /\ pc' = "classify" /\ whole' = TRUE /\ scope' = Paths
  /\ booting' = (pc = "down")
  /\ disturbed' = FALSE
  /\ UNCHANGED <<db, disk, fresh, plan, held, todo, refused, read, flushed,
                 accepted, edited, agreed, bounds>>

BeginPaths(paths) ==
  /\ pc = "idle"
  /\ BeginScoped(paths)
  /\ UNCHANGED <<db, disk, fresh, flushed, accepted, edited, agreed, bounds>>

Classify ==
  /\ pc = "classify"
  /\ plan' = [p \in Paths |-> IF p \in scope THEN ActionFor(p) ELSE "Nothing"]
  /\ held' = store
  /\ todo' = {p \in scope : plan'[p] \in {"Remove", "Materialize"}}
  /\ pc' = "write"
  /\ UNCHANGED <<db, disk, fresh, whole, scope, booting, refused, read, flushed, ghosts,
                 bounds>>

\* remove_from and materialize_entry install an entry; the stat _tree recorded is
\* then another file's.
Install(p, e) ==
  /\ disk' = [disk EXCEPT ![p] = e]
  /\ fresh' = fresh \ {p}
  /\ todo' = todo \ {p}
  /\ replaced' = [replaced EXCEPT ![p] = IF @ = Unread THEN disk[p] ELSE @]
  /\ Settle(store, disk', accepted, edited)
  /\ UNCHANGED <<db, pc, whole, scope, booting, plan, held, refused, read, synced, disturbed,
                 bounds>>

Refuse(p) ==
  /\ todo' = todo \ {p}
  /\ refused' = refused \cup {p}
  /\ disturbed' = TRUE
  /\ UNCHANGED <<db, disk, fresh, pc, whole, scope, booting, plan, held, read, flushed,
                 accepted, edited, agreed, bounds>>

\* Removals come first.  A file that is gone already cannot be removed.
remove_from(p) ==
  /\ pc = "write" /\ p \in todo /\ plan[p] = "Remove"
  /\ \/ disk[p] # NoEntry /\ Install(p, NoEntry)
     \/ Refuse(p)

materialize_entry(p) ==
  /\ pc = "write" /\ p \in todo /\ plan[p] = "Materialize"
  /\ \A q \in todo : plan[q] # "Remove"
  /\ \/ Install(p, held[p])
     \/ (whole => "refuse" \in Allow) /\ Refuse(p)

\* The paths the parse covers.
Reach == IF whole THEN Paths ELSE With("Ingest")

\* parse_into_conn_with reads a projected file whose content is not the stored one;
\* a scoped reconcile with nothing to ingest does not parse.
ParseRead ==
  /\ pc = "write" /\ todo = {}
  /\ pc' = IF Reach = {} THEN "commit" ELSE "sync"
  /\ read' = [p \in Paths |->
                IF /\ p \in (Reach \cap Projected) \ (Kept \cup KeptOut)
                   /\ disk[p] \notin {NoEntry, store[p]} /\ p \notin fresh
                THEN disk[p] ELSE Unread]
  /\ UNCHANGED <<db, disk, fresh, whole, scope, booting, plan, held, todo, refused, flushed,
                 ghosts, bounds>>

\* Mutant: a conflict's stored side is not held through the parse.
SyncedUnkept(p) ==
  IF p \notin Reach THEN store[p]
  ELSE IF read[p] # Unread THEN read[p]
  ELSE IF p \in fresh /\ disk[p] # NoEntry THEN store[p] ELSE disk[p]

\* tree_sync's entry for a path: kept ones stay, an absent one leaves the store, a
\* file whose stat is the recorded one is not read again.
Synced(p) ==
  IF p \notin Reach \/ p \in Kept \cup KeptOut THEN store[p]
  ELSE IF read[p] # Unread THEN read[p]
  ELSE IF p \in fresh /\ disk[p] # NoEntry THEN store[p] ELSE disk[p]

\* The parse's COMMIT, which flushes.  A kept path was put from memory, with no stat;
\* a file that vanishes while the parse runs is taken for absent.
Sync ==
  /\ pc = "sync"
  /\ store' = [p \in Paths |-> Synced(p)]
  /\ fresh' = (fresh \ Kept) \cup {p \in Reach \ (Kept \cup KeptOut) : disk[p] # NoEntry}
  /\ FullFlush(index)
  /\ Settle(store', disk, accepted, edited)
  /\ read' = [p \in Paths |-> Unread]
  /\ pc' = "commit"
  /\ UNCHANGED <<index, conflicts, disk, whole, scope, booting, plan, held, todo, refused,
                 disturbed, bounds>>

\* The transaction that ends the reconcile; its commit does not flush.
CommitIndex ==
  /\ pc = "commit"
  /\ index' = [p \in Paths |->
       CASE plan[p] = "Ingest" -> store[p]
         [] plan[p] \in {"Converge", "Materialize", "Remove"} /\ p \notin refused -> held[p]
         [] OTHER -> index[p]]
  /\ conflicts' = (conflicts \ scope) \cup With("Conflict")
  /\ pc' = "idle"
  /\ Idle
  /\ UNCHANGED <<store, disk, fresh, flushed, accepted, edited, agreed, bounds>>

\* An error ends the reconcile where it is: the walk, a blob the store lacks, the
\* parse, or a step after the parse's COMMIT.  A daemon that was starting gives up.
Fail ==
  /\ pc \in {"classify", "sync", "commit"}
  /\ pc' = IF booting THEN "down" ELSE "idle"
  /\ Idle
  /\ UNCHANGED <<db, disk, fresh, flushed, accepted, edited, agreed, bounds>>

\* The daemon is killed, or exits.
Die ==
  /\ pc # "down" /\ deaths < MaxDeaths
  /\ pc' = "down" /\ deaths' = deaths + 1
  /\ Idle
  /\ UNCHANGED <<db, disk, fresh, flushed, accepted, edited, agreed, proposals, edits>>

\* The power goes: index rows committed since the last full flush are lost, and with
\* them any of the files written since.
PowerLoss(back) ==
  /\ deaths < MaxDeaths
  /\ \A p \in accepted : store[p] = synced[p] => "lag" \in Allow
  /\ \A p \in edited : disk[p] = synced[p] => "lag" \in Allow
  /\ index' = synced
  /\ disk' = [p \in Paths |-> IF p \in back THEN replaced[p] ELSE disk[p]]
  /\ fresh' = fresh \ back
  /\ replaced' = [p \in Paths |-> Unread]
  /\ accepted' = accepted \cup back
  /\ agreed' = [p \in Paths |-> IF p \in back THEN replaced[p] ELSE agreed[p]]
  /\ pc' = "down" /\ deaths' = deaths + 1
  /\ Idle
  /\ UNCHANGED <<store, conflicts, synced, edited, proposals, edits>>

-----------------------------------------------------------------------------
Changes(p) == {Version, NoEntry, agreed[p]}

reconcile ==
  \/ BeginWhole \/ Classify \/ ParseRead \/ Sync \/ CommitIndex \/ Fail
  \/ \E paths \in SUBSET Paths \ {{}} : BeginPaths(paths)
  \/ \E p \in Paths : remove_from(p) \/ materialize_entry(p)

Next ==
  \/ \E p \in Paths : \E e \in Changes(p) : op_propose(p, e) \/ Edit(p, e)
  \/ reconcile \/ Die
  \/ \E back \in SUBSET {p \in Paths : replaced[p] # Unread} : PowerLoss(back)

Spec == Init /\ [][Next]_vars

-----------------------------------------------------------------------------
Entries == 0..(1 + MaxProposals + MaxEdits)
Actions == {"Nothing", "Materialize", "Ingest", "Converge", "Conflict", "Remove"}

TypeOK ==
  /\ {store, disk, index, held, synced, agreed} \subseteq [Paths -> Entries]
  /\ {read, replaced} \subseteq [Paths -> {Unread} \cup Entries]
  /\ plan \in [Paths -> Actions]
  /\ {conflicts, fresh, scope, todo, refused, accepted, edited} \subseteq SUBSET Paths
  /\ pc \in {"down", "idle", "classify", "write", "sync", "commit"}
  /\ {whole, booting, disturbed} \subseteq BOOLEAN

\* checkout.rs: "No ordering of crashes loses an accepted proposal".  Until the
\* directory has received it, only another proposal replaces what one stored.
AcceptedKept ==
  [][\A p \in accepted :
       store'[p] # store[p] => \E e \in Changes(p) : op_propose(p, e)]_vars

\* "... or a person's edit": until the store has received it, only another edit
\* changes what a person left in the directory.
EditsKept ==
  [][\A p \in edited :
       disk'[p] # disk[p] => \E e \in Changes(p) : Edit(p, e)]_vars

\* "A file whose mode and stat match the store's record of it holds the stored
\* entry": what lets reconcile and the parse leave such a file unread.
StatTellsTheEntry ==
  \A p \in fresh : disk[p] # NoEntry /\ store[p] # NoEntry => disk[p] = store[p]

\* A reconcile nobody edits under and nothing refuses leaves each path of its scope
\* with all three sides equal, or reported as a conflict, whatever crash, error or
\* lost index row came before it.
ReconcileSettles ==
  [][CommitIndex /\ ~disturbed =>
       \A p \in scope : \/ p \in conflicts'
                        \/ store'[p] = disk'[p] /\ disk'[p] = index'[p]]_vars
=============================================================================
