------------------------------ MODULE GitWatch ------------------------------
(***************************************************************************)
(* The daemon's git watcher (git_watch_loop in cli-lib/src/cmd_daemon.rs): *)
(* every tick it runs `git rev-parse HEAD`, then `git status`, compares    *)
(* both with what it saw last, and reconciles the paths whose dirty state  *)
(* moved, or the whole checkout when HEAD moved.  The three reads are made *)
(* one after the other while people edit, stage, rename, commit and switch *)
(* branches.                                                               *)
(*                                                                         *)
(* Here a reconcile copies the directory's entries of its scope into the   *)
(* store; what it does when both sides moved is the subject of Checkout,   *)
(* and publishing and enriching what was parsed change nothing below.  An  *)
(* entry is a number, NoEntry where there is none.                         *)
(***************************************************************************)
EXTENDS Naturals, Sequences

CONSTANTS Files,       \* the paths of the checkout
          Allow,       \* what people do: subset of {"save", "stage", "rename"}
          MaxSaves,    \* entries ever written
          MaxMoves,    \* git commands run
          MaxCommits,
          MaxFailures  \* failing git commands and reconciles

ASSUME GitWatchAssumption ==
  /\ Allow \subseteq {"save", "stage", "rename"}
  /\ {MaxSaves, MaxMoves, MaxCommits, MaxFailures} \subseteq Nat

VARIABLES work,      \* the directory
          staged,    \* git's index
          trees,     \* the tree of each commit
          head,      \* the commit HEAD names
          store,     \* what the living database holds
          pc,
          last_head, last_dirty,
          current_head, \* 0 when git could not tell
          scope,
          sources,   \* ghost: rename sources the last status named
          lost,      \* ghost: paths a known race or failure may have left behind
          saves, moves, failures

repo == <<work, staged, trees, head>>
last == <<last_head, last_dirty>>
bounds == <<saves, moves, failures>>
watchVars == <<repo, store, pc, last, current_head, scope, sources, lost, bounds>>

NoEntry == 0
Tree == trees[head]

\* The old path of a staged rename: git status pairs it with the new path's entry.
Source(p) ==
  /\ Tree[p] # NoEntry /\ staged[p] = NoEntry
  /\ \E q \in Files : Tree[q] = NoEntry /\ staged[q] = Tree[p]

\* The paths of status entries of their own, which is what git_dirty_files keeps: the
\* bare old path after a rename is skipped, unless a new file there is untracked.
Listed(p) ==
  IF Source(p) THEN work[p] # NoEntry ELSE Tree[p] # staged[p] \/ staged[p] # work[p]

Dirty == {p \in Files : Listed(p)}

\* The start of the daemon has reconciled the whole checkout.
WatchInit ==
  /\ staged \in [Files -> {NoEntry, 1}] /\ trees = <<staged>>
  /\ work \in [Files -> {NoEntry, 1}] /\ store = work
  /\ head = 1
  /\ pc = "start"
  /\ last_head = 1 /\ last_dirty = {}
  /\ current_head = 0
  /\ scope = {} /\ sources = {} /\ lost = {}
  /\ saves = 0 /\ moves = 0 /\ failures = 0

-----------------------------------------------------------------------------
(* People and git.                                                         *)

Watcher == <<store, pc, last, current_head, scope, sources, lost, failures>>

Save(p, e) ==
  /\ "save" \in Allow /\ saves < MaxSaves
  /\ e # work[p]
  /\ work' = [work EXCEPT ![p] = e]
  /\ saves' = saves + 1
  /\ UNCHANGED <<staged, trees, head, moves, Watcher>>

Git(kind) ==
  /\ kind \in Allow /\ moves < MaxMoves
  /\ moves' = moves + 1
  /\ UNCHANGED <<saves, Watcher>>

Add(p) ==
  /\ Git("stage")
  /\ staged[p] # work[p]
  /\ staged' = [staged EXCEPT ![p] = work[p]]
  /\ UNCHANGED <<work, trees, head>>

Move(p, q) ==
  /\ Git("rename")
  /\ staged[p] # NoEntry /\ work[p] # NoEntry
  /\ staged[q] = NoEntry /\ work[q] = NoEntry
  /\ work' = [work EXCEPT ![q] = work[p], ![p] = NoEntry]
  /\ staged' = [staged EXCEPT ![q] = staged[p], ![p] = NoEntry]
  /\ UNCHANGED <<trees, head>>

GitCommit ==
  /\ Git("stage")
  /\ Len(trees) < MaxCommits /\ staged # Tree
  /\ trees' = Append(trees, staged)
  /\ head' = Len(trees')
  /\ UNCHANGED <<work, staged>>

\* reset --hard, checkout -f: tracked files follow, untracked ones stay.
Switch(h) ==
  /\ Git("stage")
  /\ head' = h
  /\ staged' = trees[h]
  /\ work' = [p \in Files |-> IF trees[h][p] = NoEntry /\ staged[p] = NoEntry
                              THEN work[p] ELSE trees[h][p]]
  /\ <<head', work', staged'>> # <<head, work, staged>>
  /\ UNCHANGED trees

-----------------------------------------------------------------------------
(* git_watch_loop.                                                         *)

\* The baseline is read when the task starts, after the initial reconcile, and takes
\* nothing for dirty: a path committed or reverted in between looks like one reconciled.
Baseline ==
  /\ pc = "start"
  /\ last_head' = head
  /\ lost' = {p \in Files : store[p] # Tree[p]}
  /\ pc' = "idle"
  /\ UNCHANGED <<repo, store, last_dirty, current_head, scope, sources, bounds>>

SampleHead ==
  /\ pc = "idle"
  /\ \/ current_head' = head /\ UNCHANGED failures
     \/ failures < MaxFailures /\ current_head' = 0 /\ failures' = failures + 1
  /\ pc' = "status"
  /\ UNCHANGED <<repo, store, last, scope, sources, lost, saves, moves>>

head_changed == current_head # 0 /\ current_head # last_head

\* Mutant: only newly dirty paths count as a change.
dirty_changedNew(current) == current \ last_dirty # {}

dirty_changed(current) == current # last_dirty

\* Mutant: a path that became clean again is not reconciled.
watch_scopeCurrent(current) == IF head_changed THEN Files ELSE current

watch_scope(current) == IF head_changed THEN Files ELSE last_dirty \cup current

\* What was seen is recorded before the reconcile begins.
Compare ==
  IF ~head_changed /\ ~dirty_changed(Dirty)
  THEN pc' = "idle" /\ UNCHANGED <<last, scope, sources>>
  ELSE /\ pc' = "reconcile"
       /\ scope' = watch_scope(Dirty)
       /\ last_head' = IF head_changed THEN current_head ELSE last_head
       /\ last_dirty' = IF dirty_changed(Dirty) THEN Dirty ELSE last_dirty
       /\ sources' = {p \in Files : Source(p) /\ ~Listed(p)}

\* A failing git status ends the tick.
SampleDirty ==
  /\ pc = "status"
  /\ \/ Compare /\ UNCHANGED failures
     \/ /\ failures < MaxFailures /\ failures' = failures + 1
        /\ pc' = "idle"
        /\ UNCHANGED <<last, scope, sources>>
  /\ UNCHANGED <<repo, store, current_head, lost, saves, moves>>

\* Reconciled after git was asked: entries of another HEAD, or of paths status called
\* clean, which a change back makes invisible to the next tick.
Overtaken ==
  IF head # last_head THEN scope ELSE {p \in scope \ last_dirty : work[p] # Tree[p]}

Reconcile ==
  /\ pc = "reconcile"
  /\ \/ /\ store' = [p \in Files |-> IF p \in scope THEN work[p] ELSE store[p]]
        /\ lost' = (lost \ scope) \cup Overtaken
        /\ UNCHANGED failures
     \/ /\ failures < MaxFailures /\ failures' = failures + 1
        /\ lost' = lost \cup scope
        /\ UNCHANGED store
  /\ pc' = "idle"
  /\ UNCHANGED <<repo, last, current_head, scope, sources, saves, moves>>

git_watch_loop == Baseline \/ SampleHead \/ SampleDirty \/ Reconcile

WatchNext ==
  \/ git_watch_loop
  \/ \E p \in Files : \E e \in {NoEntry, 2 + saves, Tree[p]} : Save(p, e)
  \/ \E p \in Files : Add(p)
  \/ \E p, q \in Files : Move(p, q)
  \/ GitCommit
  \/ \E h \in DOMAIN trees : Switch(h)

\* The interval's ticks never stop.
WatchSpec == WatchInit /\ [][WatchNext]_watchVars /\ WF_watchVars(git_watch_loop)

-----------------------------------------------------------------------------

WatchTypeOK ==
  /\ {work, staged, store} \subseteq [Files -> 0..(1 + MaxSaves)]
  /\ trees \in Seq([Files -> 0..(1 + MaxSaves)])
  /\ {head, last_head} \subseteq DOMAIN trees
  /\ current_head \in {0} \cup DOMAIN trees
  /\ {last_dirty, scope, sources, lost} \subseteq SUBSET Files
  /\ pc \in {"start", "idle", "status", "reconcile"}

\* watch_scope and the order of the loop: between ticks, where the store differs from
\* the directory HEAD has moved, the path is dirty or was at the last tick, it is the
\* old path of a staged rename, or a failure or a change under the tick left it behind.
StaleIsKnown ==
  pc = "idle" =>
    \A p \in Files : store[p] # work[p] =>
      head # last_head \/ p \in Dirty \cup last_dirty \/ Source(p) \/ p \in lost

\* git_watch_loop: once people stop, the store comes to hold what the directory holds,
\* except at paths dirty before and after their last change, old paths of staged
\* renames, and those a failure or a change under a tick left behind.
CatchesUp ==
  \A p \in Files :
    <>[](store[p] = work[p] \/ p \in Dirty \cap last_dirty \/ Source(p) \/ p \in lost)

\* git_dirty_files: "the old path's removal is already handled by the file-stat diff
\* downstream", so a reconcile that succeeds takes a rename's old path out of the store.
SourceRemoved ==
  pc = "idle" => \A p \in sources \ lost : work[p] = NoEntry => store[p] = NoEntry

=============================================================================
