----------------------------- MODULE DaemonStore -----------------------------
(***************************************************************************)
(* The daemon's store across its boots (cli-lib/src/cmd_daemon.rs): the    *)
(* living database <ctrl>.live.db, the arena its images are published to,  *)
(* and the control block that names the published root.  A boot goes       *)
(* through setup_arena, --reset-arena, init_living_db and the first        *)
(* snapshot; then commits land, publishers copy the living database to the *)
(* arena, and the daemon shuts down or dies at any step.                   *)
(*                                                                         *)
(* The control block is what ControlBlock shows it to be: a record that is *)
(* replaced in one step, or left odd by a publisher that died inside       *)
(* set_arena_with_root, when a handle opened later reads the zero root.    *)
(* The daemon has no --source: what is in the checkout is not modelled.    *)
(***************************************************************************)
EXTENDS Arena

CONSTANTS Publishers,    \* publishers besides the main thread: the publisher task
          Task,          \* and the ops that publish before they reply
          Main, NoOne,
          Absent,        \* there is no live.db
          Unset,         \* the publisher task has not started
          CliSize,       \* the arena size given on the command line
          MayFail,       \* TRUE: arena and control writes may return errors
          MayReset,      \* TRUE: a boot may be given --reset-arena
          DieInPublish,  \* TRUE: the daemon may also die inside set_arena_with_root
          Early,         \* TRUE: commits may land before the publisher task starts
          MaxBoots, MaxDeaths

ASSUME StoreAssumption ==
  /\ Task \in Publishers /\ Main \notin Publishers
  /\ NoOne \notin Publishers \cup {Main}
  /\ \A content \in SUBSET Commits : Absent # content
  /\ CliSize \in Nat /\ MaxBoots \in Nat /\ MaxDeaths \in Nat
  /\ {MayFail, MayReset, DieInPublish, Early} \subseteq BOOLEAN

VARIABLES arena,         \* the file at the arena path
          ctrl,          \* the control block
          live,          \* what live.db holds, or Absent
          pc,            \* run_daemon_with_options: where the main thread is
          resetting,     \* this boot was given --reset-arena
          publishLock,   \* LiveDb::publish_lock
          step, image, newSize,  \* each publisher inside snapshot_to_arena
          total,         \* total_changes of the writer connection
          last, seen,    \* the publisher task's total_changes: published, read
          acked,         \* ghost: commits acknowledged and not reset away
          forgotten,     \* ghost: commits a --reset-arena discarded
          boots, deaths

disk == <<arena, ctrl, live>>
publishing == <<publishLock, step, image, newSize>>
task == <<last, seen>>
ghosts == <<acked, forgotten>>
bounds == <<boots, deaths>>
vars == <<disk, pc, resetting, publishing, total, task, ghosts, bounds>>

All == Publishers \cup {Main}

Init ==
  /\ arena = NoFile
  /\ ctrl = [root |-> NoRoot, size |-> 0, odd |-> FALSE]
  /\ live = Absent
  /\ pc = "down" /\ resetting = FALSE
  /\ publishLock = NoOne
  /\ step = [p \in All |-> "idle"]
  /\ image = [p \in All |-> {}]
  /\ newSize = [p \in All |-> 0]
  /\ total = 0 /\ last = Unset /\ seen = 0
  /\ acked = {} /\ forgotten = {}
  /\ boots = 0 /\ deaths = 0

\* The root as a handle opened now reads it.
FreshRoot == IF ctrl.odd THEN NoRoot ELSE ctrl.root

-----------------------------------------------------------------------------
(* Boot *)

\* setup_arena: create_arena with the size of the command line, and set_arena when
\* the control block names no arena.
setup_arena ==
  /\ pc = "down" /\ boots < MaxBoots
  /\ arena' \in create_arena(arena, CliSize)
  /\ ctrl' = IF ctrl.size = 0 THEN [ctrl EXCEPT !.size = CliSize] ELSE ctrl
  /\ resetting' \in (IF MayReset THEN BOOLEAN ELSE {FALSE})
  /\ pc' = IF resetting' THEN "unlink" ELSE "fresh"
  /\ boots' = boots + 1
  /\ UNCHANGED <<live, publishing, total, task, ghosts, deaths>>

\* --reset-arena unlinks live.db, then publishes the zero root.
ResetUnlink ==
  /\ pc = "unlink"
  /\ live' = Absent
  /\ forgotten' = forgotten \cup acked
  /\ acked' = {}
  /\ pc' = "zero"
  /\ UNCHANGED <<arena, ctrl, resetting, publishing, total, task, bounds>>

ResetRootBegin ==
  /\ pc = "zero"
  /\ ctrl' = [ctrl EXCEPT !.odd = TRUE]
  /\ pc' = "zeroing"
  /\ UNCHANGED <<arena, live, resetting, publishing, total, task, ghosts, bounds>>

ResetRootEnd ==
  /\ pc = "zeroing"
  /\ ctrl' = [ctrl EXCEPT !.odd = FALSE, !.root = NoRoot]
  /\ pc' = "fresh"
  /\ UNCHANGED <<arena, live, resetting, publishing, total, task, ghosts, bounds>>

\* Mutant: live.db is unlinked whatever the control block says.
UnlinkAlways ==
  /\ pc = "fresh"
  /\ live' = Absent
  /\ pc' = "open"
  /\ UNCHANGED <<arena, ctrl, resetting, publishing, total, task, ghosts, bounds>>

\* controller_is_fresh: with no published root, live.db is an orphan.
controller_is_fresh ==
  /\ pc = "fresh"
  /\ live' = IF FreshRoot = NoRoot THEN Absent ELSE live
  /\ pc' = "open"
  /\ UNCHANGED <<arena, ctrl, resetting, publishing, total, task, ghosts, bounds>>

\* Warm start on live.db.  Bytes that are no database fail in configure_wal.
WarmStart ==
  /\ pc = "open" /\ live # Absent
  /\ pc' = IF live = Torn THEN "down" ELSE "snapshot"
  /\ total' = 0
  /\ UNCHANGED <<disk, resetting, publishing, task, ghosts, bounds>>

\* Mutant: the arena is recovered although a reset was asked for.
HydrateAfterReset ==
  /\ pc = "open" /\ live = Absent /\ ActiveImage(arena) # Blank
  /\ live' = ActiveImage(arena)
  /\ UNCHANGED <<arena, ctrl, pc, resetting, publishing, total, task, ghosts, bounds>>

\* try_warm_start_from_arena: the active buffer becomes live.db, which is opened.
try_warm_start_from_arena ==
  /\ pc = "open" /\ live = Absent
  /\ ~resetting /\ ActiveImage(arena) # Blank
  /\ live' = ActiveImage(arena)
  /\ UNCHANGED <<arena, ctrl, pc, resetting, publishing, total, task, ghosts, bounds>>

ColdStart ==
  /\ pc = "open" /\ live = Absent
  /\ resetting \/ ActiveImage(arena) = Blank
  /\ live' = {}
  /\ pc' = "snapshot"
  /\ total' = 0
  /\ UNCHANGED <<arena, ctrl, resetting, publishing, task, ghosts, bounds>>

-----------------------------------------------------------------------------
(* publish_living_db and snapshot_to_arena *)

\* The main thread publishes once in its boot and once when it shuts down.
MayPublish(p) ==
  \/ p = Main /\ pc \in {"snapshot", "final"}
  \/ p = Task /\ pc \in {"ready", "final"} /\ last # Unset /\ seen # last
  \/ p \in Publishers \ {Task} /\ pc \in {"ready", "final"}

\* Mutant: no publisher waits for another.
TakeImageUnlocked(p) ==
  /\ step[p] = "idle" /\ MayPublish(p)
  /\ publishLock' = p
  /\ image' = [image EXCEPT ![p] = live]
  /\ newSize' = [newSize EXCEPT ![p] = arena_size_for(ctrl.size, live)]
  /\ step' = [step EXCEPT ![p] = "open"]
  /\ UNCHANGED <<disk, pc, resetting, total, task, ghosts, bounds>>

\* Mutant: the new size is advertised before the file has it.
AdvertiseFirst(p) ==
  /\ step[p] = "idle" /\ MayPublish(p)
  /\ publishLock = NoOne
  /\ publishLock' = p
  /\ image' = [image EXCEPT ![p] = live]
  /\ newSize' = [newSize EXCEPT ![p] = arena_size_for(ctrl.size, live)]
  /\ ctrl' = [ctrl EXCEPT !.size = newSize'[p]]
  /\ step' = [step EXCEPT ![p] = "open"]
  /\ UNCHANGED <<arena, live, pc, resetting, total, task, ghosts, bounds>>

\* Under the publish lock: serialize, and choose the size.
TakeImage(p) ==
  /\ step[p] = "idle" /\ MayPublish(p)
  /\ publishLock = NoOne
  /\ publishLock' = p
  /\ image' = [image EXCEPT ![p] = live]
  /\ newSize' = [newSize EXCEPT ![p] = arena_size_for(ctrl.size, live)]
  /\ step' = [step EXCEPT ![p] = "open"]
  /\ UNCHANGED <<disk, pc, resetting, total, task, ghosts, bounds>>

\* The size stays: create_arena, then write_to_arena begins.
OpenArena(p) ==
  /\ step[p] = "open" /\ newSize[p] = ctrl.size
  /\ \E a \in create_arena(arena, newSize[p]) : arena' = Writing(a)
  /\ step' = [step EXCEPT ![p] = "write"]
  /\ UNCHANGED <<ctrl, live, pc, resetting, publishLock, image, newSize, total, task,
                 ghosts, bounds>>

write_to_arena(p) ==
  /\ step[p] = "write"
  /\ arena' = Written(arena, image[p])
  /\ step' = [step EXCEPT ![p] = "root"]
  /\ UNCHANGED <<ctrl, live, pc, resetting, publishLock, image, newSize, total, task,
                 ghosts, bounds>>

\* The size grows: a new file takes the old one's place.
GrowArena(p) ==
  /\ step[p] = "open" /\ newSize[p] # ctrl.size
  /\ arena' = write_grown_arena(image[p], newSize[p])
  /\ step' = [step EXCEPT ![p] = "root"]
  /\ UNCHANGED <<ctrl, live, pc, resetting, publishLock, image, newSize, total, task,
                 ghosts, bounds>>

\* set_arena_with_root, from seq_begin ...
RootBegin(p) ==
  /\ step[p] = "root"
  /\ ctrl' = [ctrl EXCEPT !.odd = TRUE]
  /\ step' = [step EXCEPT ![p] = "advance"]
  /\ UNCHANGED <<arena, live, pc, resetting, publishLock, image, newSize, total, task,
                 ghosts, bounds>>

\* What follows the main thread's publish.
AfterMain(ok) == IF pc = "final" THEN "exit" ELSE IF ok THEN "ready" ELSE "down"

Leave(p, ok) ==
  /\ step' = [step EXCEPT ![p] = "idle"]
  /\ image' = [image EXCEPT ![p] = {}]
  /\ newSize' = [newSize EXCEPT ![p] = 0]
  /\ publishLock' = NoOne
  /\ pc' = IF p = Main THEN AfterMain(ok) ELSE pc

\* ... to seq_end.  The publisher task notes what it has published.
RootEnd(p) ==
  /\ step[p] = "advance"
  /\ ctrl' = [root |-> image[p], size |-> newSize[p], odd |-> FALSE]
  /\ Leave(p, TRUE)
  /\ last' = IF p = Task THEN seen ELSE last
  /\ UNCHANGED <<arena, live, resetting, total, seen, ghosts, bounds>>

\* An error on the way: opening or growing the arena, its flush after the header
\* is written, or taking the control block's lock.
PublishFails(p) ==
  /\ MayFail
  /\ step[p] \in {"open", "root"}
  /\ Leave(p, FALSE)
  /\ seen' = IF p = Task THEN last ELSE seen
  /\ UNCHANGED <<disk, resetting, total, last, ghosts, bounds>>

-----------------------------------------------------------------------------
(* Serving *)

\* A write transaction commits on the writer connection and is acknowledged.
Commit(c) ==
  /\ pc \in {"ready", "final"}
  /\ Early \/ last # Unset
  /\ c \notin live \cup forgotten
  /\ live' = live \cup {c}
  /\ total' = total + 1
  /\ acked' = acked \cup {c}
  /\ UNCHANGED <<arena, ctrl, pc, resetting, publishing, task, forgotten, bounds>>

\* The publisher task starts after the socket and the mount, and takes the writer's
\* counter, or 0 when the writer is busy, for what is published.
StartTask ==
  /\ pc = "ready" /\ last = Unset
  /\ last' \in {0, total}
  /\ seen' = last'
  /\ UNCHANGED <<disk, pc, resetting, publishing, total, ghosts, bounds>>

\* Mutant: the publisher task notes the commits as published when it sees them.
WakeForgets ==
  /\ pc \in {"ready", "final"} /\ last # Unset
  /\ step[Task] = "idle" /\ seen = last
  /\ seen' = total /\ last' = total
  /\ UNCHANGED <<disk, pc, resetting, publishing, total, ghosts, bounds>>

\* publish_if_dirty reads the counter; equal counters publish nothing.
publish_if_dirty ==
  /\ pc \in {"ready", "final"} /\ last # Unset
  /\ step[Task] = "idle" /\ seen = last
  /\ seen' = total
  /\ UNCHANGED <<disk, pc, resetting, publishing, total, last, ghosts, bounds>>

Shutdown ==
  /\ pc = "ready"
  /\ pc' = "final"
  /\ UNCHANGED <<disk, resetting, publishing, total, task, ghosts, bounds>>

Stop ==
  /\ step' = [p \in All |-> "idle"]
  /\ image' = [p \in All |-> {}]
  /\ newSize' = [p \in All |-> 0]
  /\ publishLock' = NoOne
  /\ pc' = "down" /\ resetting' = FALSE
  /\ total' = 0 /\ last' = Unset /\ seen' = 0

\* The runtime waits for publishes on its blocking pool before the process ends.
Exit ==
  /\ pc = "exit"
  /\ \A p \in All : step[p] = "idle"
  /\ Stop
  /\ UNCHANGED <<disk, ghosts, bounds>>

\* The process is killed.  Inside set_arena_with_root the counter stays odd, with
\* the old size or the new one.
Die ==
  /\ pc # "down" /\ deaths < MaxDeaths
  /\ ctrl.odd => DieInPublish
  /\ ctrl' \in {ctrl} \cup {[ctrl EXCEPT !.size = newSize[p]] :
                              p \in {q \in All : step[q] = "advance"}}
  /\ Stop
  /\ deaths' = deaths + 1
  /\ UNCHANGED <<arena, live, ghosts, boots>>

-----------------------------------------------------------------------------
init_living_db ==
  \/ ResetUnlink \/ ResetRootBegin \/ ResetRootEnd \/ controller_is_fresh
  \/ WarmStart \/ try_warm_start_from_arena \/ ColdStart

snapshot_to_arena(p) ==
  \/ TakeImage(p) \/ OpenArena(p) \/ write_to_arena(p) \/ GrowArena(p)
  \/ RootBegin(p) \/ RootEnd(p) \/ PublishFails(p)

Next ==
  \/ setup_arena \/ init_living_db \/ StartTask \/ publish_if_dirty
  \/ \E p \in All : snapshot_to_arena(p)
  \/ \E c \in Commits : Commit(c)
  \/ Shutdown \/ Exit \/ Die

Spec == Init /\ [][Next]_vars

\* The runtime schedules the publisher task, whose ticks never stop, and a publish
\* that began runs on.
FairSpec ==
  /\ Spec
  /\ WF_vars(StartTask) /\ WF_vars(publish_if_dirty)
  /\ \A p \in All : WF_vars(step[p] # "idle" /\ snapshot_to_arena(p))
  /\ SF_vars(TakeImage(Task))

-----------------------------------------------------------------------------
TypeOK ==
  /\ arena \in {NoFile} \cup ArenaFile
  /\ ctrl \in [root : {NoRoot} \cup Images, size : Nat, odd : BOOLEAN]
  /\ live \in {Absent, Torn} \cup Images
  /\ publishLock \in All \cup {NoOne}
  /\ step \in [All -> {"idle", "open", "write", "root", "advance"}]
  /\ image \in [All -> Images] /\ newSize \in [All -> Nat]
  /\ total \in Nat /\ seen \in Nat /\ last \in Nat \cup {Unset}
  /\ acked \subseteq Commits /\ forgotten \subseteq Commits
  /\ resetting \in BOOLEAN /\ boots \in 0..MaxBoots /\ deaths \in 0..MaxDeaths

Serving == pc \in {"ready", "final", "exit"}

\* init_living_db: "state committed before the previous crash is recovered".  The
\* daemon that serves has every acknowledged commit no --reset-arena discarded.
AckedSurvive == Serving => acked \subseteq live

\* snapshot_to_arena invariant 1: a reader that maps the advertised size "must
\* never see `arena_size > file_size`".
AdvertisedSizeFits == arena # NoFile => ctrl.size <= arena.size

\* Within a boot the advertised size never outgrows the file: a grown arena is in
\* place before the control block says so.
AdvertisedSizeKept ==
  [][pc # "down" /\ ctrl.size <= arena.size => ctrl'.size <= arena'.size]_vars

\* snapshot_to_arena invariant 2: "the published image is never written".  While the
\* header names the image the root names, no step on that file writes over it.
PublishedImageKept ==
  [][/\ arena # NoFile /\ ctrl.root # NoRoot /\ ~ctrl.odd
     /\ ActiveImage(arena) = ctrl.root
     /\ ctrl' = ctrl /\ arena'.size = arena.size
     => \E b \in Buffers : arena'.buffer[b] = ctrl.root]_vars

\* The header always names a whole image, also after a death inside a publish:
\* what try_warm_start_from_arena copies is a database.
ActiveIsWhole == arena # NoFile => ActiveImage(arena) # Torn

\* Publishes of several publishers never go back: a later root holds every commit
\* an earlier one held, over crashes and restarts too.
PublishedGrows ==
  [][ctrl.root # NoRoot /\ ctrl'.root # NoRoot => ctrl.root \subseteq ctrl'.root]_vars

\* The main help: --reset-arena drops what there was "regardless of what the arena's
\* prior owner left behind".  No later daemon serves a commit it discarded.
ResetForgets == Serving => live \cap forgotten = {}

\* The publisher "publishes once for every commit since its last publish": a commit
\* a running daemon acknowledged gets published while the daemon runs.
CommitsPublished ==
  \A c \in Commits :
    (pc = "ready" /\ c \in acked) ~> (pc # "ready" \/ (c \in ctrl.root))
=============================================================================
