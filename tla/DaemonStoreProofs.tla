-------------------------- MODULE DaemonStoreProofs --------------------------
(***************************************************************************)
(* Safety of the daemon's store over any number of boots, deaths, commits  *)
(* and publishers.  Base is what every boot keeps to: the types, and that  *)
(* whoever is inside snapshot_to_arena holds the publish lock.  The        *)
(* theorems add to it what each promise needs.                             *)
(***************************************************************************)
EXTENDS DaemonStore, TLAPS, FiniteSetTheorems

Booting == {"unlink", "zero", "zeroing", "fresh", "open"}
Running == {"snapshot", "ready", "final", "exit"}

Base ==
  /\ TypeOK
  /\ pc \in {"down"} \cup Booting \cup Running
  /\ pc # "down" => arena \in ArenaFile
  /\ pc \in Running => live \in Images
  /\ \A p \in All : step[p] # "idle" <=> publishLock = p
  /\ step[Main] # "idle" => pc \in {"snapshot", "final"}
  /\ \A p \in Publishers : step[p] # "idle" => pc \in {"ready", "final", "exit"}
  /\ step[Task] # "idle" => last \in Nat

-----------------------------------------------------------------------------
(* The arena's operations.                                                 *)

\* The markers are no images.
LEMMA MarkersApart ==
  /\ \A x \in {NoFile, NoRoot, Blank, Torn, Absent} : x \notin Images
  /\ Blank # Torn /\ NoRoot # Torn
BY Zenon, ArenaAssumption, StoreAssumption DEF Images

\* An image with one commit more is an image.
LEMMA CommitAdded ==
  ASSUME NEW content \in Images, NEW c \in Commits
  PROVE  content \cup {c} \in Images
BY Zenon DEF Images

LEMMA ImageLenType ==
  ASSUME NEW content \in Images
  PROVE  ImageLen(content) \in Nat \ {0} /\ ImageLen(content) <= ImageLen(Commits)
<1>1. IsFiniteSet(content) /\ Cardinality(content) <= Cardinality(Commits)
  BY Zenon, ArenaAssumption, FS_Subset DEF Images
<1>2. Cardinality(content) \in Nat /\ Cardinality(Commits) \in Nat
  BY Zenon, <1>1, ArenaAssumption, FS_CardinalityType
<1> QED
  BY <1>1, <1>2 DEF ImageLen

\* create_arena answers an arena file of the size it was asked for, and the file it
\* found if that has the size already.
LEMMA Created ==
  ASSUME NEW a \in {NoFile} \cup ArenaFile, NEW size \in Nat, NEW b \in create_arena(a, size)
  PROVE  /\ b \in ArenaFile
         /\ b.size = size
         /\ (a # NoFile /\ a.size = size) => b = a
<1>1. CASE a = NoFile
  BY <1>1 DEF create_arena, ArenaFile, Buffers
<1>2. CASE a # NoFile /\ a.size = size
  BY Zenon, <1>2 DEF create_arena
<1>3. CASE a # NoFile /\ a.size # size
  <2>1. b \in Resized(a, size) /\ a \in ArenaFile
    BY Zenon, <1>3 DEF create_arena
  <2> QED
    BY <1>3, <2>1 DEF Resized, ArenaFile, Buffers
<1> QED
  BY Zenon, <1>1, <1>2, <1>3

LEMMA ArenaWrites ==
  ASSUME NEW a \in ArenaFile, NEW content \in Images
  PROVE  /\ Writing(a) \in ArenaFile /\ Writing(a).size = a.size
         /\ Written(a, content) \in ArenaFile /\ Written(a, content).size = a.size
<1>1. Other(a.active) \in Buffers
  BY DEF ArenaFile, Buffers, Other
<1> QED
  BY ZenonT(40), <1>1 DEF ArenaFile, Writing, Written

LEMMA SizeChosen ==
  ASSUME NEW size \in Nat, NEW content \in Images
  PROVE  arena_size_for(size, content) \in Nat /\ arena_size_for(size, content) >= size
<1> DEFINE len == ImageLen(content)
<1>1. len \in Nat
  BY Zenon, ImageLenType
<1> HIDE DEF len
<1>2. len > size \div 2 => 2 * (len + len \div 4) >= size /\ 2 * (len + len \div 4) \in Nat
  BY <1>1
<1> QED
  BY <1>1, <1>2 DEF arena_size_for, buffer_size, len

LEMMA Grown ==
  ASSUME NEW content \in Images, NEW size \in Nat
  PROVE  write_grown_arena(content, size) \in ArenaFile /\ write_grown_arena(content, size).size = size
BY Zenon DEF write_grown_arena, ArenaFile, Buffers

-----------------------------------------------------------------------------
(* Base.                                                                   *)

LEMMA Members == Main \in All /\ Task \in All /\ Publishers \subseteq All
BY Zenon, StoreAssumption DEF All

LEMMA InitBase == Init => Base
<1> SUFFICES ASSUME Init PROVE Base
  BY Zenon
<1>1. {} \in Images /\ Task \in All /\ Main \in All
  BY Zenon, StoreAssumption DEF Images, All
<1>2. TypeOK
  <2>1. ctrl \in [root : {NoRoot} \cup Images, size : Nat, odd : BOOLEAN]
    BY Zenon DEF Init
  <2>2. /\ step \in [All -> {"idle", "open", "write", "root", "advance"}]
        /\ image \in [All -> Images] /\ newSize \in [All -> Nat]
    BY Zenon, <1>1 DEF Init
  <2> QED
    <3>1. boots \in 0..MaxBoots /\ deaths \in 0..MaxDeaths
      BY StoreAssumption DEF Init
    <3>2. acked \subseteq Commits /\ forgotten \subseteq Commits /\ resetting \in BOOLEAN
      BY ZenonT(40) DEF Init
    <3>3. total \in Nat /\ seen \in Nat /\ last \in Nat \cup {Unset}
      BY Zenon DEF Init
    <3> QED
      BY Zenon, <2>1, <2>2, <3>1, <3>2, <3>3 DEF Init, TypeOK
<1>3. \A p \in All : step[p] = "idle" /\ publishLock # p
  BY Zenon, StoreAssumption DEF Init, All
<1> QED
  BY Zenon, <1>1, <1>2, <1>3 DEF Init, Base, Running, All

\* A publisher leaves, with the publish or with an error.
LEMMA LeaveKeeps ==
  ASSUME Base, NEW p \in All, NEW ok \in BOOLEAN, step[p] # "idle", Leave(p, ok)
  PROVE  /\ step' \in [All -> {"idle", "open", "write", "root", "advance"}]
         /\ image' \in [All -> Images] /\ newSize' \in [All -> Nat]
         /\ publishLock' = NoOne
         /\ \A q \in All : step'[q] = "idle"
         /\ pc' \in {"down"} \cup Booting \cup Running
         /\ pc' # "down" => pc # "down"
         /\ pc' \in Running => pc \in Running
<1>1. \A q \in All : q # p => step[q] = "idle"
  BY Zenon DEF Base
<1>2. pc \in Running
  BY Zenon, StoreAssumption DEF Base, All, Running
<1> QED
  BY Zenon, <1>1, <1>2, StoreAssumption DEF Base, TypeOK, Leave, AfterMain, All, Images, Running, Booting

\* A step of a publisher that stays inside snapshot_to_arena.
LEMMA InsideKeeps ==
  ASSUME Base, NEW p \in All, step[p] # "idle",
         NEW s \in {"open", "write", "root", "advance"}, step' = [step EXCEPT ![p] = s],
         UNCHANGED <<pc, publishLock, last, live>>
  PROVE  /\ step' \in [All -> {"idle", "open", "write", "root", "advance"}]
         /\ \A q \in All : step'[q] # "idle" <=> publishLock' = q
         /\ step'[Main] # "idle" => pc' \in {"snapshot", "final"}
         /\ \A q \in Publishers : step'[q] # "idle" => pc' \in {"ready", "final", "exit"}
         /\ step'[Task] # "idle" => last' \in Nat
<1>1. step \in [All -> {"idle", "open", "write", "root", "advance"}]
  BY Zenon DEF Base, TypeOK
<1>2. \A q \in All : step'[q] # "idle" <=> step[q] # "idle"
  BY Zenon, <1>1
<1>3. Task \in All /\ Main \in All /\ Publishers \subseteq All
  BY Zenon, StoreAssumption DEF All
<1> QED
  BY Zenon, <1>1, <1>2, <1>3 DEF Base

LEMMA IdleUnlessRunning ==
  ASSUME Base, pc \notin Running, NEW p \in All
  PROVE  step[p] = "idle"
BY ZenonT(60) DEF Base, All, Running

LEMMA BootKeeps ==
  ASSUME Base, setup_arena \/ init_living_db
  PROVE  Base'
<1>0. pc = "down" => \A p \in All : step[p] = "idle"
  BY Zenon, IdleUnlessRunning DEF Running
<1> USE DEF Base, TypeOK, Booting, Running, publishing, task, ghosts, bounds, disk
<1>1. CASE setup_arena
  <2>1. arena' \in ArenaFile
    BY ZenonT(60), <1>1, StoreAssumption, Created DEF setup_arena
  <2>2. ctrl' \in [root : {NoRoot} \cup Images, size : Nat, odd : BOOLEAN]
    BY Zenon, <1>1, StoreAssumption DEF setup_arena
  <2>3. resetting' \in BOOLEAN /\ pc' \in {"unlink", "fresh"}
    BY ZenonT(40), <1>1 DEF setup_arena
  <2>4. boots' \in 0..MaxBoots
    BY <1>1, StoreAssumption DEF setup_arena
  <2>5. \A p \in All : step[p] = "idle"
    BY Zenon, <1>0, <1>1 DEF setup_arena
  <2>6. step' = step /\ publishLock' = publishLock /\ image' = image /\ newSize' = newSize
        /\ live' = live /\ total' = total /\ last' = last /\ seen' = seen
        /\ acked' = acked /\ forgotten' = forgotten /\ deaths' = deaths
    BY Zenon, <1>1 DEF setup_arena
  <2> QED
    BY Zenon, <2>1, <2>2, <2>3, <2>4, <2>5, <2>6, Members
<1>2. CASE ResetUnlink
  BY Zenon, <1>2 DEF ResetUnlink
<1>3. CASE ResetRootBegin \/ ResetRootEnd
  <2>1. ctrl' \in [root : {NoRoot} \cup Images, size : Nat, odd : BOOLEAN]
    BY ZenonT(40), <1>3 DEF ResetRootBegin, ResetRootEnd
  <2> QED
    BY Zenon, <1>3, <2>1 DEF ResetRootBegin, ResetRootEnd
<1>4. CASE controller_is_fresh
  BY Zenon, <1>4 DEF controller_is_fresh
<1>5. CASE WarmStart
  BY Zenon, <1>5 DEF WarmStart
<1>6. CASE try_warm_start_from_arena
  <2>1. ActiveImage(arena) \in {Torn} \cup Images
    BY Zenon, <1>6 DEF try_warm_start_from_arena, ActiveImage, ArenaFile
  <2> QED
    BY Zenon, <1>6, <2>1 DEF try_warm_start_from_arena
<1>7. CASE ColdStart
  <2>1. {} \in Images
    BY Zenon DEF Images
  <2> QED
    BY Zenon, <1>7, <2>1 DEF ColdStart
<1> QED
  BY Zenon, <1>1, <1>2, <1>3, <1>4, <1>5, <1>6, <1>7 DEF init_living_db


LEMMA PublishKeeps ==
  ASSUME Base, NEW p \in All, snapshot_to_arena(p)
  PROVE  Base'
<1>0. /\ step \in [All -> {"idle", "open", "write", "root", "advance"}]
      /\ image \in [All -> Images] /\ newSize \in [All -> Nat]
      /\ ctrl \in [root : {NoRoot} \cup Images, size : Nat, odd : BOOLEAN]
      /\ step[p] # "idle" => pc \in Running
  BY Zenon, StoreAssumption DEF Base, TypeOK, All, Running
<1>1. CASE TakeImage(p)
  <2>1. pc \in {"snapshot", "ready", "final"} /\ live \in Images
    BY Zenon, <1>1 DEF TakeImage, MayPublish, Base, Running
  <2>2. arena_size_for(ctrl.size, live) \in Nat
    BY Zenon, <1>0, <2>1, SizeChosen
  <2>3. image' \in [All -> Images] /\ newSize' \in [All -> Nat]
    BY Zenon, <1>0, <1>1, <2>1, <2>2 DEF TakeImage
  <2>4. /\ step' \in [All -> {"idle", "open", "write", "root", "advance"}]
        /\ \A q \in All : step'[q] # "idle" <=> q = p
    <3>1. \A q \in All : step[q] = "idle"
      BY Zenon, <1>1, StoreAssumption DEF TakeImage, Base, All
    <3> QED
      BY Zenon, <1>0, <1>1, <3>1 DEF TakeImage
  <2>5. /\ p = Main => pc \in {"snapshot", "final"}
        /\ p \in Publishers => pc \in {"ready", "final", "exit"}
        /\ p = Task => last \in Nat
    BY <1>1, StoreAssumption DEF TakeImage, MayPublish, Base, TypeOK
  <2>6. publishLock' = p /\ UNCHANGED <<disk, pc, resetting, total, task, ghosts, bounds>>
    BY Zenon, <1>1 DEF TakeImage
  <2> QED
    BY <2>3, <2>4, <2>5, <2>6, Members
    DEF Base, TypeOK, disk, task, ghosts, bounds
<1>2. CASE OpenArena(p) \/ write_to_arena(p) \/ GrowArena(p) \/ RootBegin(p)
  <2>1. step[p] # "idle" /\ UNCHANGED <<pc, publishLock, last, live>>
    BY Zenon, <1>2 DEF OpenArena, write_to_arena, GrowArena, RootBegin, task
  <2>2. \E s \in {"open", "write", "root", "advance"} : step' = [step EXCEPT ![p] = s]
    BY Zenon, <1>2 DEF OpenArena, write_to_arena, GrowArena, RootBegin
  <2>3. /\ step' \in [All -> {"idle", "open", "write", "root", "advance"}]
        /\ \A q \in All : step'[q] # "idle" <=> publishLock' = q
        /\ step'[Main] # "idle" => pc' \in {"snapshot", "final"}
        /\ \A q \in Publishers : step'[q] # "idle" => pc' \in {"ready", "final", "exit"}
        /\ step'[Task] # "idle" => last' \in Nat
    BY ZenonT(40), <2>1, <2>2, InsideKeeps
  <2>4. arena \in ArenaFile /\ image[p] \in Images /\ newSize[p] \in Nat
    BY Zenon, <1>0, <2>1 DEF Base, Running
  <2>5. arena' \in ArenaFile
    BY <1>2, <2>4, Created, ArenaWrites, Grown
    DEF OpenArena, write_to_arena, GrowArena, RootBegin
  <2>6. ctrl' \in [root : {NoRoot} \cup Images, size : Nat, odd : BOOLEAN]
    BY ZenonT(40), <1>0, <1>2 DEF OpenArena, write_to_arena, GrowArena, RootBegin
  <2>7. UNCHANGED <<live, pc, resetting, publishLock, image, newSize, total, task, ghosts, bounds>>
    BY Zenon, <1>2 DEF OpenArena, write_to_arena, GrowArena, RootBegin
  <2> QED
    BY Zenon, <2>3, <2>5, <2>6, <2>7 DEF Base, TypeOK, task, ghosts, bounds
<1>3. CASE RootEnd(p) \/ PublishFails(p)
  <2>1. step[p] # "idle" /\ \E ok \in BOOLEAN : Leave(p, ok)
    BY ZenonT(40), <1>3 DEF RootEnd, PublishFails
  <2>2. /\ step' \in [All -> {"idle", "open", "write", "root", "advance"}]
        /\ image' \in [All -> Images] /\ newSize' \in [All -> Nat]
        /\ publishLock' = NoOne
        /\ \A q \in All : step'[q] = "idle"
        /\ pc' \in {"down"} \cup Booting \cup Running
        /\ pc' # "down" => pc # "down"
        /\ pc' \in Running => pc \in Running
    BY Zenon, <2>1, LeaveKeeps
  <2>3. ctrl' \in [root : {NoRoot} \cup Images, size : Nat, odd : BOOLEAN]
    <3>1. image[p] \in Images /\ newSize[p] \in Nat
      BY Zenon, <1>0
    <3>2. CASE RootEnd(p)
      BY Zenon, <3>1, <3>2 DEF RootEnd
    <3>3. CASE PublishFails(p)
      BY Zenon, <1>0, <3>3 DEF PublishFails, disk
    <3> QED
      BY Zenon, <1>3, <3>2, <3>3
  <2>4. last' \in Nat \cup {Unset} /\ seen' \in Nat
    <3>1. seen \in Nat /\ last \in Nat \cup {Unset} /\ (p = Task => last \in Nat)
      BY Zenon, <2>1 DEF Base, TypeOK
    <3>2. CASE p = Task
      BY ZenonT(40), <1>3, <3>1, <3>2 DEF RootEnd, PublishFails
    <3>3. CASE p # Task
      BY ZenonT(40), <1>3, <3>1, <3>3 DEF RootEnd, PublishFails
    <3> QED
      BY Zenon, <3>2, <3>3
  <2>5. UNCHANGED <<arena, live, resetting, total, ghosts, bounds>>
    BY ZenonT(40), <1>3 DEF RootEnd, PublishFails, disk
  <2>6. \A q \in All : publishLock' # q
    BY ZenonT(60), <2>2, StoreAssumption DEF All
  <2> QED
    BY Zenon, <2>2, <2>3, <2>4, <2>5, <2>6, Members DEF Base, TypeOK, ghosts, bounds
<1> QED
  BY Zenon, <1>1, <1>2, <1>3 DEF snapshot_to_arena

LEMMA ServeKeeps ==
  ASSUME Base, \/ StartTask \/ publish_if_dirty \/ Shutdown
               \/ \E c \in Commits : Commit(c)
  PROVE  Base'
<1> USE DEF Base, TypeOK, Running, Booting, disk, publishing, task, ghosts, bounds
<1>1. CASE StartTask
  BY <1>1 DEF StartTask
<1>2. CASE publish_if_dirty
  BY Zenon, <1>2 DEF publish_if_dirty
<1>3. CASE Shutdown
  BY Zenon, <1>3 DEF Shutdown
<1>4. ASSUME NEW c \in Commits, Commit(c) PROVE Base'
  <2>1. live' \in Images /\ acked' \in Images
    <3>1. live \in Images /\ acked \in Images
      BY Zenon, <1>4 DEF Commit, Images
    <3>2. live' = live \cup {c} /\ acked' = acked \cup {c}
      BY Zenon, <1>4 DEF Commit
    <3>3. QED
      BY Zenon, <3>1, <3>2, CommitAdded
  <2>2. total' \in Nat
    BY <1>4 DEF Commit
  <2>3. QED
    BY Zenon, <1>4, <2>1, <2>2 DEF Commit, Images
<1> QED
  BY Zenon, <1>1, <1>2, <1>3, <1>4

\* The process ends, by itself or killed.
LEMMA StopKeeps ==
  ASSUME Base, Exit \/ Die
  PROVE  Base'
<1>1. /\ ctrl \in [root : {NoRoot} \cup Images, size : Nat, odd : BOOLEAN]
      /\ newSize \in [All -> Nat]
  BY Zenon DEF Base, TypeOK
<1>2. ctrl' \in [root : {NoRoot} \cup Images, size : Nat, odd : BOOLEAN]
  BY Zenon, <1>1 DEF Exit, Die, disk
<1>3. deaths' \in 0..MaxDeaths /\ boots' \in 0..MaxBoots
  BY StoreAssumption DEF Exit, Die, Base, TypeOK, bounds
<1>4. {} \in Images
  BY Zenon DEF Images
<1>5. Stop /\ UNCHANGED <<arena, live, ghosts>>
  BY Zenon DEF Exit, Die, disk
<1>6. \A p \in All : step'[p] = "idle" /\ publishLock' # p
  BY Zenon, <1>5, StoreAssumption DEF Stop, All
<1>7. /\ step' \in [All -> {"idle", "open", "write", "root", "advance"}]
      /\ image' \in [All -> Images] /\ newSize' \in [All -> Nat]
  BY Zenon, <1>4, <1>5 DEF Stop
<1> QED
  BY ZenonT(40), <1>2, <1>3, <1>5, <1>6, <1>7, Members DEF Base, TypeOK, Stop, ghosts, Running

LEMMA BaseKeeps == Base /\ [Next]_vars => Base'
<1> SUFFICES ASSUME Base, [Next]_vars PROVE Base'
  BY Zenon
<1>1. CASE UNCHANGED vars
  BY <1>1 DEF vars, disk, publishing, task, ghosts, bounds, Base, TypeOK
<1> QED
  BY Zenon, <1>1, BootKeeps, PublishKeeps, ServeKeeps, StopKeeps DEF Next

\* Only the publisher holding publish_snapshot's lock is inside it, the main thread only
\* at boot and shutdown, and a process that runs has an arena file and an image.
THEOREM BaseHolds == Spec => []Base
BY InitBase, BaseKeeps, PTL DEF Spec

\* Every variable of the store's model keeps its type: publishers only ever hold
\* images of a database, and sizes stay sizes.
THEOREM StoreTypes == Spec => []TypeOK
<1>1. Base => TypeOK
  BY Zenon DEF Base
<1> QED
  BY <1>1, BaseHolds, PTL

\* The publish lock: a publisher inside is the only one.
LEMMA Alone ==
  ASSUME Base, NEW p \in All, step[p] # "idle"
  PROVE  /\ \A q \in All : q # p => step[q] = "idle"
         /\ pc \in Running
BY Zenon, StoreAssumption DEF Base, All, Running

-----------------------------------------------------------------------------
(* Acknowledged commits.                                                   *)

\* The counter is odd only while somebody alive publishes.
EvenAtRest == ctrl.odd => pc = "zeroing" \/ \E p \in All : step[p] = "advance"

\* Whatever was acknowledged is in live.db, and a root was published before: that is
\* what keeps controller_is_fresh from taking live.db for an orphan.
AckInv ==
  /\ EvenAtRest
  /\ acked # {} => ctrl.root # NoRoot /\ live \in Images /\ acked \subseteq live
  /\ pc \in {"zero", "zeroing"} => acked = {}
  /\ Serving => ctrl.root # NoRoot

LEMMA EvenInBoot ==
  ASSUME Base, EvenAtRest, pc \notin Running \cup {"zeroing"}
  PROVE  ~ctrl.odd
BY Zenon, IdleUnlessRunning DEF EvenAtRest

LEMMA EvenInPublish ==
  ASSUME Base, EvenAtRest, pc \in Running,
         \A p \in All : step[p] # "advance"
  PROVE  ~ctrl.odd
BY Zenon DEF EvenAtRest, Running

LEMMA EvenStep ==
  ASSUME Base, EvenAtRest, [Next]_vars, DieInPublish = FALSE \/ MaxDeaths = 0
  PROVE  EvenAtRest'
<1>0. /\ ctrl \in [root : {NoRoot} \cup Images, size : Nat, odd : BOOLEAN]
      /\ step \in [All -> {"idle", "open", "write", "root", "advance"}]
  BY Zenon DEF Base, TypeOK
<1>1. CASE setup_arena \/ controller_is_fresh \/ WarmStart \/ try_warm_start_from_arena
           \/ ColdStart \/ ResetUnlink
  <2>1. ~ctrl.odd
    BY ZenonT(40), <1>1, EvenInBoot DEF setup_arena, controller_is_fresh, WarmStart,
       try_warm_start_from_arena, ColdStart, ResetUnlink, Running
  <2>2. ctrl'.odd = ctrl.odd
    BY ZenonT(40), <1>0, <1>1 DEF setup_arena, controller_is_fresh, WarmStart,
       try_warm_start_from_arena, ColdStart, ResetUnlink, disk
  <2> QED
    BY Zenon, <2>1, <2>2 DEF EvenAtRest
<1>2. CASE ResetRootBegin \/ ResetRootEnd
  BY ZenonT(40), <1>0, <1>2 DEF ResetRootBegin, ResetRootEnd, EvenAtRest
<1>3. CASE StartTask \/ publish_if_dirty \/ Shutdown \/ UNCHANGED vars
           \/ \E c \in Commits : Commit(c)
  BY Zenon, <1>3 DEF StartTask, publish_if_dirty, Shutdown, Commit, vars, disk, publishing, EvenAtRest
<1>4. ASSUME NEW p \in All, snapshot_to_arena(p) PROVE EvenAtRest'
  <2>1. CASE TakeImage(p) \/ OpenArena(p) \/ write_to_arena(p) \/ GrowArena(p)
             \/ PublishFails(p)
    <3>1. pc \in Running /\ \A q \in All : step[q] # "advance"
      <4>1. CASE TakeImage(p)
        BY Zenon, <4>1, StoreAssumption DEF TakeImage, MayPublish, Base, Running, All
      <4>2. CASE ~TakeImage(p)
        <5>1. step[p] # "idle" /\ step[p] # "advance"
          BY ZenonT(40), <2>1, <4>2 DEF OpenArena, write_to_arena, GrowArena, PublishFails
        <5> QED
          BY Zenon, <5>1, Alone
      <4> QED
        BY ZenonT(60), <4>1, <4>2
    <3>2. ~ctrl.odd
      BY Zenon, <3>1, EvenInPublish
    <3>3. ctrl' = ctrl
      BY ZenonT(40), <2>1 DEF TakeImage, OpenArena, write_to_arena, GrowArena, PublishFails, disk
    <3> QED
      BY Zenon, <3>2, <3>3 DEF EvenAtRest
  <2>2. CASE RootBegin(p)
    BY Zenon, <1>0, <2>2 DEF RootBegin, EvenAtRest
  <2>3. CASE RootEnd(p)
    BY ZenonT(40), <2>3 DEF RootEnd, EvenAtRest
  <2> QED
    BY Zenon, <1>4, <2>1, <2>2, <2>3 DEF snapshot_to_arena
<1>5. CASE Exit
  <2>1. pc \in Running /\ \A p \in All : step[p] # "advance"
    BY Zenon, <1>5 DEF Exit, Running
  <2> QED
    BY Zenon, <1>5, <2>1, EvenInPublish DEF Exit, disk, EvenAtRest
<1>6. CASE Die
  <2>1. ~ctrl.odd
    BY <1>6, StoreAssumption DEF Die, Base, TypeOK
  <2>2. ~ctrl'.odd
    BY <1>0, <1>6, <2>1 DEF Die
  <2> QED
    BY Zenon, <2>2 DEF EvenAtRest
<1> QED
  BY ZenonT(60), <1>1, <1>2, <1>3, <1>4, <1>5, <1>6 DEF Next, init_living_db


LEMMA AckStep ==
  ASSUME Base, AckInv, [Next]_vars, DieInPublish = FALSE
  PROVE  AckInv'
<1> DEFINE Safe == acked # {} => ctrl.root # NoRoot /\ live \in Images /\ acked \subseteq live
           Wiped == pc \in {"zero", "zeroing"} => acked = {}
           Named == Serving => ctrl.root # NoRoot
<1> USE DEF Serving
<1>0. /\ ctrl \in [root : {NoRoot} \cup Images, size : Nat, odd : BOOLEAN]
      /\ image \in [All -> Images]
      /\ Safe /\ Wiped /\ Named
  BY Zenon DEF Base, TypeOK, AckInv
<1>1. EvenAtRest'
  BY ZenonT(40), EvenStep DEF AckInv
<1> SUFFICES Safe' /\ Wiped' /\ Named'
  BY Zenon, <1>1 DEF AckInv
<1>2. CASE setup_arena
  BY Zenon, <1>0, <1>2 DEF setup_arena, ghosts
<1>3. CASE ResetUnlink \/ ResetRootBegin \/ ResetRootEnd
  BY Zenon, <1>0, <1>3 DEF ResetUnlink, ResetRootBegin, ResetRootEnd, ghosts
<1>4. CASE controller_is_fresh
  <2>1. FreshRoot = ctrl.root
    BY Zenon, <1>4, EvenInBoot DEF controller_is_fresh, FreshRoot, Running, AckInv
  <2> QED
    BY Zenon, <1>0, <1>4, <2>1 DEF controller_is_fresh, ghosts
<1>5. CASE WarmStart
  BY Zenon, <1>0, <1>5 DEF WarmStart, disk, ghosts
<1>6. CASE try_warm_start_from_arena \/ ColdStart
  <2>1. acked = {}
    BY Zenon, <1>0, <1>6, MarkersApart DEF try_warm_start_from_arena, ColdStart
  <2> QED
    BY Zenon, <1>6, <2>1 DEF try_warm_start_from_arena, ColdStart, ghosts
<1>7. ASSUME NEW p \in All, snapshot_to_arena(p) PROVE Safe' /\ Wiped' /\ Named'
  <2>1. CASE TakeImage(p) \/ OpenArena(p) \/ write_to_arena(p) \/ GrowArena(p) \/ RootBegin(p)
    BY ZenonT(60), <1>0, <2>1 DEF TakeImage, OpenArena, write_to_arena, GrowArena, RootBegin, disk, ghosts
  <2>2. CASE RootEnd(p)
    <3>1. ctrl'.root # NoRoot
      BY Zenon, <1>0, <2>2, MarkersApart DEF RootEnd
    <3>2. pc' \notin {"zero", "zeroing"}
      BY Zenon, <2>2, Alone DEF RootEnd, Leave, AfterMain, Running
    <3> QED
      BY ZenonT(60), <1>0, <2>2, <3>1, <3>2 DEF RootEnd, ghosts
  <2>3. CASE PublishFails(p)
    <3>1. pc' \notin {"zero", "zeroing"} /\ (pc' \in {"ready", "final", "exit"} => Serving)
      BY Zenon, <2>3, Alone DEF PublishFails, Leave, AfterMain, Running
    <3> QED
      BY Zenon, <1>0, <2>3, <3>1 DEF PublishFails, disk, ghosts
  <2> QED
    BY Zenon, <1>7, <2>1, <2>2, <2>3 DEF snapshot_to_arena
<1>8. ASSUME NEW c \in Commits, Commit(c) PROVE Safe' /\ Wiped' /\ Named'
  <2>1. live \in Images /\ ctrl.root # NoRoot
    BY ZenonT(60), <1>0, <1>8 DEF Commit, Base, Running
  <2> QED
    BY Zenon, <1>0, <1>8, <2>1 DEF Commit, Images
<1>9. CASE StartTask \/ publish_if_dirty \/ Shutdown \/ UNCHANGED vars
  BY Zenon, <1>0, <1>9 DEF StartTask, publish_if_dirty, Shutdown, vars, disk, ghosts
<1>10. CASE Exit \/ Die
  <2>1. ctrl'.root = ctrl.root
    BY Zenon, <1>0, <1>10 DEF Exit, Die, disk
  <2> QED
    BY Zenon, <1>0, <1>10, <2>1 DEF Exit, Die, Stop, disk, ghosts
<1> QED
  BY ZenonT(60), <1>2, <1>3, <1>4, <1>5, <1>6, <1>7, <1>8, <1>9, <1>10 DEF Next, init_living_db

\* init_living_db recovers every acknowledged commit over any number of crashes,
\* restarts, resets and failing publishes, when no death falls inside
\* set_arena_with_root.
THEOREM CommitsSurvive ==
  ASSUME DieInPublish = FALSE
  PROVE  Spec => []AckedSurvive
<1>1. Init => AckInv
  BY DEF Init, AckInv, EvenAtRest, Serving
<1>2. Base /\ AckInv /\ [Next]_vars => AckInv'
  BY ZenonT(40), AckStep
<1>3. AckInv => AckedSurvive
  BY Zenon DEF AckInv, AckedSurvive
<1> QED
  BY <1>1, <1>2, <1>3, BaseHolds, PTL DEF Spec

-----------------------------------------------------------------------------
(* What is published grows.                                                *)

\* live.db holds the published image, and an image on its way holds it too.
GrowInv ==
  /\ pc \notin {"unlink", "zero", "zeroing"}
  /\ ctrl.root # NoRoot => live \in Images /\ ctrl.root \subseteq live
  /\ \A p \in All : step[p] # "idle" =>
       image[p] \subseteq live /\ (ctrl.root # NoRoot => ctrl.root \subseteq image[p])

LEMMA GrowStep ==
  ASSUME Base, EvenAtRest, GrowInv, [Next]_vars, MayReset = FALSE, DieInPublish = FALSE
  PROVE  GrowInv'
<1> DEFINE Held == ctrl.root # NoRoot => live \in Images /\ ctrl.root \subseteq live
           Moving == \A p \in All : step[p] # "idle" =>
             image[p] \subseteq live /\ (ctrl.root # NoRoot => ctrl.root \subseteq image[p])
           Plain == pc \notin {"unlink", "zero", "zeroing"}
<1>0. /\ ctrl \in [root : {NoRoot} \cup Images, size : Nat, odd : BOOLEAN]
      /\ image \in [All -> Images]
      /\ step \in [All -> {"idle", "open", "write", "root", "advance"}]
      /\ Held /\ Moving /\ Plain
  BY Zenon DEF Base, TypeOK, GrowInv
<1> SUFFICES Held' /\ Moving' /\ Plain'
  BY Zenon DEF GrowInv
<1>1. CASE setup_arena
  BY Zenon, <1>0, <1>1 DEF setup_arena, publishing
<1>2. CASE ResetUnlink \/ ResetRootBegin \/ ResetRootEnd
  BY Zenon, <1>0, <1>2 DEF ResetUnlink, ResetRootBegin, ResetRootEnd
<1>3. CASE controller_is_fresh
  <2>1. FreshRoot = ctrl.root /\ \A p \in All : step[p] = "idle"
    BY Zenon, <1>3, EvenInBoot, IdleUnlessRunning DEF controller_is_fresh, FreshRoot, Running
  <2> QED
    BY Zenon, <1>0, <1>3, <2>1 DEF controller_is_fresh, publishing
<1>4. CASE WarmStart
  BY Zenon, <1>0, <1>4 DEF WarmStart, disk, publishing
<1>5. CASE try_warm_start_from_arena \/ ColdStart
  <2>1. ctrl.root = NoRoot
    BY Zenon, <1>0, <1>5, MarkersApart DEF try_warm_start_from_arena, ColdStart
  <2>2. \A p \in All : step[p] = "idle"
    BY ZenonT(60), <1>5, IdleUnlessRunning DEF try_warm_start_from_arena, ColdStart, Running
  <2> QED
    BY ZenonT(60), <1>0, <1>5, <2>1, <2>2 DEF try_warm_start_from_arena, ColdStart, publishing
<1>6. ASSUME NEW p \in All, snapshot_to_arena(p) PROVE Held' /\ Moving' /\ Plain'
  <2>1. CASE TakeImage(p)
    BY Zenon, <1>0, <2>1 DEF TakeImage, disk
  <2>2. CASE OpenArena(p) \/ write_to_arena(p) \/ GrowArena(p) \/ RootBegin(p)
    <3>1. ctrl'.root = ctrl.root /\ step[p] # "idle"
      BY Zenon, <1>0, <2>2 DEF OpenArena, write_to_arena, GrowArena, RootBegin
    <3>2. \A q \in All : step'[q] # "idle" => step[q] # "idle"
      BY ZenonT(60), <1>0, <2>2, <3>1 DEF OpenArena, write_to_arena, GrowArena, RootBegin
    <3> QED
      BY Zenon, <1>0, <2>2, <3>1, <3>2 DEF OpenArena, write_to_arena, GrowArena, RootBegin
  <2>3. CASE RootEnd(p) \/ PublishFails(p)
    <3>1. step[p] # "idle" /\ \E ok \in BOOLEAN : Leave(p, ok)
      BY ZenonT(40), <2>3 DEF RootEnd, PublishFails
    <3>2. \A q \in All : step'[q] = "idle"
      BY Zenon, <3>1, LeaveKeeps
    <3>3. Plain'
      BY ZenonT(60), <1>0, <3>1, Alone DEF Leave, AfterMain, Running
    <3>4. live' = live /\ (ctrl' = ctrl \/ ctrl'.root = image[p])
      <4>1. CASE RootEnd(p)
        BY Zenon, <4>1 DEF RootEnd
      <4>2. CASE PublishFails(p)
        BY Zenon, <4>2 DEF PublishFails, disk
      <4> QED
        BY ZenonT(60), <2>3, <4>1, <4>2
    <3>5. live \in Images
      BY Zenon, <3>1, Alone DEF Base
    <3> QED
      BY Zenon, <1>0, <3>1, <3>2, <3>3, <3>4, <3>5
  <2> QED
    BY ZenonT(60), <1>6, <2>1, <2>2, <2>3 DEF snapshot_to_arena
<1>7. ASSUME NEW c \in Commits, Commit(c) PROVE Held' /\ Moving' /\ Plain'
  <2>1. live \in Images
    BY ZenonT(60), <1>7 DEF Commit, Base, Running
  <2> QED
    BY Zenon, <1>0, <1>7, <2>1 DEF Commit, publishing, Images
<1>8. CASE StartTask \/ publish_if_dirty \/ Shutdown \/ UNCHANGED vars
  BY Zenon, <1>0, <1>8 DEF StartTask, publish_if_dirty, Shutdown, vars, disk, publishing
<1>9. CASE Exit \/ Die
  <2>1. ctrl'.root = ctrl.root
    BY <1>0, <1>9 DEF Exit, Die, disk
  <2> QED
    BY Zenon, <1>0, <1>9, <2>1 DEF Exit, Die, Stop, disk
<1> QED
  BY ZenonT(60), <1>1, <1>2, <1>3, <1>4, <1>5, <1>6, <1>7, <1>8, <1>9 DEF Next, init_living_db


\* publish_lock and the order of init_living_db: no publisher, in this boot or a later
\* one, replaces a root by one that lacks a commit, when nothing is reset and no death
\* falls inside set_arena_with_root.
THEOREM RootsGrow ==
  ASSUME MayReset = FALSE, DieInPublish = FALSE
  PROVE  Spec => PublishedGrows
<1> DEFINE Keep == ctrl.root # NoRoot /\ ctrl'.root # NoRoot => ctrl.root \subseteq ctrl'.root
<1>1. Init => EvenAtRest /\ GrowInv
  BY DEF Init, EvenAtRest, GrowInv
<1>2. Base /\ EvenAtRest /\ GrowInv /\ [Next]_vars => EvenAtRest' /\ GrowInv'
  BY ZenonT(40), EvenStep, GrowStep
<1>3. Base /\ EvenAtRest /\ GrowInv /\ [Next]_vars => [Keep]_vars
  <2> SUFFICES ASSUME Base, GrowInv, [Next]_vars PROVE Keep
    BY Zenon
  <2>0. ctrl \in [root : {NoRoot} \cup Images, size : Nat, odd : BOOLEAN]
    BY ZenonT(60) DEF Base, TypeOK
  <2>1. ASSUME NEW p \in All, RootEnd(p) PROVE Keep
    BY Zenon, <2>1 DEF RootEnd, GrowInv
  <2>2. CASE ~\E p \in All : RootEnd(p)
    <3>1. ctrl'.root \in {ctrl.root, NoRoot}
      BY ZenonT(40), <2>0, <2>2 DEF Next, init_living_db, snapshot_to_arena, setup_arena, ResetUnlink,
         ResetRootBegin, ResetRootEnd, controller_is_fresh, WarmStart,
         try_warm_start_from_arena, ColdStart, TakeImage, OpenArena, write_to_arena,
         GrowArena, RootBegin, PublishFails, Commit, StartTask, publish_if_dirty,
         Shutdown, Exit, Die, vars, disk
    <3> QED
      BY Zenon, <3>1
  <2> QED
    BY Zenon, <2>1, <2>2
<1>4. Spec => [][Keep]_vars
  BY <1>1, <1>2, <1>3, BaseHolds, PTL DEF Spec
<1> QED
  BY Zenon, <1>4 DEF PublishedGrows

-----------------------------------------------------------------------------
(* The advertised size.                                                    *)

\* The size on its way is no smaller than the advertised one, and the file has it from
\* the moment its bytes are written.
SizeInv ==
  \A p \in All :
    /\ step[p] # "idle" => ctrl.size <= newSize[p]
    /\ step[p] \in {"write", "root", "advance"} => arena.size = newSize[p]

LEMMA SizeStep ==
  ASSUME Base, SizeInv, [Next]_vars
  PROVE  /\ SizeInv'
         /\ pc # "down" /\ ctrl.size <= arena.size => ctrl'.size <= arena'.size
<1> DEFINE Fits == pc # "down" /\ ctrl.size <= arena.size => ctrl'.size <= arena'.size
<1>0. /\ ctrl \in [root : {NoRoot} \cup Images, size : Nat, odd : BOOLEAN]
      /\ image \in [All -> Images] /\ newSize \in [All -> Nat]
      /\ step \in [All -> {"idle", "open", "write", "root", "advance"}]
  BY Zenon DEF Base, TypeOK
<1>1. CASE setup_arena
  <2>1. \A p \in All : step'[p] = "idle"
    BY Zenon, <1>1, IdleUnlessRunning DEF setup_arena, publishing, Running
  <2> QED
    BY Zenon, <1>1, <2>1 DEF setup_arena, SizeInv
<1>2. CASE init_living_db \/ StartTask \/ publish_if_dirty \/ Shutdown \/ UNCHANGED vars
           \/ \E c \in Commits : Commit(c)
  <2>1. UNCHANGED <<arena, publishing>> /\ ctrl'.size = ctrl.size
    BY ZenonT(40), <1>0, <1>2 DEF init_living_db, ResetUnlink, ResetRootBegin, ResetRootEnd,
       controller_is_fresh, WarmStart, try_warm_start_from_arena, ColdStart, StartTask,
       publish_if_dirty, Shutdown, vars, disk, Commit
  <2> QED
    BY Zenon, <2>1 DEF SizeInv, publishing
<1>3. ASSUME NEW p \in All, snapshot_to_arena(p) PROVE SizeInv' /\ Fits
  <2>1. CASE TakeImage(p)
    <3>1. live \in Images /\ arena' = arena /\ ctrl' = ctrl
      BY Zenon, <2>1 DEF TakeImage, MayPublish, Base, Running, disk
    <3>2. ctrl.size <= arena_size_for(ctrl.size, live)
      BY Zenon, <1>0, <3>1, SizeChosen
    <3>3. \A q \in All : q # p => step'[q] = step[q] /\ newSize'[q] = newSize[q]
      BY Zenon, <1>0, <2>1 DEF TakeImage
    <3>4. step'[p] = "open" /\ newSize'[p] = arena_size_for(ctrl.size, live)
      BY Zenon, <1>0, <2>1 DEF TakeImage
    <3> QED
      BY ZenonT(60), <3>1, <3>2, <3>3, <3>4 DEF SizeInv
  <2>2. CASE OpenArena(p) \/ write_to_arena(p) \/ GrowArena(p) \/ RootBegin(p)
    <3>1. /\ step[p] # "idle" /\ newSize' = newSize
          /\ \A q \in All : q # p => step[q] = "idle" /\ step'[q] = "idle"
      BY ZenonT(60), <1>0, <2>2, Alone DEF OpenArena, write_to_arena, GrowArena, RootBegin
    <3>2. arena \in ArenaFile /\ image[p] \in Images /\ newSize[p] \in Nat
      BY ZenonT(60), <1>0, <3>1, Alone DEF Base, Running
    <3>3. arena'.size = newSize[p]
      <4>1. CASE OpenArena(p)
        <5>1. PICK a \in create_arena(arena, newSize[p]) : arena' = Writing(a)
          BY Zenon, <4>1 DEF OpenArena
        <5>2. a \in ArenaFile /\ a.size = newSize[p]
          BY Zenon, <3>2, Created
        <5>3. Writing(a).size = a.size
          BY Zenon, <3>2, <5>2, ArenaWrites
        <5>4. QED
          BY Zenon, <5>1, <5>2, <5>3
      <4>2. CASE write_to_arena(p)
        BY ZenonT(60), <3>2, <4>2, ArenaWrites DEF write_to_arena, SizeInv
      <4>3. CASE GrowArena(p)
        BY Zenon, <3>2, <4>3, Grown DEF GrowArena
      <4>4. CASE RootBegin(p)
        BY Zenon, <4>4 DEF RootBegin, SizeInv
      <4> QED
        BY ZenonT(60), <2>2, <4>1, <4>2, <4>3, <4>4
    <3>4. ctrl'.size = ctrl.size
      BY ZenonT(60), <1>0, <2>2 DEF OpenArena, write_to_arena, GrowArena, RootBegin
    <3> QED
      BY Zenon, <1>0, <3>1, <3>3, <3>4 DEF SizeInv
  <2>3. CASE RootEnd(p) \/ PublishFails(p)
    <3>1. step[p] # "idle" /\ \E ok \in BOOLEAN : Leave(p, ok)
      BY ZenonT(40), <2>3 DEF RootEnd, PublishFails
    <3>2. \A q \in All : step'[q] = "idle"
      BY Zenon, <3>1, LeaveKeeps
    <3>3. Fits
      <4>1. CASE RootEnd(p)
        <5>1. ctrl'.size = newSize[p] /\ arena' = arena /\ arena.size = newSize[p]
          BY Zenon, <4>1 DEF RootEnd, SizeInv
        <5>2. newSize[p] \in Nat
          BY Zenon, <1>0
        <5>3. newSize[p] <= newSize[p]
          BY <5>2
        <5>4. QED
          BY Zenon, <5>1, <5>3
      <4>2. CASE PublishFails(p)
        BY Zenon, <4>2 DEF PublishFails, disk
      <4> QED
        BY Zenon, <2>3, <4>1, <4>2
    <3> QED
      BY Zenon, <3>2, <3>3 DEF SizeInv
  <2> QED
    BY ZenonT(60), <1>3, <2>1, <2>2, <2>3 DEF snapshot_to_arena
<1>4. CASE Exit \/ Die
  <2>1. \A p \in All : step'[p] = "idle"
    BY Zenon, <1>4 DEF Exit, Die, Stop
  <2>2. arena' = arena /\ (ctrl'.size = ctrl.size \/ ctrl'.size = arena.size)
    <3>1. CASE Exit
      BY Zenon, <3>1 DEF Exit, disk
    <3>2. CASE Die
      BY <1>0, <3>2 DEF Die, SizeInv
    <3> QED
      BY Zenon, <1>4, <3>1, <3>2
  <2>3. pc # "down" => arena.size \in Nat
    BY Zenon DEF Base, ArenaFile
  <2> QED
    BY <2>1, <2>2, <2>3 DEF SizeInv
<1> QED
  BY ZenonT(60), <1>1, <1>2, <1>3, <1>4 DEF Next

\* snapshot_to_arena: a grown arena is in place before its size is advertised, for every
\* size, with deaths anywhere and publishes that fail.
THEOREM SizeIsBacked == Spec => AdvertisedSizeKept
<1> DEFINE Fits == pc # "down" /\ ctrl.size <= arena.size => ctrl'.size <= arena'.size
<1>1. Init => SizeInv
  BY Zenon DEF Init, SizeInv
<1>2. Base /\ SizeInv /\ [Next]_vars => SizeInv' /\ [Fits]_vars
  BY Zenon, SizeStep
<1>3. Spec => [][Fits]_vars
  BY <1>1, <1>2, BaseHolds, PTL DEF Spec
<1> QED
  BY Zenon, <1>3 DEF AdvertisedSizeKept


-----------------------------------------------------------------------------
(* The image the header names, while every image fits the arena.           *)

ImagesFit == ImageLen(Commits) <= buffer_size(CliSize)

\* The file keeps the size of the command line, so no boot resizes it.
WholeInv ==
  /\ (arena # NoFile \/ pc # "down") => arena.size = CliSize /\ ActiveImage(arena) # Torn
  /\ pc # "down" => ctrl.size = CliSize
  /\ ctrl.size \in {0, CliSize}
  /\ \A p \in All : step[p] # "idle" => newSize[p] = CliSize

LEMMA ActiveKept ==
  ASSUME NEW a \in ArenaFile, NEW content \in Images
  PROVE  /\ ActiveImage(Writing(a)) = ActiveImage(a)
         /\ ActiveImage(Written(a, content)) = content
         /\ Written(a, content).buffer[a.active] = ActiveImage(a)
         /\ Writing(a).buffer[a.active] = ActiveImage(a)
         /\ a.active \in Buffers
<1>1. Other(a.active) \in Buffers /\ a.active \in Buffers /\ Other(a.active) # a.active
  BY DEF ArenaFile, Buffers, Other
<1> QED
  BY Zenon, <1>1 DEF ArenaFile, Writing, Written, ActiveImage

LEMMA SameSize ==
  ASSUME ImagesFit, NEW content \in Images
  PROVE  arena_size_for(CliSize, content) = CliSize
<1>1. /\ ImageLen(content) <= ImageLen(Commits)
      /\ ImageLen(content) \in Nat /\ ImageLen(Commits) \in Nat
  BY Zenon, ImageLenType DEF Images
<1>2. buffer_size(CliSize) \in Nat
  BY StoreAssumption DEF buffer_size
<1>3. ImageLen(content) <= buffer_size(CliSize)
  BY <1>1, <1>2 DEF ImagesFit
<1> QED
  BY Zenon, <1>3 DEF arena_size_for

\* A step leaves the arena alone, writes its inactive buffer, or makes the file.
LEMMA ArenaStep ==
  ASSUME Base, WholeInv, [Next]_vars, ImagesFit
  PROVE  \/ arena' = arena
         \/ arena = NoFile /\ arena'.size = CliSize /\ ActiveImage(arena') # Torn
         \/ pc # "down" /\ arena \in ArenaFile /\ arena' = Writing(arena)
         \/ /\ pc # "down" /\ arena \in ArenaFile
            /\ \E content \in Images : arena' = Written(arena, content)
<1> DEFINE Goal == \/ arena' = arena
                   \/ arena = NoFile /\ arena'.size = CliSize /\ ActiveImage(arena') # Torn
                   \/ pc # "down" /\ arena \in ArenaFile /\ arena' = Writing(arena)
                   \/ /\ pc # "down" /\ arena \in ArenaFile
                      /\ \E content \in Images : arena' = Written(arena, content)
<1>0. /\ image \in [All -> Images] /\ arena \in {NoFile} \cup ArenaFile
  BY Zenon DEF Base, TypeOK
<1>1. CASE setup_arena
  <2>1. arena' \in create_arena(arena, CliSize)
    BY Zenon, <1>1 DEF setup_arena
  <2>2. CASE arena = NoFile
    BY <2>1, <2>2, MarkersApart DEF create_arena, ActiveImage, Buffers
  <2>3. CASE arena # NoFile
    BY ZenonT(60), <2>1, <2>3 DEF create_arena, WholeInv
  <2> QED
    BY Zenon, <2>2, <2>3
<1>2. ASSUME NEW p \in All, snapshot_to_arena(p) PROVE Goal
  <2>1. CASE OpenArena(p)
    <3>1. PICK a \in create_arena(arena, newSize[p]) : arena' = Writing(a)
      BY ZenonT(40), <2>1 DEF OpenArena
    <3>2. pc # "down" /\ newSize[p] = CliSize /\ arena.size = CliSize /\ arena \in ArenaFile
      BY ZenonT(40), <2>1, Alone DEF OpenArena, WholeInv, Base, Running
    <3>3. CASE arena # NoFile
      BY Zenon, <3>1, <3>2, <3>3 DEF create_arena
    <3>4. CASE arena = NoFile
      <4>1. a = [size |-> CliSize, active |-> 0, buffer |-> [b \in Buffers |-> Blank]]
        BY ZenonT(60), <3>1, <3>2, <3>4 DEF create_arena
      <4>2. a \in ArenaFile /\ a.size = CliSize /\ ActiveImage(a) = Blank
        BY Zenon, <4>1, StoreAssumption DEF ArenaFile, Buffers, ActiveImage
      <4>3. {} \in Images
        BY ZenonT(60) DEF Images
      <4>4. ActiveImage(arena') = Blank /\ arena'.size = CliSize
        BY ZenonT(60), <3>1, <4>2, <4>3, ActiveKept, ArenaWrites
      <4> QED
        BY ZenonT(60), <3>4, <4>4, MarkersApart
    <3> QED
      BY Zenon, <3>3, <3>4
  <2>2. CASE write_to_arena(p)
    <3>1. arena \in ArenaFile /\ pc # "down"
      BY ZenonT(60), <2>2, Alone DEF write_to_arena, Base, Running
    <3> QED
      BY ZenonT(60), <1>0, <2>2, <3>1 DEF write_to_arena
  <2>3. CASE GrowArena(p)
    BY Zenon, <2>3, Alone DEF GrowArena, WholeInv, Running
  <2>4. CASE TakeImage(p) \/ RootBegin(p) \/ RootEnd(p) \/ PublishFails(p)
    BY ZenonT(40), <2>4 DEF TakeImage, RootBegin, RootEnd, PublishFails, disk
  <2> QED
    BY ZenonT(60), <1>2, <2>1, <2>2, <2>3, <2>4 DEF snapshot_to_arena
<1>3. CASE init_living_db \/ StartTask \/ publish_if_dirty \/ Shutdown \/ UNCHANGED vars
           \/ Exit \/ Die \/ \E c \in Commits : Commit(c)
  BY ZenonT(60), <1>3 DEF init_living_db, ResetUnlink, ResetRootBegin, ResetRootEnd,
     controller_is_fresh, WarmStart, try_warm_start_from_arena, ColdStart, StartTask,
     publish_if_dirty, Shutdown, vars, disk, Commit, Exit, Die
<1> QED
  BY ZenonT(60), <1>1, <1>2, <1>3 DEF Next

LEMMA WholeStep ==
  ASSUME Base, WholeInv, [Next]_vars, ImagesFit
  PROVE  WholeInv'
<1> DEFINE Sound == arena.size = CliSize /\ ActiveImage(arena) # Torn
<1>0. /\ ctrl \in [root : {NoRoot} \cup Images, size : Nat, odd : BOOLEAN]
      /\ newSize \in [All -> Nat]
      /\ step \in [All -> {"idle", "open", "write", "root", "advance"}]
  BY ZenonT(60) DEF Base, TypeOK
<1>1. (arena' # NoFile \/ pc' # "down") => Sound'
  <2>1. CASE arena' = arena
    <3>1. pc = "down" /\ pc' # "down" => setup_arena
      BY ZenonT(40), IdleUnlessRunning DEF Next, init_living_db, ResetUnlink, ResetRootBegin,
         ResetRootEnd, controller_is_fresh, WarmStart, try_warm_start_from_arena, ColdStart,
         StartTask, publish_if_dirty, Shutdown, vars, Commit, Exit, Die, Stop,
         snapshot_to_arena, TakeImage, MayPublish, OpenArena, write_to_arena, GrowArena,
         RootBegin, RootEnd, PublishFails, Running
    <3>2. setup_arena /\ arena = NoFile => Sound'
      BY MarkersApart DEF setup_arena, create_arena, ActiveImage, Buffers
    <3> QED
      BY Zenon, <2>1, <3>1, <3>2 DEF WholeInv
  <2>2. CASE arena = NoFile /\ Sound'
    BY ZenonT(60), <2>2
  <2>3. CASE pc # "down" /\ arena \in ArenaFile /\ arena' = Writing(arena)
    <3>1. {} \in Images
      BY Zenon DEF Images
    <3>2. Sound
      BY ZenonT(60), <2>3 DEF WholeInv
    <3> QED
      BY Zenon, <2>3, <3>1, <3>2, ActiveKept, ArenaWrites
  <2>4. CASE /\ pc # "down" /\ arena \in ArenaFile
             /\ \E content \in Images : arena' = Written(arena, content)
    <3>1. PICK content \in Images : arena' = Written(arena, content)
      BY Zenon, <2>4
    <3>2. Sound
      BY Zenon, <2>4 DEF WholeInv
    <3> QED
      BY ZenonT(150), <2>4, <3>1, <3>2, ActiveKept, ArenaWrites, MarkersApart
  <2> QED
    BY ZenonT(60), <2>1, <2>2, <2>3, <2>4, ArenaStep
<1>2. /\ ctrl'.size \in {0, CliSize} /\ (pc' # "down" => ctrl'.size = CliSize)
      /\ \A p \in All : step'[p] # "idle" => newSize'[p] = CliSize
  <2> DEFINE Sizes == /\ ctrl.size \in {0, CliSize} /\ (pc # "down" => ctrl.size = CliSize)
                      /\ \A p \in All : step[p] # "idle" => newSize[p] = CliSize
  <2>0. Sizes
    BY Zenon DEF WholeInv
  <2>1. CASE setup_arena
    BY Zenon, <1>0, <2>0, <2>1 DEF setup_arena, publishing
  <2>2. CASE init_living_db \/ StartTask \/ publish_if_dirty \/ Shutdown \/ UNCHANGED vars
             \/ \E c \in Commits : Commit(c)
    <3>1. UNCHANGED publishing /\ ctrl'.size = ctrl.size /\ (pc' # "down" => pc # "down")
      BY ZenonT(40), <1>0, <2>2 DEF init_living_db, ResetUnlink, ResetRootBegin, ResetRootEnd,
         controller_is_fresh, WarmStart, try_warm_start_from_arena, ColdStart, StartTask,
         publish_if_dirty, Shutdown, vars, disk, Commit
    <3> QED
      BY Zenon, <2>0, <3>1 DEF publishing
  <2>3. ASSUME NEW p \in All, snapshot_to_arena(p) PROVE Sizes'
    <3>1. CASE TakeImage(p)
      <4>1. live \in Images /\ ctrl.size = CliSize
        BY Zenon, <2>0, <3>1 DEF TakeImage, MayPublish, Base, Running
      <4>2. arena_size_for(ctrl.size, live) = CliSize
        BY ZenonT(60), <4>1, SameSize
      <4> QED
        BY ZenonT(60), <1>0, <2>0, <3>1, <4>2 DEF TakeImage, disk
    <3>2. CASE OpenArena(p) \/ write_to_arena(p) \/ GrowArena(p) \/ RootBegin(p)
      <4>1. /\ newSize' = newSize /\ pc' = pc /\ ctrl'.size = ctrl.size /\ step[p] # "idle"
            /\ \A q \in All : step'[q] # "idle" => step[q] # "idle"
        BY ZenonT(60), <1>0, <3>2 DEF OpenArena, write_to_arena, GrowArena, RootBegin
      <4> QED
        BY Zenon, <2>0, <4>1
    <3>3. CASE RootEnd(p) \/ PublishFails(p)
      <4>1. step[p] # "idle" /\ \E ok \in BOOLEAN : Leave(p, ok)
        BY ZenonT(40), <3>3 DEF RootEnd, PublishFails
      <4>2. (\A q \in All : step'[q] = "idle") /\ pc # "down"
        BY Zenon, <4>1, LeaveKeeps, Alone DEF Running
      <4>3. ctrl'.size = CliSize
        <5>1. CASE RootEnd(p)
          BY ZenonT(60), <2>0, <4>1, <5>1 DEF RootEnd
        <5>2. CASE PublishFails(p)
          BY ZenonT(60), <2>0, <4>2, <5>2 DEF PublishFails, disk
        <5> QED
          BY ZenonT(60), <3>3, <5>1, <5>2
      <4> QED
        BY Zenon, <4>2, <4>3
    <3> QED
      BY ZenonT(60), <2>3, <3>1, <3>2, <3>3 DEF snapshot_to_arena
  <2>4. CASE Exit \/ Die
    <3>1. pc' = "down" /\ \A p \in All : step'[p] = "idle"
      BY Zenon, <2>4 DEF Exit, Die, Stop
    <3>2. ctrl'.size \in {0, CliSize}
      <4>1. CASE Exit
        BY Zenon, <2>0, <4>1 DEF Exit, disk
      <4>2. CASE Die
        BY <1>0, <2>0, <4>2 DEF Die
      <4> QED
        BY ZenonT(60), <2>4, <4>1, <4>2
    <3> QED
      BY Zenon, <3>1, <3>2
  <2> QED
    BY ZenonT(40), <2>1, <2>2, <2>3, <2>4 DEF Next
<1> QED
  BY ZenonT(60), <1>1, <1>2 DEF WholeInv


LEMMA WholeHolds ==
  ASSUME ImagesFit
  PROVE  Spec => []WholeInv
<1>1. Init => WholeInv
  BY DEF Init, WholeInv
<1>2. Base /\ WholeInv /\ [Next]_vars => WholeInv'
  BY Zenon, WholeStep
<1> QED
  BY <1>1, <1>2, BaseHolds, PTL DEF Spec

\* write_to_arena flips the header only over a finished copy: what a boot recovers from
\* the arena is a whole image, wherever the daemon died, as long as images fit the arena
\* the command line asks for.
THEOREM HeaderNamesWhole ==
  ASSUME ImagesFit
  PROVE  Spec => []ActiveIsWhole
<1>1. WholeInv => ActiveIsWhole
  BY Zenon DEF WholeInv, ActiveIsWhole
<1> QED
  BY <1>1, WholeHolds, PTL

\* snapshot_to_arena never writes over the image that header and root both name, under
\* the same condition.
THEOREM PublishedIsKept ==
  ASSUME ImagesFit
  PROVE  Spec => PublishedImageKept
<1> DEFINE Keep == (/\ arena # NoFile /\ ctrl.root # NoRoot /\ ~ctrl.odd
                    /\ ActiveImage(arena) = ctrl.root
                    /\ ctrl' = ctrl /\ arena'.size = arena.size)
                   => \E b \in Buffers : arena'.buffer[b] = ctrl.root
<1>1. Base /\ WholeInv /\ [Next]_vars => [Keep]_vars
  <2> SUFFICES ASSUME Base, WholeInv, [Next]_vars, arena # NoFile,
                      ActiveImage(arena) = ctrl.root
               PROVE  \E b \in Buffers : arena'.buffer[b] = ctrl.root
    BY ZenonT(60)
  <2>1. arena \in ArenaFile /\ arena.active \in Buffers
    BY Zenon DEF Base, TypeOK, ArenaFile
  <2>2. {} \in Images
    BY ZenonT(60) DEF Images
  <2>3. arena'.buffer[arena.active] = ActiveImage(arena)
    BY <2>1, <2>2, ArenaStep, ActiveKept DEF ActiveImage
  <2> QED
    BY ZenonT(60), <2>1, <2>3
<1>2. Spec => [][Keep]_vars
  BY <1>1, BaseHolds, WholeHolds, PTL DEF Spec
<1> QED
  BY Zenon, <1>2 DEF PublishedImageKept

-----------------------------------------------------------------------------
(* --reset-arena.                                                          *)

\* Without deaths and errors a boot finds a published live.db that holds nothing a reset
\* discarded, or it is the first.  So try_warm_start_from_arena, which could bring back
\* a discarded image, never has a reason to run.
Kept == live \in Images /\ ctrl.root # NoRoot /\ live \cap forgotten = {}

ForgetInv ==
  /\ EvenAtRest
  /\ pc = "down" => Kept \/ (live = Absent /\ forgotten = {} /\ arena = NoFile)
  /\ pc \in {"fresh", "open"} /\ ~resetting =>
       Kept \/ (live = Absent /\ forgotten = {} /\ ActiveImage(arena) = Blank)
  /\ pc \in {"unlink", "zero", "zeroing"} => resetting
  /\ pc \in {"zero", "zeroing", "fresh", "open"} /\ resetting => live = Absent
  /\ pc \in Running => live \cap forgotten = {}
  /\ Serving => ctrl.root # NoRoot

LEMMA ForgetStep ==
  ASSUME Base, ForgetInv, [Next]_vars, MaxDeaths = 0, MayFail = FALSE
  PROVE  ForgetInv'
<1>0. /\ ctrl \in [root : {NoRoot} \cup Images, size : Nat, odd : BOOLEAN]
      /\ image \in [All -> Images]
      /\ resetting \in BOOLEAN
  BY Zenon DEF Base, TypeOK
<1>1. EvenAtRest'
  BY Zenon, EvenStep DEF ForgetInv
<1> DEFINE Rest ==
      /\ pc = "down" => Kept \/ (live = Absent /\ forgotten = {} /\ arena = NoFile)
      /\ pc \in {"fresh", "open"} /\ ~resetting =>
           Kept \/ (live = Absent /\ forgotten = {} /\ ActiveImage(arena) = Blank)
      /\ pc \in {"unlink", "zero", "zeroing"} => resetting
      /\ pc \in {"zero", "zeroing", "fresh", "open"} /\ resetting => live = Absent
      /\ pc \in Running => live \cap forgotten = {}
      /\ Serving => ctrl.root # NoRoot
<1>2. Rest
  BY Zenon DEF ForgetInv
<1> SUFFICES Rest'
  BY ZenonT(40), <1>1 DEF ForgetInv
<1> USE DEF Serving, Running
<1>3. CASE setup_arena
  <2>1. ctrl'.root = ctrl.root /\ live' = live /\ forgotten' = forgotten
    BY Zenon, <1>0, <1>3 DEF setup_arena, ghosts
  <2>2. resetting' \in BOOLEAN /\ pc' = IF resetting' THEN "unlink" ELSE "fresh"
    BY ZenonT(40), <1>3 DEF setup_arena
  <2>3. arena = NoFile => ActiveImage(arena') = Blank
    BY <1>3 DEF setup_arena, create_arena, ActiveImage, Buffers
  <2>4. Kept \/ (live = Absent /\ forgotten = {} /\ arena = NoFile)
    BY Zenon, <1>2, <1>3 DEF setup_arena
  <2> QED
    BY Zenon, <2>1, <2>2, <2>3, <2>4 DEF Kept
<1>4. CASE ResetUnlink \/ ResetRootBegin \/ ResetRootEnd
  BY ZenonT(60), <1>2, <1>4 DEF ResetUnlink, ResetRootBegin, ResetRootEnd
<1>5. CASE controller_is_fresh
  <2>1. FreshRoot = ctrl.root
    BY ZenonT(60), <1>5, EvenInBoot DEF controller_is_fresh, FreshRoot, ForgetInv
  <2> QED
    BY ZenonT(60), <1>2, <1>5, <2>1 DEF controller_is_fresh, ghosts, Kept
<1>6. CASE WarmStart
  <2>1. Kept
    BY Zenon, <1>2, <1>6 DEF WarmStart
  <2>2. live # Torn
    BY ZenonT(60), <2>1, MarkersApart DEF Kept
  <2> QED
    BY ZenonT(60), <1>2, <1>6, <2>1, <2>2 DEF WarmStart, disk, ghosts, Kept
<1>7. CASE try_warm_start_from_arena
  <2>1. ~Kept
    BY Zenon, <1>7, MarkersApart DEF try_warm_start_from_arena, Kept
  <2> QED
    BY ZenonT(60), <1>2, <1>7, <2>1 DEF try_warm_start_from_arena
<1>8. CASE ColdStart
  BY ZenonT(60), <1>8 DEF ColdStart, ghosts
<1>9. ASSUME NEW p \in All, snapshot_to_arena(p) PROVE Rest'
  <2>0. pc \in Running
    <3>1. CASE TakeImage(p)
      BY Zenon, <3>1 DEF TakeImage, MayPublish
    <3>2. CASE ~TakeImage(p)
      <4>1. step[p] # "idle"
        BY ZenonT(40), <1>9, <3>2 DEF snapshot_to_arena, OpenArena, write_to_arena, GrowArena, RootBegin,
           RootEnd, PublishFails
      <4> QED
        BY Zenon, <4>1, Alone
    <3> QED
      BY Zenon, <3>1, <3>2
  <2>1. CASE TakeImage(p) \/ OpenArena(p) \/ write_to_arena(p) \/ GrowArena(p) \/ RootBegin(p)
    <3>1. ctrl'.root = ctrl.root /\ UNCHANGED <<live, pc, resetting, forgotten>>
      BY ZenonT(60), <1>0, <2>1 DEF TakeImage, OpenArena, write_to_arena, GrowArena, RootBegin, disk, ghosts
    <3> QED
      BY Zenon, <1>2, <2>0, <3>1
  <2>2. CASE RootEnd(p)
    <3>1. ctrl'.root # NoRoot /\ UNCHANGED <<live, resetting, forgotten>>
      BY ZenonT(60), <1>0, <2>2, MarkersApart DEF RootEnd, ghosts
    <3>2. pc' \in Running
      BY ZenonT(60), <2>0, <2>2 DEF RootEnd, Leave, AfterMain
    <3> QED
      BY ZenonT(60), <1>2, <2>0, <3>1, <3>2
  <2>3. CASE PublishFails(p)
    BY ZenonT(60), <2>3 DEF PublishFails
  <2> QED
    BY Zenon, <1>9, <2>1, <2>2, <2>3 DEF snapshot_to_arena
<1>10. ASSUME NEW c \in Commits, Commit(c) PROVE Rest'
  <2>1. live \in Images /\ live \cap forgotten = {} /\ ctrl.root # NoRoot
    BY ZenonT(60), <1>2, <1>10 DEF Commit, Base
  <2> QED
    BY ZenonT(60), <1>2, <1>10, <2>1 DEF Commit
<1>11. CASE StartTask \/ publish_if_dirty \/ Shutdown \/ UNCHANGED vars
  <2>1. UNCHANGED <<disk, resetting, forgotten>>
    BY Zenon, <1>11 DEF StartTask, publish_if_dirty, Shutdown, vars, ghosts
  <2>2. pc' = pc \/ (pc = "ready" /\ pc' = "final")
    BY ZenonT(60), <1>11 DEF StartTask, publish_if_dirty, Shutdown, vars
  <2> QED
    BY ZenonT(60), <1>2, <2>1, <2>2 DEF disk, Kept
<1>12. CASE Exit
  BY Zenon, <1>2, <1>12 DEF Exit, Stop, disk, ghosts, Kept, Base
<1>13. CASE Die
  BY <1>13 DEF Die, Base, TypeOK
<1> QED
  BY ZenonT(60), <1>3, <1>4, <1>5, <1>6, <1>7, <1>8, <1>9, <1>10, <1>11, <1>12, <1>13
  DEF Next, init_living_db

\* --reset-arena discards for good: no daemon of a later boot serves a commit it
\* discarded, when no boot is killed and no publish returns an error.
THEOREM ResetsForget ==
  ASSUME MaxDeaths = 0, MayFail = FALSE
  PROVE  Spec => []ResetForgets
<1>1. Init => ForgetInv
  BY DEF Init, ForgetInv, EvenAtRest, Serving, Running
<1>2. Base /\ ForgetInv /\ [Next]_vars => ForgetInv'
  BY ZenonT(40), ForgetStep
<1>3. ForgetInv => ResetForgets
  BY Zenon DEF ForgetInv, ResetForgets, Serving, Running
<1> QED
  BY <1>1, <1>2, <1>3, BaseHolds, PTL DEF Spec

=============================================================================
