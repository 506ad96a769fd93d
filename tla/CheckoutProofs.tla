--------------------------- MODULE CheckoutProofs ---------------------------
(***************************************************************************)
(* The checkout for any paths and any number of proposals, edits and       *)
(* deaths: which files reconcile may leave unread, what a reconcile leaves *)
(* of its scope, and that neither an accepted proposal nor a person's edit *)
(* is lost.  Each theorem names the events of the environment it is        *)
(* without.                                                                *)
(***************************************************************************)
EXTENDS Checkout, TLAPS

\* TypeOK a field at a time, and the counters that bound the entries.
Typed ==
  /\ store \in [Paths -> Entries] /\ disk \in [Paths -> Entries]
  /\ index \in [Paths -> Entries] /\ held \in [Paths -> Entries]
  /\ synced \in [Paths -> Entries] /\ agreed \in [Paths -> Entries]
  /\ read \in [Paths -> {Unread} \cup Entries]
  /\ replaced \in [Paths -> {Unread} \cup Entries]
  /\ plan \in [Paths -> Actions]
  /\ conflicts \subseteq Paths /\ fresh \subseteq Paths /\ scope \subseteq Paths
  /\ todo \subseteq Paths /\ refused \subseteq Paths
  /\ accepted \subseteq Paths /\ edited \subseteq Paths
  /\ pc \in {"down", "idle", "classify", "write", "sync", "commit"}
  /\ whole \in BOOLEAN /\ booting \in BOOLEAN /\ disturbed \in BOOLEAN
  /\ proposals \in 0..MaxProposals /\ edits \in 0..MaxEdits

Busy == pc \in {"write", "sync", "commit"}
Writes == {"Materialize", "Remove"}
Recorded == {"Materialize", "Remove", "Converge"}

\* What a reconcile has planned: the store's entries it saw are still the store's
\* until the parse commits.
PlanInv ==
  /\ whole => scope = Paths
  /\ todo # {} => pc = "write"
  /\ ~Busy => refused = {}
  /\ \A p \in Paths :
       /\ plan[p] # "Nothing" => Busy /\ p \in scope
       /\ p \in todo \cup refused => plan[p] \in Writes
       /\ read[p] # Unread => pc = "sync"
       /\ pc \in {"write", "sync"} => held[p] = store[p]
       /\ plan[p] = "Materialize" => held[p] # NoEntry
       /\ plan[p] = "Remove" => held[p] = NoEntry

\* Without edits inside a window: a file with the recorded stat is there and is the
\* stored one, and what the parse has read is still in the file.
StatInv ==
  /\ \A p \in fresh : disk[p] # NoEntry /\ disk[p] = store[p]
  /\ \A p \in Paths : read[p] # Unread => read[p] = disk[p]

\* How far an undisturbed reconcile has brought the paths of its scope.
SettleInv ==
  ~disturbed /\ Busy =>
    /\ refused = {}
    /\ \A p \in scope :
         /\ plan[p] = "Nothing" => store[p] = disk[p] /\ disk[p] = index[p]
         /\ plan[p] \in Recorded /\ p \notin todo => disk[p] = store[p] /\ held[p] = store[p]
         /\ plan[p] = "Ingest" /\ pc = "commit" => disk[p] = store[p]

\* An edit the store lacks differs from the index and from what the index is about
\* to be given, is not planned to be overwritten, and no power loss undoes it.
EditedInv ==
  \A p \in edited :
    /\ disk[p] # store[p] /\ disk[p] # index[p]
    /\ plan[p] \in Recorded => disk[p] # held[p]
    /\ p \notin todo /\ replaced[p] = Unread

\* What the index, the rows of it that are flushed and the files not yet flushed say
\* of the store: falling back to them shows that the store moved.
IndexInv ==
  \A p \in Paths :
    /\ store[p] = disk[p] => agreed[p] = store[p]
    /\ store[p] # index[p] => store[p] # synced[p]
    /\ replaced[p] # Unread => store[p] \notin {synced[p], replaced[p]}
    /\ p \in todo => store[p] # index[p] /\ disk[p] = index[p]
    /\ plan[p] \in Recorded /\ p \notin todo \cup refused =>
         /\ store[p] # index[p]
         /\ pc # "commit" => index[p] \notin {disk[p], agreed[p]}

\* A proposal the directory lacks differs from both other sides; a reconcile writes
\* it, was refused it, or keeps it as a conflict.
AcceptedInv ==
  /\ \A p \in accepted :
       /\ store[p] # disk[p] /\ store[p] # index[p]
       /\ Busy /\ p \in scope => plan[p] \in Writes \cup {"Conflict"}
       /\ plan[p] \in Writes => p \in todo \cup refused
  /\ \A p \in refused : plan[p] = "Materialize" => ~whole

-----------------------------------------------------------------------------
\* What classify and classify_unstored answer, by what the three sides hold.
LEMMA ActionTable ==
  ASSUME NEW p \in Paths, DiskSide(p) = disk[p]
  PROVE  /\ ActionFor(p) \in Actions
         /\ ActionFor(p) = "Nothing" <=> store[p] = index[p] /\ disk[p] = index[p]
         /\ ActionFor(p) = "Materialize" =>
              store[p] # NoEntry /\ store[p] # index[p] /\ disk[p] = index[p]
         /\ ActionFor(p) = "Remove" =>
              store[p] = NoEntry /\ store[p] # index[p] /\ disk[p] = index[p]
         /\ ActionFor(p) = "Converge" => store[p] = disk[p] /\ store[p] # index[p]
         /\ ActionFor(p) = "Ingest" => store[p] = index[p] /\ disk[p] # index[p]
         /\ ActionFor(p) = "Conflict" =>
              store[p] # disk[p] /\ store[p] # index[p] /\ disk[p] # index[p]
BY Zenon DEF ActionFor, classify, classify_unstored, Actions

\* Whatever the directory's side is read as, an Action comes out, and only a stored
\* file is written.
LEMMA ActionKinds ==
  ASSUME NEW p \in Paths
  PROVE  /\ ActionFor(p) \in Actions
         /\ ActionFor(p) = "Materialize" => store[p] # NoEntry
         /\ ActionFor(p) = "Remove" => store[p] = NoEntry
BY Zenon DEF ActionFor, classify, classify_unstored, Actions

\* A reconcile that ends, however it ends, forgets its plan.
LEMMA IdlePlan ==
  ASSUME Idle, pc' \in {"down", "idle"}
  PROVE  PlanInv' /\ SettleInv' /\ ~Busy'
BY Zenon DEF Idle, PlanInv, SettleInv, Busy, Unread, NoEntry, Writes

\* Every entry written is numbered within the bounds.
LEMMA FirstEntries ==
  /\ MaxProposals \in Nat /\ MaxEdits \in Nat
  /\ NoEntry \in Entries /\ 1 \in Entries
<1>1. MaxProposals \in Nat /\ MaxEdits \in Nat
  BY Zenon, CheckoutAssumption
<1>2. QED
  BY <1>1 DEF Entries, NoEntry

\* What a proposal or an edit may write is an entry.
LEMMA EntryBounds ==
  ASSUME Typed, NEW p \in Paths, NEW e \in Changes(p),
         proposals < MaxProposals \/ edits < MaxEdits
  PROVE  e \in Entries
<1>1. agreed[p] \in Entries
  BY Zenon DEF Typed
<1>2. Version \in Entries
  BY FirstEntries DEF Typed, Version, Entries
<1>3. QED
  BY Zenon, <1>1, <1>2, FirstEntries DEF Changes

\* The bookkeeping of the ghosts stays within the paths.
LEMMA SettleTypes ==
  ASSUME Typed, NEW s \in [Paths -> Entries], NEW d \in [Paths -> Entries],
         NEW acc \in SUBSET Paths, NEW ed \in SUBSET Paths, Settle(s, d, acc, ed)
  PROVE  accepted' \subseteq Paths /\ edited' \subseteq Paths /\ agreed' \in [Paths -> Entries]
BY Zenon DEF Typed, Settle

\* A reconcile that is over leaves its plan empty.
LEMMA IdleTypes ==
  ASSUME Idle
  PROVE  /\ held' \in [Paths -> Entries] /\ plan' \in [Paths -> Actions]
         /\ read' \in [Paths -> {Unread} \cup Entries]
         /\ scope' \subseteq Paths /\ todo' \subseteq Paths /\ refused' \subseteq Paths
         /\ whole' \in BOOLEAN /\ booting' \in BOOLEAN /\ disturbed' \in BOOLEAN
BY Zenon, FirstEntries DEF Idle, Actions

\* The daemon is down and both sides agree.
LEMMA TypeInit == Init => Typed
<1>1. SUFFICES ASSUME Init PROVE Typed
  BY Zenon
<1>2. store \in [Paths -> Entries]
  BY Zenon, <1>1, FirstEntries DEF Init
<1>3. proposals \in 0..MaxProposals /\ edits \in 0..MaxEdits
  BY <1>1, FirstEntries DEF Init
<1>4. /\ held \in [Paths -> Entries] /\ plan \in [Paths -> Actions]
      /\ read \in [Paths -> {Unread} \cup Entries]
      /\ replaced \in [Paths -> {Unread} \cup Entries]
  BY Zenon, <1>1, FirstEntries DEF Init, Actions
<1>5. QED
  BY Zenon, <1>1, <1>2, <1>3, <1>4 DEF Init, Typed

\* Every action keeps the types.
LEMMA TypeStep ==
  ASSUME Typed, [Next]_vars
  PROVE  Typed'
<1> USE DEF db, rec, flushed, ghosts, bounds
<1>1. ASSUME NEW p \in Paths, NEW e \in Changes(p), op_propose(p, e) PROVE Typed'
  <2>1. e \in Entries /\ store' \in [Paths -> Entries]
    BY Zenon, <1>1, EntryBounds DEF op_propose, Typed
  <2>2. accepted' \subseteq Paths /\ edited' \subseteq Paths /\ agreed' \in [Paths -> Entries]
    <3> DEFINE acc == IF e = agreed[p] THEN accepted \ {p} ELSE accepted \cup {p}
    <3>1. acc \in SUBSET Paths /\ edited \in SUBSET Paths /\ disk \in [Paths -> Entries]
      BY Zenon DEF Typed
    <3>2. Settle(store', disk, acc, edited)
      BY Zenon, <1>1 DEF op_propose
    <3> HIDE DEF acc
    <3>3. QED
      BY Zenon, <2>1, <3>1, <3>2, SettleTypes
  <2>3. proposals' \in 0..MaxProposals
    BY <1>1, CheckoutAssumption DEF op_propose, Typed
  <2>4. QED
    BY Zenon, <1>1, <2>1, <2>2, <2>3 DEF op_propose, Typed, FullFlush, BeginScoped
<1>2. ASSUME NEW p \in Paths, NEW e \in Changes(p), Edit(p, e) PROVE Typed'
  <2>1. e \in Entries /\ disk' \in [Paths -> Entries]
    BY Zenon, <1>2, EntryBounds DEF Edit, Typed
  <2>2. accepted' \subseteq Paths /\ edited' \subseteq Paths /\ agreed' \in [Paths -> Entries]
    <3> DEFINE ed == IF e = agreed[p] THEN edited \ {p} ELSE edited \cup {p}
    <3>1. ed \in SUBSET Paths /\ accepted \in SUBSET Paths /\ store \in [Paths -> Entries]
      BY Zenon DEF Typed
    <3>2. Settle(store, disk', accepted, ed)
      BY Zenon, <1>2 DEF Edit
    <3> HIDE DEF ed
    <3>3. QED
      BY Zenon, <2>1, <3>1, <3>2, SettleTypes
  <2>3. edits' \in 0..MaxEdits
    BY <1>2, CheckoutAssumption DEF Edit, Typed
  <2>4. QED
    BY Zenon, <1>2, <2>1, <2>2, <2>3 DEF Edit, Typed
<1>3. CASE BeginWhole
  BY Zenon, <1>3 DEF BeginWhole, Typed
<1>4. ASSUME NEW paths \in SUBSET Paths, BeginPaths(paths) PROVE Typed'
  BY Zenon, <1>4 DEF BeginPaths, BeginScoped, Typed
<1>5. CASE Classify
  <2>1. plan' \in [Paths -> Actions]
    BY Zenon, <1>5, ActionKinds DEF Classify, Actions
  <2>2. QED
    BY Zenon, <1>5, <2>1 DEF Classify, Typed
<1>6. ASSUME NEW p \in Paths, NEW e \in Entries, Install(p, e) PROVE Typed'
  <2>1. disk' \in [Paths -> Entries] /\ replaced' \in [Paths -> {Unread} \cup Entries]
    BY Zenon, <1>6 DEF Install, Typed
  <2>2. accepted' \subseteq Paths /\ edited' \subseteq Paths /\ agreed' \in [Paths -> Entries]
    BY Zenon, <1>6, <2>1, SettleTypes DEF Install, Typed
  <2>3. QED
    BY Zenon, <1>6, <2>1, <2>2 DEF Install, Typed
<1>7. ASSUME NEW p \in Paths, Refuse(p) PROVE Typed'
  BY Zenon, <1>7 DEF Refuse, Typed
<1>8. ASSUME NEW p \in Paths, remove_from(p) \/ materialize_entry(p) PROVE Typed'
  BY <1>6, <1>7, <1>8, CheckoutAssumption
     DEF remove_from, materialize_entry, Typed, Entries, NoEntry
<1>9. CASE ParseRead
  BY Zenon, <1>9 DEF ParseRead, Typed
<1>10. CASE Sync
  <2>1. store' \in [Paths -> Entries]
    BY Zenon, <1>10 DEF Sync, Synced, Typed
  <2>2. accepted' \subseteq Paths /\ edited' \subseteq Paths /\ agreed' \in [Paths -> Entries]
    BY Zenon, <1>10, <2>1, SettleTypes DEF Sync, Typed
  <2>3. fresh' \subseteq Paths
    BY Zenon, <1>10 DEF Sync, Typed, Reach, With
  <2>4. QED
    BY Zenon, <1>10, <2>1, <2>2, <2>3 DEF Sync, FullFlush, Typed
<1>11. CASE CommitIndex
  <2>1. index' \in [Paths -> Entries] /\ conflicts' \subseteq Paths
    BY Zenon, <1>11 DEF CommitIndex, With, Typed
  <2>2. QED
    BY Zenon, <1>11, <2>1, IdleTypes DEF CommitIndex, Typed
<1>12. CASE Fail \/ Die
  BY Zenon, <1>12, IdleTypes DEF Fail, Die, Typed
<1>13. ASSUME NEW back \in SUBSET {p \in Paths : replaced[p] # Unread}, PowerLoss(back)
       PROVE  Typed'
  <2>1. disk' \in [Paths -> Entries] /\ agreed' \in [Paths -> Entries]
    BY Zenon, <1>13 DEF PowerLoss, Typed
  <2>2. QED
    BY Zenon, <1>13, <2>1, IdleTypes DEF PowerLoss, Typed
<1>14. CASE UNCHANGED vars
  BY Zenon, <1>14 DEF vars, Typed
<1>15. QED
  BY Zenon, <1>1, <1>2, <1>3, <1>4, <1>5, <1>8, <1>9, <1>10, <1>11, <1>12, <1>13, <1>14
     DEF Next, reconcile

-----------------------------------------------------------------------------
\* Every action keeps the plan's invariant.
LEMMA PlanStep ==
  ASSUME Typed, PlanInv, [Next]_vars
  PROVE  PlanInv'
<1> USE DEF db, rec, flushed, ghosts, bounds, PlanInv, Busy
<1>1. ASSUME NEW p \in Paths, NEW e \in Changes(p), op_propose(p, e) PROVE PlanInv'
  BY Zenon, <1>1 DEF op_propose, BeginScoped
<1>2. ASSUME NEW p \in Paths, NEW e \in Changes(p), Edit(p, e) PROVE PlanInv'
  BY Zenon, <1>2 DEF Edit
<1>3. CASE BeginWhole
  BY Zenon, <1>3 DEF BeginWhole
<1>4. ASSUME NEW paths \in SUBSET Paths, BeginPaths(paths) PROVE PlanInv'
  BY Zenon, <1>4 DEF BeginPaths, BeginScoped
<1>5. CASE Classify
  <2>1. refused = {} /\ refused' = {}
    BY Zenon, <1>5 DEF Classify
  <2>2. QED
    BY Zenon, <1>5, <2>1, ActionKinds DEF Classify, Typed, Writes
<1>6. ASSUME NEW p \in Paths, NEW e, pc = "write", p \in todo, Install(p, e) PROVE PlanInv'
  BY Zenon, <1>6 DEF Install
<1>7. ASSUME NEW p \in Paths, pc = "write", p \in todo, Refuse(p) PROVE PlanInv'
  BY Zenon, <1>7 DEF Refuse
<1>8. ASSUME NEW p \in Paths, remove_from(p) \/ materialize_entry(p) PROVE PlanInv'
  BY Zenon, <1>6, <1>7, <1>8 DEF remove_from, materialize_entry
<1>9. CASE ParseRead
  <2>1. \A p \in Paths : read'[p] # Unread => pc' = "sync"
    BY Zenon, <1>9 DEF ParseRead
  <2>2. QED
    BY Zenon, <1>9, <2>1 DEF ParseRead
<1>10. CASE Sync
  BY Zenon, <1>10 DEF Sync
<1>11. CASE CommitIndex \/ Fail \/ Die
  BY Zenon, <1>11, IdlePlan DEF CommitIndex, Fail, Die
<1>12. ASSUME NEW back, PowerLoss(back) PROVE PlanInv'
  BY Zenon, <1>12, IdlePlan DEF PowerLoss
<1>13. CASE UNCHANGED vars
  BY Zenon, <1>13 DEF vars
<1>14. QED
  BY Zenon, <1>1, <1>2, <1>3, <1>4, <1>5, <1>8, <1>9, <1>10, <1>11, <1>12, <1>13
     DEF Next, reconcile

\* Every action keeps the recorded stats true, edits inside a window apart.
LEMMA StatStep ==
  ASSUME "window" \notin Allow, Typed, PlanInv, StatInv, [Next]_vars
  PROVE  StatInv'
<1> USE DEF db, rec, flushed, ghosts, bounds, StatInv
<1>1. ASSUME NEW p \in Paths, NEW e \in Changes(p), op_propose(p, e) PROVE StatInv'
  BY Zenon, <1>1 DEF op_propose, BeginScoped, Typed
<1>2. ASSUME NEW p \in Paths, NEW e \in Changes(p), Edit(p, e) PROVE StatInv'
  <2>1. read[p] = Unread
    BY Zenon, <1>2 DEF Edit, Window, PlanInv
  <2>2. QED
    BY Zenon, <1>2, <2>1 DEF Edit, Typed
<1>3. CASE BeginWhole
  BY Zenon, <1>3 DEF BeginWhole
<1>4. ASSUME NEW paths \in SUBSET Paths, BeginPaths(paths) PROVE StatInv'
  BY Zenon, <1>4 DEF BeginPaths, BeginScoped
<1>5. CASE Classify
  BY Zenon, <1>5 DEF Classify
<1>6. ASSUME NEW p \in Paths, NEW e, pc = "write", Install(p, e) PROVE StatInv'
  BY Zenon, <1>6 DEF Install, Typed, PlanInv
<1>7. ASSUME NEW p \in Paths, Refuse(p) PROVE StatInv'
  BY Zenon, <1>7 DEF Refuse
<1>8. ASSUME NEW p \in Paths, remove_from(p) \/ materialize_entry(p) PROVE StatInv'
  BY Zenon, <1>6, <1>7, <1>8 DEF remove_from, materialize_entry
<1>9. CASE ParseRead
  BY Zenon, <1>9 DEF ParseRead
<1>10. CASE Sync
  <2>1. ASSUME NEW p \in fresh' PROVE disk'[p] # NoEntry /\ disk'[p] = store'[p]
    <3>1. p \in Paths
      BY Zenon, <1>10, <2>1 DEF Sync, Typed, Reach, With
    <3>2. store'[p] = Synced(p) /\ disk'[p] = disk[p]
      BY Zenon, <1>10, <3>1 DEF Sync
    <3>3. CASE p \in Reach \ (Kept \cup KeptOut) /\ disk[p] # NoEntry
      BY Zenon, <3>1, <3>2, <3>3 DEF Synced
    <3>4. CASE p \in fresh \ Kept /\ p \notin Reach \ KeptOut
      BY Zenon, <3>1, <3>2, <3>4 DEF Synced
    <3>5. QED
      BY Zenon, <1>10, <2>1, <3>3, <3>4 DEF Sync
  <2>2. QED
    BY Zenon, <1>10, <2>1 DEF Sync
<1>11. CASE CommitIndex \/ Fail \/ Die
  BY Zenon, <1>11 DEF CommitIndex, Fail, Die, Idle
<1>12. ASSUME NEW back, PowerLoss(back) PROVE StatInv'
  BY Zenon, <1>12 DEF PowerLoss, Idle, Typed
<1>13. CASE UNCHANGED vars
  BY Zenon, <1>13 DEF vars
<1>14. QED
  BY Zenon, <1>1, <1>2, <1>3, <1>4, <1>5, <1>8, <1>9, <1>10, <1>11, <1>12, <1>13
     DEF Next, reconcile

\* What reconcile takes the directory to hold is what it holds.
LEMMA DiskSideIsDisk ==
  ASSUME StatInv, NEW p \in Paths
  PROVE  DiskSide(p) = disk[p]
BY Zenon DEF StatInv, DiskSide

\* Every action brings an undisturbed reconcile as far as its stage says.
LEMMA SettleStep ==
  ASSUME Typed, PlanInv, StatInv, SettleInv, [Next]_vars
  PROVE  SettleInv'
<1> USE DEF db, rec, flushed, ghosts, bounds, Busy
<1>1. ASSUME NEW p \in Paths, NEW e \in Changes(p), op_propose(p, e) PROVE SettleInv'
  BY Zenon, <1>1 DEF op_propose, BeginScoped, SettleInv
<1>2. ASSUME NEW p \in Paths, NEW e \in Changes(p), Edit(p, e) PROVE SettleInv'
  BY Zenon, <1>2 DEF Edit, SettleInv
<1>3. CASE BeginWhole
  BY Zenon, <1>3 DEF BeginWhole, SettleInv
<1>4. ASSUME NEW paths \in SUBSET Paths, BeginPaths(paths) PROVE SettleInv'
  BY Zenon, <1>4 DEF BeginPaths, BeginScoped, SettleInv
<1>5. CASE Classify
  <2>1. refused' = {} /\ pc' = "write"
    BY Zenon, <1>5 DEF Classify, PlanInv
  <2>2. ASSUME NEW p \in scope'
        PROVE  /\ plan'[p] = "Nothing" => store'[p] = disk'[p] /\ disk'[p] = index'[p]
               /\ plan'[p] \in Recorded /\ p \notin todo' =>
                    disk'[p] = store'[p] /\ held'[p] = store'[p]
    <3>1. p \in Paths /\ p \in scope
      BY Zenon, <1>5, <2>2 DEF Classify, Typed
    <3>2. plan'[p] = ActionFor(p) /\ held'[p] = store[p]
      BY Zenon, <1>5, <3>1 DEF Classify
    <3>3. plan'[p] \in Recorded /\ p \notin todo' => plan'[p] = "Converge"
      BY Zenon, <1>5, <3>1 DEF Classify, Recorded
    <3>4. QED
      BY Zenon, <1>5, <3>1, <3>2, <3>3, DiskSideIsDisk, ActionTable DEF Classify
  <2>3. QED
    BY Zenon, <2>1, <2>2 DEF SettleInv
<1>6. ASSUME NEW p \in Paths, pc = "write", p \in todo, Install(p, held[p]) PROVE SettleInv'
  BY <1>6 DEF Install, SettleInv, PlanInv, Typed
<1>7. ASSUME NEW p \in Paths, Refuse(p) PROVE SettleInv'
  BY Zenon, <1>7 DEF Refuse, SettleInv
<1>8. ASSUME NEW p \in Paths, remove_from(p) \/ materialize_entry(p) PROVE SettleInv'
  BY Zenon, <1>6, <1>7, <1>8 DEF remove_from, materialize_entry, PlanInv
<1>9. CASE ParseRead
  <2>1. ASSUME NEW p \in scope, plan[p] = "Ingest" PROVE pc' = "sync"
    BY Zenon, <1>9, <2>1 DEF ParseRead, Reach, With, Typed
  <2>2. QED
    BY Zenon, <1>9, <2>1 DEF ParseRead, SettleInv
<1>10. CASE Sync
  <2>1. SUFFICES ASSUME ~disturbed, NEW p \in scope
        PROVE  /\ plan[p] = "Nothing" => store'[p] = disk[p] /\ disk[p] = index[p]
               /\ plan[p] \in Recorded => disk[p] = store'[p] /\ held[p] = store'[p]
               /\ plan[p] = "Ingest" => disk[p] = store'[p]
    BY Zenon, <1>10 DEF Sync, SettleInv
  <2>2. refused = {} /\ todo = {} /\ p \in Paths /\ held[p] = store[p]
    BY Zenon, <1>10, <2>1 DEF Sync, SettleInv, PlanInv, Typed
  <2>3. store'[p] = Synced(p)
    BY Zenon, <1>10, <2>2 DEF Sync
  <2>4. p \notin Reach \/ plan[p] = "Conflict" => store'[p] = store[p]
    BY Zenon, <2>1, <2>3 DEF Synced, Kept, KeptOut, With
  <2>5. p \in Reach /\ plan[p] # "Conflict" => store'[p] = disk[p]
    BY Zenon, <2>2, <2>3 DEF Synced, Kept, KeptOut, With, StatInv
  <2>6. plan[p] = "Ingest" => p \in Reach
    BY Zenon, <2>1, <2>2 DEF Reach, With
  <2>7. QED
    BY Zenon, <1>10, <2>1, <2>2, <2>4, <2>5, <2>6 DEF Sync, SettleInv, Recorded
<1>11. CASE CommitIndex \/ Fail \/ Die
  BY Zenon, <1>11, IdlePlan DEF CommitIndex, Fail, Die
<1>12. ASSUME NEW back, PowerLoss(back) PROVE SettleInv'
  BY Zenon, <1>12, IdlePlan DEF PowerLoss
<1>13. CASE UNCHANGED vars
  BY Zenon, <1>13 DEF vars, SettleInv
<1>14. QED
  BY Zenon, <1>1, <1>2, <1>3, <1>4, <1>5, <1>8, <1>9, <1>10, <1>11, <1>12, <1>13
     DEF Next, reconcile

\* Every action but an edit of the same path leaves an edit where it is.
LEMMA EditedStep ==
  ASSUME "window" \notin Allow, "lag" \notin Allow, Typed, PlanInv, StatInv, EditedInv,
         [Next]_vars
  PROVE  /\ EditedInv'
         /\ \A p \in edited : disk'[p] # disk[p] => \E e \in Changes(p) : Edit(p, e)
<1> DEFINE Goal == /\ EditedInv'
                   /\ \A p \in edited : disk'[p] # disk[p] =>
                                          \E e \in Changes(p) : Edit(p, e)
<1> USE DEF db, rec, flushed, ghosts, bounds
<1>0. /\ pc # "write" => todo = {}
      /\ ~Busy => \A p \in Paths : plan[p] = "Nothing"
      /\ edited \subseteq Paths
  BY Zenon DEF PlanInv, Typed
<1>1. ASSUME NEW p \in Paths, NEW e \in Changes(p), op_propose(p, e) PROVE Goal
  BY Zenon, <1>0, <1>1 DEF op_propose, BeginScoped, FullFlush, Settle, Recorded, Busy, EditedInv
<1>2. ASSUME NEW p \in Paths, NEW e \in Changes(p), Edit(p, e) PROVE Goal
  <2>1. p \notin todo
    BY Zenon, <1>0, <1>2 DEF Edit, Window
  <2>2. e # agreed[p] => e # index[p] /\ (plan[p] \in Recorded => e # held[p])
    BY Zenon, <1>2 DEF Edit, Lag, Recorded
  <2>3. \A q \in Paths : disk'[q] = IF q = p THEN e ELSE disk[q]
    BY Zenon, <1>2 DEF Edit, Typed
  <2>4. \A q \in Paths : replaced'[q] = IF q = p THEN Unread ELSE replaced[q]
    BY Zenon, <1>2 DEF Edit, Typed
  <2>5. \A q \in edited' : /\ q \in Paths /\ store[q] # disk'[q]
                           /\ q = p \/ q \in edited
                           /\ q = p => e # agreed[p]
    BY Zenon, <1>0, <1>2 DEF Edit, Settle
  <2>6. EditedInv'
    BY <1>2, <2>1, <2>2, <2>3, <2>4, <2>5 DEF Edit, EditedInv
  <2>7. QED
    BY Zenon, <1>0, <1>2, <2>3, <2>6
<1>3. CASE BeginWhole
  BY Zenon, <1>3 DEF BeginWhole, EditedInv
<1>4. ASSUME NEW paths \in SUBSET Paths, BeginPaths(paths) PROVE Goal
  BY Zenon, <1>4 DEF BeginPaths, BeginScoped, EditedInv
<1>5. CASE Classify
  <2>1. ASSUME NEW p \in edited PROVE plan'[p] \notin Recorded /\ p \notin todo'
    <3>1. p \in Paths /\ ActionFor(p) \notin Recorded
      BY Zenon, <1>0, <2>1, DiskSideIsDisk, ActionTable DEF EditedInv, Recorded
    <3>2. QED
      BY Zenon, <1>5, <3>1 DEF Classify, Recorded
  <2>2. QED
    BY Zenon, <1>5, <2>1 DEF Classify, EditedInv
<1>6. ASSUME NEW p \in Paths, NEW e, p \in todo, Install(p, e) PROVE Goal
  BY Zenon, <1>0, <1>6 DEF Install, Settle, EditedInv, Typed
<1>7. ASSUME NEW p \in Paths, Refuse(p) PROVE Goal
  BY Zenon, <1>7 DEF Refuse, EditedInv
<1>8. ASSUME NEW p \in Paths, remove_from(p) \/ materialize_entry(p) PROVE Goal
  BY Zenon, <1>6, <1>7, <1>8 DEF remove_from, materialize_entry
<1>9. CASE ParseRead
  BY Zenon, <1>9 DEF ParseRead, EditedInv
<1>10. CASE Sync
  BY Zenon, <1>0, <1>10 DEF Sync, Settle, FullFlush, EditedInv
<1>11. CASE CommitIndex
  <2>1. ASSUME NEW p \in edited PROVE disk[p] # index'[p]
    BY Zenon, <1>0, <1>11, <2>1 DEF CommitIndex, EditedInv, Recorded
  <2>2. QED
    BY Zenon, <1>0, <1>11, <2>1 DEF CommitIndex, Idle, EditedInv, Recorded
<1>12. CASE Fail \/ Die
  BY Zenon, <1>0, <1>12 DEF Fail, Die, Idle, EditedInv, Recorded
<1>13. ASSUME NEW back \in SUBSET {p \in Paths : replaced[p] # Unread}, PowerLoss(back)
       PROVE  Goal
  BY Zenon, <1>0, <1>13 DEF PowerLoss, Idle, EditedInv, Recorded
<1>14. CASE UNCHANGED vars
  BY Zenon, <1>14 DEF vars, EditedInv
<1>15. QED
  BY Zenon, <1>1, <1>2, <1>3, <1>4, <1>5, <1>8, <1>9, <1>10, <1>11, <1>12, <1>13, <1>14
     DEF Next, reconcile

\* Every action keeps what the index says of the store.
LEMMA IndexStep ==
  ASSUME "window" \notin Allow, "lag" \notin Allow, Typed, PlanInv, StatInv, IndexInv,
         [Next]_vars
  PROVE  IndexInv'
<1> USE DEF db, rec, flushed, ghosts, bounds
<1>0. /\ pc # "write" => todo = {}
      /\ ~Busy => \A p \in Paths : plan[p] = "Nothing"
  BY Zenon DEF PlanInv, Typed
<1>1. ASSUME NEW p \in Paths, NEW e \in Changes(p), op_propose(p, e) PROVE IndexInv'
  <2>1. \A q \in Paths : agreed'[q] = IF store'[q] = disk[q] THEN store'[q] ELSE agreed[q]
    BY Zenon, <1>1 DEF op_propose, Settle
  <2>2. \A q \in Paths : plan'[q] = "Nothing" /\ q \notin todo'
    BY Zenon, <1>0, <1>1 DEF op_propose, BeginScoped, Busy
  <2>3. QED
    BY Zenon, <1>1, <2>1, <2>2 DEF op_propose, FullFlush, Recorded, IndexInv
<1>2. ASSUME NEW p \in Paths, NEW e \in Changes(p), Edit(p, e) PROVE IndexInv'
  <2>1. p \notin todo
    BY Zenon, <1>0, <1>2 DEF Edit, Window
  <2>2. e # agreed[p] => e # index[p]
    BY Zenon, <1>2 DEF Edit, Lag
  <2>3. \A q \in Paths : /\ disk'[q] = IF q = p THEN e ELSE disk[q]
                         /\ replaced'[q] = IF q = p THEN Unread ELSE replaced[q]
    BY Zenon, <1>2 DEF Edit, Typed
  <2>4. \A q \in Paths : agreed'[q] = IF store[q] = disk'[q] THEN store[q] ELSE agreed[q]
    BY Zenon, <1>2 DEF Edit, Settle
  <2>5. QED
    BY <1>2, <2>1, <2>2, <2>3, <2>4 DEF Edit, IndexInv
<1>3. CASE BeginWhole
  BY Zenon, <1>0, <1>3 DEF BeginWhole, IndexInv, Busy, Recorded
<1>4. ASSUME NEW paths \in SUBSET Paths, BeginPaths(paths) PROVE IndexInv'
  BY Zenon, <1>0, <1>4 DEF BeginPaths, BeginScoped, IndexInv, Busy, Recorded
<1>5. CASE Classify
  <2>1. SUFFICES ASSUME NEW p \in Paths
        PROVE  /\ p \in todo' => store[p] # index[p] /\ disk[p] = index[p]
               /\ plan'[p] \in Recorded /\ p \notin todo' =>
                    store[p] # index[p] /\ index[p] \notin {disk[p], agreed[p]}
    BY Zenon, <1>5 DEF Classify, IndexInv
  <2>2. /\ p \in todo' => plan'[p] \in Writes /\ plan'[p] = ActionFor(p)
        /\ plan'[p] \in Recorded /\ p \notin todo' =>
             plan'[p] = "Converge" /\ plan'[p] = ActionFor(p)
    BY Zenon, <1>5 DEF Classify, Recorded, Writes, Typed
  <2>3. QED
    BY Zenon, <2>2, DiskSideIsDisk, ActionTable DEF Writes, IndexInv
<1>6. ASSUME NEW p \in Paths, pc = "write", p \in todo, Install(p, held[p]) PROVE IndexInv'
  <2>1. \A q \in Paths :
          /\ disk'[q] = IF q = p THEN store[p] ELSE disk[q]
          /\ replaced'[q] = IF q = p /\ replaced[p] = Unread THEN disk[p] ELSE replaced[q]
    BY Zenon, <1>6 DEF Install, Typed, PlanInv
  <2>2. \A q \in Paths : agreed'[q] = IF store[q] = disk'[q] THEN store[q] ELSE agreed[q]
    BY Zenon, <1>6 DEF Install, Settle
  <2>3. QED
    BY <1>6, <2>1, <2>2 DEF Install, IndexInv
<1>7. ASSUME NEW p \in Paths, Refuse(p) PROVE IndexInv'
  BY Zenon, <1>7 DEF Refuse, IndexInv
<1>8. ASSUME NEW p \in Paths, remove_from(p) \/ materialize_entry(p) PROVE IndexInv'
  BY Zenon, <1>6, <1>7, <1>8 DEF remove_from, materialize_entry, PlanInv
<1>9. CASE ParseRead
  BY Zenon, <1>9 DEF ParseRead, IndexInv
<1>10. CASE Sync
  <2>1. \A q \in Paths : agreed'[q] = IF store'[q] = disk[q] THEN store'[q] ELSE agreed[q]
    BY Zenon, <1>10 DEF Sync, Settle
  <2>2. \A q \in Paths : store'[q] = store[q] \/ store'[q] = disk[q]
    BY Zenon, <1>10 DEF Sync, Synced, StatInv
  <2>3. QED
    BY Zenon, <1>0, <1>10, <2>1, <2>2 DEF Sync, FullFlush, IndexInv
<1>11. CASE CommitIndex
  <2>1. ASSUME NEW p \in Paths, store[p] # index'[p] PROVE store[p] # synced[p]
    BY Zenon, <1>0, <1>11, <2>1 DEF CommitIndex, IndexInv, Recorded
  <2>2. QED
    BY Zenon, <1>11, <2>1 DEF CommitIndex, Idle, IndexInv, Recorded
<1>12. CASE Fail \/ Die
  BY Zenon, <1>12 DEF Fail, Die, Idle, IndexInv, Recorded
<1>13. ASSUME NEW back \in SUBSET {p \in Paths : replaced[p] # Unread}, PowerLoss(back)
       PROVE  IndexInv'
  BY Zenon, <1>13 DEF PowerLoss, Idle, IndexInv, Recorded
<1>14. CASE UNCHANGED vars
  BY Zenon, <1>14 DEF vars, IndexInv
<1>15. QED
  BY Zenon, <1>1, <1>2, <1>3, <1>4, <1>5, <1>8, <1>9, <1>10, <1>11, <1>12, <1>13, <1>14
     DEF Next, reconcile

\* A parse leaves every proposal the directory lacks in the store: one it reaches is
\* a conflict or a refused removal, which it keeps.
LEMMA SyncKeepsAccepted ==
  ASSUME Typed, PlanInv, AcceptedInv, Sync, NEW p \in accepted
  PROVE  store'[p] = store[p]
<1>1. p \in Paths /\ todo = {} /\ Busy
  BY Zenon DEF Typed, PlanInv, Sync, Busy
<1>2. store'[p] = Synced(p)
  BY Zenon, <1>1 DEF Sync
<1>3. CASE p \notin Reach
  BY Zenon, <1>2, <1>3 DEF Synced
<1>4. CASE p \in Reach
  <2>1. p \in scope
    BY Zenon, <1>1, <1>4 DEF Reach, With, PlanInv
  <2>2. plan[p] \in Writes \cup {"Conflict"}
    BY Zenon, <1>1, <2>1 DEF AcceptedInv
  <2>3. whole
    BY Zenon, <1>4, <2>2 DEF Reach, With, Writes
  <2>4. plan[p] \in Writes => p \in refused /\ plan[p] = "Remove"
    BY Zenon, <1>1, <2>3 DEF AcceptedInv, Writes
  <2>5. p \in Kept \cup KeptOut
    BY Zenon, <2>1, <2>2, <2>4 DEF Kept, KeptOut, With
  <2>6. QED
    BY Zenon, <1>2, <2>5 DEF Synced
<1>5. QED
  BY Zenon, <1>3, <1>4

\* Every action but a proposal to the same path leaves a proposal in the store until
\* the directory has it.
LEMMA AcceptedStep ==
  ASSUME Allow = {}, Typed, PlanInv, StatInv, IndexInv, AcceptedInv, [Next]_vars
  PROVE  /\ AcceptedInv'
         /\ \A p \in accepted : store'[p] # store[p] => \E e \in Changes(p) : op_propose(p, e)
<1> DEFINE Goal == /\ AcceptedInv'
                   /\ \A p \in accepted : store'[p] # store[p] =>
                                            \E e \in Changes(p) : op_propose(p, e)
<1> USE DEF db, rec, flushed, ghosts, bounds
<1>0. /\ pc # "write" => todo = {}
      /\ ~Busy => refused = {} /\ \A p \in Paths : plan[p] = "Nothing"
      /\ accepted \subseteq Paths
  BY Zenon DEF PlanInv, Typed
<1>1. ASSUME NEW p \in Paths, NEW e \in Changes(p), op_propose(p, e) PROVE Goal
  <2>1. e # agreed[p] => e # index[p]
    BY Zenon, <1>1 DEF op_propose, Lag
  <2>2. \A q \in Paths : store'[q] = IF q = p THEN e ELSE store[q]
    BY Zenon, <1>1 DEF op_propose, Typed
  <2>3. \A q \in accepted' : /\ q \in Paths /\ store'[q] # disk[q]
                             /\ q = p \/ q \in accepted
                             /\ q = p => e # agreed[p]
    BY Zenon, <1>0, <1>1 DEF op_propose, Settle
  <2>4. pc' = "classify" /\ refused' = {} /\ \A q \in Paths : plan'[q] = "Nothing"
    BY Zenon, <1>0, <1>1 DEF op_propose, BeginScoped, Busy
  <2>5. AcceptedInv'
    BY <1>1, <2>1, <2>2, <2>3, <2>4 DEF op_propose, AcceptedInv, Busy, Writes
  <2>6. QED
    BY Zenon, <1>0, <1>1, <2>2, <2>5
<1>2. ASSUME NEW p \in Paths, NEW e \in Changes(p), Edit(p, e) PROVE Goal
  <2>1. accepted' = {q \in accepted : store[q] # disk'[q]}
    BY Zenon, <1>2 DEF Edit, Settle
  <2>2. QED
    BY Zenon, <1>2, <2>1 DEF Edit, AcceptedInv, Busy
<1>3. CASE BeginWhole
  BY Zenon, <1>0, <1>3 DEF BeginWhole, AcceptedInv, Busy, Writes
<1>4. ASSUME NEW paths \in SUBSET Paths, BeginPaths(paths) PROVE Goal
  BY Zenon, <1>0, <1>4 DEF BeginPaths, BeginScoped, AcceptedInv, Busy, Writes
<1>5. CASE Classify
  <2>1. refused' = {}
    BY Zenon, <1>0, <1>5 DEF Classify, Busy
  <2>2. ASSUME NEW p \in accepted
        PROVE  /\ p \in scope => plan'[p] \in Writes \cup {"Conflict"}
               /\ plan'[p] \in Writes => p \in todo'
    <3>1. p \in Paths /\ ActionFor(p) \in Writes \cup {"Conflict"}
      BY Zenon, <1>0, <2>2, DiskSideIsDisk, ActionTable DEF AcceptedInv, Actions, Writes
    <3>2. QED
      BY Zenon, <1>5, <3>1 DEF Classify, Writes
  <2>3. QED
    BY Zenon, <1>5, <2>1, <2>2 DEF Classify, AcceptedInv
<1>6. ASSUME NEW p \in Paths, pc = "write", p \in todo, Install(p, held[p]) PROVE Goal
  <2>1. \A q \in Paths : disk'[q] = IF q = p THEN store[p] ELSE disk[q]
    BY Zenon, <1>6 DEF Install, Typed, PlanInv
  <2>2. accepted' = {q \in accepted : store[q] # disk'[q]}
    BY Zenon, <1>6 DEF Install, Settle
  <2>3. QED
    BY Zenon, <1>0, <1>6, <2>1, <2>2 DEF Install, AcceptedInv, Busy
<1>7. ASSUME NEW p \in Paths, plan[p] = "Materialize" => ~whole, Refuse(p) PROVE Goal
  BY Zenon, <1>7 DEF Refuse, AcceptedInv, Busy
<1>8. ASSUME NEW p \in Paths, remove_from(p) \/ materialize_entry(p) PROVE Goal
  BY Zenon, <1>6, <1>7, <1>8 DEF remove_from, materialize_entry, PlanInv
<1>9. CASE ParseRead
  BY Zenon, <1>9 DEF ParseRead, AcceptedInv, Busy
<1>10. CASE Sync
  <2>1. \A p \in accepted : store'[p] = store[p]
    BY Zenon, <1>10, SyncKeepsAccepted
  <2>2. accepted' = {p \in accepted : store'[p] # disk[p]}
    BY Zenon, <1>10 DEF Sync, Settle
  <2>3. QED
    BY Zenon, <1>10, <2>1, <2>2 DEF Sync, AcceptedInv, Busy
<1>11. CASE CommitIndex
  <2>1. ASSUME NEW p \in accepted PROVE index'[p] = index[p]
    <3>1. p \in Paths /\ todo = {} /\ Busy
      BY Zenon, <1>0, <1>11, <2>1 DEF CommitIndex, Busy
    <3>2. plan[p] \in Writes \cup {"Conflict", "Nothing"}
      BY Zenon, <2>1, <3>1 DEF PlanInv, AcceptedInv
    <3>3. plan[p] \in Writes => p \in refused
      BY Zenon, <2>1, <3>1 DEF AcceptedInv
    <3>4. QED
      BY Zenon, <1>11, <3>1, <3>2, <3>3 DEF CommitIndex, Writes
  <2>2. QED
    BY Zenon, <1>0, <1>11, <2>1 DEF CommitIndex, Idle, AcceptedInv, Busy, Writes
<1>12. CASE Fail \/ Die
  BY Zenon, <1>0, <1>12 DEF Fail, Die, Idle, AcceptedInv, Busy, Writes
<1>13. ASSUME NEW back \in SUBSET {p \in Paths : replaced[p] # Unread}, PowerLoss(back)
       PROVE  Goal
  BY Zenon, <1>0, <1>13 DEF PowerLoss, Idle, AcceptedInv, IndexInv, Busy, Writes
<1>14. CASE UNCHANGED vars
  BY Zenon, <1>14 DEF vars, AcceptedInv, Busy
<1>15. QED
  BY Zenon, <1>1, <1>2, <1>3, <1>4, <1>5, <1>8, <1>9, <1>10, <1>11, <1>12, <1>13, <1>14
     DEF Next, reconcile

-----------------------------------------------------------------------------
\* Both sides and the index start out equal, with no reconcile under way.
LEMMA InvInit ==
  ASSUME Init
  PROVE  Typed /\ PlanInv /\ StatInv /\ SettleInv /\ EditedInv /\ IndexInv /\ AcceptedInv
BY Zenon, TypeInit DEF Init, PlanInv, StatInv, SettleInv, EditedInv, IndexInv, AcceptedInv, Busy,
                Recorded, Writes

\* The types, for every bound on proposals, edits and deaths.
THEOREM CheckoutTypes == Spec => []TypeOK
<1>1. Typed => TypeOK
  BY Zenon DEF Typed, TypeOK
<1>2. QED
  BY <1>1, TypeInit, TypeStep, PTL DEF Spec

\* A file whose stat is the one _tree recorded holds the stored entry, so reconcile and
\* the parse may leave it unread: op_propose records no stat, every install and edit
\* changes it, and tree_sync records one for a file no edit reached since it was read.
\* Without the edits that come between the parse's read and its stat.
THEOREM StatIsTrusted ==
  ASSUME "window" \notin Allow
  PROVE  Spec => []StatTellsTheEntry
<1>1. StatInv => StatTellsTheEntry
  BY Zenon DEF StatInv, StatTellsTheEntry
<1>2. QED
  BY <1>1, InvInit, TypeStep, PlanStep, StatStep, PTL DEF Spec

\* checkout.rs's reconcile, when nobody edits under it and nothing refuses it, leaves
\* the paths of its scope with store, directory and index equal, or reported as
\* conflicts, whatever errors, crashes and lost index rows came before.
THEOREM ReconcileAgrees ==
  ASSUME "window" \notin Allow
  PROVE  Spec => ReconcileSettles
<1>1. ASSUME Typed, PlanInv, SettleInv
      PROVE  CommitIndex /\ ~disturbed =>
               \A p \in scope : \/ p \in conflicts'
                                \/ store'[p] = disk'[p] /\ disk'[p] = index'[p]
  <2>1. SUFFICES ASSUME CommitIndex, ~disturbed, NEW p \in scope
        PROVE  p \in conflicts' \/ (store'[p] = disk'[p] /\ disk'[p] = index'[p])
    BY Zenon
  <2>2. p \in Paths /\ p \notin refused /\ p \notin todo /\ plan[p] \in Actions
    BY Zenon, <1>1, <2>1 DEF CommitIndex, Typed, PlanInv, SettleInv, Busy
  <2>3. plan[p] = "Conflict" => p \in conflicts'
    BY Zenon, <2>1 DEF CommitIndex, With
  <2>4. plan[p] # "Conflict" => store[p] = disk[p] /\ disk[p] = index'[p]
    BY Zenon, <1>1, <2>1, <2>2 DEF CommitIndex, SettleInv, Busy, Actions, Recorded
  <2>5. QED
    BY Zenon, <2>1, <2>3, <2>4 DEF CommitIndex
<1>2. QED
  BY <1>1, InvInit, TypeStep, PlanStep, StatStep, SettleStep, PTL
     DEF Spec, ReconcileSettles

\* What a person left in the directory is changed by nothing but another edit until
\* the store has it: not by a write or removal of a reconcile, which classify plans
\* only where the directory still holds the indexed entry, nor by a power loss.
\* Without edits inside a window, and without changes back to what a late index holds.
THEOREM EditsAreKept ==
  ASSUME "window" \notin Allow, "lag" \notin Allow
  PROVE  Spec => EditsKept
BY InvInit, TypeStep, PlanStep, StatStep, EditedStep, PTL DEF Spec, EditsKept

\* What a proposal stored is replaced by nothing but another proposal until the
\* directory has it: a parse that reaches it keeps it, and after a power loss the
\* index, the flushed rows and the files that come back still differ from it.  With
\* no event of the three kinds; with "refuse" alone it fails (CheckoutRefused.cfg).
THEOREM ProposalsAreKept ==
  ASSUME Allow = {}
  PROVE  Spec => AcceptedKept
<1>1. "window" \notin Allow /\ "lag" \notin Allow
  BY Zenon
<1>2. QED
  BY <1>1, InvInit, TypeStep, PlanStep, StatStep, IndexStep, AcceptedStep, PTL
     DEF Spec, AcceptedKept

=============================================================================
