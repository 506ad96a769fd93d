----------------------------- MODULE TaskProofs -----------------------------
(***************************************************************************)
(* Two of the daemon's background tasks.  The git watcher, for any files,  *)
(* saves, commits, switches and failures: what it leaves stale it was told *)
(* of.  The event bus, for any number of connections, emitters, events and *)
(* subscriptions and any sizes of the log and the channels: nothing is     *)
(* pushed to a connection twice, and what a subscriber loses is only what  *)
(* its registration's window and a full channel lose.                      *)
(***************************************************************************)
EXTENDS Events, GitWatch, FiniteSetTheorems, TLAPS

-----------------------------------------------------------------------------
(* The watcher of HEAD and the dirty paths.                                *)

\* The commits stay where they are, and the paths are those of every tree.
Refs ==
  /\ trees \in Seq([Files -> Nat])
  /\ head \in 1..Len(trees) /\ last_head \in 1..Len(trees)
  /\ current_head \in 0..Len(trees)
  /\ store \in [Files -> Nat] /\ work \in [Files -> Nat] /\ staged \in [Files -> Nat]
  /\ saves \in Nat

\* A path that was clean at the last tick, and that neither a race nor a failure left
\* behind, holds in the store what the recorded HEAD has there; while a reconcile is
\* due, so do the paths outside its scope.
CleanInv ==
  pc # "start" =>
    \A p \in Files : (p \notin last_dirty \cup lost /\ (pc = "reconcile" => p \notin scope))
                       => store[p] = trees[last_head][p]

\* The tree HEAD names.
LEMMA RefsTree ==
  ASSUME Refs
  PROVE  Tree \in [Files -> Nat]
BY DEF Refs, Tree

\* Commits, switches and saves keep them so.
LEMMA RefsStep ==
  ASSUME Refs, [WatchNext]_watchVars
  PROVE  Refs'
<1> USE DEF Refs, repo, last, bounds, Watcher
<1>1. CASE Baseline
  BY ZenonT(30), <1>1 DEF Baseline
<1>2. CASE SampleHead
  BY <1>2 DEF SampleHead
<1>3. CASE SampleDirty
  BY <1>3 DEF SampleDirty, Compare, head_changed
<1>4. CASE Reconcile
  BY ZenonT(30), <1>4 DEF Reconcile
<1>5. ASSUME NEW p \in Files, NEW e \in {NoEntry, 2 + saves, Tree[p]},
      Save(p, e) PROVE Refs'
  <2>1. 2 + saves \in Nat /\ saves + 1 \in Nat /\ 0 \in Nat
    BY DEF Refs
  <2>2. Tree[p] \in Nat
    <3>1. Refs
      BY Zenon
    <3>2. Tree \in [Files -> Nat]
      BY Zenon, <3>1, RefsTree
    <3>3. QED
      BY Zenon, <3>2
  <2>3. e \in Nat
    BY Zenon, <2>1, <2>2 DEF NoEntry
  <2>4. work' \in [Files -> Nat] /\ saves' \in Nat
    BY Zenon, <1>5, <2>1, <2>3 DEF Save
  <2>5. QED
    BY Zenon, <1>5, <2>4 DEF Save
<1>6. ASSUME NEW p \in Files, Add(p) PROVE Refs'
  BY ZenonT(30), <1>6 DEF Add, Git
<1>7. ASSUME NEW p \in Files, NEW q \in Files, Move(p, q) PROVE Refs'
  BY ZenonT(30), <1>7 DEF Move, Git, NoEntry
<1>8. CASE GitCommit
  <2>1. trees' \in Seq([Files -> Nat]) /\ Len(trees') = Len(trees) + 1
    BY <1>8 DEF GitCommit
  <2>2. QED
    BY <1>8, <2>1 DEF GitCommit, Git
<1>9. ASSUME NEW h \in DOMAIN trees, Switch(h) PROVE Refs'
  <2>1. h \in 1..Len(trees) /\ trees[h] \in [Files -> Nat]
    BY <1>9
  <2>2. work' \in [Files -> Nat]
    BY Zenon, <1>9, <2>1 DEF Switch
  <2>3. QED
    BY ZenonT(30), <1>9, <2>1, <2>2 DEF Switch, Git
<1>10. CASE UNCHANGED watchVars
  BY ZenonT(30), <1>10 DEF watchVars
<1>11. QED
  BY ZenonT(30), <1>1, <1>2, <1>3, <1>4, <1>5, <1>6, <1>7, <1>8, <1>9, <1>10 DEF WatchNext,
     git_watch_loop

\* People and git change neither the store nor what the watcher recorded.
LEMMA CleanStep ==
  ASSUME Refs, CleanInv, [WatchNext]_watchVars
  PROVE  CleanInv'
<1> USE DEF CleanInv, repo, last, bounds
<1>1. CASE Baseline
  BY ZenonT(30), <1>1 DEF Baseline, Tree
<1>2. CASE SampleHead
  BY ZenonT(30), <1>2 DEF SampleHead
<1>3. CASE SampleDirty
  BY ZenonT(30), <1>3 DEF SampleDirty, Compare, head_changed, watch_scope,
     dirty_changed
<1>4. CASE Reconcile
  BY ZenonT(30), <1>4 DEF Reconcile, Overtaken, Tree, Refs
<1>5. ASSUME Watcher' = Watcher, trees' = trees \/ GitCommit PROVE CleanInv'
  <2>1. trees'[last_head] = trees[last_head]
    BY <1>5 DEF GitCommit, Refs
  <2>2. QED
    BY ZenonT(30), <1>5, <2>1 DEF Watcher
<1>6. ASSUME NEW p \in Files, NEW e, Save(p, e) PROVE CleanInv'
  BY ZenonT(30), <1>5, <1>6 DEF Save, Watcher
<1>7. ASSUME NEW p \in Files, Add(p) PROVE CleanInv'
  BY ZenonT(30), <1>5, <1>7 DEF Add, Git, Watcher
<1>8. ASSUME NEW p \in Files, NEW q \in Files, Move(p, q) PROVE CleanInv'
  BY ZenonT(30), <1>5, <1>8 DEF Move, Git, Watcher
<1>9. CASE GitCommit
  BY ZenonT(30), <1>5, <1>9 DEF GitCommit, Git, Watcher
<1>10. ASSUME NEW h \in DOMAIN trees, Switch(h) PROVE CleanInv'
  BY ZenonT(30), <1>5, <1>10 DEF Switch, Git, Watcher
<1>11. CASE UNCHANGED watchVars
  BY Zenon, <1>5, <1>11 DEF watchVars, Watcher
<1>12. QED
  BY ZenonT(30), <1>1, <1>2, <1>3, <1>4, <1>6, <1>7, <1>8, <1>9, <1>10, <1>11 DEF WatchNext,
     git_watch_loop

\* The daemon's git watcher, for any paths and any number of saves, commits, switches and
\* failures: between ticks, a path that git shows clean at the recorded HEAD holds in the
\* store what the directory has there, unless one of the races or failures `lost` names
\* left it behind.
THEOREM StaleStaysKnown == WatchSpec => []StaleIsKnown
<1>1. WatchInit => Refs /\ CleanInv
  BY DEF WatchInit, Refs, CleanInv, NoEntry
<1>2. Refs /\ CleanInv => StaleIsKnown
  <2>1. SUFFICES ASSUME Refs, CleanInv, pc = "idle", NEW p \in Files, head = last_head,
                        p \notin Dirty \cup last_dirty, ~Source(p), p \notin lost
                 PROVE  store[p] = work[p]
    BY ZenonT(30) DEF StaleIsKnown
  <2>2. Tree[p] = staged[p] /\ staged[p] = work[p]
    BY Zenon, <2>1 DEF Dirty, Listed
  <2>3. QED
    BY ZenonT(30), <2>1, <2>2 DEF CleanInv, Tree
<1>3. QED
  BY <1>1, <1>2, RefsStep, CleanStep, PTL DEF WatchSpec

-----------------------------------------------------------------------------
(* The elements of a sequence at a set of indices.                         *)

Rank(S, i) == Cardinality({j \in S : j <= i})

LEMMA RankFacts ==
  ASSUME NEW n \in Nat, NEW S \in SUBSET (1..n)
  PROVE  /\ IsFiniteSet(S) /\ Cardinality(S) \in Nat
         /\ \A i \in S : Rank(S, i) \in 1..Cardinality(S)
         /\ \A i, k \in S : Rank(S, i) = Rank(S, k) => i = k
<1>1. IsFiniteSet(1..n)
  BY FS_Interval
<1>2. IsFiniteSet(S) /\ Cardinality(S) \in Nat
  BY ZenonT(30), <1>1, FS_Subset, FS_CardinalityType
<1> DEFINE Upto(i) == {j \in S : j <= i}
<1>3. ASSUME NEW i \in S
      PROVE  IsFiniteSet(Upto(i)) /\ Cardinality(Upto(i)) \in 1..Cardinality(S)
  <2>1. Upto(i) \in SUBSET S /\ i \in Upto(i)
    OBVIOUS
  <2>2. IsFiniteSet(Upto(i)) /\ Cardinality(Upto(i)) <= Cardinality(S)
    BY Zenon, <1>2, <2>1, FS_Subset
  <2>3. Cardinality(Upto(i)) \in Nat /\ Cardinality(Upto(i)) # 0
    BY Zenon, <2>1, <2>2, FS_CardinalityType, FS_EmptySet
  <2>4. QED
    BY <1>2, <2>2, <2>3
<1>4. ASSUME NEW i \in S, NEW k \in S, i < k
      PROVE  Rank(S, i) < Rank(S, k)
  <2>0. i \in Nat /\ k \in Nat /\ \A j \in S : j \in Nat
    OBVIOUS
  <2>1. Upto(i) \in SUBSET Upto(k) /\ k \in Upto(k) /\ k \notin Upto(i)
    <3>1. \A j \in S : j <= i => j <= k
      BY <1>4, <2>0
    <3>2. k <= k /\ ~(k <= i)
      BY <1>4, <2>0
    <3>3. QED
      BY ZenonT(30), <3>1, <3>2
  <2>2. Upto(i) # Upto(k)
    BY Zenon, <2>1
  <2>3. Cardinality(Upto(i)) <= Cardinality(Upto(k))
        /\ Cardinality(Upto(i)) # Cardinality(Upto(k))
    BY Zenon, <1>3, <2>1, <2>2, FS_Subset
  <2>4. Cardinality(Upto(i)) \in Nat /\ Cardinality(Upto(k)) \in Nat
    BY <1>3
  <2>5. QED
    BY <2>3, <2>4 DEF Rank
<1>5. \A i, k \in S : Rank(S, i) = Rank(S, k) => i = k
  <2> SUFFICES ASSUME NEW i \in S, NEW k \in S, Rank(S, i) = Rank(S, k) PROVE i = k
    BY Zenon
  <2>1. Rank(S, i) \in Nat /\ Rank(S, k) \in Nat
    BY <1>2, <1>3 DEF Rank
  <2>2. ~(i < k) /\ ~(k < i)
    BY <1>4, <2>1
  <2>3. QED
    BY <2>2
<1>6. QED
  BY Zenon, <1>2, <1>3, <1>5 DEF Rank

\* Picked: a sequence of elements of s, with every element asked for.
LEMMA PickedFacts ==
  ASSUME NEW R, NEW s \in Seq(R), NEW S \in SUBSET DOMAIN s
  PROVE  /\ Picked(s, S) \in Seq(R)
         /\ \A i \in S : \E k \in DOMAIN Picked(s, S) : Picked(s, S)[k] = s[i]
<1> DEFINE n == Cardinality(S)
           At(k) == CHOOSE i \in S : Rank(S, i) = k
<1>1. Len(s) \in Nat /\ S \in SUBSET (1..Len(s))
  OBVIOUS
<1>2. /\ IsFiniteSet(S) /\ n \in Nat
      /\ \A i \in S : Rank(S, i) \in 1..n
      /\ \A i, k \in S : Rank(S, i) = Rank(S, k) => i = k
  BY ZenonT(30), <1>1, RankFacts
<1>3. \A k \in 1..n : \E i \in S : Rank(S, i) = k
  <2> DEFINE f == [i \in S |-> Rank(S, i)]
  <2>1. f \in Injection(S, 1..n)
    BY Zenon, <1>2 DEF Injection, IsInjective
  <2>2. IsFiniteSet(1..n) /\ Cardinality(1..n) = n
    BY <1>2, FS_Interval
  <2>3. f \in Surjection(S, 1..n)
    BY Zenon, <2>1, <2>2, FS_Injection
  <2>4. QED
    BY ZenonT(30), <2>3 DEF Surjection
<1>4. Picked(s, S) = [k \in 1..n |-> s[At(k)]]
  BY Zenon DEF Picked, Rank
<1>5. \A k \in 1..n : At(k) \in S /\ Rank(S, At(k)) = k
  BY Zenon, <1>3
<1>6. \A i \in S : At(Rank(S, i)) = i
  BY Zenon, <1>2, <1>5
<1> HIDE DEF At, n
<1>7. \A k \in 1..n : s[At(k)] \in R
  BY <1>1, <1>5
<1>8. [k \in 1..n |-> s[At(k)]] \in Seq(R)
  BY <1>2, <1>7
<1>9. ASSUME NEW i \in S PROVE \E k \in 1..n : s[At(k)] = s[i]
  BY Zenon, <1>2, <1>6
<1>10. QED
  BY Zenon, <1>4, <1>8, <1>9

-----------------------------------------------------------------------------
(* The bus's state.                                                        *)

Recs == [seq : Nat, topic : Topics, source : Tasks]
Frames == [live : BOOLEAN, id : Subs, seq : Nat]
Asks == [id : Subs, conn : Conns, identity : Identities, topics : SUBSET Topics,
         overflow : Policies]
Starts == [sub : Asks, since : Nat, gap : BOOLEAN, upto : Nat, before : SUBSET Nat]

Calm == [pc : {"idle", "ended"}]
Numbered == [pc : {"assigned", "logged"}, ev : Recs]
Sweeping == [pc : {"sent"}, out : SUBSET Subs]
Looking == [pc : {"replay"}, since : Nat, sub : Asks]
Entering == [pc : {"register", "answer"}, sub : Asks, replay : Seq(Recs)]
Jobs == Calm \cup Numbered \cup Sweeping \cup Looking \cup Entering

BusTypes ==
  /\ seq \in Nat
  /\ queue \in Seq(Topics)
  /\ log \in Seq(Recs) /\ history \in Seq(Recs)
  /\ subs \in SUBSET Asks
  /\ rx \in [Subs -> Seq(Recs)]
  /\ closed \in SUBSET Subs /\ relaying \in SUBSET Subs
  /\ task \in [Tasks -> Jobs]
  /\ current \in [Conns -> Nat]
  /\ wire \in [Conns -> Seq(Frames)]
  /\ asked \in 0..MaxSubs
  /\ dispatched \in SUBSET Nat
  /\ start \in [Subs -> Starts \cup {Nothing}]
  /\ missed \in [Subs -> SUBSET Nat]

Known(id) == start[id] \in Starts

\* A task between its reading of the log and its answer knows what it began from.
Entered == \A c \in Conns : task[c].pc \in {"register", "answer"} => Known(task[c].sub.id)

LEMMA JobKinds ==
  ASSUME NEW j \in Jobs
  PROVE  /\ j.pc \in {"assigned", "logged"} => j \in Numbered
         /\ j.pc = "sent" => j \in Sweeping
         /\ j.pc = "replay" => j \in Looking
         /\ j.pc \in {"register", "answer"} => j \in Entering
BY Zenon DEF Jobs, Calm, Numbered, Sweeping, Looking, Entering

LEMMA RestingJob == Resting \in Jobs /\ Resting.pc = "idle"
BY Zenon DEF Resting, Jobs, Calm

\* Become: one task takes a step.
LEMMA Became ==
  ASSUME task \in [Tasks -> Jobs], NEW p \in Tasks, NEW t, Become(p, t)
  PROVE  /\ task'[p] = t
         /\ \A q \in Tasks \ {p} : task'[q] = task[q]
         /\ t \in Jobs => task' \in [Tasks -> Jobs]
BY Zenon DEF Become

LEMMA BusTypesInit == BusInit => BusTypes
<1> SUFFICES ASSUME BusInit PROVE BusTypes
  BY Zenon
<1>1. MaxSubs \in Nat
  BY Zenon, EventsAssumption
<1>2. /\ seq \in Nat /\ queue \in Seq(Topics) /\ log \in Seq(Recs) /\ history \in Seq(Recs)
      /\ subs \in SUBSET Asks /\ closed \in SUBSET Subs /\ relaying \in SUBSET Subs
      /\ current \in [Conns -> Nat] /\ asked \in 0..MaxSubs /\ dispatched \in SUBSET Nat
  BY <1>1 DEF BusInit
<1>3. /\ rx \in [Subs -> Seq(Recs)] /\ wire \in [Conns -> Seq(Frames)]
      /\ start \in [Subs -> Starts \cup {Nothing}] /\ missed \in [Subs -> SUBSET Nat]
  BY DEF BusInit
<1>4. task \in [Tasks -> Jobs]
  BY Zenon, RestingJob DEF BusInit
<1>5. QED
  BY Zenon, <1>2, <1>3, <1>4 DEF BusTypes

LEMMA ReplayFacts ==
  ASSUME log \in Seq(Recs), NEW since, NEW sub
  PROVE  /\ Replay(since, sub) \in Seq(Recs)
         /\ \A i \in DOMAIN log : log[i].seq > since /\ matches(sub, log[i])
              => log[i].seq \in Seqs(Replay(since, sub))
<1> DEFINE S == {i \in DOMAIN log : log[i].seq > since /\ matches(sub, log[i])}
<1>1. S \in SUBSET DOMAIN log /\ Replay(since, sub) = Picked(log, S)
  BY Zenon DEF Replay
<1> HIDE DEF S
<1>2. /\ Picked(log, S) \in Seq(Recs)
      /\ \A i \in S : \E k \in DOMAIN Picked(log, S) : Picked(log, S)[k] = log[i]
  BY Zenon, <1>1, PickedFacts
<1>3. \A i \in S : log[i].seq \in Seqs(Picked(log, S))
  BY Zenon, <1>2 DEF Seqs
<1>4. QED
  BY Zenon, <1>1, <1>2, <1>3 DEF S

\* The records the actions build.
LEMMA RecordFacts ==
  /\ \A n \in Nat, t \in Topics, p \in Tasks :
       [pc |-> "assigned", ev |-> [seq |-> n, topic |-> t, source |-> p]] \in Numbered
  /\ \A j \in Numbered : [j EXCEPT !.pc = "logged"] \in Numbered
                         /\ [j EXCEPT !.pc = "logged"].ev = j.ev
                         /\ [j EXCEPT !.pc = "logged"].pc = "logged"
  /\ \A j \in Entering : [j EXCEPT !.pc = "answer"] \in Entering
                         /\ [j EXCEPT !.pc = "answer"].sub = j.sub
                         /\ [j EXCEPT !.pc = "answer"].replay = j.replay
                         /\ [j EXCEPT !.pc = "answer"].pc = "answer"
<1>1. \A n \in Nat, t \in Topics, p \in Tasks :
       [pc |-> "assigned", ev |-> [seq |-> n, topic |-> t, source |-> p]] \in Numbered
  BY Zenon DEF Numbered, Recs
<1>2. \A j \in Numbered : [j EXCEPT !.pc = "logged"] \in Numbered
                         /\ [j EXCEPT !.pc = "logged"].ev = j.ev
                         /\ [j EXCEPT !.pc = "logged"].pc = "logged"
  BY Zenon DEF Numbered
<1>3. \A j \in Entering : [j EXCEPT !.pc = "answer"] \in Entering
                         /\ [j EXCEPT !.pc = "answer"].sub = j.sub
                         /\ [j EXCEPT !.pc = "answer"].replay = j.replay
                         /\ [j EXCEPT !.pc = "answer"].pc = "answer"
  BY Zenon DEF Entering
<1>4. QED
  BY Zenon, <1>1, <1>2, <1>3

\* Sequences that grow at the end and shrink at the front.
LEMMA SeqFacts ==
  ASSUME NEW R, NEW s \in Seq(R)
  PROVE  /\ \A e \in R : /\ Append(s, e) \in Seq(R)
                        /\ Len(Append(s, e)) = Len(s) + 1
                        /\ Append(s, e)[Len(s) + 1] = e
                        /\ \A i \in 1..Len(s) : Append(s, e)[i] = s[i]
         /\ s # <<>> => /\ Head(s) \in R /\ Head(s) = s[1] /\ Tail(s) \in Seq(R)
                        /\ Len(s) >= 1 /\ Len(Tail(s)) = Len(s) - 1
                        /\ \A i \in 1..(Len(s) - 1) : Tail(s)[i] = s[i + 1]
OBVIOUS

\* The positions of a sequence, of one with an element more, of one without its head and
\* of two in a row.
LEMMA DomainFacts ==
  ASSUME NEW R, NEW s \in Seq(R)
  PROVE  /\ Len(s) \in Nat /\ DOMAIN s = 1..Len(s)
         /\ \A k \in DOMAIN s : s # <<>> /\ s[k] \in R
OBVIOUS

LEMMA AppendFacts ==
  ASSUME NEW R, NEW s \in Seq(R), NEW e \in R
  PROVE  /\ Len(s) + 1 \in DOMAIN Append(s, e) /\ Append(s, e)[Len(s) + 1] = e
         /\ \A k \in DOMAIN Append(s, e) : \/ k \in DOMAIN s /\ Append(s, e)[k] = s[k]
                                           \/ k = Len(s) + 1 /\ Append(s, e)[k] = e
OBVIOUS

LEMMA AppendKeeps ==
  ASSUME NEW s \in Seq(Recs), NEW e \in Recs
  PROVE  /\ Append(s, e) \in Seq(Recs) /\ Len(Append(s, e)) = Len(s) + 1
         /\ \A k \in 1..Len(s) : Append(s, e)[k] = s[k]
         /\ \A k \in DOMAIN s : k \in DOMAIN Append(s, e) /\ Append(s, e)[k] = s[k]
<1>1. /\ Append(s, e) \in Seq(Recs) /\ Len(Append(s, e)) = Len(s) + 1
      /\ \A k \in 1..Len(s) : Append(s, e)[k] = s[k]
  OBVIOUS
<1>2. \A k \in DOMAIN s : k \in DOMAIN Append(s, e) /\ Append(s, e)[k] = s[k]
  OBVIOUS
<1>3. QED
  BY Zenon, <1>1, <1>2

LEMMA AppendShape ==
  ASSUME NEW s \in Seq(Recs), NEW e \in Recs
  PROVE  /\ Len(s) \in Nat /\ DOMAIN s = 1..Len(s)
         /\ DOMAIN Append(s, e) = 1..(Len(s) + 1) /\ Append(s, e) # <<>>
         /\ Append(s, e)[Len(s) + 1] = e
<1>1. /\ Len(s) \in Nat /\ DOMAIN s = 1..Len(s) /\ DOMAIN Append(s, e) = 1..(Len(s) + 1)
  OBVIOUS
<1>2. Append(s, e)[Len(s) + 1] = e /\ Append(s, e) # <<>>
  OBVIOUS
<1>3. QED
  BY Zenon, <1>1, <1>2

LEMMA TailShape ==
  ASSUME NEW s \in Seq(Recs), s # <<>>
  PROVE  /\ Tail(s) \in Seq(Recs) /\ Len(Tail(s)) = Len(s) - 1 /\ Len(s) >= 1
         /\ \A k \in 1..(Len(s) - 1) : Tail(s)[k] = s[k + 1]
OBVIOUS

LEMMA TailFacts ==
  ASSUME NEW R, NEW s \in Seq(R), s # <<>>
  PROVE  /\ Head(s) = s[1] /\ 1 \in DOMAIN s /\ Head(s) \in R
         /\ \A k \in DOMAIN Tail(s) : k + 1 \in DOMAIN s /\ k + 1 # 1 /\ Tail(s)[k] = s[k + 1]
         /\ \A k, l \in DOMAIN Tail(s) : k # l => k + 1 # l + 1
         /\ \A k \in DOMAIN s : k # 1 => k - 1 \in DOMAIN Tail(s) /\ Tail(s)[k - 1] = s[k]
OBVIOUS

LEMMA ConcatFacts ==
  ASSUME NEW s \in Seq(Frames), NEW t \in Seq(Frames)
  PROVE  \A k \in DOMAIN (s \o t) : \/ k \in DOMAIN s /\ (s \o t)[k] = s[k]
                                    \/ \E l \in DOMAIN t : (s \o t)[k] = t[l]
<1>1. Len(s) \in Nat /\ Len(t) \in Nat
  OBVIOUS
<1>2. ASSUME NEW k \in DOMAIN (s \o t), k \notin DOMAIN s
      PROVE  k - Len(s) \in DOMAIN t /\ (s \o t)[k] = t[k - Len(s)]
  BY <1>2
<1>3. \A k \in DOMAIN (s \o t) : k \in DOMAIN s => (s \o t)[k] = s[k]
  OBVIOUS
<1>4. QED
  BY Zenon, <1>2, <1>3

LEMMA ConcatEnds ==
  ASSUME NEW s \in Seq(Frames), NEW t \in Seq(Frames)
  PROVE  \A l \in DOMAIN t : Len(s) + l \in DOMAIN (s \o t) /\ (s \o t)[Len(s) + l] = t[l]
<1>1. ASSUME NEW R, NEW x \in Seq(R), NEW y \in Seq(R), NEW l \in 1..Len(y)
      PROVE  Len(x) + l \in 1..(Len(x) + Len(y)) /\ (x \o y)[Len(x) + l] = y[l]
  BY <1>1
<1>2. DOMAIN t = 1..Len(t) /\ DOMAIN (s \o t) = 1..(Len(s) + Len(t))
  OBVIOUS
<1>3. QED
  BY ZenonT(60), <1>1, <1>2

\* What an answer writes to the connection for the replayed events.
Written(r, id) == [i \in DOMAIN r |-> [live |-> FALSE, id |-> id, seq |-> r[i].seq]]

LEMMA WrittenFacts ==
  ASSUME NEW r \in Seq(Recs), NEW id \in Subs
  PROVE  /\ Written(r, id) \in Seq(Frames) /\ DOMAIN Written(r, id) = DOMAIN r
         /\ \A i \in DOMAIN r : /\ ~Written(r, id)[i].live /\ Written(r, id)[i].id = id
                                /\ Written(r, id)[i].seq = r[i].seq
<1>1. Len(r) \in Nat /\ DOMAIN r = 1..Len(r) /\ \A i \in 1..Len(r) : r[i].seq \in Nat
  <2>1. \A i \in 1..Len(r) : r[i] \in Recs
    OBVIOUS
  <2>2. \A e \in Recs : e.seq \in Nat
    BY Zenon DEF Recs
  <2>3. QED
    BY <2>1, <2>2
<1>2. \A i \in 1..Len(r) : [live |-> FALSE, id |-> id, seq |-> r[i].seq] \in Frames
  BY Zenon, <1>1 DEF Frames
<1>3. [i \in 1..Len(r) |-> [live |-> FALSE, id |-> id, seq |-> r[i].seq]] \in Seq(Frames)
  BY <1>1, <1>2
<1>4. QED
  BY Zenon, <1>1, <1>3 DEF Written

\* What a step of a task makes of it.
LEMMA AssignFacts ==
  ASSUME BusTypes, NEW p \in Tasks, NEW t \in Topics, Assign(p, t)
  PROVE  LET j == [pc |-> "assigned", ev |-> [seq |-> seq + 1, topic |-> t, source |-> p]]
         IN /\ seq' = seq + 1 /\ j \in Numbered /\ Become(p, j)
            /\ task' \in [Tasks -> Jobs] /\ task'[p] = j
            /\ \A q \in Tasks \ {p} : task'[q] = task[q]
            /\ UNCHANGED <<log, subs, rx, closed, relaying, current, wire, asked, book>>
<1> DEFINE j == [pc |-> "assigned", ev |-> [seq |-> seq + 1, topic |-> t, source |-> p]]
<1>1. seq' = seq + 1 /\ Become(p, j)
      /\ UNCHANGED <<log, subs, rx, closed, relaying, current, wire, asked, book>>
  BY Zenon DEF Assign
<1>2. j \in Numbered
  <2>1. seq + 1 \in Nat
    BY DEF BusTypes
  <2>2. QED
    BY Zenon, <2>1, RecordFacts
<1> HIDE DEF j
<1>3. j \in Jobs /\ task \in [Tasks -> Jobs]
  BY Zenon, <1>2 DEF Jobs, BusTypes
<1>4. task' \in [Tasks -> Jobs] /\ task'[p] = j /\ \A q \in Tasks \ {p} : task'[q] = task[q]
  BY Zenon, <1>1, <1>3, Became
<1>5. QED
  BY Zenon, <1>1, <1>2, <1>4 DEF j

LEMMA ZeroIsNatural == 0 \in Nat
OBVIOUS

LEMMA BusTypesStep == BusTypes /\ Entered /\ [BusNext]_busVars => BusTypes'
<1> SUFFICES ASSUME BusTypes, Entered, [BusNext]_busVars PROVE BusTypes'
  BY Zenon
<1>1. /\ seq \in Nat /\ queue \in Seq(Topics)
      /\ log \in Seq(Recs) /\ history \in Seq(Recs) /\ subs \in SUBSET Asks
      /\ rx \in [Subs -> Seq(Recs)] /\ closed \in SUBSET Subs /\ relaying \in SUBSET Subs
      /\ task \in [Tasks -> Jobs] /\ current \in [Conns -> Nat]
      /\ wire \in [Conns -> Seq(Frames)] /\ asked \in 0..MaxSubs /\ dispatched \in SUBSET Nat
      /\ start \in [Subs -> Starts \cup {Nothing}] /\ missed \in [Subs -> SUBSET Nat]
  BY Zenon DEF BusTypes
<1>2. /\ MaxSubs \in Nat /\ Loop \in Tasks /\ \A c \in Conns : c \in Tasks
      /\ \A c \in Emitters \cup Subscribers : c \in Conns
  BY Zenon, EventsAssumption DEF Tasks
<1>3. ASSUME NEW t \in Topics, Emit(t) PROVE BusTypes'
  BY <1>1, <1>3 DEF Emit, BusTypes, book
<1>4. ASSUME Receive PROVE BusTypes'
  <2>1. Assign(Loop, Head(queue)) /\ Head(queue) \in Topics /\ queue' \in Seq(Topics)
    BY <1>1, <1>4 DEF Receive
  <2>2. /\ seq' = seq + 1 /\ task' \in [Tasks -> Jobs]
        /\ UNCHANGED <<log, subs, rx, closed, relaying, current, wire, asked, book>>
    BY ZenonT(30), <1>2, <2>1, AssignFacts
  <2>3. QED
    BY <1>1, <2>1, <2>2 DEF BusTypes, book
<1>5. ASSUME NEW c \in Emitters, NEW t \in Topics, EmitExternal(c, t) PROVE BusTypes'
  <2>1. Assign(c, t) /\ UNCHANGED queue /\ c \in Tasks
    BY Zenon, <1>2, <1>5 DEF EmitExternal
  <2>2. /\ seq' = seq + 1 /\ task' \in [Tasks -> Jobs]
        /\ UNCHANGED <<log, subs, rx, closed, relaying, current, wire, asked, book>>
    BY ZenonT(30), <2>1, AssignFacts
  <2>3. QED
    BY <1>1, <2>1, <2>2 DEF BusTypes, book
<1>6. ASSUME NEW p \in Tasks, LogEvent(p) PROVE BusTypes'
  <2>1. task[p] \in Numbered /\ task[p].ev \in Recs
    BY <1>1, <1>6, JobKinds DEF LogEvent, Numbered
  <2>2. history' \in Seq(Recs) /\ log' \in Seq(Recs)
    <3>1. history' = Append(history, task[p].ev)
          /\ log' = Append(IF Len(log) >= Capacity THEN Tail(log) ELSE log, task[p].ev)
      BY Zenon, <1>6 DEF LogEvent, push
    <3>2. (IF Len(log) >= Capacity THEN Tail(log) ELSE log) \in Seq(Recs)
      <4>1. log \in Seq(Recs)
        BY Zenon, <1>1
      <4>2. Len(log) >= Capacity => log # <<>>
        BY EventsAssumption
      <4>3. QED
        BY Zenon, <4>1, <4>2, TailShape
    <3>3. QED
      BY Zenon, <1>1, <2>1, <3>1, <3>2, SeqFacts
  <2>3. task' \in [Tasks -> Jobs]
    BY Zenon, <1>1, <1>6, <2>1, Became, RecordFacts DEF LogEvent, Jobs
  <2>4. QED
    BY Zenon, <1>1, <1>6, <2>2, <2>3 DEF LogEvent, BusTypes
<1>7. ASSUME NEW p \in Tasks, Dispatch(p) PROVE BusTypes'
  <2> DEFINE e == task[p].ev
             hit == {s \in subs : matches(s, e)}
             dead == {s \in hit : s.id \in closed}
             full == {s \in hit \ dead : Len(rx[s.id]) >= SubBuffer}
             out == Ids(dead \cup {s \in full : s.overflow = "Disconnect"})
  <2>1. e \in Recs /\ e.seq \in Nat
    BY <1>1, <1>7, JobKinds DEF Dispatch, Numbered, Recs
  <2>2. /\ rx' = [id \in Subs |-> IF id \in Ids(hit \ (dead \cup full))
                                  THEN Append(rx[id], e) ELSE rx[id]]
        /\ missed' = [id \in Subs |-> IF id \in Ids(full) THEN missed[id] \cup {e.seq}
                                                          ELSE missed[id]]
        /\ dispatched' = dispatched \cup {e.seq}
        /\ Become(p, IF out = {} THEN Resting ELSE [pc |-> "sent", out |-> out])
        /\ UNCHANGED <<seq, queue, log, subs, closed, relaying, current, wire, gone,
                       offered, asked, history, start>>
    BY Zenon, <1>7 DEF Dispatch
  <2>3. out \in SUBSET Subs
    BY <1>1 DEF Ids, Asks
  <2> HIDE DEF e, hit, dead, full, out
  <2>4. rx' \in [Subs -> Seq(Recs)] /\ missed' \in [Subs -> SUBSET Nat]
        /\ dispatched' \in SUBSET Nat
    <3>1. \A id \in Subs : Append(rx[id], e) \in Seq(Recs)
      BY Zenon, <1>1, <2>1, SeqFacts
    <3>2. QED
      BY ZenonT(30), <1>1, <2>1, <2>2, <3>1
  <2>5. [pc |-> "sent", out |-> out] \in Jobs
    BY Zenon, <2>3 DEF Jobs, Sweeping
  <2>6. task' \in [Tasks -> Jobs]
    BY Zenon, <1>1, <2>2, <2>5, Became, RestingJob
  <2>7. QED
    BY ZenonT(30), <1>1, <2>2, <2>4, <2>6 DEF BusTypes
<1>8. ASSUME NEW p \in Tasks, CleanUp(p) PROVE BusTypes'
  <2>1. task' \in [Tasks -> Jobs]
    BY Zenon, <1>1, <1>8, Became, RestingJob DEF CleanUp
  <2>2. subs' \in SUBSET Asks
    BY Zenon, <1>1, <1>8 DEF CleanUp, Without
  <2>3. QED
    BY Zenon, <1>1, <1>8, <2>1, <2>2 DEF CleanUp, BusTypes, book
<1>9. ASSUME NEW c \in Subscribers, NEW ts \in SUBSET Topics, NEW name \in Identities,
             NEW since \in {0, LastSeen(c)}, NEW o \in Policies,
             Subscribe(c, ts, name, since, o)
      PROVE  BusTypes'
  <2> DEFINE a == [id |-> asked + 1, conn |-> c, identity |-> name, topics |-> ts, overflow |-> o]
             j == [pc |-> "replay", since |-> since, sub |-> a]
  <2>1. c \in Conns /\ c \in Tasks /\ asked + 1 \in Subs /\ asked' \in 0..MaxSubs
    BY <1>1, <1>2, <1>9 DEF Subscribe, Subs
  <2>2. since \in Nat
    <3>1. CASE wire[c] = <<>>
      BY Zenon, <3>1, ZeroIsNatural DEF LastSeen
    <3>2. CASE wire[c] # <<>>
      <4>1. wire[c] \in Seq(Frames) /\ Len(wire[c]) \in 1..Len(wire[c])
        BY <1>1, <2>1, <3>2
      <4>2. wire[c][Len(wire[c])] \in Frames
        BY <4>1
      <4>3. QED
        BY <3>2, <4>2 DEF LastSeen, Frames
    <3>3. QED
      BY ZenonT(60), <3>1, <3>2
  <2>3. a \in Asks
    BY Zenon, <2>1 DEF Asks
  <2> HIDE DEF a
  <2>4. j \in Jobs
    BY Zenon, <2>2, <2>3 DEF Jobs, Looking
  <2>5. Become(c, j)
    BY Zenon, <1>9 DEF Subscribe, a
  <2> HIDE DEF j
  <2>6. task' \in [Tasks -> Jobs]
    BY Zenon, <1>1, <2>1, <2>4, <2>5, Became
  <2>7. subs' \in SUBSET Asks /\ current' \in [Conns -> Nat]
    BY Zenon, <1>1, <1>9, <2>1 DEF Subscribe, Without
  <2>8. QED
    BY ZenonT(30), <1>1, <1>9, <2>1, <2>6, <2>7 DEF Subscribe, BusTypes, book
<1>10. ASSUME NEW c \in Conns, ReadLog(c) PROVE BusTypes'
  <2> DEFINE t == task[c]
             r == Replay(t.since, t.sub)
             j == [pc |-> "register", sub |-> t.sub, replay |-> r]
             b == [sub |-> t.sub, since |-> t.since, gap |-> Gap(t.since),
                   upto |-> Len(history), before |-> {}]
  <2>1. c \in Tasks /\ t \in Looking
    BY ZenonT(30), <1>1, <1>2, <1>10, JobKinds DEF ReadLog
  <2>2. t.sub \in Asks /\ t.since \in Nat /\ t.sub.id \in Subs
    BY ZenonT(30), <2>1 DEF Looking, Asks
  <2>3. Become(c, j) /\ start' = [start EXCEPT ![t.sub.id] = b]
        /\ UNCHANGED <<router, relaying, current, wire, gone, offered, asked, history,
                       dispatched, missed>>
    BY ZenonT(30), <1>10 DEF ReadLog
  <2>4. r \in Seq(Recs)
    BY Zenon, <1>1, ReplayFacts
  <2> HIDE DEF t, r
  <2>5. j \in Jobs
    BY ZenonT(30), <2>2, <2>4 DEF Jobs, Entering
  <2>6. b \in Starts
    BY <1>1, <2>2 DEF Starts, Gap
  <2> HIDE DEF j, b
  <2>7. task' \in [Tasks -> Jobs]
    BY Zenon, <1>1, <2>1, <2>3, <2>5, Became
  <2>8. start' \in [Subs -> Starts \cup {Nothing}]
    BY Zenon, <1>1, <2>2, <2>3, <2>6
  <2>9. QED
    BY Zenon, <1>1, <2>3, <2>7, <2>8 DEF BusTypes, router
<1>11. ASSUME NEW c \in Conns, Register(c) PROVE BusTypes'
  <2> DEFINE t == task[c]
             b == [start EXCEPT ![t.sub.id].before = dispatched]
  <2>1. c \in Tasks /\ t \in Entering
    BY Zenon, <1>1, <1>2, <1>11, JobKinds DEF Register
  <2>2. t.sub \in Asks /\ t.sub.id \in Subs /\ t.sub.id \in Nat
    BY <2>1 DEF Entering, Asks, Subs
  <2>3. /\ subs' = subs \cup {t.sub} /\ current' = [current EXCEPT ![c] = t.sub.id]
        /\ start' = [start EXCEPT ![t.sub.id].before = dispatched]
        /\ Become(c, [t EXCEPT !.pc = "answer"])
        /\ UNCHANGED <<seq, queue, log, rx, closed, relaying, wire, gone, offered, asked,
                       history, dispatched, missed>>
    BY Zenon, <1>11 DEF Register
  <2> HIDE DEF t
  <2>4. task' \in [Tasks -> Jobs]
    BY Zenon, <1>1, <2>1, <2>3, Became, RecordFacts DEF Jobs
  <2>5. start' \in [Subs -> Starts \cup {Nothing}]
    <3>1. start[t.sub.id] \in Starts
      BY Zenon, <1>11 DEF Entered, Known, Register, t
    <3>2. [start[t.sub.id] EXCEPT !.before = dispatched] \in Starts
      BY ZenonT(30), <1>1, <3>1 DEF Starts
    <3>3. start' = [start EXCEPT ![t.sub.id] = [start[t.sub.id] EXCEPT !.before = dispatched]]
      BY Zenon, <2>3
    <3>4. QED
      BY ZenonT(30), <1>1, <3>2, <3>3
  <2>6. subs' \in SUBSET Asks /\ current' \in [Conns -> Nat]
    BY Zenon, <1>1, <2>2, <2>3
  <2>7. QED
    BY ZenonT(30), <1>1, <2>3, <2>4, <2>5, <2>6 DEF BusTypes
<1>12. ASSUME NEW c \in Conns, AnswerSubscribe(c) PROVE BusTypes'
  <2> DEFINE t == task[c]
             f == [i \in DOMAIN t.replay |->
                     [live |-> FALSE, id |-> t.sub.id, seq |-> t.replay[i].seq]]
  <2>1. c \in Tasks /\ t \in Entering
    BY Zenon, <1>1, <1>2, <1>12, JobKinds DEF AnswerSubscribe
  <2>2. t.sub.id \in Subs /\ t.replay \in Seq(Recs)
    BY ZenonT(30), <2>1 DEF Entering, Asks
  <2>3. /\ wire' = [wire EXCEPT ![c] = @ \o f] /\ relaying' = relaying \cup {t.sub.id}
        /\ Become(c, Resting) /\ UNCHANGED <<router, current, gone, offered, asked, book>>
    BY Zenon, <1>12 DEF AnswerSubscribe
  <2>4. f \in Seq(Frames)
    BY Zenon, <2>2, WrittenFacts DEF Written
  <2> HIDE DEF t, f
  <2>5. wire' \in [Conns -> Seq(Frames)]
    <3>1. wire[c] \o f \in Seq(Frames)
      BY <1>1, <2>4
    <3>2. QED
      BY Zenon, <1>1, <2>3, <3>1
  <2>6. task' \in [Tasks -> Jobs]
    BY Zenon, <1>1, <2>1, <2>3, Became, RestingJob
  <2>7. QED
    BY ZenonT(30), <1>1, <2>2, <2>3, <2>5, <2>6 DEF BusTypes, router, book
<1>13. ASSUME NEW c \in Conns, NEW ts \in SUBSET Topics, Unsubscribe(c, ts) PROVE BusTypes'
  <2>1. \A s \in subs : [s EXCEPT !.topics = s.topics \ ts] \in Asks
    BY ZenonT(30), <1>1 DEF Asks
  <2>2. subs' \in SUBSET Asks
    BY ZenonT(30), <1>1, <1>13, <2>1 DEF Unsubscribe
  <2>3. QED
    BY ZenonT(30), <1>1, <1>13, <2>2 DEF Unsubscribe, BusTypes, book
<1>14. ASSUME NEW id \in Subs, Relay(id) PROVE BusTypes'
  <2>1. rx[id] \in Seq(Recs) /\ rx[id] # <<>>
    BY Zenon, <1>1, <1>14 DEF Relay
  <2>2. Head(rx[id]) \in Recs /\ Tail(rx[id]) \in Seq(Recs)
    BY Zenon, <2>1, SeqFacts
  <2> DEFINE c == start[id].sub.conn
             f == [live |-> TRUE, id |-> id, seq |-> Head(rx[id]).seq]
  <2>3. f \in Frames
    BY Zenon, <2>2 DEF Frames, Recs
  <2>4. /\ wire' = [wire EXCEPT ![c] = Append(@, f)] /\ rx' = [rx EXCEPT ![id] = Tail(@)]
        /\ UNCHANGED <<seq, queue, log, subs, closed, relaying, task, current, gone,
                       offered, asked, book>>
    BY Zenon, <1>14 DEF Relay
  <2> HIDE DEF c, f
  <2>5. rx' \in [Subs -> Seq(Recs)]
    BY Zenon, <1>1, <2>2, <2>4
  <2>6. \A d \in Conns : Append(wire[d], f) \in Seq(Frames)
    BY Zenon, <1>1, <2>3, SeqFacts
  <2>7. wire' \in [Conns -> Seq(Frames)]
    BY ZenonT(30), <1>1, <2>4, <2>6
  <2>8. QED
    BY Zenon, <1>1, <2>4, <2>5, <2>7 DEF BusTypes, book
<1>15. ASSUME NEW id \in Subs, RelayFails(id) PROVE BusTypes'
  <2>1. rx' \in [Subs -> Seq(Recs)] /\ relaying' \in SUBSET Subs /\ closed' \in SUBSET Subs
    BY <1>1, <1>15 DEF RelayFails
  <2>2. QED
    BY Zenon, <1>1, <1>15, <2>1 DEF RelayFails, BusTypes, book
<1>16. ASSUME NEW c \in Subscribers, HangUp(c) PROVE BusTypes'
  BY Zenon, <1>1, <1>16 DEF HangUp, BusTypes, router, book
<1>17. ASSUME NEW c \in Conns, Disconnect(c) PROVE BusTypes'
  <2>1. [pc |-> "ended"] \in Jobs
    BY Zenon DEF Jobs, Calm
  <2>2. task' \in [Tasks -> Jobs]
    BY Zenon, <1>1, <1>2, <1>17, <2>1, Became DEF Disconnect
  <2>3. subs' \in SUBSET Asks
    BY Zenon, <1>1, <1>17 DEF Disconnect, Without
  <2>4. QED
    BY ZenonT(30), <1>1, <1>17, <2>2, <2>3 DEF Disconnect, BusTypes, book
<1>18. ASSUME UNCHANGED busVars PROVE BusTypes'
  BY Zenon, <1>1, <1>18 DEF BusTypes, busVars, router, book
<1>19. QED
  BY ZenonT(60), <1>3, <1>4, <1>5, <1>6, <1>7, <1>8, <1>9, <1>10, <1>11, <1>12, <1>13, <1>14, <1>15,
     <1>16, <1>17, <1>18 DEF BusNext, Step, Handle

-----------------------------------------------------------------------------
(* Numbers: taken once, logged once, dispatched once.                      *)

Busy(p) == task[p].pc \in {"assigned", "logged"}

\* The steps of assign_and_dispatch, as the numbers see them.
Numbers(p) ==
  /\ ~Busy(p)
  /\ seq' = seq + 1
  /\ task'[p].pc = "assigned" /\ task'[p].ev.seq = seq + 1
  /\ \A q \in Tasks \ {p} : task'[q] = task[q]
  /\ UNCHANGED <<log, history, dispatched>>

Logs(p) ==
  /\ task[p].pc = "assigned" /\ task[p].ev \in Recs
  /\ log' = push(log, task[p].ev) /\ history' = Append(history, task[p].ev)
  /\ task'[p].pc = "logged" /\ task'[p].ev = task[p].ev
  /\ \A q \in Tasks \ {p} : task'[q] = task[q]
  /\ UNCHANGED <<seq, dispatched>>

Offers(p) ==
  /\ task[p].pc = "logged" /\ task[p].ev \in Recs
  /\ dispatched' = dispatched \cup {task[p].ev.seq}
  /\ task'[p].pc \in {"idle", "sent"}
  /\ \A q \in Tasks \ {p} : task'[q] = task[q]
  /\ UNCHANGED <<seq, log, history>>

Aside ==
  /\ UNCHANGED <<seq, log, history, dispatched>>
  /\ \A p \in Tasks : Busy(p)' => task'[p] = task[p]

LEMMA NumberMoves ==
  ASSUME BusTypes, [BusNext]_busVars
  PROVE  Aside \/ \E p \in Tasks : Numbers(p) \/ Logs(p) \/ Offers(p)
<1>1. /\ task \in [Tasks -> Jobs] /\ queue \in Seq(Topics)
      /\ Loop \in Tasks /\ \A c \in Conns : c \in Tasks
      /\ \A c \in Emitters \cup Subscribers : c \in Conns
  BY Zenon, EventsAssumption DEF BusTypes, Tasks
<1>2. ASSUME NEW p \in Tasks, NEW t, Become(p, t), t.pc \notin {"assigned", "logged"},
             UNCHANGED <<seq, log, history, dispatched>>
      PROVE  Aside
  BY ZenonT(30), <1>1, <1>2, Became DEF Aside, Busy
<1>3. ASSUME NEW p \in Tasks, NEW t \in Topics, task[p] = Resting, Assign(p, t)
      PROVE  Numbers(p)
  <2>1. LET j == [pc |-> "assigned", ev |-> [seq |-> seq + 1, topic |-> t, source |-> p]]
        IN /\ seq' = seq + 1 /\ task'[p] = j
           /\ \A q \in Tasks \ {p} : task'[q] = task[q]
           /\ UNCHANGED <<log, book>>
    BY Zenon, <1>3, AssignFacts
  <2>2. ~Busy(p)
    BY Zenon, <1>3, RestingJob DEF Busy
  <2>3. QED
    BY <2>1, <2>2 DEF Numbers, book
<1>4. ASSUME NEW t \in Topics, Emit(t) PROVE Aside
  BY Zenon, <1>4 DEF Emit, Aside, book
<1>5. ASSUME Receive PROVE Numbers(Loop)
  BY Zenon, <1>1, <1>3, <1>5, SeqFacts DEF Receive
<1>6. ASSUME NEW c \in Emitters, NEW t \in Topics, EmitExternal(c, t) PROVE Numbers(c)
  BY Zenon, <1>1, <1>3, <1>6 DEF EmitExternal
<1>7. ASSUME NEW p \in Tasks, LogEvent(p) PROVE Logs(p)
  <2>1. task[p] \in Numbered /\ task[p].ev \in Recs
    BY <1>1, <1>7, JobKinds DEF LogEvent, Numbered
  <2>2. task'[p] = [task[p] EXCEPT !.pc = "logged"]
        /\ \A q \in Tasks \ {p} : task'[q] = task[q]
    BY ZenonT(30), <1>1, <1>7, Became DEF LogEvent
  <2>3. QED
    BY Zenon, <1>7, <2>1, <2>2, RecordFacts DEF LogEvent, Logs
<1>8. ASSUME NEW p \in Tasks, Dispatch(p) PROVE Offers(p)
  <2>1. task[p].ev \in Recs
    BY <1>1, <1>8, JobKinds DEF Dispatch, Numbered
  <2>2. PICK out : Become(p, IF out = {} THEN Resting ELSE [pc |-> "sent", out |-> out])
    BY ZenonT(30), <1>8 DEF Dispatch
  <2>3. task'[p].pc \in {"idle", "sent"} /\ \A q \in Tasks \ {p} : task'[q] = task[q]
    BY <1>1, <2>2, Became, RestingJob
  <2>4. QED
    BY ZenonT(30), <1>8, <2>1, <2>3 DEF Dispatch, Offers
<1>9. ASSUME NEW p \in Tasks, CleanUp(p) PROVE Aside
  BY ZenonT(30), <1>2, <1>9, RestingJob DEF CleanUp, book
<1>10. ASSUME NEW c \in Subscribers, NEW ts, NEW name, NEW since, NEW o,
              Subscribe(c, ts, name, since, o)
       PROVE  Aside
  <2>1. PICK a : Become(c, [pc |-> "replay", since |-> since, sub |-> a])
    BY ZenonT(30), <1>10 DEF Subscribe
  <2>2. QED
    BY ZenonT(30), <1>1, <1>2, <1>10, <2>1 DEF Subscribe, book
<1>11. ASSUME NEW c \in Conns, ReadLog(c) PROVE Aside
  <2>1. PICK a, r : Become(c, [pc |-> "register", sub |-> a, replay |-> r])
    BY ZenonT(30), <1>11 DEF ReadLog
  <2>2. QED
    BY Zenon, <1>1, <1>2, <1>11, <2>1 DEF ReadLog, router
<1>12. ASSUME NEW c \in Conns, Register(c) PROVE Aside
  <2>1. task[c] \in Entering
    BY Zenon, <1>1, <1>12, JobKinds DEF Register
  <2>2. [task[c] EXCEPT !.pc = "answer"].pc = "answer"
    BY Zenon, <2>1, RecordFacts
  <2>3. QED
    BY ZenonT(30), <1>1, <1>2, <1>12, <2>2 DEF Register
<1>13. ASSUME NEW c \in Conns, AnswerSubscribe(c) PROVE Aside
  BY Zenon, <1>1, <1>2, <1>13, RestingJob DEF AnswerSubscribe, router, book
<1>14. ASSUME NEW c, NEW ts, Unsubscribe(c, ts) PROVE Aside
  BY Zenon, <1>14 DEF Unsubscribe, Aside, book
<1>15. ASSUME NEW id, Relay(id) \/ RelayFails(id) PROVE Aside
  BY ZenonT(30), <1>15 DEF Relay, RelayFails, Aside, book
<1>16. ASSUME NEW c, HangUp(c) PROVE Aside
  BY Zenon, <1>16 DEF HangUp, Aside, router, book
<1>17. ASSUME NEW c \in Conns, Disconnect(c) PROVE Aside
  <2>1. [pc |-> "ended"].pc \notin {"assigned", "logged"}
    BY Zenon
  <2>2. QED
    BY Zenon, <1>1, <1>2, <1>17, <2>1 DEF Disconnect, book
<1>18. ASSUME UNCHANGED busVars PROVE Aside
  BY ZenonT(30), <1>18 DEF busVars, Aside, router, book
<1>19. QED
  BY Zenon, <1>1, <1>4, <1>5, <1>6, <1>7, <1>8, <1>9, <1>10, <1>11, <1>12, <1>13, <1>14, <1>15,
     <1>16, <1>17, <1>18 DEF BusNext, Step, Handle

\* A number is taken once, and dispatched once.
NumberInv ==
  /\ dispatched \subseteq 1..seq
  /\ \A p \in Tasks : Busy(p) => task[p].ev.seq \in (1..seq) \ dispatched
  /\ \A p, q \in Tasks : p # q /\ Busy(p) /\ Busy(q) => task[p].ev.seq # task[q].ev.seq

LEMMA NumberInit == BusInit => NumberInv
BY Zenon, RestingJob DEF BusInit, NumberInv, Busy

LEMMA NumberStep ==
  ASSUME BusTypes, NumberInv, [BusNext]_busVars
  PROVE  NumberInv'
<1>1. /\ seq \in Nat /\ dispatched \subseteq 1..seq
      /\ \A p \in Tasks : Busy(p) => task[p].ev.seq \in (1..seq) \ dispatched
      /\ \A p, q \in Tasks : p # q /\ Busy(p) /\ Busy(q) => task[p].ev.seq # task[q].ev.seq
  BY Zenon DEF NumberInv, BusTypes
<1>2. CASE Aside
  BY ZenonT(30), <1>1, <1>2 DEF Aside, NumberInv, Busy
<1>3. ASSUME NEW p \in Tasks, Numbers(p) PROVE NumberInv'
  <2>1. /\ seq' = seq + 1 /\ dispatched' = dispatched
        /\ Busy(p)' /\ task'[p].ev.seq = seq + 1
        /\ \A q \in Tasks \ {p} : task'[q] = task[q] /\ (Busy(q)' <=> Busy(q))
    BY Zenon, <1>3 DEF Numbers, Busy
  <2>2. seq + 1 \in 1..(seq + 1) /\ seq + 1 \notin 1..seq /\ 1..seq \subseteq 1..(seq + 1)
    BY <1>1
  <2>3. QED
    BY ZenonT(150), <1>1, <2>1, <2>2 DEF NumberInv
<1>4. ASSUME NEW p \in Tasks, Logs(p) PROVE NumberInv'
  <2>1. /\ seq' = seq /\ dispatched' = dispatched
        /\ Busy(p) /\ Busy(p)' /\ task'[p].ev = task[p].ev
        /\ \A q \in Tasks \ {p} : task'[q] = task[q] /\ (Busy(q)' <=> Busy(q))
    BY ZenonT(30), <1>4 DEF Logs, Busy
  <2>2. QED
    BY <1>1, <2>1 DEF NumberInv
<1>5. ASSUME NEW p \in Tasks, Offers(p) PROVE NumberInv'
  <2>1. /\ seq' = seq /\ dispatched' = dispatched \cup {task[p].ev.seq}
        /\ Busy(p) /\ ~Busy(p)'
        /\ \A q \in Tasks \ {p} : task'[q] = task[q] /\ (Busy(q)' <=> Busy(q))
    BY Zenon, <1>5 DEF Offers, Busy
  <2>2. QED
    BY ZenonT(30), <1>1, <2>1 DEF NumberInv
<1>6. QED
  BY ZenonT(30), <1>2, <1>3, <1>4, <1>5, NumberMoves

\* What was dispatched was logged before, under a number of its own.
HistoryInv ==
  /\ \A i \in DOMAIN history : history[i].seq \in 1..seq
  /\ \A n \in dispatched : \E i \in DOMAIN history : history[i].seq = n
  /\ \A i, k \in DOMAIN history : i # k => history[i].seq # history[k].seq
  /\ \A p \in Tasks : task[p].pc = "assigned" =>
       \A i \in DOMAIN history : history[i].seq # task[p].ev.seq
  /\ \A p \in Tasks : task[p].pc = "logged" => \E i \in DOMAIN history : history[i] = task[p].ev

LEMMA HistoryInit == BusInit => HistoryInv
BY RestingJob DEF BusInit, HistoryInv

LEMMA HistoryStep ==
  ASSUME BusTypes, NumberInv, HistoryInv, [BusNext]_busVars
  PROVE  HistoryInv'
<1>1. /\ seq \in Nat /\ history \in Seq(Recs)
      /\ \A i \in DOMAIN history : history[i].seq \in 1..seq
      /\ \A n \in dispatched : \E i \in DOMAIN history : history[i].seq = n
      /\ \A i, k \in DOMAIN history : i # k => history[i].seq # history[k].seq
      /\ \A p \in Tasks : task[p].pc = "assigned" =>
           \A i \in DOMAIN history : history[i].seq # task[p].ev.seq
      /\ \A p \in Tasks : task[p].pc = "logged" =>
           \E i \in DOMAIN history : history[i] = task[p].ev
  BY Zenon DEF HistoryInv, BusTypes
<1>2. CASE Aside
  <2>1. \A p \in Tasks : task'[p].pc \in {"assigned", "logged"} => task'[p] = task[p]
    BY ZenonT(30), <1>2 DEF Aside, Busy
  <2>2. UNCHANGED <<seq, history, dispatched>>
    BY ZenonT(30), <1>2 DEF Aside
  <2>3. QED
    BY ZenonT(150), <1>1, <2>1, <2>2 DEF HistoryInv
<1>3. ASSUME NEW p \in Tasks, Numbers(p) PROVE HistoryInv'
  <2>1. /\ seq' = seq + 1 /\ UNCHANGED <<history, dispatched>>
        /\ task'[p].pc = "assigned" /\ task'[p].ev.seq = seq + 1
        /\ \A q \in Tasks \ {p} : task'[q] = task[q]
    BY Zenon, <1>3 DEF Numbers
  <2>2. seq + 1 \notin 1..seq /\ 1..seq \subseteq 1..(seq + 1)
    BY <1>1
  <2>3. QED
    <3>1. \A i \in DOMAIN history' : history'[i].seq \in 1..seq'
      BY ZenonT(30), <1>1, <2>1, <2>2
    <3>2. \A q \in Tasks : task'[q].pc = "assigned" =>
             \A i \in DOMAIN history' : history'[i].seq # task'[q].ev.seq
      BY <1>1, <2>1, <2>2
    <3>3. \A q \in Tasks : task'[q].pc = "logged" => q # p
      BY ZenonT(30), <2>1
    <3>4. \A q \in Tasks : task'[q].pc = "logged" =>
             \E i \in DOMAIN history' : history'[i] = task'[q].ev
      BY <1>1, <2>1, <3>3
    <3>5. QED
      BY ZenonT(150), <1>1, <2>1, <3>1, <3>2, <3>4 DEF HistoryInv
<1>4. ASSUME NEW p \in Tasks, Logs(p) PROVE HistoryInv'
  <2> DEFINE e == task[p].ev
             n == Len(history)
  <2>1. /\ UNCHANGED <<seq, dispatched>> /\ e \in Recs /\ history' = Append(history, e)
        /\ task[p].pc = "assigned" /\ task'[p].pc = "logged" /\ task'[p].ev = e
        /\ \A q \in Tasks \ {p} : task'[q] = task[q]
    BY ZenonT(30), <1>4 DEF Logs
  <2>2. /\ e.seq \in 1..seq
        /\ \A q \in Tasks \ {p} : task[q].pc = "assigned" => task[q].ev.seq # e.seq
    BY ZenonT(30), <2>1 DEF NumberInv, Busy
  <2> HIDE DEF e
  <2>3. /\ n \in Nat /\ DOMAIN history = 1..n /\ DOMAIN history' = 1..(n + 1)
        /\ history'[n + 1] = e /\ \A i \in 1..n : history'[i] = history[i]
    <3>1. e \in Recs /\ history \in Seq(Recs) /\ history' = Append(history, e)
      BY Zenon, <1>1, <2>1
    <3>2. QED
      BY Zenon, <3>1, AppendShape, AppendKeeps
  <2> HIDE DEF n
  <2>4. \A i \in 1..n : history[i].seq # e.seq
    BY ZenonT(30), <1>1, <2>1, <2>3 DEF e
  <2>5. 1..(n + 1) = (1..n) \cup {n + 1} /\ n + 1 \notin 1..n
    BY <2>3
  <2>o. \A i \in DOMAIN history' : \/ i \in DOMAIN history /\ history'[i] = history[i]
                                   \/ i = n + 1 /\ history'[i] = e
    BY Zenon, <2>3, <2>5
  <2>k. /\ \A i \in DOMAIN history : i \in DOMAIN history' /\ history'[i] = history[i]
        /\ n + 1 \in DOMAIN history' /\ history'[n + 1] = e
    BY Zenon, <2>3, <2>5
  <2>6. \A i \in DOMAIN history' : history'[i].seq \in 1..seq'
    BY Zenon, <1>1, <2>1, <2>2, <2>o
  <2>7. \A m \in dispatched' : \E i \in DOMAIN history' : history'[i].seq = m
    <3> SUFFICES ASSUME NEW m \in dispatched PROVE \E i \in DOMAIN history' : history'[i].seq = m
      BY Zenon, <2>1
    <3>1. PICK i \in DOMAIN history : history[i].seq = m
      BY Zenon, <1>1
    <3>2. QED
      BY Zenon, <2>k, <3>1
  <2>8. \A i, k \in DOMAIN history' : i # k => history'[i].seq # history'[k].seq
    <3> SUFFICES ASSUME NEW i \in DOMAIN history', NEW k \in DOMAIN history', i # k
                 PROVE  history'[i].seq # history'[k].seq
      BY Zenon
    <3>1. CASE i \in DOMAIN history /\ k \in DOMAIN history
      BY ZenonT(60), <1>1, <2>k, <3>1
    <3>2. CASE i = n + 1 /\ k \in DOMAIN history
      BY Zenon, <2>3, <2>4, <2>k, <3>2
    <3>3. CASE k = n + 1 /\ i \in DOMAIN history
      BY Zenon, <2>3, <2>4, <2>k, <3>3
    <3>4. QED
      BY Zenon, <2>o, <3>1, <3>2, <3>3
  <2>9. \A q \in Tasks : task'[q].pc = "assigned" =>
           \A i \in DOMAIN history' : history'[i].seq # task'[q].ev.seq
    <3> SUFFICES ASSUME NEW q \in Tasks, task'[q].pc = "assigned", NEW i \in DOMAIN history'
                 PROVE  history'[i].seq # task'[q].ev.seq
      BY Zenon
    <3>1. q # p /\ task'[q] = task[q]
      BY Zenon, <2>1
    <3>2. e.seq # task[q].ev.seq
      BY Zenon, <2>2, <3>1
    <3>3. \A m \in DOMAIN history : history[m].seq # task[q].ev.seq
      BY Zenon, <1>1, <3>1
    <3>4. QED
      BY Zenon, <2>o, <3>1, <3>2, <3>3
  <2>10. \A q \in Tasks : task'[q].pc = "logged" =>
           \E i \in DOMAIN history' : history'[i] = task'[q].ev
    <3> SUFFICES ASSUME NEW q \in Tasks, task'[q].pc = "logged"
                 PROVE  \E i \in DOMAIN history' : history'[i] = task'[q].ev
      BY Zenon
    <3>1. CASE q = p
      BY Zenon, <2>1, <2>k, <3>1
    <3>2. CASE q # p
      <4>1. task'[q] = task[q]
        BY Zenon, <2>1, <3>2
      <4>2. PICK i \in DOMAIN history : history[i] = task[q].ev
        BY Zenon, <1>1, <4>1
      <4>3. QED
        BY Zenon, <2>k, <4>1, <4>2
    <3>3. QED
      BY Zenon, <3>1, <3>2
  <2>11. QED
    BY ZenonT(30), <2>6, <2>7, <2>8, <2>9, <2>10 DEF HistoryInv
<1>5. ASSUME NEW p \in Tasks, Offers(p) PROVE HistoryInv'
  <2>1. /\ UNCHANGED <<seq, history>> /\ dispatched' = dispatched \cup {task[p].ev.seq}
        /\ task[p].pc = "logged" /\ task'[p].pc \notin {"assigned", "logged"}
        /\ \A q \in Tasks \ {p} : task'[q] = task[q]
    BY Zenon, <1>5 DEF Offers
  <2>2. \A n \in dispatched' : \E i \in DOMAIN history : history[i].seq = n
    <3>1. PICK i \in DOMAIN history : history[i] = task[p].ev
      BY Zenon, <1>1, <2>1
    <3>2. QED
      BY ZenonT(60), <1>1, <2>1, <3>1
  <2>3. \A q \in Tasks : task'[q].pc = "assigned" \/ task'[q].pc = "logged" => task'[q] = task[q]
    BY Zenon, <2>1
  <2>4. QED
    <3>1. \A n \in dispatched' : \E i \in DOMAIN history' : history'[i].seq = n
      BY Zenon, <2>1, <2>2
    <3>2. \A q \in Tasks : task'[q].pc = "assigned" =>
             \A i \in DOMAIN history' : history'[i].seq # task'[q].ev.seq
      <4> SUFFICES ASSUME NEW q \in Tasks, task'[q].pc = "assigned"
                   PROVE  \A i \in DOMAIN history : history[i].seq # task'[q].ev.seq
        BY Zenon, <2>1
      <4>1. task'[q] = task[q]
        BY Zenon, <2>3
      <4>2. QED
        BY ZenonT(60), <1>1, <4>1
    <3>3. \A q \in Tasks : task'[q].pc = "logged" =>
             \E i \in DOMAIN history' : history'[i] = task'[q].ev
      <4> SUFFICES ASSUME NEW q \in Tasks, task'[q].pc = "logged"
                   PROVE  \E i \in DOMAIN history : history[i] = task'[q].ev
        BY Zenon, <2>1
      <4>1. task'[q] = task[q]
        BY Zenon, <2>3
      <4>2. QED
        BY ZenonT(60), <1>1, <4>1
    <3>4. /\ \A i \in DOMAIN history' : history'[i].seq \in 1..seq'
          /\ \A i, k \in DOMAIN history' : i # k => history'[i].seq # history'[k].seq
      BY ZenonT(60), <1>1, <2>1
    <3>5. QED
      BY Zenon, <3>1, <3>2, <3>3, <3>4 DEF HistoryInv
<1>6. QED
  BY Zenon, <1>2, <1>3, <1>4, <1>5, NumberMoves

\* EventLog::push: the log is the end of the history.
LogInv ==
  /\ Len(log) <= Len(history)
  /\ \A k \in DOMAIN log : log[k] = history[Len(history) - Len(log) + k]
  /\ history # <<>> => log # <<>>

LEMMA LogInit == BusInit => LogInv
BY DEF BusInit, LogInv

LEMMA LogStep ==
  ASSUME BusTypes, LogInv, [BusNext]_busVars
  PROVE  LogInv'
<1>1. log \in Seq(Recs) /\ history \in Seq(Recs)
  BY Zenon DEF BusTypes
<1>2. CASE UNCHANGED <<log, history>>
  BY Zenon, <1>2 DEF LogInv
<1>3. ASSUME NEW p \in Tasks, Logs(p) PROVE LogInv'
  <2> DEFINE e == task[p].ev
             l == IF Len(log) >= Capacity THEN Tail(log) ELSE log
             n == Len(history)
             m == Len(l)
  <2>1. e \in Recs /\ history' = Append(history, e) /\ log' = Append(l, e)
    BY Zenon, <1>3 DEF Logs, push
  <2> HIDE DEF e
  <2>2. /\ l \in Seq(Recs) /\ m \in Nat /\ n \in Nat /\ m <= n
        /\ \A k \in 1..m : l[k] = history[n - m + k]
    <3>1. CASE Len(log) >= Capacity
      <4>1. log # <<>> /\ l = Tail(log)
        <5>1. Len(log) >= Capacity => log # <<>>
          BY EventsAssumption
        <5>2. QED
          BY Zenon, <3>1, <5>1
      <4>2. /\ l \in Seq(Recs) /\ m = Len(log) - 1 /\ Len(log) >= 1
            /\ \A k \in 1..m : l[k] = log[k + 1]
        <5> HIDE DEF l
        <5>1. /\ Tail(log) \in Seq(Recs) /\ Len(Tail(log)) = Len(log) - 1 /\ Len(log) >= 1
              /\ \A k \in 1..(Len(log) - 1) : Tail(log)[k] = log[k + 1]
          BY Zenon, <1>1, <4>1, TailShape
        <5>2. QED
          BY Zenon, <4>1, <5>1
      <4> HIDE DEF l
      <4>3. Len(log) \in Nat /\ n \in Nat /\ Len(log) <= n /\ DOMAIN log = 1..Len(log)
        BY <1>1 DEF LogInv
      <4> HIDE DEF m, n
      <4>4. \A k \in 1..m : k + 1 \in 1..Len(log) /\ n - m + k = n - Len(log) + (k + 1)
        BY <4>2, <4>3
      <4>5. \A k \in 1..m : log[k + 1] = history[n - Len(log) + (k + 1)]
        BY Zenon, <4>3, <4>4 DEF LogInv, n
      <4>6. \A k \in 1..m : l[k] = history[n - m + k]
        BY Zenon, <4>2, <4>4, <4>5
      <4>7. m \in Nat /\ m <= n
        <5>1. m = Len(log) - 1 /\ Len(log) >= 1
          BY Zenon, <4>2
        <5>2. QED
          BY <4>3, <5>1
      <4>8. QED
        BY Zenon, <4>2, <4>3, <4>6, <4>7
    <3>2. CASE ~(Len(log) >= Capacity)
      BY <1>1, <3>2 DEF LogInv
    <3>3. QED
      BY ZenonT(30), <3>1, <3>2
  <2> HIDE DEF l
  <2>3. /\ Len(log') = m + 1 /\ log'[m + 1] = e /\ \A k \in 1..m : log'[k] = l[k]
        /\ Len(history') = n + 1 /\ history'[n + 1] = e
        /\ \A k \in 1..n : history'[k] = history[k]
        /\ DOMAIN log' = 1..(m + 1) /\ log' # <<>>
    <3>1. /\ Len(log') = m + 1 /\ \A k \in 1..m : log'[k] = l[k]
      BY Zenon, <2>1, <2>2, AppendKeeps
    <3>2. log'[m + 1] = e /\ DOMAIN log' = 1..(m + 1) /\ log' # <<>>
      BY Zenon, <2>1, <2>2, AppendShape
    <3>3. /\ Len(history') = n + 1 /\ \A k \in 1..n : history'[k] = history[k]
      BY Zenon, <1>1, <2>1, AppendKeeps
    <3>4. history'[n + 1] = e
      BY Zenon, <1>1, <2>1, AppendShape
    <3>5. QED
      BY Zenon, <3>1, <3>2, <3>3, <3>4
  <2> HIDE DEF n, m
  <2>4. ASSUME NEW k \in 1..(m + 1) PROVE log'[k] = history'[(n + 1) - (m + 1) + k]
    <3>1. (n + 1) - (m + 1) + k = n - m + k
      BY <2>2
    <3>2. CASE k = m + 1
      <4>1. n - m + k = n + 1
        BY <2>2, <3>2
      <4>2. QED
        BY Zenon, <2>3, <3>1, <3>2, <4>1
    <3>3. CASE k # m + 1
      <4>1. k \in 1..m /\ n - m + k \in 1..n
        BY <2>2, <3>3
      <4>2. QED
        BY Zenon, <2>2, <2>3, <3>1, <4>1
    <3>4. QED
      BY Zenon, <3>2, <3>3
  <2>5. QED
    BY <2>2, <2>3, <2>4 DEF LogInv
<1>4. QED
  BY Zenon, <1>2, <1>3, NumberMoves DEF Aside, Numbers, Offers

-----------------------------------------------------------------------------
(* The steps, as subscriptions see them.                                   *)

Joining(c) == task[c].pc \in {"replay", "register"}
Opening(c) == task[c].pc \in {"replay", "register", "answer"}

Same(c) == \A q \in Conns \ {c} : task'[q] = task[q]

\* No subscription begins or ends; a subscriber may go, or ask for less.
Steady ==
  /\ UNCHANGED <<asked, closed, relaying, current, start>>
  /\ \A c \in Conns : Opening(c) \/ Opening(c)' => task'[c] = task[c]
  /\ \A s \in subs' : \E r \in subs : /\ r.id = s.id /\ r.conn = s.conn
                                      /\ r.identity = s.identity /\ s.topics \subseteq r.topics

\* handle_subscribe's first step ...
Begins(c) ==
  /\ ~Opening(c)
  /\ asked' = asked + 1 /\ asked + 1 \in Subs
  /\ subs' = Without(subs, {current[c]})
  /\ current' = [current EXCEPT ![c] = 0]
  /\ task'[c].pc = "replay" /\ task'[c].sub.id = asked + 1 /\ task'[c].sub.conn = c
  /\ Same(c)
  /\ UNCHANGED <<log, rx, closed, relaying, wire, book>>

\* ... its reading of the log ...
Reads(c) ==
  LET t == task[c] IN
  /\ t \in Looking /\ t.pc = "replay"
  /\ task'[c] = [pc |-> "register", sub |-> t.sub, replay |-> Replay(t.since, t.sub)]
  /\ start' = [start EXCEPT ![t.sub.id] =
                 [sub |-> t.sub, since |-> t.since, gap |-> Gap(t.since),
                  upto |-> Len(history), before |-> {}]]
  /\ Same(c)
  /\ UNCHANGED <<asked, log, subs, rx, closed, relaying, current, wire, history,
                 dispatched, missed>>

\* ... its registration ...
Enters(c) ==
  LET t == task[c] IN
  /\ t \in Entering /\ t.pc = "register"
  /\ subs' = subs \cup {t.sub}
  /\ current' = [current EXCEPT ![c] = t.sub.id]
  /\ start' = [start EXCEPT ![t.sub.id] = [start[t.sub.id] EXCEPT !.before = dispatched]]
  /\ task'[c] = [t EXCEPT !.pc = "answer"]
  /\ Same(c)
  /\ UNCHANGED <<asked, log, rx, closed, relaying, wire, history, dispatched, missed>>

\* ... and its answer.
Replies(c) ==
  LET t == task[c] IN
  /\ t \in Entering /\ t.pc = "answer"
  /\ wire' = [wire EXCEPT ![c] = @ \o Written(t.replay, t.sub.id)]
  /\ relaying' = relaying \cup {t.sub.id}
  /\ task'[c].pc = "idle"
  /\ Same(c)
  /\ UNCHANGED <<asked, log, subs, rx, closed, current, book>>

LEMMA SubMoves ==
  ASSUME BusTypes, [BusNext]_busVars
  PROVE  \/ Steady /\ UNCHANGED <<rx, wire, dispatched, missed>>
         \/ Steady /\ UNCHANGED <<subs, wire, history>> /\ \E p \in Tasks : Dispatch(p)
         \/ Steady /\ UNCHANGED <<history, dispatched, missed>> /\ \E id \in Subs : Relay(id)
         \/ \E id \in Subs : RelayFails(id)
         \/ \E c \in Conns : Begins(c) \/ Reads(c) \/ Enters(c) \/ Replies(c)
<1> DEFINE Quiet == Steady /\ UNCHANGED <<rx, wire, dispatched, missed>>
<1>1. /\ task \in [Tasks -> Jobs] /\ subs \in SUBSET Asks
      /\ asked \in 0..MaxSubs /\ MaxSubs \in Nat
      /\ Loop \in Tasks /\ \A c \in Conns : c \in Tasks
      /\ \A c \in Emitters \cup Subscribers : c \in Conns
  BY ZenonT(30), EventsAssumption DEF BusTypes, Tasks
<1>2. ASSUME NEW p \in Tasks, NEW t, Become(p, t), t.pc \notin {"replay", "register", "answer"},
             task[p].pc \notin {"replay", "register", "answer"}
      PROVE  \A c \in Conns : Opening(c) \/ Opening(c)' => task'[c] = task[c]
  BY Zenon, <1>1, <1>2, Became DEF Opening
<1>3. \A s \in subs : s.topics \subseteq s.topics
  BY ZenonT(30)
<1>4. ASSUME NEW p \in Tasks, NEW t \in Topics, task[p] = Resting, Assign(p, t) PROVE Quiet
  <2>1. LET j == [pc |-> "assigned", ev |-> [seq |-> seq + 1, topic |-> t, source |-> p]]
        IN Become(p, j)
    BY ZenonT(30), <1>4, AssignFacts
  <2>2. \A c \in Conns : Opening(c) \/ Opening(c)' => task'[c] = task[c]
    BY ZenonT(30), <1>2, <1>4, <2>1, RestingJob
  <2>3. QED
    BY ZenonT(30), <1>3, <1>4, <2>2 DEF Assign, Steady, book
<1>5. ASSUME NEW t \in Topics, Emit(t) PROVE Quiet
  BY ZenonT(30), <1>3, <1>5 DEF Emit, Steady, book
<1>6. ASSUME Receive PROVE Quiet
  BY ZenonT(30), <1>1, <1>4, <1>6, SeqFacts DEF Receive, BusTypes
<1>7. ASSUME NEW c \in Emitters, NEW t \in Topics, EmitExternal(c, t) PROVE Quiet
  BY Zenon, <1>1, <1>4, <1>7 DEF EmitExternal
<1>8. ASSUME NEW p \in Tasks, LogEvent(p) PROVE Quiet
  <2>1. task[p] \in Numbered
    BY Zenon, <1>1, <1>8, JobKinds DEF LogEvent
  <2>2. [task[p] EXCEPT !.pc = "logged"].pc = "logged"
    BY Zenon, <2>1, RecordFacts
  <2>3. \A c \in Conns : Opening(c) \/ Opening(c)' => task'[c] = task[c]
    BY ZenonT(30), <1>2, <1>8, <2>2 DEF LogEvent
  <2>4. QED
    BY Zenon, <1>3, <1>8, <2>3 DEF LogEvent, Steady
<1>9. ASSUME NEW p \in Tasks, Dispatch(p) PROVE Steady /\ UNCHANGED <<subs, wire, history>>
  <2>1. PICK out : Become(p, IF out = {} THEN Resting ELSE [pc |-> "sent", out |-> out])
    BY ZenonT(30), <1>9 DEF Dispatch
  <2>2. (IF out = {} THEN Resting ELSE [pc |-> "sent", out |-> out]).pc \in {"idle", "sent"}
    BY ZenonT(30), RestingJob
  <2>3. \A c \in Conns : Opening(c) \/ Opening(c)' => task'[c] = task[c]
    BY ZenonT(30), <1>2, <1>9, <2>1, <2>2 DEF Dispatch
  <2>4. QED
    BY ZenonT(30), <1>3, <1>9, <2>3 DEF Dispatch, Steady
<1>10. ASSUME NEW p \in Tasks, CleanUp(p) PROVE Quiet
  <2>1. \A c \in Conns : Opening(c) \/ Opening(c)' => task'[c] = task[c]
    BY ZenonT(30), <1>2, <1>10, RestingJob DEF CleanUp
  <2>2. QED
    BY ZenonT(30), <1>3, <1>10, <2>1 DEF CleanUp, Steady, Without, book
<1>11. ASSUME NEW c \in Subscribers, NEW ts, NEW name, NEW since, NEW o,
              Subscribe(c, ts, name, since, o)
       PROVE  c \in Conns /\ Begins(c)
  <2> DEFINE a == [id |-> asked + 1, conn |-> c, identity |-> name, topics |-> ts, overflow |-> o]
             j == [pc |-> "replay", since |-> since, sub |-> a]
  <2>1. Become(c, j) /\ j.pc = "replay" /\ j.sub = a /\ a.id = asked + 1 /\ a.conn = c
    BY ZenonT(30), <1>11 DEF Subscribe
  <2> HIDE DEF j, a
  <2>2. task'[c] = j /\ Same(c) /\ c \in Conns
    BY ZenonT(30), <1>1, <2>1, Became DEF Same
  <2>3. ~Opening(c) /\ asked + 1 \in Subs
    BY <1>1, <1>11, RestingJob DEF Subscribe, Opening, Subs
  <2>4. QED
    BY ZenonT(30), <1>11, <2>1, <2>2, <2>3 DEF Subscribe, Begins
<1>12. ASSUME NEW c \in Conns, ReadLog(c) PROVE Reads(c)
  <2>1. task[c] \in Looking
    BY ZenonT(30), <1>1, <1>12, JobKinds DEF ReadLog
  <2>2. task'[c] = [pc |-> "register", sub |-> task[c].sub,
                    replay |-> Replay(task[c].since, task[c].sub)]
        /\ Same(c)
    BY ZenonT(30), <1>1, <1>12, Became DEF ReadLog, Same
  <2>3. QED
    BY ZenonT(30), <1>12, <2>1, <2>2 DEF ReadLog, Reads, router
<1>13. ASSUME NEW c \in Conns, Register(c) PROVE Enters(c)
  <2>1. task[c] \in Entering
    BY Zenon, <1>1, <1>13, JobKinds DEF Register
  <2>2. task'[c] = [task[c] EXCEPT !.pc = "answer"] /\ Same(c)
    BY ZenonT(30), <1>1, <1>13, Became DEF Register, Same
  <2>3. QED
    BY Zenon, <1>13, <2>1, <2>2 DEF Register, Enters
<1>14. ASSUME NEW c \in Conns, AnswerSubscribe(c) PROVE Replies(c)
  <2>1. task[c] \in Entering
    BY ZenonT(30), <1>1, <1>14, JobKinds DEF AnswerSubscribe
  <2>2. task'[c].pc = "idle" /\ Same(c)
    BY Zenon, <1>1, <1>14, Became, RestingJob DEF AnswerSubscribe, Same
  <2>3. QED
    BY ZenonT(30), <1>14, <2>1, <2>2 DEF AnswerSubscribe, Replies, Written, router
<1>15. ASSUME NEW c, NEW ts, Unsubscribe(c, ts) PROVE Quiet
  <2>1. ASSUME NEW s \in subs
        PROVE  LET z == [s EXCEPT !.topics = s.topics \ ts]
               IN z.id = s.id /\ z.conn = s.conn /\ z.identity = s.identity
                  /\ z.topics \subseteq s.topics
    BY Zenon, <1>1 DEF Asks
  <2>2. \A s \in subs' : \E r \in subs : /\ r.id = s.id /\ r.conn = s.conn
                                         /\ r.identity = s.identity
                                         /\ s.topics \subseteq r.topics
    <3>1. PICK r \in subs : subs' \subseteq subs \cup {[r EXCEPT !.topics = r.topics \ ts]}
      BY Zenon, <1>15 DEF Unsubscribe
    <3>2. QED
      BY ZenonT(30), <1>3, <2>1, <3>1
  <2>3. QED
    BY Zenon, <1>15, <2>2 DEF Unsubscribe, Steady, book
<1>16. ASSUME NEW id \in Subs, Relay(id) PROVE Steady /\ UNCHANGED <<history, dispatched, missed>>
  BY Zenon, <1>3, <1>16 DEF Relay, Steady, book
<1>17. ASSUME NEW c, HangUp(c) PROVE Quiet
  BY Zenon, <1>3, <1>17 DEF HangUp, Steady, router, book
<1>18. ASSUME NEW c \in Conns, Disconnect(c) PROVE Quiet
  <2>1. [pc |-> "ended"].pc \notin {"replay", "register", "answer"}
    BY ZenonT(30)
  <2>2. \A d \in Conns : Opening(d) \/ Opening(d)' => task'[d] = task[d]
    BY ZenonT(30), <1>1, <1>2, <1>18, <2>1, RestingJob DEF Disconnect
  <2>3. QED
    BY Zenon, <1>3, <1>18, <2>2 DEF Disconnect, Steady, Without, book
<1>19. ASSUME UNCHANGED busVars PROVE Quiet
  BY ZenonT(30), <1>3, <1>19 DEF busVars, Steady, router, book
<1>20. QED
  BY ZenonT(30), <1>1, <1>5, <1>6, <1>7, <1>8, <1>9, <1>10, <1>11, <1>12, <1>13, <1>14, <1>15,
     <1>16, <1>17, <1>18, <1>19 DEF BusNext, Step, Handle

LEMMA EnteredInit == BusInit => Entered
<1> SUFFICES ASSUME BusInit PROVE Entered
  BY Zenon
<1>1. \A c \in Conns : task[c] = Resting
  BY ZenonT(30) DEF BusInit, Tasks
<1>2. QED
  BY Zenon, <1>1, RestingJob DEF Entered

\* What a subscription began from stays known.
LEMMA EnteredStep ==
  ASSUME BusTypes, Entered, [BusNext]_busVars
  PROVE  Entered' /\ \A id \in Subs : Known(id) => Known(id)'
<1>1. /\ start \in [Subs -> Starts \cup {Nothing}] /\ history \in Seq(Recs)
      /\ dispatched \in SUBSET Nat
  BY ZenonT(30) DEF BusTypes
<1>2. CASE Steady
  BY ZenonT(30), <1>2 DEF Steady, Entered, Known, Opening
<1>3. ASSUME NEW id \in Subs, RelayFails(id) PROVE Entered' /\ UNCHANGED start
  BY ZenonT(30), <1>3 DEF RelayFails, Entered, Known, book
<1>4. ASSUME NEW c \in Conns, Begins(c) PROVE Entered' /\ UNCHANGED start
  BY ZenonT(30), <1>4 DEF Begins, Same, Entered, Known, book
<1>5. ASSUME NEW c \in Conns, Reads(c)
      PROVE  Entered' /\ \A id \in Subs : Known(id) => Known(id)'
  <2> DEFINE t == task[c]
             b == [sub |-> t.sub, since |-> t.since, gap |-> Gap(t.since),
                   upto |-> Len(history), before |-> {}]
             a == t.sub
  <2>1. /\ start' = [start EXCEPT ![a.id] = b] /\ t \in Looking
        /\ task'[c] = [pc |-> "register", sub |-> a, replay |-> Replay(t.since, a)]
        /\ Same(c)
    BY ZenonT(30), <1>5 DEF Reads
  <2>2. a \in Asks /\ a.id \in Subs /\ t.since \in Nat
    BY ZenonT(30), <2>1 DEF Looking, Asks
  <2>3. b \in Starts
    <3>1. Len(history) \in Nat
      BY Zenon, <1>1, DomainFacts
    <3>2. Gap(t.since) \in BOOLEAN
      BY ZenonT(60) DEF Gap
    <3>3. QED
      BY Zenon, <2>2, <3>1, <3>2 DEF Starts
  <2>4. task'[c].sub = a
    BY <2>1
  <2> HIDE DEF b, t, a
  <2>5. start'[a.id] \in Starts /\ \A id \in Subs \ {a.id} : start'[id] = start[id]
    BY Zenon, <1>1, <2>1, <2>2, <2>3
  <2>6. \A id \in Subs : Known(id) => Known(id)'
    BY Zenon, <2>5 DEF Known
  <2>7. ASSUME NEW d \in Conns, d # c, task'[d].pc \in {"register", "answer"}
        PROVE  start'[task'[d].sub.id] \in Starts
    <3>1. task'[d] = task[d] /\ Known(task[d].sub.id)
      BY ZenonT(30), <2>1, <2>7 DEF Same, Entered
    <3>2. task[d].sub.id \in Subs
      BY <2>7, <3>1, JobKinds DEF BusTypes, Entering, Asks, Tasks
    <3>3. QED
      BY ZenonT(30), <2>6, <3>1, <3>2 DEF Known
  <2>8. start'[task'[c].sub.id] \in Starts
    BY Zenon, <2>4, <2>5 DEF Known
  <2>9. QED
    BY ZenonT(30), <2>6, <2>7, <2>8 DEF Entered, Known
<1>6. ASSUME NEW c \in Conns, Enters(c)
      PROVE  Entered' /\ \A id \in Subs : Known(id) => Known(id)'
  <2> DEFINE t == task[c]
             a == t.sub
             b == [start[a.id] EXCEPT !.before = dispatched]
  <2>1. /\ start' = [start EXCEPT ![a.id] = b] /\ t \in Entering /\ t.pc = "register"
        /\ task'[c] = [t EXCEPT !.pc = "answer"] /\ Same(c)
    BY Zenon, <1>6 DEF Enters
  <2>2. a \in Asks /\ a.id \in Subs /\ task'[c].sub = a
    BY Zenon, <2>1 DEF Entering, Asks
  <2>3. start[a.id] \in Starts
    BY Zenon, <2>1 DEF Entered, Known
  <2>4. b \in Starts
    BY ZenonT(30), <1>1, <2>3 DEF Starts
  <2> HIDE DEF b, t, a
  <2>5. start'[a.id] \in Starts /\ \A id \in Subs \ {a.id} : start'[id] = start[id]
    BY Zenon, <1>1, <2>1, <2>2, <2>4
  <2>6. \A id \in Subs : Known(id) => Known(id)'
    BY Zenon, <2>5 DEF Known
  <2>7. ASSUME NEW d \in Conns, d # c, task'[d].pc \in {"register", "answer"}
        PROVE  start'[task'[d].sub.id] \in Starts
    <3>1. task'[d] = task[d] /\ Known(task[d].sub.id)
      BY Zenon, <2>1, <2>7 DEF Same, Entered
    <3>2. task[d].sub.id \in Subs
      BY <2>7, <3>1, JobKinds DEF BusTypes, Entering, Asks, Tasks
    <3>3. QED
      BY Zenon, <2>6, <3>1, <3>2 DEF Known
  <2>8. start'[task'[c].sub.id] \in Starts
    BY Zenon, <2>2, <2>5 DEF Known
  <2>9. QED
    BY Zenon, <2>6, <2>7, <2>8 DEF Entered, Known
<1>7. ASSUME NEW c \in Conns, Replies(c) PROVE Entered' /\ UNCHANGED start
  BY ZenonT(30), <1>7 DEF Replies, Same, Entered, Known, book
<1>8. QED
  BY ZenonT(30), <1>2, <1>3, <1>4, <1>5, <1>6, <1>7, SubMoves DEF Steady, Known

\* Only a registered subscriber's channel gets its first event.
LEMMA RxMoves ==
  ASSUME BusTypes, [BusNext]_busVars
  PROVE  \A id \in Subs : rx'[id] # <<>> => rx[id] # <<>> \/ \E s \in subs : s.id = id
<1>1. rx \in [Subs -> Seq(Recs)]
  BY Zenon DEF BusTypes
<1>2. ASSUME NEW p \in Tasks, Dispatch(p), NEW id \in Subs, rx'[id] # <<>>
      PROVE  rx[id] # <<>> \/ \E s \in subs : s.id = id
  BY ZenonT(30), <1>1, <1>2 DEF Dispatch, Ids
<1>3. ASSUME NEW i \in Subs, Relay(i) \/ RelayFails(i), NEW id \in Subs, rx'[id] # <<>>
      PROVE  rx[id] # <<>>
  BY ZenonT(30), <1>1, <1>3 DEF Relay, RelayFails
<1>4. QED
  BY ZenonT(30), <1>2, <1>3, SubMoves DEF Begins, Reads, Enters, Replies

-----------------------------------------------------------------------------
(* Subscriptions: an id is used once, a connection has one at a time.      *)

Unused(id) == rx[id] = <<>> /\ id \notin relaying \cup closed /\ \A s \in subs : s.id # id

SubInv ==
  /\ \A id \in Subs : id > asked => Unused(id)
  /\ \A s \in subs : /\ current[s.conn] = s.id /\ Known(s.id)
                     /\ s.conn = start[s.id].sub.conn
                     /\ s.identity = start[s.id].sub.identity
                     /\ s.topics \subseteq start[s.id].sub.topics
  /\ \A c \in Conns : Opening(c) => task[c].sub.conn = c /\ task[c].sub.id \in 1..asked
  /\ \A c \in Conns, id \in Subs : Joining(c) /\ task[c].sub.id = id =>
       Unused(id) /\ current[c] = 0
  /\ \A c \in Conns : task[c].pc = "answer" => task[c].sub.id \notin relaying \cup closed
  /\ \A c \in Conns : task[c].pc \in {"register", "answer"} =>
                        start[task[c].sub.id].sub = task[c].sub
  /\ \A c, d \in Conns : c # d /\ Opening(c) /\ Opening(d) => task[c].sub.id # task[d].sub.id
  /\ \A id \in relaying : Known(id)
  /\ relaying \cap closed = {}

LEMMA SubInit == BusInit => SubInv
<1> SUFFICES ASSUME BusInit PROVE SubInv
  BY Zenon
<1>1. \A c \in Conns : task[c] = Resting
  BY Zenon DEF BusInit, Tasks
<1>2. \A c \in Conns : ~Opening(c) /\ ~Joining(c) /\ task[c].pc = "idle"
  BY Zenon, <1>1, RestingJob DEF Opening, Joining
<1>3. \A id \in Subs : Unused(id)
  BY Zenon DEF BusInit, Unused
<1>4. subs = {} /\ relaying = {}
  BY Zenon DEF BusInit
<1>5. QED
  BY Zenon, <1>2, <1>3, <1>4 DEF SubInv


LEMMA SubStep ==
  ASSUME BusTypes, Entered, SubInv, [BusNext]_busVars
  PROVE  SubInv'
<1>1. /\ \A id \in Subs : id > asked => Unused(id)
      /\ \A s \in subs : /\ current[s.conn] = s.id /\ Known(s.id)
                         /\ s.conn = start[s.id].sub.conn
                         /\ s.identity = start[s.id].sub.identity
                         /\ s.topics \subseteq start[s.id].sub.topics
      /\ \A c \in Conns : Opening(c) => task[c].sub.conn = c /\ task[c].sub.id \in 1..asked
      /\ \A c \in Conns, id \in Subs : Joining(c) /\ task[c].sub.id = id =>
           Unused(id) /\ current[c] = 0
      /\ \A c \in Conns : task[c].pc = "answer" => task[c].sub.id \notin relaying \cup closed
      /\ \A c \in Conns : task[c].pc \in {"register", "answer"} =>
                            start[task[c].sub.id].sub = task[c].sub
      /\ \A c, d \in Conns : c # d /\ Opening(c) /\ Opening(d) =>
                               task[c].sub.id # task[d].sub.id
      /\ \A id \in relaying : Known(id)
      /\ relaying \cap closed = {}
  BY Zenon DEF SubInv
<1>2. /\ asked \in Nat /\ Subs = 1..MaxSubs /\ MaxSubs \in Nat /\ subs \in SUBSET Asks
      /\ relaying \in SUBSET Subs /\ current \in [Conns -> Nat]
      /\ start \in [Subs -> Starts \cup {Nothing}] /\ task \in [Tasks -> Jobs]
      /\ Conns \subseteq Tasks
  BY EventsAssumption DEF BusTypes, Subs, Tasks
<1>3. \A s \in Asks : s.id \in Subs /\ s.conn \in Conns /\ s.id \in Nat /\ s.id # 0
  BY <1>2 DEF Asks
<1>4. \A c \in Conns : Opening(c) => task[c].sub \in Asks
  BY <1>2, JobKinds DEF Opening, Looking, Entering
<1>5. \A id \in Subs : Known(id) => Known(id)'
  BY Zenon, EnteredStep
<1>6. \A id \in Subs : rx'[id] # <<>> => rx[id] # <<>> \/ \E s \in subs : s.id = id
  BY Zenon, RxMoves
<1>7. \A c \in Conns : Joining(c) => Opening(c) /\ task[c].pc # "answer"
  BY Zenon DEF Joining, Opening
<1>8. CASE Steady
  <2>1. /\ UNCHANGED <<asked, closed, relaying, current, start>>
        /\ \A c \in Conns : Opening(c)' => task'[c] = task[c]
        /\ \A s \in subs' : \E r \in subs : /\ r.id = s.id /\ r.conn = s.conn
                                            /\ r.identity = s.identity
                                            /\ s.topics \subseteq r.topics
    BY Zenon, <1>8 DEF Steady
  <2>2. \A id \in Subs : Unused(id) => Unused(id)'
    BY <1>6, <2>1 DEF Unused
  <2>3. \A c \in Conns : (Opening(c)' => task'[c] = task[c] /\ Opening(c))
                         /\ (Joining(c)' => task'[c] = task[c] /\ Joining(c) /\ Opening(c))
    BY ZenonT(60), <2>1 DEF Opening, Joining
  <2>4. \A s \in subs' : /\ current'[s.conn] = s.id /\ Known(s.id)'
                         /\ s.conn = start'[s.id].sub.conn
                         /\ s.identity = start'[s.id].sub.identity
                         /\ s.topics \subseteq start'[s.id].sub.topics
    BY <1>1, <2>1 DEF Known
  <2>5. \A c \in Conns, id \in Subs : Joining(c)' /\ task'[c].sub.id = id =>
           Unused(id)' /\ current'[c] = 0
    BY ZenonT(60), <1>1, <2>1, <2>2, <2>3
  <2>6. \A id \in Subs : id > asked' => Unused(id)'
    BY Zenon, <1>1, <2>1, <2>2
  <2>7. \A c \in Conns :
          /\ Opening(c)' => task'[c].sub.conn = c /\ task'[c].sub.id \in 1..asked'
          /\ task'[c].pc = "answer" => task'[c].sub.id \notin relaying' \cup closed'
          /\ task'[c].pc \in {"register", "answer"} => start'[task'[c].sub.id].sub = task'[c].sub
    <3> TAKE c \in Conns
    <3>1. task'[c].pc \in {"register", "answer"} => Opening(c)'
      BY Zenon DEF Opening
    <3>2. QED
      BY ZenonT(60), <1>1, <2>1, <2>3, <3>1
  <2>8. \A c, d \in Conns : c # d /\ Opening(c)' /\ Opening(d)' =>
                               task'[c].sub.id # task'[d].sub.id
    BY <1>1, <2>1, <2>3
  <2>9. \A id \in relaying' : Known(id)'
    BY Zenon, <1>1, <2>1 DEF Known
  <2>10. relaying' \cap closed' = {}
    BY ZenonT(30), <1>1, <2>1
  <2>11. QED
    BY Zenon, <2>4, <2>5, <2>6, <2>7, <2>8, <2>9, <2>10 DEF SubInv
<1>9. ASSUME NEW i \in Subs, RelayFails(i) PROVE SubInv'
  <2>1. /\ i \in relaying /\ relaying' = relaying \ {i} /\ closed' = closed \cup {i}
        /\ UNCHANGED <<asked, subs, current, start, task>>
    BY Zenon, <1>9 DEF RelayFails, book
  <2>2. \A id \in Subs : Unused(id) => Unused(id)'
    BY Zenon, <1>6, <2>1 DEF Unused
  <2>3. \A c \in Conns : (Opening(c)' <=> Opening(c)) /\ (Joining(c)' <=> Joining(c))
    BY Zenon, <2>1 DEF Opening, Joining
  <2>4. \A id : Known(id)' <=> Known(id)
    BY Zenon, <2>1 DEF Known
  <2>5. relaying' \cap closed' = {} /\ relaying' \subseteq relaying
        /\ relaying' \cup closed' = relaying \cup closed
    BY ZenonT(30), <1>1, <2>1
  <2>6. QED
    BY ZenonT(30), <1>1, <2>1, <2>2, <2>3, <2>4, <2>5 DEF SubInv
<1>10. ASSUME NEW c \in Conns, Begins(c) PROVE SubInv'
  <2>1. /\ asked' = asked + 1 /\ asked + 1 \in Subs
        /\ subs' = {s \in subs : s.id # current[c]}
        /\ current' = [current EXCEPT ![c] = 0]
        /\ task'[c].pc = "replay" /\ task'[c].sub.id = asked + 1 /\ task'[c].sub.conn = c
        /\ \A q \in Conns \ {c} : task'[q] = task[q]
        /\ UNCHANGED <<rx, closed, relaying, start>>
    BY Zenon, <1>10 DEF Begins, Same, Without, book
  <2>2. \A id \in Subs : Unused(id) => Unused(id)'
    BY Zenon, <2>1 DEF Unused
  <2>3. Opening(c)' /\ Joining(c)'
        /\ \A d \in Conns \ {c} : (Opening(d)' <=> Opening(d)) /\ (Joining(d)' <=> Joining(d))
    BY Zenon, <2>1 DEF Opening, Joining
  <2>4. \A id : Known(id)' <=> Known(id)
    BY Zenon, <2>1 DEF Known
  <2>5. asked + 1 > asked /\ asked + 1 \notin 1..asked /\ 1..asked \subseteq 1..(asked + 1)
        /\ asked + 1 \in 1..(asked + 1) /\ \A id \in Subs : id > asked + 1 => id > asked
    BY <1>2
  <2>6. \A s \in subs' : s \in subs /\ s.conn \in Conns \ {c}
    BY ZenonT(30), <1>1, <1>2, <1>3, <2>1
  <2>7. \A s \in subs' : /\ current'[s.conn] = s.id /\ Known(s.id)'
                         /\ s.conn = start'[s.id].sub.conn
                         /\ s.identity = start'[s.id].sub.identity
                         /\ s.topics \subseteq start'[s.id].sub.topics
    BY ZenonT(30), <1>1, <1>2, <2>1, <2>4, <2>6
  <2>8. \A d \in Conns, id \in Subs : Joining(d)' /\ task'[d].sub.id = id =>
           Unused(id)' /\ current'[d] = 0
    <3> SUFFICES ASSUME NEW d \in Conns, NEW id \in Subs, Joining(d)', task'[d].sub.id = id
                 PROVE  Unused(id)' /\ current'[d] = 0
      BY Zenon
    <3>1. CASE d = c
      <4>1. id = asked + 1 /\ current'[d] = 0
        BY Zenon, <1>2, <2>1, <3>1
      <4>2. Unused(id)
        <5>1. id > asked
          BY Zenon, <2>5, <4>1
        <5>2. QED
          BY Zenon, <1>1, <5>1
      <4>3. QED
        BY Zenon, <2>2, <4>1, <4>2
    <3>2. CASE d # c
      <4>1. Joining(d) /\ task[d].sub.id = id /\ current'[d] = current[d]
        BY Zenon, <1>2, <2>1, <2>3, <3>2
      <4>2. Unused(id) /\ current[d] = 0
        BY Zenon, <1>1, <4>1
      <4>3. QED
        BY Zenon, <2>2, <4>1, <4>2
    <3>3. QED
      BY Zenon, <3>1, <3>2
  <2>9. \A id \in Subs : id > asked' => Unused(id)'
    BY ZenonT(30), <1>1, <2>1, <2>2, <2>5
  <2>10. \A d \in Conns :
          /\ Opening(d)' => task'[d].sub.conn = d /\ task'[d].sub.id \in 1..asked'
          /\ task'[d].pc = "answer" => task'[d].sub.id \notin relaying' \cup closed'
          /\ task'[d].pc \in {"register", "answer"} => start'[task'[d].sub.id].sub = task'[d].sub
    BY ZenonT(150), <1>1, <2>1, <2>3, <2>5
  <2>11. \A d, e \in Conns : d # e /\ Opening(d)' /\ Opening(e)' =>
                               task'[d].sub.id # task'[e].sub.id
    BY <1>1, <2>1, <2>3, <2>5
  <2>12. QED
    BY ZenonT(30), <1>1, <2>1, <2>4, <2>7, <2>8, <2>9, <2>10, <2>11 DEF SubInv
<1>11. ASSUME NEW c \in Conns, Reads(c) PROVE SubInv'
  <2> DEFINE t == task[c]
             a == t.sub
             b == [sub |-> a, since |-> t.since, gap |-> Gap(t.since),
                   upto |-> Len(history), before |-> {}]
  <2>1. /\ t.pc = "replay" /\ task'[c].pc = "register" /\ task'[c].sub = a
        /\ start' = [start EXCEPT ![a.id] = b]
        /\ \A q \in Conns \ {c} : task'[q] = task[q]
        /\ UNCHANGED <<asked, subs, rx, closed, relaying, current>>
    BY <1>11 DEF Reads, Same
  <2>2. Opening(c) /\ Joining(c) /\ a \in Asks /\ a.id \in Subs
    BY Zenon, <1>3, <1>4, <2>1 DEF Opening, Joining
  <2>3. b.sub = a
    BY Zenon
  <2> HIDE DEF b
  <2>4. start'[a.id].sub = a /\ \A id \in Subs \ {a.id} : start'[id] = start[id]
    BY Zenon, <1>2, <2>1, <2>2, <2>3
  <2>5. \A id \in Subs : Unused(id)' <=> Unused(id)
    BY Zenon, <2>1 DEF Unused
  <2>6. Opening(c)' /\ Joining(c)'
        /\ \A d \in Conns \ {c} : (Opening(d)' <=> Opening(d)) /\ (Joining(d)' <=> Joining(d))
    BY ZenonT(30), <2>1 DEF Opening, Joining
  <2>7. \A s \in subs : s.id \in Subs \ {a.id}
    BY ZenonT(150), <1>1, <1>2, <1>3, <2>2 DEF Unused
  <2>8. \A s \in subs' : /\ current'[s.conn] = s.id /\ Known(s.id)'
                         /\ s.conn = start'[s.id].sub.conn
                         /\ s.identity = start'[s.id].sub.identity
                         /\ s.topics \subseteq start'[s.id].sub.topics
    BY ZenonT(150), <1>1, <1>5, <2>1, <2>4, <2>7
  <2>9. \A d \in Conns \ {c} : task'[d].pc \in {"register", "answer"} =>
          /\ Opening(d) /\ task[d].sub.id \in Subs \ {a.id}
          /\ start'[task'[d].sub.id].sub = task'[d].sub
    <3> SUFFICES ASSUME NEW d \in Conns \ {c}, task'[d].pc \in {"register", "answer"}
                 PROVE  /\ Opening(d) /\ task[d].sub.id \in Subs \ {a.id}
                        /\ start'[task'[d].sub.id].sub = task'[d].sub
      BY ZenonT(30)
    <3>1. task'[d] = task[d] /\ Opening(d)
      BY ZenonT(30), <2>1 DEF Opening
    <3>2. task[d].sub.id \in Subs \ {a.id}
      BY ZenonT(30), <1>1, <1>3, <1>4, <2>2, <3>1
    <3>3. QED
      <4>1. start[task[d].sub.id].sub = task[d].sub
        BY Zenon, <1>1, <3>1
      <4>2. QED
        BY Zenon, <2>4, <3>1, <3>2, <4>1
  <2>10. \A id \in relaying' : Known(id)'
    BY ZenonT(30), <1>1, <1>2, <1>5, <2>1
  <2>11. \A d \in Conns, id \in Subs : Joining(d)' /\ task'[d].sub.id = id =>
           Unused(id)' /\ current'[d] = 0
    BY ZenonT(150), <1>1, <2>1, <2>2, <2>5, <2>6
  <2>12. \A d \in Conns :
          /\ Opening(d)' => task'[d].sub.conn = d /\ task'[d].sub.id \in 1..asked'
          /\ task'[d].pc = "answer" => task'[d].sub.id \notin relaying' \cup closed'
          /\ task'[d].pc \in {"register", "answer"} => start'[task'[d].sub.id].sub = task'[d].sub
    <3> TAKE d \in Conns
    <3>1. /\ task[d].pc = "answer" => task[d].sub.id \notin relaying \cup closed
          /\ Opening(d) => task[d].sub.conn = d /\ task[d].sub.id \in 1..asked
      BY Zenon, <1>1
    <3>2. CASE d = c
      BY Zenon, <2>1, <2>2, <2>4, <3>1, <3>2
    <3>3. CASE d # c
      BY ZenonT(60), <2>1, <2>6, <2>9, <3>1, <3>3
    <3>4. QED
      BY Zenon, <3>2, <3>3
  <2>13. \A d, e \in Conns : d # e /\ Opening(d)' /\ Opening(e)' =>
                               task'[d].sub.id # task'[e].sub.id
    <3> SUFFICES ASSUME NEW d \in Conns, NEW e \in Conns, d # e, Opening(d)', Opening(e)'
                 PROVE  task'[d].sub.id # task'[e].sub.id
      BY Zenon
    <3>1. \A q \in Conns : Opening(q)' => Opening(q) /\ task'[q].sub.id = task[q].sub.id
      BY Zenon, <2>1, <2>2, <2>6
    <3>2. Opening(d) /\ Opening(e) /\ task'[d].sub.id = task[d].sub.id
          /\ task'[e].sub.id = task[e].sub.id
      BY Zenon, <3>1
    <3>3. task[d].sub.id # task[e].sub.id
      BY Zenon, <1>1, <3>2
    <3>4. QED
      BY Zenon, <3>2, <3>3
  <2>14. QED
    BY ZenonT(30), <1>1, <2>1, <2>5, <2>8, <2>10, <2>11, <2>12, <2>13 DEF SubInv
<1>12. ASSUME NEW c \in Conns, Enters(c) PROVE SubInv'
  <2> DEFINE t == task[c]
             a == t.sub
             b == [start[a.id] EXCEPT !.before = dispatched]
  <2>1. /\ t.pc = "register" /\ t \in Entering /\ task'[c] = [t EXCEPT !.pc = "answer"]
        /\ start' = [start EXCEPT ![a.id] = b]
        /\ subs' = subs \cup {a} /\ current' = [current EXCEPT ![c] = a.id]
        /\ \A q \in Conns \ {c} : task'[q] = task[q]
        /\ UNCHANGED <<asked, rx, closed, relaying>>
    BY Zenon, <1>12 DEF Enters, Same
  <2>2. /\ Opening(c) /\ Joining(c) /\ a \in Asks /\ a.id \in Subs
        /\ task'[c].pc = "answer" /\ task'[c].sub = a
    BY ZenonT(30), <1>3, <1>4, <2>1, RecordFacts DEF Opening, Joining
  <2>3. start[a.id] \in Starts /\ start[a.id].sub = a /\ a.conn = c /\ a.id \in 1..asked
        /\ Unused(a.id) /\ current[c] = 0
    BY ZenonT(30), <1>1, <2>1, <2>2 DEF Entered, Known
  <2>4. b \in Starts /\ b.sub = a
    BY ZenonT(30), <2>3 DEF Starts, BusTypes
  <2> HIDE DEF b
  <2>5. start'[a.id].sub = a /\ \A id \in Subs \ {a.id} : start'[id] = start[id]
    BY Zenon, <1>2, <2>1, <2>2, <2>4
  <2>6. \A id \in Subs \ {a.id} : Unused(id) => Unused(id)'
    BY Zenon, <2>1 DEF Unused
  <2>7. Opening(c)' /\ ~Joining(c)'
        /\ \A d \in Conns \ {c} : (Opening(d)' <=> Opening(d)) /\ (Joining(d)' <=> Joining(d))
    BY ZenonT(60), <2>1, <2>2 DEF Opening, Joining
  <2>8. \A s \in subs : s.id \in Subs \ {a.id} /\ s.conn \in Conns \ {c}
    <3> SUFFICES ASSUME NEW s \in subs PROVE s.id \in Subs \ {a.id} /\ s.conn \in Conns \ {c}
      BY Zenon
    <3>1. s \in Asks /\ s.id \in Subs /\ s.conn \in Conns /\ s.id # 0 /\ current[s.conn] = s.id
      BY Zenon, <1>1, <1>2, <1>3
    <3>2. s.id # a.id
      BY Zenon, <2>3 DEF Unused
    <3>3. s.conn # c
      BY Zenon, <2>3, <3>1
    <3>4. QED
      BY Zenon, <3>1, <3>2, <3>3
  <2>9. \A s \in subs : /\ current'[s.conn] = s.id /\ Known(s.id)'
                        /\ s.conn = start'[s.id].sub.conn
                        /\ s.identity = start'[s.id].sub.identity
                        /\ s.topics \subseteq start'[s.id].sub.topics
    BY ZenonT(30), <1>1, <1>2, <1>5, <2>1, <2>5, <2>8
  <2>10. /\ current'[a.conn] = a.id /\ a.conn = start'[a.id].sub.conn
         /\ a.identity = start'[a.id].sub.identity
         /\ a.topics \subseteq start'[a.id].sub.topics
    BY ZenonT(150), <1>2, <2>1, <2>3, <2>5
  <2>11. \A id \in Subs : id = a.id => Known(id)'
    BY ZenonT(30), <1>5, <2>3 DEF Known
  <2>12. \A s \in subs' : /\ current'[s.conn] = s.id /\ Known(s.id)'
                          /\ s.conn = start'[s.id].sub.conn
                          /\ s.identity = start'[s.id].sub.identity
                          /\ s.topics \subseteq start'[s.id].sub.topics
    <3> TAKE s \in subs'
    <3>1. CASE s \in subs
      BY ZenonT(30), <2>9, <3>1
    <3>2. CASE s = a
      BY ZenonT(30), <2>2, <2>10, <2>11, <3>2
    <3>3. QED
      BY ZenonT(30), <2>1, <3>1, <3>2
  <2>13. \A d \in Conns \ {c} : Opening(d)' =>
          /\ Opening(d) /\ task'[d] = task[d] /\ task[d].sub.id \in Subs \ {a.id}
    BY ZenonT(30), <1>1, <1>3, <1>4, <2>1, <2>2, <2>7
  <2>14. \A d \in Conns : task'[d].pc \in {"register", "answer"} =>
                            start'[task'[d].sub.id].sub = task'[d].sub
    <3> SUFFICES ASSUME NEW d \in Conns, task'[d].pc \in {"register", "answer"}
                 PROVE  start'[task'[d].sub.id].sub = task'[d].sub
      BY Zenon
    <3>1. CASE d = c
      BY Zenon, <2>2, <2>5, <3>1
    <3>2. CASE d # c
      <4>1. /\ task'[d] = task[d] /\ task[d].sub.id \in Subs \ {a.id}
            /\ task[d].pc \in {"register", "answer"}
        BY Zenon, <2>13, <3>2 DEF Opening
      <4>2. start[task[d].sub.id].sub = task[d].sub
        BY Zenon, <1>1, <4>1
      <4>3. QED
        BY Zenon, <2>5, <4>1, <4>2
    <3>3. QED
      BY Zenon, <3>1, <3>2
  <2>15. \A d \in Conns, id \in Subs : Joining(d)' /\ task'[d].sub.id = id =>
           Unused(id)' /\ current'[d] = 0
    <3> SUFFICES ASSUME NEW d \in Conns, NEW id \in Subs, Joining(d)', task'[d].sub.id = id
                 PROVE  Unused(id)' /\ current'[d] = 0
      BY Zenon
    <3>1. d # c /\ Joining(d) /\ Opening(d)'
      BY Zenon, <2>7 DEF Joining, Opening
    <3>2. QED
      BY ZenonT(150), <1>1, <1>2, <2>1, <2>6, <2>13, <3>1
  <2>16. \A d \in Conns :
          /\ Opening(d)' => task'[d].sub.conn = d /\ task'[d].sub.id \in 1..asked'
          /\ task'[d].pc = "answer" => task'[d].sub.id \notin relaying' \cup closed'
    <3> TAKE d \in Conns
    <3>1. CASE d = c
      BY ZenonT(30), <2>1, <2>2, <2>3, <3>1 DEF Unused
    <3>2. CASE d # c
      <4>1. task'[d].pc = "answer" => Opening(d)'
        BY Zenon DEF Opening
      <4>2. QED
        BY ZenonT(60), <1>1, <2>1, <2>13, <3>2, <4>1
    <3>3. QED
      BY Zenon, <3>1, <3>2
  <2>17. \A d, e \in Conns : d # e /\ Opening(d)' /\ Opening(e)' =>
                               task'[d].sub.id # task'[e].sub.id
    <3>1. \A d \in Conns \ {c} : Opening(d)' => task'[d].sub.id # task'[c].sub.id
      BY ZenonT(30), <2>2, <2>13
    <3>2. \A d, e \in Conns \ {c} : d # e /\ Opening(d)' /\ Opening(e)' =>
                                      task'[d].sub.id # task'[e].sub.id
      <4> SUFFICES ASSUME NEW d \in Conns \ {c}, NEW e \in Conns \ {c}, d # e,
                          Opening(d)', Opening(e)'
                   PROVE  task'[d].sub.id # task'[e].sub.id
        BY Zenon
      <4>1. Opening(d) /\ task'[d] = task[d] /\ Opening(e) /\ task'[e] = task[e]
        BY Zenon, <2>13
      <4>2. task[d].sub.id # task[e].sub.id
        BY ZenonT(60), <1>1, <4>1
      <4>3. QED
        BY Zenon, <4>1, <4>2
    <3>3. QED
      BY ZenonT(30), <3>1, <3>2
  <2>18. \A id \in Subs : id > asked' => Unused(id)'
    <3> SUFFICES ASSUME NEW id \in Subs, id > asked PROVE Unused(id)'
      BY Zenon, <2>1
    <3>1. \A n \in 1..asked : ~(n > asked)
      BY <1>2
    <3>2. id # a.id /\ Unused(id)
      BY Zenon, <1>1, <2>3, <3>1
    <3>3. QED
      BY Zenon, <2>6, <3>2
  <2>19. \A id \in relaying' : Known(id)'
    BY ZenonT(30), <1>1, <1>2, <1>5, <2>1
  <2>20. QED
    BY ZenonT(30), <1>1, <2>1, <2>12, <2>14, <2>15, <2>16, <2>17, <2>18, <2>19 DEF SubInv
<1>13. ASSUME NEW c \in Conns, Replies(c) PROVE SubInv'
  <2> DEFINE t == task[c]
             a == t.sub
  <2>1. /\ t.pc = "answer" /\ task'[c].pc = "idle" /\ relaying' = relaying \cup {a.id}
        /\ \A q \in Conns \ {c} : task'[q] = task[q]
        /\ UNCHANGED <<asked, subs, rx, closed, current, start>>
    BY ZenonT(30), <1>13 DEF Replies, Same, book
  <2>2. Opening(c) /\ a \in Asks /\ a.id \in Subs /\ a.id \in 1..asked
        /\ a.id \notin relaying \cup closed /\ Known(a.id)
    BY ZenonT(30), <1>1, <1>3, <1>4, <2>1 DEF Opening, Entered
  <2>3. \A id \in Subs \ {a.id} : Unused(id) => Unused(id)'
    BY Zenon, <2>1 DEF Unused
  <2>4. ~Opening(c)' /\ ~Joining(c)'
        /\ \A d \in Conns \ {c} : (Opening(d)' <=> Opening(d)) /\ (Joining(d)' <=> Joining(d))
    BY Zenon, <2>1 DEF Opening, Joining
  <2>5. \A id : Known(id)' <=> Known(id)
    BY ZenonT(30), <2>1 DEF Known
  <2>6. \A d \in Conns : Opening(d)' =>
          d # c /\ Opening(d) /\ task'[d] = task[d] /\ task[d].sub.id \in Subs \ {a.id}
    BY ZenonT(30), <1>1, <1>3, <1>4, <2>1, <2>2, <2>4
  <2>7. \A d \in Conns : (Joining(d)' => Opening(d)')
                         /\ (task'[d].pc \in {"register", "answer"} => Opening(d)')
    BY ZenonT(30) DEF Joining, Opening
  <2>8. \A d \in Conns, id \in Subs : Joining(d)' /\ task'[d].sub.id = id =>
           Unused(id)' /\ current'[d] = 0
    BY ZenonT(30), <1>1, <2>1, <2>3, <2>4, <2>6, <2>7
  <2>9. \A d \in Conns :
          /\ Opening(d)' => task'[d].sub.conn = d /\ task'[d].sub.id \in 1..asked'
          /\ task'[d].pc = "answer" => task'[d].sub.id \notin relaying' \cup closed'
          /\ task'[d].pc \in {"register", "answer"} => start'[task'[d].sub.id].sub = task'[d].sub
    <3> TAKE d \in Conns
    <3>1. CASE Opening(d)'
      <4>1. Opening(d) /\ task'[d] = task[d] /\ task[d].sub.id \in Subs \ {a.id}
        BY Zenon, <2>6, <3>1
      <4>2. /\ task[d].sub.conn = d /\ task[d].sub.id \in 1..asked
            /\ task[d].pc = "answer" => task[d].sub.id \notin relaying \cup closed
            /\ task[d].pc \in {"register", "answer"} => start[task[d].sub.id].sub = task[d].sub
        BY Zenon, <1>1, <4>1
      <4>3. QED
        BY Zenon, <2>1, <4>1, <4>2
    <3>2. QED
      BY Zenon, <2>7, <3>1
  <2>10. \A d, e \in Conns : d # e /\ Opening(d)' /\ Opening(e)' =>
                               task'[d].sub.id # task'[e].sub.id
    <3> SUFFICES ASSUME NEW d \in Conns, NEW e \in Conns, d # e, Opening(d)', Opening(e)'
                 PROVE  task'[d].sub.id # task'[e].sub.id
      BY Zenon
    <3>1. Opening(d) /\ task'[d] = task[d] /\ Opening(e) /\ task'[e] = task[e]
      BY Zenon, <2>6
    <3>2. task[d].sub.id # task[e].sub.id
      BY ZenonT(60), <1>1, <3>1
    <3>3. QED
      BY Zenon, <3>1, <3>2
  <2>11. \A id \in Subs : id > asked' => Unused(id)'
    <3> SUFFICES ASSUME NEW id \in Subs, id > asked PROVE Unused(id)'
      BY Zenon, <2>1
    <3>1. \A n \in 1..asked : ~(n > asked)
      BY <1>2
    <3>2. id # a.id /\ Unused(id)
      BY Zenon, <1>1, <2>2, <3>1
    <3>3. QED
      BY Zenon, <2>3, <3>2
  <2>12. \A s \in subs' : /\ current'[s.conn] = s.id /\ Known(s.id)'
                         /\ s.conn = start'[s.id].sub.conn
                         /\ s.identity = start'[s.id].sub.identity
                         /\ s.topics \subseteq start'[s.id].sub.topics
    BY Zenon, <1>1, <2>1, <2>5
  <2>13. (\A id \in relaying' : Known(id)') /\ relaying' \cap closed' = {}
    BY ZenonT(30), <1>1, <2>1, <2>2, <2>5
  <2>14. QED
    BY ZenonT(30), <2>8, <2>9, <2>10, <2>11, <2>12, <2>13 DEF SubInv
<1>14. QED
  BY Zenon, <1>8, <1>9, <1>10, <1>11, <1>12, <1>13, SubMoves

-----------------------------------------------------------------------------
(* What is pushed to a connection.                                         *)

\* Dispatch, as one event and one channel see it.
LEMMA DispatchFacts ==
  ASSUME BusTypes, NEW p \in Tasks, Dispatch(p)
  PROVE  /\ Busy(p) /\ task[p].pc = "logged" /\ task[p].ev \in Recs
         /\ dispatched' = dispatched \cup {task[p].ev.seq}
         /\ \A id \in Subs : \/ rx'[id] = rx[id]
                             \/ /\ rx'[id] = Append(rx[id], task[p].ev)
                                /\ \E s \in subs : s.id = id
         /\ \A s \in subs : matches(s, task[p].ev) /\ s.id \notin closed =>
              rx'[s.id] = Append(rx[s.id], task[p].ev) \/ task[p].ev.seq \in missed'[s.id]
         /\ \A id \in Subs : missed[id] \subseteq missed'[id]
<1> DEFINE e == task[p].ev
           hit == {s \in subs : matches(s, e)}
           dead == {s \in hit : s.id \in closed}
           full == {s \in hit \ dead : Len(rx[s.id]) >= SubBuffer}
<1>1. /\ rx' = [id \in Subs |-> IF id \in Ids(hit \ (dead \cup full))
                                THEN Append(rx[id], e) ELSE rx[id]]
      /\ missed' = [id \in Subs |-> IF id \in Ids(full) THEN missed[id] \cup {e.seq}
                                                        ELSE missed[id]]
      /\ dispatched' = dispatched \cup {e.seq} /\ task[p].pc = "logged"
  BY ZenonT(30) DEF Dispatch
<1>2. e \in Recs
  BY <1>1, JobKinds DEF BusTypes, Numbered
<1>3. \A s \in subs : s.id \in Subs
  BY ZenonT(30) DEF BusTypes, Asks
<1>4. ASSUME NEW s \in subs, matches(s, e), s.id \notin closed
      PROVE  rx'[s.id] = Append(rx[s.id], e) \/ e.seq \in missed'[s.id]
  <2>1. s \in hit \ dead
    BY ZenonT(30), <1>4
  <2>2. CASE s \in full
    <3>1. s.id \in Ids(full)
      BY ZenonT(30), <2>2 DEF Ids
    <3>2. QED
      BY ZenonT(30), <1>1, <1>3, <3>1
  <2>3. CASE s \notin full
    <3>1. s.id \in Ids(hit \ (dead \cup full))
      BY Zenon, <2>1, <2>3 DEF Ids
    <3>2. QED
      BY ZenonT(30), <1>1, <1>3, <3>1
  <2>4. QED
    BY Zenon, <2>2, <2>3
<1>5. ASSUME NEW id \in Subs
      PROVE  /\ rx'[id] = rx[id]
                \/ (rx'[id] = Append(rx[id], e) /\ \E s \in subs : s.id = id)
             /\ missed[id] \subseteq missed'[id]
  <2>1. id \in Ids(hit \ (dead \cup full)) => \E s \in subs : s.id = id
    BY Zenon DEF Ids
  <2> HIDE DEF hit, dead, full, e
  <2>2. QED
    BY ZenonT(30), <1>1, <2>1
<1>6. QED
  BY ZenonT(30), <1>1, <1>2, <1>4, <1>5 DEF Busy

Conn(id) == start[id].sub.conn

PushInv ==
  /\ \A id \in Subs : rx[id] # <<>> => Known(id)
  /\ \A id \in Subs : \A k \in DOMAIN rx[id] : rx[id][k].seq \in dispatched
  /\ \A id \in Subs : \A k, l \in DOMAIN rx[id] : k # l => rx[id][k].seq # rx[id][l].seq
  /\ \A id, jd \in Subs : id # jd /\ Conn(id) = Conn(jd) =>
       \A k \in DOMAIN rx[id], l \in DOMAIN rx[jd] : rx[id][k].seq # rx[jd][l].seq
  /\ \A c \in Conns : \A i \in DOMAIN wire[c] : wire[c][i].live => wire[c][i].seq \in dispatched
  /\ \A id \in Subs, c \in Conns : Conn(id) = c =>
       \A k \in DOMAIN rx[id], i \in DOMAIN wire[c] :
         wire[c][i].live => wire[c][i].seq # rx[id][k].seq
  /\ PushedOnce

LEMMA PushInit == BusInit => PushInv
<1> SUFFICES ASSUME BusInit PROVE PushInv
  BY Zenon
<1>1. (\A id \in Subs : rx[id] = <<>>) /\ (\A c \in Conns : wire[c] = <<>>)
  BY Zenon DEF BusInit
<1>2. (\A id \in Subs : DOMAIN rx[id] = {}) /\ (\A c \in Conns : DOMAIN wire[c] = {})
  BY <1>1
<1>3. QED
  BY Zenon, <1>1, <1>2 DEF PushInv, PushedOnce

LEMMA PushStep ==
  ASSUME BusTypes, Entered, NumberInv, SubInv, PushInv, [BusNext]_busVars
  PROVE  PushInv'
<1>1. /\ \A id \in Subs : rx[id] # <<>> => Known(id)
      /\ \A id \in Subs : \A k \in DOMAIN rx[id] : rx[id][k].seq \in dispatched
      /\ \A id \in Subs : \A k, l \in DOMAIN rx[id] : k # l => rx[id][k].seq # rx[id][l].seq
      /\ \A id, jd \in Subs : id # jd /\ Conn(id) = Conn(jd) =>
           \A k \in DOMAIN rx[id], l \in DOMAIN rx[jd] : rx[id][k].seq # rx[jd][l].seq
      /\ \A c \in Conns : \A i \in DOMAIN wire[c] :
           wire[c][i].live => wire[c][i].seq \in dispatched
      /\ \A id \in Subs, c \in Conns : Conn(id) = c =>
           \A k \in DOMAIN rx[id], i \in DOMAIN wire[c] :
             wire[c][i].live => wire[c][i].seq # rx[id][k].seq
      /\ \A c \in Conns : \A i, j \in DOMAIN wire[c] :
           (i # j /\ wire[c][i].live /\ wire[c][j].live) => wire[c][i].seq # wire[c][j].seq
  BY Zenon DEF PushInv, PushedOnce
<1>2. /\ rx \in [Subs -> Seq(Recs)] /\ wire \in [Conns -> Seq(Frames)]
      /\ start \in [Subs -> Starts \cup {Nothing}] /\ subs \in SUBSET Asks
  BY Zenon DEF BusTypes
<1>3. \A id \in Subs : Known(id) => Known(id)'
  BY ZenonT(30), EnteredStep
<1>4. ASSUME UNCHANGED <<rx, wire, dispatched>>,
             \A id \in Subs : rx[id] # <<>> => start'[id].sub = start[id].sub
      PROVE  PushInv'
  <2>1. \A id \in Subs : \A k \in DOMAIN rx[id] : Conn(id)' = Conn(id)
    BY ZenonT(60), <1>2, <1>4, DomainFacts DEF Conn
  <2>2. \A id, jd \in Subs : id # jd /\ Conn(id)' = Conn(jd)' =>
           \A k \in DOMAIN rx[id], l \in DOMAIN rx[jd] : rx[id][k].seq # rx[jd][l].seq
    BY <1>1, <2>1
  <2>3. \A id \in Subs, c \in Conns : Conn(id)' = c =>
           \A k \in DOMAIN rx[id], i \in DOMAIN wire[c] :
             wire[c][i].live => wire[c][i].seq # rx[id][k].seq
    BY Zenon, <1>1, <2>1
  <2>4. \A id \in Subs : rx[id] # <<>> => Known(id)'
    BY ZenonT(30), <1>1, <1>3
  <2>5. /\ \A id \in Subs : \A k \in DOMAIN rx'[id] : rx'[id][k].seq \in dispatched'
        /\ \A id \in Subs : \A k, l \in DOMAIN rx'[id] : k # l => rx'[id][k].seq # rx'[id][l].seq
        /\ \A c \in Conns : \A i \in DOMAIN wire'[c] :
             wire'[c][i].live => wire'[c][i].seq \in dispatched'
    BY ZenonT(30), <1>1, <1>4
  <2>6. PushedOnce'
    BY ZenonT(30), <1>1, <1>4 DEF PushedOnce
  <2>7. /\ \A id, jd \in Subs : id # jd /\ Conn(id)' = Conn(jd)' =>
             \A k \in DOMAIN rx'[id], l \in DOMAIN rx'[jd] : rx'[id][k].seq # rx'[jd][l].seq
        /\ \A id \in Subs, c \in Conns : Conn(id)' = c =>
             \A k \in DOMAIN rx'[id], i \in DOMAIN wire'[c] :
               wire'[c][i].live => wire'[c][i].seq # rx'[id][k].seq
    BY ZenonT(150), <1>4, <2>2, <2>3
  <2>8. \A id \in Subs : rx'[id] # <<>> => Known(id)'
    BY ZenonT(30), <1>4, <2>4
  <2>9. QED
    BY ZenonT(30), <2>5, <2>6, <2>7, <2>8 DEF PushInv
<1>5. ASSUME NEW p \in Tasks, Dispatch(p), Steady, UNCHANGED wire PROVE PushInv'
  <2> DEFINE e == task[p].ev
             Got(id) == rx'[id] = Append(rx[id], e) /\ \E s \in subs : s.id = id
  <2>1. /\ Busy(p) /\ e \in Recs /\ dispatched' = dispatched \cup {e.seq}
        /\ \A id \in Subs : rx'[id] = rx[id] \/ Got(id)
    BY ZenonT(30), <1>5, DispatchFacts
  <2>2. e.seq \notin dispatched
    BY ZenonT(30), <2>1 DEF NumberInv
  <2>3. start' = start
    BY ZenonT(30), <1>5 DEF Steady
  <2> HIDE DEF e
  <2>4. ASSUME NEW id \in Subs
        PROVE  /\ Len(rx[id]) \in Nat /\ DOMAIN rx[id] = 1..Len(rx[id])
               /\ \A k \in DOMAIN rx'[id] :
                    \/ k \in DOMAIN rx[id] /\ rx'[id][k] = rx[id][k]
                    \/ k = Len(rx[id]) + 1 /\ Got(id) /\ rx'[id][k] = e
    <3>1. CASE rx'[id] = rx[id]
      BY Zenon, <1>2, <3>1, DomainFacts
    <3>2. CASE Got(id)
      <4>1. rx[id] \in Seq(Recs)
        BY ZenonT(30), <1>2
      <4>2. \A k \in DOMAIN Append(rx[id], e) :
              \/ k \in DOMAIN rx[id] /\ Append(rx[id], e)[k] = rx[id][k]
              \/ k = Len(rx[id]) + 1 /\ Append(rx[id], e)[k] = e
        BY Zenon, <2>1, <4>1, AppendFacts
      <4>3. rx'[id] = Append(rx[id], e)
        BY Zenon, <3>2
      <4>4. Len(rx[id]) \in Nat /\ DOMAIN rx[id] = 1..Len(rx[id])
        BY Zenon, <4>1, DomainFacts
      <4>5. QED
        BY Zenon, <3>2, <4>2, <4>3, <4>4
    <3>3. QED
      BY ZenonT(30), <2>1, <3>1, <3>2
  <2>5. ASSUME NEW id \in Subs, NEW jd \in Subs, Got(id), Got(jd), Conn(id) = Conn(jd)
        PROVE  id = jd
    <3>1. PICK r \in subs : r.id = id
      BY Zenon, <2>5
    <3>2. PICK s \in subs : s.id = jd
      BY Zenon, <2>5
    <3>3. /\ current[r.conn] = id /\ r.conn = start[id].sub.conn
          /\ current[s.conn] = jd /\ s.conn = start[jd].sub.conn
      BY Zenon, <3>1, <3>2 DEF SubInv
    <3>4. QED
      BY Zenon, <2>5, <3>3 DEF Conn
  <2> HIDE DEF Got
  <2>6. \A id \in Subs : Got(id) => Known(id)
    BY ZenonT(30) DEF Got, SubInv
  <2>7. \A id \in Subs : rx'[id] # <<>> => Known(id)'
    BY ZenonT(30), <1>1, <1>3, <2>1, <2>6
  <2>8. \A id \in Subs : \A k \in DOMAIN rx'[id] : rx'[id][k].seq \in dispatched'
    BY ZenonT(30), <1>1, <2>1, <2>4
  <2>9. \A id \in Subs : \A k, l \in DOMAIN rx'[id] : k # l => rx'[id][k].seq # rx'[id][l].seq
    <3> SUFFICES ASSUME NEW id \in Subs, NEW k \in DOMAIN rx'[id], NEW l \in DOMAIN rx'[id], k # l
                 PROVE  rx'[id][k].seq # rx'[id][l].seq
      BY Zenon
    <3>1. \A m \in DOMAIN rx'[id] : \/ m \in DOMAIN rx[id] /\ rx'[id][m] = rx[id][m]
                                    \/ m = Len(rx[id]) + 1 /\ rx'[id][m] = e
      BY Zenon, <2>4
    <3>2. /\ \A m \in DOMAIN rx[id] : rx[id][m].seq \in dispatched
          /\ \A m, o \in DOMAIN rx[id] : m # o => rx[id][m].seq # rx[id][o].seq
      BY Zenon, <1>1
    <3>3. CASE rx'[id][k] = e
      <4>1. \/ l \in DOMAIN rx[id] /\ rx'[id][l] = rx[id][l]
            \/ k \in DOMAIN rx[id] /\ rx'[id][k] = rx[id][k]
        BY Zenon, <3>1
      <4>2. CASE k \in DOMAIN rx[id] /\ rx'[id][k] = rx[id][k]
        BY Zenon, <2>2, <3>2, <3>3, <4>2
      <4>3. QED
        BY Zenon, <2>2, <3>2, <3>3, <4>1, <4>2
    <3>4. CASE rx'[id][l] = e
      <4>1. \/ l \in DOMAIN rx[id] /\ rx'[id][l] = rx[id][l]
            \/ k \in DOMAIN rx[id] /\ rx'[id][k] = rx[id][k]
        BY Zenon, <3>1
      <4>2. CASE l \in DOMAIN rx[id] /\ rx'[id][l] = rx[id][l]
        BY Zenon, <2>2, <3>2, <3>4, <4>2
      <4>3. QED
        BY Zenon, <2>2, <3>2, <3>4, <4>1, <4>2
    <3>5. QED
      BY Zenon, <3>1, <3>2, <3>3, <3>4
  <2>10. \A id, jd \in Subs : id # jd /\ Conn(id)' = Conn(jd)' =>
           \A k \in DOMAIN rx'[id], l \in DOMAIN rx'[jd] : rx'[id][k].seq # rx'[jd][l].seq
    <3> SUFFICES ASSUME NEW id \in Subs, NEW jd \in Subs, id # jd, Conn(id) = Conn(jd),
                        NEW k \in DOMAIN rx'[id], NEW l \in DOMAIN rx'[jd]
                 PROVE  rx'[id][k].seq # rx'[jd][l].seq
      BY Zenon, <2>3 DEF Conn
    <3>1. ~(Got(id) /\ Got(jd))
      BY Zenon, <2>5
    <3>2. \/ k \in DOMAIN rx[id] /\ rx'[id][k] = rx[id][k]
          \/ Got(id) /\ rx'[id][k] = e
      BY ZenonT(30), <2>4
    <3>3. \/ l \in DOMAIN rx[jd] /\ rx'[jd][l] = rx[jd][l]
          \/ Got(jd) /\ rx'[jd][l] = e
      BY ZenonT(30), <2>4
    <3>4. QED
      BY ZenonT(60), <1>1, <2>2, <3>1, <3>2, <3>3
  <2>11. \A id \in Subs, c \in Conns : Conn(id)' = c =>
           \A k \in DOMAIN rx'[id], i \in DOMAIN wire[c] :
             wire[c][i].live => wire[c][i].seq # rx'[id][k].seq
    <3> SUFFICES ASSUME NEW id \in Subs, NEW c \in Conns, Conn(id) = c,
                        NEW k \in DOMAIN rx'[id], NEW i \in DOMAIN wire[c], wire[c][i].live
                 PROVE  wire[c][i].seq # rx'[id][k].seq
      BY ZenonT(30), <2>3 DEF Conn
    <3>1. \/ k \in DOMAIN rx[id] /\ rx'[id][k] = rx[id][k]
          \/ Got(id) /\ rx'[id][k] = e
      BY Zenon, <2>4
    <3>2. QED
      BY ZenonT(150), <1>1, <2>2, <3>1
  <2>12. \A c \in Conns : \A i \in DOMAIN wire[c] :
           wire[c][i].live => wire[c][i].seq \in dispatched'
    BY Zenon, <1>1, <2>1
  <2>13. QED
    BY ZenonT(150), <1>1, <1>5, <2>7, <2>8, <2>9, <2>10, <2>11, <2>12 DEF PushInv, PushedOnce
<1>6. ASSUME NEW i \in Subs, Relay(i), Steady, UNCHANGED dispatched PROVE PushInv'
  <2> DEFINE c == Conn(i)
             e == Head(rx[i])
             f == [live |-> TRUE, id |-> i, seq |-> e.seq]
  <2>1. /\ rx[i] # <<>> /\ rx' = [rx EXCEPT ![i] = Tail(@)]
        /\ wire' = [wire EXCEPT ![c] = Append(@, f)] /\ start' = start
    BY ZenonT(30), <1>6 DEF Relay, Steady, Conn
  <2>2. rx[i] \in Seq(Recs) /\ Known(i)
    BY ZenonT(30), <1>1, <1>2, <2>1
  <2>3. c \in Conns
    BY ZenonT(30), <2>2 DEF Known, Conn, Starts, Asks
  <2>4. e = rx[i][1] /\ 1 \in DOMAIN rx[i] /\ e \in Recs
    BY Zenon, <2>1, <2>2, TailFacts
  <2>5. f \in Frames /\ f.seq = e.seq /\ f.live
    BY Zenon, <2>4 DEF Frames, Recs
  <2> HIDE DEF c, e, f
  <2>6. \A id \in Subs \ {i} : rx'[id] = rx[id]
    BY ZenonT(30), <1>2, <2>1
  <2>7. /\ \A k \in DOMAIN rx'[i] : k + 1 \in DOMAIN rx[i] /\ k + 1 # 1
                                    /\ rx'[i][k] = rx[i][k + 1]
        /\ \A k, l \in DOMAIN rx'[i] : k # l => k + 1 # l + 1
    <3>1. rx'[i] = Tail(rx[i])
      BY Zenon, <1>2, <2>1
    <3>2. /\ \A k \in DOMAIN Tail(rx[i]) : /\ k + 1 \in DOMAIN rx[i] /\ k + 1 # 1
                                           /\ Tail(rx[i])[k] = rx[i][k + 1]
          /\ \A k, l \in DOMAIN Tail(rx[i]) : k # l => k + 1 # l + 1
      BY Zenon, <2>1, <2>2, TailFacts
    <3>3. QED
      BY Zenon, <3>1, <3>2
  <2>8. \A d \in Conns \ {c} : wire'[d] = wire[d]
    BY ZenonT(30), <1>2, <2>1
  <2>9. /\ Len(wire[c]) \in Nat
        /\ \A k \in DOMAIN wire'[c] : \/ k \in DOMAIN wire[c] /\ wire'[c][k] = wire[c][k]
                                      \/ k = Len(wire[c]) + 1 /\ wire'[c][k] = f
    <3>1. wire[c] \in Seq(Frames)
      BY ZenonT(30), <1>2, <2>3
    <3>2. wire'[c] = Append(wire[c], f)
      BY Zenon, <1>2, <2>1, <2>3
    <3>3. \A k \in DOMAIN Append(wire[c], f) :
            \/ k \in DOMAIN wire[c] /\ Append(wire[c], f)[k] = wire[c][k]
            \/ k = Len(wire[c]) + 1 /\ Append(wire[c], f)[k] = f
      BY Zenon, <2>5, <3>1, AppendFacts
    <3>4. Len(wire[c]) \in Nat
      BY ZenonT(60), <3>1, DomainFacts
    <3>5. QED
      BY Zenon, <3>2, <3>3, <3>4
  <2>10. e.seq \in dispatched /\ \A k \in DOMAIN rx'[i] : rx'[i][k].seq # e.seq
    BY <1>1, <2>4, <2>7
  <2>11. \A jd \in Subs \ {i} : Conn(jd) = c => \A l \in DOMAIN rx[jd] : rx[jd][l].seq # e.seq
    BY ZenonT(30), <1>1, <2>4 DEF c
  <2>12. \A k \in DOMAIN wire[c] : wire[c][k].live => wire[c][k].seq # e.seq
    BY ZenonT(30), <1>1, <2>3, <2>4 DEF c
  <2>13. \A id \in Subs : Conn(id)' = Conn(id)
    BY ZenonT(30), <2>1 DEF Conn
  <2>14. \A id \in Subs : rx'[id] # <<>> => Known(id)'
    BY ZenonT(30), <1>1, <1>3, <2>2, <2>6
  <2>15. \A id \in Subs : \A k \in DOMAIN rx'[id] : rx'[id][k].seq \in dispatched'
    <3>1. \A k \in DOMAIN rx'[i] : rx'[i][k].seq \in dispatched
      BY Zenon, <1>1, <2>7
    <3>2. \A id \in Subs \ {i} : \A k \in DOMAIN rx'[id] : rx'[id][k].seq \in dispatched
      BY Zenon, <1>1, <2>6
    <3>3. QED
      BY Zenon, <1>6, <3>1, <3>2
  <2>16. \A id \in Subs : \A k, l \in DOMAIN rx'[id] : k # l => rx'[id][k].seq # rx'[id][l].seq
    <3> SUFFICES ASSUME NEW id \in Subs, NEW k \in DOMAIN rx'[id], NEW l \in DOMAIN rx'[id], k # l
                 PROVE  rx'[id][k].seq # rx'[id][l].seq
      BY Zenon
    <3>1. CASE id = i
      <4>1. /\ k + 1 \in DOMAIN rx[i] /\ l + 1 \in DOMAIN rx[i] /\ k + 1 # l + 1
            /\ rx'[i][k] = rx[i][k + 1] /\ rx'[i][l] = rx[i][l + 1]
        BY Zenon, <2>7, <3>1
      <4>2. rx[i][k + 1].seq # rx[i][l + 1].seq
        BY Zenon, <1>1, <4>1
      <4>3. QED
        BY Zenon, <3>1, <4>1, <4>2
    <3>2. CASE id # i
      <4>1. rx'[id] = rx[id]
        BY Zenon, <2>6, <3>2
      <4>2. \A m, n \in DOMAIN rx[id] : m # n => rx[id][m].seq # rx[id][n].seq
        BY Zenon, <1>1
      <4>3. QED
        BY Zenon, <4>1, <4>2
    <3>3. QED
      BY Zenon, <3>1, <3>2
  <2>17. \A id, jd \in Subs : id # jd /\ Conn(id)' = Conn(jd)' =>
           \A k \in DOMAIN rx'[id], l \in DOMAIN rx'[jd] : rx'[id][k].seq # rx'[jd][l].seq
    <3>1. \A id \in Subs : \A k \in DOMAIN rx'[id] : \E m \in DOMAIN rx[id] : rx'[id][k] = rx[id][m]
      BY Zenon, <2>6, <2>7
    <3> SUFFICES ASSUME NEW id \in Subs, NEW jd \in Subs, id # jd, Conn(id) = Conn(jd),
                        NEW k \in DOMAIN rx'[id], NEW l \in DOMAIN rx'[jd]
                 PROVE  rx'[id][k].seq # rx'[jd][l].seq
      BY ZenonT(60), <2>13
    <3>2. PICK m \in DOMAIN rx[id] : rx'[id][k] = rx[id][m]
      BY Zenon, <3>1
    <3>3. PICK n \in DOMAIN rx[jd] : rx'[jd][l] = rx[jd][n]
      BY Zenon, <3>1
    <3>4. QED
      BY ZenonT(60), <1>1, <3>2, <3>3
  <2>18. \A d \in Conns : \A k \in DOMAIN wire'[d] :
           wire'[d][k].live => wire'[d][k].seq \in dispatched'
    <3>1. \A k \in DOMAIN wire'[c] : wire'[c][k].live => wire'[c][k].seq \in dispatched
      BY Zenon, <1>1, <2>3, <2>5, <2>9, <2>10
    <3>2. \A d \in Conns \ {c} : \A k \in DOMAIN wire'[d] :
            wire'[d][k].live => wire'[d][k].seq \in dispatched
      BY Zenon, <1>1, <2>8
    <3>3. QED
      BY Zenon, <1>6, <3>1, <3>2
  <2>19. \A id \in Subs, d \in Conns : Conn(id)' = d =>
           \A k \in DOMAIN rx'[id], l \in DOMAIN wire'[d] :
             wire'[d][l].live => wire'[d][l].seq # rx'[id][k].seq
    <3>1. \A id \in Subs : \A k \in DOMAIN rx'[id] : \E m \in DOMAIN rx[id] : rx'[id][k] = rx[id][m]
      BY Zenon, <2>6, <2>7
    <3>2. \A id \in Subs : Conn(id) = c => \A k \in DOMAIN rx'[id] : rx'[id][k].seq # e.seq
      BY Zenon, <2>6, <2>10, <2>11
    <3> SUFFICES ASSUME NEW id \in Subs, NEW d \in Conns, Conn(id) = d,
                        NEW k \in DOMAIN rx'[id], NEW l \in DOMAIN wire'[d], wire'[d][l].live
                 PROVE  wire'[d][l].seq # rx'[id][k].seq
      BY ZenonT(30), <2>13
    <3>3. CASE l \in DOMAIN wire[d] /\ wire'[d][l] = wire[d][l]
      <4>1. PICK m \in DOMAIN rx[id] : rx'[id][k] = rx[id][m]
        BY Zenon, <3>1
      <4>2. wire[d][l].live
        BY Zenon, <3>3
      <4>3. wire[d][l].seq # rx[id][m].seq
        BY Zenon, <1>1, <3>3, <4>2
      <4>4. QED
        BY Zenon, <3>3, <4>1, <4>3
    <3>4. CASE d = c /\ wire'[d][l] = f
      BY ZenonT(30), <2>5, <3>2, <3>4
    <3>5. QED
      BY ZenonT(30), <2>8, <2>9, <3>3, <3>4
  <2>20. \A d \in Conns : \A k, l \in DOMAIN wire'[d] :
           (k # l /\ wire'[d][k].live /\ wire'[d][l].live) => wire'[d][k].seq # wire'[d][l].seq
    <3>1. \A k, l \in DOMAIN wire'[c] :
           (k # l /\ wire'[c][k].live /\ wire'[c][l].live) => wire'[c][k].seq # wire'[c][l].seq
      <4> SUFFICES ASSUME NEW k \in DOMAIN wire'[c], NEW l \in DOMAIN wire'[c], k # l,
                          wire'[c][k].live, wire'[c][l].live
                   PROVE  wire'[c][k].seq # wire'[c][l].seq
        BY Zenon
      <4>1. CASE k \in DOMAIN wire[c] /\ wire'[c][k] = wire[c][k]
        <5>1. CASE l \in DOMAIN wire[c] /\ wire'[c][l] = wire[c][l]
          <6>1. wire[c][k].live /\ wire[c][l].live
            BY Zenon, <4>1, <5>1
          <6>2. wire[c][k].seq # wire[c][l].seq
            BY Zenon, <1>1, <2>3, <4>1, <5>1, <6>1
          <6>3. QED
            BY Zenon, <4>1, <5>1, <6>2
        <5>2. CASE l = Len(wire[c]) + 1 /\ wire'[c][l] = f
          BY Zenon, <2>5, <2>12, <4>1, <5>2
        <5>3. QED
          BY Zenon, <2>9, <5>1, <5>2
      <4>2. CASE k = Len(wire[c]) + 1 /\ wire'[c][k] = f
        BY Zenon, <2>5, <2>9, <2>12, <4>2
      <4>3. QED
        BY Zenon, <2>9, <4>1, <4>2
    <3>2. ASSUME NEW d \in Conns \ {c}
          PROVE  \A k, l \in DOMAIN wire'[d] :
            (k # l /\ wire'[d][k].live /\ wire'[d][l].live) => wire'[d][k].seq # wire'[d][l].seq
      <4>1. wire'[d] = wire[d]
        BY Zenon, <2>8
      <4>2. \A k, l \in DOMAIN wire[d] :
              (k # l /\ wire[d][k].live /\ wire[d][l].live) => wire[d][k].seq # wire[d][l].seq
        BY Zenon, <1>1
      <4>3. QED
        BY Zenon, <4>1, <4>2
    <3>3. QED
      BY Zenon, <3>1, <3>2
  <2>21. QED
    BY ZenonT(30), <2>14, <2>15, <2>16, <2>17, <2>18, <2>19, <2>20 DEF PushInv, PushedOnce
<1>7. ASSUME NEW i \in Subs, RelayFails(i) PROVE PushInv'
  <2>1. rx' = [rx EXCEPT ![i] = <<>>] /\ UNCHANGED <<wire, dispatched, start>>
    BY ZenonT(30), <1>7 DEF RelayFails, book
  <2>2. DOMAIN rx'[i] = {} /\ rx'[i] = <<>> /\ \A id \in Subs \ {i} : rx'[id] = rx[id]
    BY <1>2, <2>1
  <2>3. \A id \in Subs : (Conn(id)' = Conn(id)) /\ (Known(id)' <=> Known(id))
    BY Zenon, <2>1 DEF Conn, Known
  <2>4. \A id \in Subs : \A k \in DOMAIN rx'[id] : id # i /\ k \in DOMAIN rx[id]
                                                   /\ rx'[id][k] = rx[id][k]
    BY ZenonT(30), <2>2
  <2>5. \A id \in Subs : rx'[id] # <<>> => Known(id)'
    BY Zenon, <1>1, <2>2, <2>3
  <2>6. \A id \in Subs : \A k \in DOMAIN rx'[id] : rx'[id][k].seq \in dispatched'
    <3> SUFFICES ASSUME NEW id \in Subs, NEW k \in DOMAIN rx'[id] PROVE rx'[id][k].seq \in dispatched
      BY Zenon, <2>1
    <3>1. k \in DOMAIN rx[id] /\ rx'[id][k] = rx[id][k]
      BY Zenon, <2>4
    <3>2. rx[id][k].seq \in dispatched
      BY Zenon, <1>1, <3>1
    <3>3. QED
      BY Zenon, <3>1, <3>2
  <2>7. \A id \in Subs : \A k, l \in DOMAIN rx'[id] : k # l => rx'[id][k].seq # rx'[id][l].seq
    <3> SUFFICES ASSUME NEW id \in Subs, NEW k \in DOMAIN rx'[id], NEW l \in DOMAIN rx'[id], k # l
                 PROVE  rx'[id][k].seq # rx'[id][l].seq
      BY Zenon
    <3>1. /\ k \in DOMAIN rx[id] /\ rx'[id][k] = rx[id][k]
          /\ l \in DOMAIN rx[id] /\ rx'[id][l] = rx[id][l]
      BY Zenon, <2>4
    <3>2. rx[id][k].seq # rx[id][l].seq
      BY Zenon, <1>1, <3>1
    <3>3. QED
      BY Zenon, <3>1, <3>2
  <2>8. \A id, jd \in Subs : id # jd /\ Conn(id)' = Conn(jd)' =>
           \A k \in DOMAIN rx'[id], l \in DOMAIN rx'[jd] : rx'[id][k].seq # rx'[jd][l].seq
    <3> SUFFICES ASSUME NEW id \in Subs, NEW jd \in Subs, id # jd, Conn(id) = Conn(jd),
                        NEW k \in DOMAIN rx'[id], NEW l \in DOMAIN rx'[jd]
                 PROVE  rx'[id][k].seq # rx'[jd][l].seq
      BY ZenonT(60), <2>3
    <3>1. /\ k \in DOMAIN rx[id] /\ rx'[id][k] = rx[id][k]
          /\ l \in DOMAIN rx[jd] /\ rx'[jd][l] = rx[jd][l]
      BY Zenon, <2>4
    <3>2. rx[id][k].seq # rx[jd][l].seq
      BY Zenon, <1>1, <3>1
    <3>3. QED
      BY Zenon, <3>1, <3>2
  <2>9. \A c \in Conns : \A k \in DOMAIN wire'[c] :
           wire'[c][k].live => wire'[c][k].seq \in dispatched'
    BY Zenon, <1>1, <2>1
  <2>10. \A id \in Subs, c \in Conns : Conn(id)' = c =>
           \A k \in DOMAIN rx'[id], l \in DOMAIN wire'[c] :
             wire'[c][l].live => wire'[c][l].seq # rx'[id][k].seq
    <3> SUFFICES ASSUME NEW id \in Subs, NEW c \in Conns, Conn(id) = c,
                        NEW k \in DOMAIN rx'[id], NEW l \in DOMAIN wire[c], wire[c][l].live
                 PROVE  wire[c][l].seq # rx'[id][k].seq
      <4>1. wire' = wire
        BY Zenon, <2>1
      <4>2. QED
        BY ZenonT(30), <2>3, <4>1
    <3>1. k \in DOMAIN rx[id] /\ rx'[id][k] = rx[id][k]
      BY Zenon, <2>4
    <3>2. wire[c][l].seq # rx[id][k].seq
      BY Zenon, <1>1, <3>1
    <3>3. QED
      BY Zenon, <3>1, <3>2
  <2>11. PushedOnce'
    BY ZenonT(60), <1>1, <2>1 DEF PushedOnce
  <2>12. QED
    BY ZenonT(60), <2>5, <2>6, <2>7, <2>8, <2>9, <2>10, <2>11 DEF PushInv
<1>8. ASSUME NEW c \in Conns, Begins(c) PROVE PushInv'
  BY ZenonT(30), <1>4, <1>8 DEF Begins, book
<1>9. ASSUME NEW c \in Conns, Reads(c) PROVE PushInv'
  <2>1. task[c].sub.id \in Subs /\ rx[task[c].sub.id] = <<>>
    <3>1. Joining(c) /\ task[c].sub.id \in Subs
      BY ZenonT(30), <1>9 DEF Reads, Joining, Looking, Asks
    <3>2. QED
      BY ZenonT(30), <3>1 DEF SubInv, Unused
  <2>2. \A id \in Subs \ {task[c].sub.id} : start'[id] = start[id]
    BY ZenonT(30), <1>2, <1>9 DEF Reads
  <2>3. QED
    BY ZenonT(30), <1>4, <1>9, <2>1, <2>2 DEF Reads
<1>10. ASSUME NEW c \in Conns, Enters(c) PROVE PushInv'
  <2>1. task[c].sub.id \in Subs /\ start[task[c].sub.id] \in Starts
    BY Zenon, <1>10 DEF Enters, Entering, Asks, Entered, Known
  <2>2. [start[task[c].sub.id] EXCEPT !.before = dispatched].sub = start[task[c].sub.id].sub
    BY Zenon, <2>1 DEF Starts
  <2>3. \A id \in Subs : start'[id].sub = start[id].sub
    BY ZenonT(30), <1>2, <1>10, <2>1, <2>2 DEF Enters
  <2>4. QED
    BY ZenonT(30), <1>4, <1>10, <2>3 DEF Enters
<1>11. ASSUME NEW c \in Conns, Replies(c) PROVE PushInv'
  <2> DEFINE w == Written(task[c].replay, task[c].sub.id)
  <2>1. /\ wire' = [wire EXCEPT ![c] = @ \o w] /\ UNCHANGED <<rx, dispatched, start>>
    BY ZenonT(30), <1>11 DEF Replies, book
  <2>2. task[c].replay \in Seq(Recs) /\ task[c].sub.id \in Subs
    BY ZenonT(30), <1>11 DEF Replies, Entering, Asks
  <2>3. w \in Seq(Frames) /\ \A k \in DOMAIN w : ~w[k].live
    BY ZenonT(30), <2>2, WrittenFacts
  <2> HIDE DEF w
  <2>4. \A d \in Conns : \A k \in DOMAIN wire'[d] : wire'[d][k].live =>
           k \in DOMAIN wire[d] /\ wire'[d][k] = wire[d][k]
    <3>1. \A d \in Conns \ {c} : wire'[d] = wire[d]
      BY Zenon, <1>2, <2>1
    <3>2. wire[c] \in Seq(Frames) /\ wire'[c] = wire[c] \o w
      BY ZenonT(30), <1>2, <2>1
    <3>3. \A k \in DOMAIN wire'[c] : \/ k \in DOMAIN wire[c] /\ wire'[c][k] = wire[c][k]
                                     \/ \E l \in DOMAIN w : wire'[c][k] = w[l]
      <4>1. \A k \in DOMAIN (wire[c] \o w) : \/ k \in DOMAIN wire[c] /\ (wire[c] \o w)[k] = wire[c][k]
                                             \/ \E l \in DOMAIN w : (wire[c] \o w)[k] = w[l]
        BY Zenon, <2>3, <3>2, ConcatFacts
      <4>2. QED
        BY Zenon, <3>2, <4>1
    <3>4. QED
      BY Zenon, <2>3, <3>1, <3>3
  <2>5. \A id \in Subs : (Conn(id)' = Conn(id)) /\ (Known(id)' <=> Known(id))
    BY Zenon, <2>1 DEF Conn, Known
  <2>6. QED
    <3>1. \A d \in Conns : \A k \in DOMAIN wire'[d] :
             wire'[d][k].live => wire'[d][k].seq \in dispatched
      BY ZenonT(60), <1>1, <2>4
    <3>2. \A id \in Subs, d \in Conns : Conn(id) = d =>
             \A k \in DOMAIN rx[id], l \in DOMAIN wire'[d] :
               wire'[d][l].live => wire'[d][l].seq # rx[id][k].seq
      <4> SUFFICES ASSUME NEW id \in Subs, NEW d \in Conns, Conn(id) = d, NEW k \in DOMAIN rx[id],
                          NEW l \in DOMAIN wire'[d], wire'[d][l].live
                   PROVE  wire'[d][l].seq # rx[id][k].seq
        BY Zenon
      <4>1. l \in DOMAIN wire[d] /\ wire'[d][l] = wire[d][l] /\ wire[d][l].live
        BY Zenon, <2>4
      <4>2. wire[d][l].seq # rx[id][k].seq
        BY Zenon, <1>1, <4>1
      <4>3. QED
        BY Zenon, <4>1, <4>2
    <3>3. \A d \in Conns : \A k, l \in DOMAIN wire'[d] :
             (k # l /\ wire'[d][k].live /\ wire'[d][l].live) =>
               wire'[d][k].seq # wire'[d][l].seq
      <4> SUFFICES ASSUME NEW d \in Conns, NEW k \in DOMAIN wire'[d], NEW l \in DOMAIN wire'[d],
                          k # l, wire'[d][k].live, wire'[d][l].live
                   PROVE  wire'[d][k].seq # wire'[d][l].seq
        BY Zenon
      <4>1. /\ k \in DOMAIN wire[d] /\ wire'[d][k] = wire[d][k] /\ wire[d][k].live
            /\ l \in DOMAIN wire[d] /\ wire'[d][l] = wire[d][l] /\ wire[d][l].live
        BY Zenon, <2>4
      <4>2. wire[d][k].seq # wire[d][l].seq
        BY Zenon, <1>1, <4>1
      <4>3. QED
        BY Zenon, <4>1, <4>2
    <3>4. /\ \A id \in Subs : rx'[id] # <<>> => Known(id)'
          /\ \A id \in Subs : \A k \in DOMAIN rx'[id] : rx'[id][k].seq \in dispatched'
          /\ \A id \in Subs : \A k, l \in DOMAIN rx'[id] :
               k # l => rx'[id][k].seq # rx'[id][l].seq
          /\ \A id, jd \in Subs : id # jd /\ Conn(id)' = Conn(jd)' =>
               \A k \in DOMAIN rx'[id], l \in DOMAIN rx'[jd] : rx'[id][k].seq # rx'[jd][l].seq
      <4>1. rx' = rx /\ dispatched' = dispatched
        BY Zenon, <2>1
      <4>2. \A id, jd \in Subs : id # jd /\ Conn(id)' = Conn(jd)' =>
               \A k \in DOMAIN rx[id], l \in DOMAIN rx[jd] : rx[id][k].seq # rx[jd][l].seq
        <5> SUFFICES ASSUME NEW id \in Subs, NEW jd \in Subs, id # jd, Conn(id)' = Conn(jd)'
                     PROVE  \A k \in DOMAIN rx[id], l \in DOMAIN rx[jd] :
                              rx[id][k].seq # rx[jd][l].seq
          BY Zenon
        <5>1. Conn(id) = Conn(jd)
          BY Zenon, <2>5
        <5>2. QED
          BY Zenon, <1>1, <5>1
      <4>3. \A id \in Subs : rx[id] # <<>> => Known(id)'
        BY Zenon, <1>1, <2>5
      <4>4. QED
        BY ZenonT(150), <1>1, <4>1, <4>2, <4>3
    <3>5. /\ \A d \in Conns : \A k \in DOMAIN wire'[d] :
               wire'[d][k].live => wire'[d][k].seq \in dispatched'
          /\ \A id \in Subs, d \in Conns : Conn(id)' = d =>
               \A k \in DOMAIN rx'[id], l \in DOMAIN wire'[d] :
                 wire'[d][l].live => wire'[d][l].seq # rx'[id][k].seq
      <4>1. rx' = rx /\ dispatched' = dispatched
        BY Zenon, <2>1
      <4>2. \A id \in Subs, d \in Conns : Conn(id)' = d =>
               \A k \in DOMAIN rx[id], l \in DOMAIN wire'[d] :
                 wire'[d][l].live => wire'[d][l].seq # rx[id][k].seq
        BY Zenon, <2>5, <3>2
      <4>3. QED
        BY ZenonT(30), <3>1, <4>1, <4>2
    <3>6. QED
      BY Zenon, <3>3, <3>4, <3>5 DEF PushInv, PushedOnce
<1>12. QED
  BY ZenonT(30), <1>4, <1>5, <1>6, <1>7, <1>8, <1>9, <1>10, <1>11, SubMoves DEF Steady

\* assign_and_dispatch and handle_subscribe: no sequence number is pushed to a connection
\* twice, for any number of connections, emitters, events and subscriptions.
THEOREM NothingPushedTwice == BusSpec => []PushedOnce
<1> DEFINE I == BusTypes /\ Entered /\ NumberInv /\ SubInv /\ PushInv
<1>1. BusInit => I
  BY ZenonT(30), BusTypesInit, EnteredInit, NumberInit, SubInit, PushInit
<1>2. I /\ [BusNext]_busVars => I'
  BY ZenonT(30), BusTypesStep, EnteredStep, NumberStep, SubStep, PushStep
<1>3. I => PushedOnce
  BY ZenonT(30) DEF PushInv
<1>4. QED
  BY <1>1, <1>2, <1>3, PTL DEF BusSpec

-----------------------------------------------------------------------------
(* The log and the channels keep to their sizes.                           *)

Bounded ==
  /\ Len(log) <= Capacity
  /\ Len(queue) <= Buffer
  /\ \A id \in Subs : Len(rx[id]) <= SubBuffer

LEMMA BoundedStep ==
  ASSUME BusTypes, Bounded, [BusNext]_busVars
  PROVE  Bounded'
<1>1. /\ queue \in Seq(Topics) /\ log \in Seq(Recs) /\ rx \in [Subs -> Seq(Recs)]
      /\ Capacity \in Nat \ {0} /\ Buffer \in Nat \ {0} /\ SubBuffer \in Nat \ {0}
  BY Zenon, EventsAssumption DEF BusTypes
<1>2. Len(log') <= Capacity
  <2>1. ASSUME NEW p \in Tasks, Logs(p) PROVE Len(log') <= Capacity
    <3>1. task[p].ev \in Recs /\ log' = push(log, task[p].ev)
      BY Zenon, <2>1 DEF Logs
    <3>2. Len(log) <= Capacity /\ Len(log) \in Nat
      BY <1>1 DEF Bounded
    <3>3. CASE Len(log) >= Capacity
      <4>1. log # <<>> /\ log' = Append(Tail(log), task[p].ev)
        <5>1. Len(<<>>) = 0 /\ ~(0 >= Capacity)
          BY <1>1
        <5>2. QED
          BY Zenon, <3>1, <3>3, <5>1 DEF push
      <4>2. Len(log') = Len(log)
        <5>1. Tail(log) \in Seq(Recs) /\ Len(Tail(log)) = Len(log) - 1
          BY ZenonT(30), <1>1, <4>1, SeqFacts
        <5>2. Len(log') = (Len(log) - 1) + 1
          BY Zenon, <3>1, <4>1, <5>1, AppendKeeps
        <5>3. QED
          BY <3>2, <5>2
      <4>3. QED
        BY Zenon, <3>2, <4>2
    <3>4. CASE ~(Len(log) >= Capacity)
      <4>1. log' = Append(log, task[p].ev)
        BY Zenon, <3>1, <3>4 DEF push
      <4>2. Len(log') = Len(log) + 1
        BY <1>1, <3>1, <4>1
      <4>3. QED
        <5>1. \A m \in Nat : m <= Capacity /\ ~(m >= Capacity) => m + 1 <= Capacity
          BY <1>1
        <5>2. QED
          BY Zenon, <3>2, <3>4, <4>2, <5>1
    <3>5. QED
      BY Zenon, <3>3, <3>4
  <2>2. CASE log' = log
    BY Zenon, <2>2 DEF Bounded
  <2>3. QED
    BY ZenonT(30), <2>1, <2>2, NumberMoves DEF Numbers, Offers, Aside
<1>3. Len(queue') <= Buffer
  <2>1. ASSUME NEW t \in Topics, Emit(t) PROVE Len(queue') <= Buffer
    <3>1. CASE Len(queue) < Buffer
      <4>1. queue' = Append(queue, t)
        BY Zenon, <2>1, <3>1 DEF Emit
      <4>2. Len(queue') = Len(queue) + 1 /\ Len(queue) \in Nat
        BY <1>1, <4>1
      <4>3. QED
        BY <1>1, <3>1, <4>2
    <3>2. CASE ~(Len(queue) < Buffer)
      BY Zenon, <2>1, <3>2 DEF Emit, Bounded
    <3>3. QED
      BY Zenon, <3>1, <3>2
  <2>2. ASSUME Receive PROVE Len(queue') <= Buffer
    <3>1. queue # <<>> /\ queue' = Tail(queue) /\ Len(queue) <= Buffer
      BY Zenon, <2>2 DEF Receive, Bounded
    <3>2. QED
      BY <1>1, <3>1
  <2>3. CASE queue' = queue
    BY Zenon, <2>3 DEF Bounded
  <2>4. Receive \/ (\E t \in Topics : Emit(t)) \/ queue' = queue
    BY ZenonT(30) DEF BusNext, EmitExternal, Step, LogEvent, Dispatch, CleanUp, Subscribe, Handle,
       ReadLog, Register, AnswerSubscribe, Unsubscribe, Relay, RelayFails, HangUp, Disconnect,
       router, busVars
  <2>5. QED
    BY Zenon, <2>1, <2>2, <2>3, <2>4
<1>4. ASSUME NEW id \in Subs PROVE Len(rx'[id]) <= SubBuffer
  <2>1. rx[id] \in Seq(Recs) /\ Len(rx[id]) \in Nat /\ Len(rx[id]) <= SubBuffer
    BY <1>1 DEF Bounded
  <2>2. ASSUME NEW p \in Tasks, Dispatch(p) PROVE Len(rx'[id]) <= SubBuffer
    <3>1. /\ task[p].ev \in Recs
          /\ rx'[id] = rx[id] \/ rx'[id] = Append(rx[id], task[p].ev)
      BY Zenon, <2>2, DispatchFacts
    <3>2. rx'[id] = rx[id] \/ ~(Len(rx[id]) >= SubBuffer)
      BY ZenonT(30), <1>1, <2>2 DEF Dispatch, Ids
    <3>3. rx'[id] = rx[id] \/ Len(rx'[id]) = Len(rx[id]) + 1
      BY <2>1, <3>1
    <3>4. CASE rx'[id] = rx[id]
      BY Zenon, <2>1, <3>4
    <3>5. CASE Len(rx'[id]) = Len(rx[id]) + 1 /\ ~(Len(rx[id]) >= SubBuffer)
      <4>1. \A m \in Nat : m <= SubBuffer /\ ~(m >= SubBuffer) => m + 1 <= SubBuffer
        BY <1>1
      <4>2. QED
        BY Zenon, <2>1, <3>5, <4>1
    <3>6. QED
      BY Zenon, <3>2, <3>3, <3>4, <3>5
  <2>3. ASSUME NEW i \in Subs, Relay(i) PROVE Len(rx'[id]) <= SubBuffer
    <3>1. rx[i] # <<>> /\ rx' = [rx EXCEPT ![i] = Tail(rx[i])]
      BY Zenon, <2>3 DEF Relay
    <3>2. rx'[id] = rx[id] \/ (rx[id] # <<>> /\ rx'[id] = Tail(rx[id]))
      BY Zenon, <1>1, <3>1
    <3>3. QED
      BY <1>1, <2>1, <3>2
  <2>4. ASSUME NEW i \in Subs, RelayFails(i) PROVE Len(rx'[id]) <= SubBuffer
    <3>1. rx'[id] = rx[id] \/ rx'[id] = <<>>
      BY Zenon, <1>1, <2>4 DEF RelayFails
    <3>2. QED
      BY <1>1, <2>1, <3>1
  <2>5. CASE rx' = rx
    BY Zenon, <2>1, <2>5
  <2>6. QED
    BY ZenonT(30), <2>2, <2>3, <2>4, <2>5, SubMoves DEF Begins, Reads, Enters, Replies
<1>5. QED
  BY Zenon, <1>2, <1>3, <1>4 DEF Bounded

\* EventLog::push, EventEmitter::emit and the try_send of assign_and_dispatch: whatever is
\* emitted and however slow the clients are, the log, the queue of the dispatch loop and
\* every subscriber's channel stay within their sizes.
THEOREM MemoryIsBounded == BusSpec => []Bounded
<1> DEFINE I == BusTypes /\ Entered /\ Bounded
<1>1. BusInit => Bounded
  <2>1. Len(<<>>) = 0 /\ 0 <= Capacity /\ 0 <= Buffer /\ 0 <= SubBuffer
    BY EventsAssumption
  <2>2. QED
    BY Zenon, <2>1 DEF BusInit, Bounded
<1>2. BusInit => I
  BY Zenon, <1>1, BusTypesInit, EnteredInit
<1>3. I /\ [BusNext]_busVars => I'
  BY ZenonT(30), BusTypesStep, EnteredStep, BoundedStep
<1>4. QED
  BY <1>2, <1>3, PTL DEF BusSpec

-----------------------------------------------------------------------------
(* What a subscriber is owed: the replay, then what is dispatched to it.   *)

OnWire(id, n) == \E i \in DOMAIN wire[Conn(id)] : /\ wire[Conn(id)][i].id = id
                                                  /\ wire[Conn(id)][i].seq = n
InRx(id, n) == \E k \in DOMAIN rx[id] : rx[id][k].seq = n

LEMMA ReachedFacts ==
  ASSUME NEW id, NEW n PROVE n \in Reached(id) <=> InRx(id, n) \/ OnWire(id, n)
BY ZenonT(30) DEF Reached, Seqs, InRx, OnWire, Conn

\* The history and what was written to a connection only grow.
LEMMA HistoryGrows ==
  ASSUME BusTypes, [BusNext]_busVars
  PROVE  /\ Len(history) <= Len(history') /\ Len(history) \in Nat
         /\ DOMAIN history = 1..Len(history)
         /\ \A i \in DOMAIN history : i \in DOMAIN history' /\ history'[i] = history[i]
         /\ InOrder' => InOrder
<1>1. history \in Seq(Recs)
  BY Zenon DEF BusTypes
<1>2. CASE UNCHANGED history
  <2>1. Len(history) \in Nat /\ DOMAIN history = 1..Len(history)
    BY Zenon, <1>1, DomainFacts
  <2>2. Len(history) <= Len(history)
    BY <2>1
  <2>3. Len(history') = Len(history) /\ DOMAIN history' = DOMAIN history
    BY Zenon, <1>2
  <2>4. QED
    BY Zenon, <1>2, <2>1, <2>2, <2>3 DEF InOrder
<1>3. ASSUME NEW p \in Tasks, Logs(p)
      PROVE  /\ Len(history') = Len(history) + 1 /\ DOMAIN history' = 1..(Len(history) + 1)
             /\ \A i \in 1..Len(history) : history'[i] = history[i]
  <2>1. task[p].ev \in Recs /\ history' = Append(history, task[p].ev)
    BY Zenon, <1>3 DEF Logs
  <2>2. /\ history' \in Seq(Recs) /\ Len(history') = Len(history) + 1
        /\ \A i \in 1..Len(history) : history'[i] = history[i]
    BY Zenon, <1>1, <2>1, AppendKeeps
  <2>3. QED
    BY ZenonT(30), <2>2, DomainFacts
<1>4. Len(history) \in Nat /\ DOMAIN history = 1..Len(history)
  BY Zenon, <1>1, DomainFacts
<1>5. ASSUME NEW p \in Tasks, Logs(p)
      PROVE  /\ Len(history) <= Len(history')
             /\ \A i \in DOMAIN history : i \in DOMAIN history' /\ history'[i] = history[i]
  BY <1>3, <1>4, <1>5
<1>6. ASSUME NEW p \in Tasks, Logs(p) PROVE InOrder' => InOrder
  BY ZenonT(30), <1>5, <1>6 DEF InOrder
<1>7. QED
  BY ZenonT(30), <1>2, <1>4, <1>5, <1>6, NumberMoves DEF Aside, Numbers, Offers

LEMMA WireGrows ==
  ASSUME BusTypes, [BusNext]_busVars
  PROVE  \A c \in Conns : \A i \in DOMAIN wire[c] :
           i \in DOMAIN wire'[c] /\ wire'[c][i] = wire[c][i]
<1>1. wire \in [Conns -> Seq(Frames)] /\ rx \in [Subs -> Seq(Recs)]
  BY Zenon DEF BusTypes
<1>2. ASSUME NEW id \in Subs, Relay(id)
      PROVE  \A c \in Conns : \A i \in DOMAIN wire[c] :
               i \in DOMAIN wire'[c] /\ wire'[c][i] = wire[c][i]
  <2> DEFINE f == [live |-> TRUE, id |-> id, seq |-> Head(rx[id]).seq]
  <2>1. wire' = [wire EXCEPT ![Conn(id)] = Append(@, f)] /\ rx[id] # <<>>
    BY Zenon, <1>2 DEF Relay, Conn
  <2>2. Head(rx[id]) \in Recs
    BY ZenonT(30), <1>1, <2>1, SeqFacts
  <2>3. f \in Frames
    BY Zenon, <2>2 DEF Frames, Recs
  <2> HIDE DEF f
  <2>4. \A c \in Conns : wire'[c] = wire[c] \/ wire'[c] = Append(wire[c], f)
    BY ZenonT(30), <1>1, <2>1
  <2>5. \A c \in Conns : \A i \in DOMAIN wire[c] :
          i \in DOMAIN Append(wire[c], f) /\ Append(wire[c], f)[i] = wire[c][i]
    BY <1>1, <2>3
  <2>6. QED
    BY Zenon, <2>4, <2>5
<1>3. ASSUME NEW c \in Conns, Replies(c)
      PROVE  \A d \in Conns : \A i \in DOMAIN wire[d] :
               i \in DOMAIN wire'[d] /\ wire'[d][i] = wire[d][i]
  <2> DEFINE w == Written(task[c].replay, task[c].sub.id)
  <2>1. wire' = [wire EXCEPT ![c] = @ \o w]
    BY ZenonT(30), <1>3 DEF Replies
  <2>2. task[c].replay \in Seq(Recs) /\ task[c].sub.id \in Subs
    BY ZenonT(30), <1>3 DEF Replies, Entering, Asks
  <2>3. w \in Seq(Frames)
    BY Zenon, <2>2, WrittenFacts
  <2> HIDE DEF w
  <2>4. wire[c] \in Seq(Frames) /\ wire'[c] = wire[c] \o w
        /\ \A d \in Conns \ {c} : wire'[d] = wire[d]
    BY ZenonT(30), <1>1, <2>1
  <2>5. \A i \in DOMAIN wire[c] : i \in DOMAIN wire'[c] /\ wire'[c][i] = wire[c][i]
    BY <2>3, <2>4
  <2>6. QED
    BY ZenonT(30), <2>4, <2>5
<1>4. CASE UNCHANGED wire
  BY ZenonT(30), <1>4
<1>5. QED
  BY ZenonT(30), <1>2, <1>3, <1>4, SubMoves DEF RelayFails, Begins, Reads, Enters

\* ... so what was written for a subscription whose connection stays the same stays.
LEMMA OnWireKept ==
  ASSUME BusTypes, [BusNext]_busVars,
         NEW id \in Subs, Known(id), start'[id].sub = start[id].sub, NEW n, OnWire(id, n)
  PROVE  OnWire(id, n)'
<1>1. Conn(id)' = Conn(id) /\ Conn(id) \in Conns
  BY ZenonT(30) DEF Known, Conn, Starts, Asks
<1>2. QED
  BY ZenonT(30), <1>1, WireGrows DEF OnWire

Pending(id, n) ==
  \E c \in Conns : /\ task[c].pc \in {"register", "answer"} /\ task[c].sub.id = id
                   /\ \E k \in DOMAIN task[c].replay : task[c].replay[k].seq = n

\* A subscription told of no gap replays all that was logged after since.
Replays(id) ==
  /\ start[id].upto <= Len(history)
  /\ InOrder /\ ~start[id].gap /\ start[id].since > 0 =>
       \A i \in DOMAIN history, n \in Nat :
         /\ n = history[i].seq
         /\ i <= start[id].upto /\ n > start[id].since /\ matches(start[id].sub, history[i])
         => Pending(id, n) \/ OnWire(id, n)

Begun(id) ==
  \/ \E s \in subs : s.id = id
  \/ \E c \in Conns : task[c].pc = "register" /\ task[c].sub.id = id

ReplayInv == \A id \in Subs : Begun(id) => Replays(id)

\* since_matching: what the log no longer holds comes before what it holds.
LEMMA LogHolds ==
  ASSUME BusTypes, LogInv, InOrder, NEW since \in Nat, since > 0, ~Gap(since), NEW sub,
         NEW i \in DOMAIN history, history[i].seq > since, matches(sub, history[i])
  PROVE  \E k \in DOMAIN Replay(since, sub) : Replay(since, sub)[k].seq = history[i].seq
<1> DEFINE n == Len(history)
           m == Len(log)
<1>1. /\ log \in Seq(Recs) /\ history \in Seq(Recs) /\ n \in Nat /\ m \in Nat /\ m <= n
      /\ DOMAIN history = 1..n /\ DOMAIN log = 1..m
      /\ \A k \in 1..m : log[k] = history[n - m + k]
      /\ log # <<>>
  <2>1. log \in Seq(Recs) /\ history \in Seq(Recs) /\ history # <<>>
    BY Zenon, DomainFacts DEF BusTypes
  <2>2. n \in Nat /\ m \in Nat /\ DOMAIN history = 1..n /\ DOMAIN log = 1..m
    BY Zenon, <2>1, DomainFacts
  <2>3. QED
    BY Zenon, <2>1, <2>2 DEF LogInv
<1>2. m >= 1 /\ Head(log) = log[1] /\ log[1] = history[n - m + 1]
  <2>1. m >= 1 /\ Head(log) = log[1]
    BY ZenonT(30), <1>1, SeqFacts
  <2>2. 1 \in 1..m
    BY <1>1, <2>1
  <2>3. QED
    BY Zenon, <1>1, <2>1, <2>2
<1>3. Head(log).seq <= since
  <2>1. Head(log) \in Recs
    BY ZenonT(30), <1>1, SeqFacts
  <2>2. Head(log).seq \in Nat
    BY ZenonT(30), <2>1 DEF Recs
  <2>3. ~(since < Head(log).seq)
    BY ZenonT(30), <1>1 DEF Gap
  <2>4. QED
    BY <2>2, <2>3
<1>4. \A j \in 1..n : history[j].seq \in Nat
  <2>1. \A j \in 1..n : history[j] \in Recs
    BY Zenon, <1>1, DomainFacts
  <2>2. QED
    BY ZenonT(30), <2>1 DEF Recs
<1> HIDE DEF n, m
<1>5. i > n - m
  <2>0. n \in Nat /\ m \in Nat /\ m <= n /\ i \in 1..n /\ m >= 1
    BY Zenon, <1>1, <1>2
  <2> SUFFICES ASSUME i <= n - m PROVE FALSE
    BY <2>0
  <2>1. i \in 1..n /\ n - m + 1 \in 1..n /\ i < n - m + 1
    BY <2>0
  <2>2. history[i].seq < history[n - m + 1].seq
    BY ZenonT(30), <1>1, <2>1 DEF InOrder
  <2>3. history[i].seq \in Nat /\ history[n - m + 1].seq \in Nat
    BY Zenon, <1>4, <2>1
  <2>4. history[n - m + 1].seq <= since
    BY Zenon, <1>2, <1>3
  <2>5. QED
    BY <2>2, <2>3, <2>4
<1> DEFINE k == i - (n - m)
<1>6. k \in 1..m /\ n - m + k = i
  BY <1>1, <1>5
<1> HIDE DEF k
<1>7. k \in DOMAIN log /\ log[k] = history[i]
  BY ZenonT(30), <1>1, <1>6
<1>8. log[k].seq \in Seqs(Replay(since, sub))
  BY ZenonT(30), <1>1, <1>7, ReplayFacts
<1>9. QED
  BY ZenonT(30), <1>7, <1>8 DEF Seqs

LEMMA ReplayInit == BusInit => ReplayInv
<1> SUFFICES ASSUME BusInit, NEW id \in Subs PROVE ~Begun(id)
  BY Zenon DEF ReplayInv
<1>1. subs = {} /\ \A c \in Conns : task[c] = Resting
  BY Zenon DEF BusInit, Tasks
<1>2. QED
  BY Zenon, <1>1, RestingJob DEF Begun

LEMMA ReplayStep ==
  ASSUME BusTypes, Entered, SubInv, LogInv, ReplayInv, [BusNext]_busVars
  PROVE  ReplayInv'
<1>1. start \in [Subs -> Starts \cup {Nothing}] /\ task \in [Tasks -> Jobs]
  BY ZenonT(30) DEF BusTypes
<1>2. /\ Len(history) <= Len(history') /\ Len(history) \in Nat /\ Len(history') \in Nat
      /\ DOMAIN history = 1..Len(history)
      /\ \A i \in DOMAIN history : i \in DOMAIN history' /\ history'[i] = history[i]
      /\ InOrder' => InOrder
  <2>1. history' \in Seq(Recs)
    BY ZenonT(30), BusTypesStep DEF BusTypes
  <2>2. QED
    BY <2>1, HistoryGrows
<1>3. \A id \in Subs : Begun(id) => Known(id)
  BY ZenonT(30) DEF Begun, SubInv, Entered
<1>4. ASSUME NEW id \in Subs, Begun(id),
             start'[id].sub = start[id].sub, start'[id].since = start[id].since,
             start'[id].gap = start[id].gap, start'[id].upto = start[id].upto,
             \A n : Pending(id, n) => Pending(id, n)' \/ OnWire(id, n)'
      PROVE  Replays(id)'
  <2>1. Known(id) /\ Replays(id) /\ start[id].upto \in Nat
    BY ZenonT(30), <1>3, <1>4 DEF ReplayInv, Known, Starts
  <2>2. start[id].upto <= Len(history) /\ start'[id].upto <= Len(history')
    BY <1>2, <1>4, <2>1 DEF Replays
  <2>3. ASSUME InOrder', ~start'[id].gap, start'[id].since > 0, NEW i \in DOMAIN history',
               NEW n \in Nat, n = history'[i].seq,
               i <= start'[id].upto, n > start'[id].since, matches(start'[id].sub, history'[i])
        PROVE  Pending(id, n)' \/ OnWire(id, n)'
    <3>1. history' \in Seq(Recs)
      BY ZenonT(30), BusTypesStep DEF BusTypes
    <3>2. i \in DOMAIN history /\ history'[i] = history[i]
      <4>1. i \in 1..Len(history') /\ i <= start[id].upto
        BY Zenon, <1>4, <2>3, <3>1, DomainFacts
      <4>2. Len(history) \in Nat /\ Len(history') \in Nat /\ DOMAIN history = 1..Len(history)
        BY ZenonT(60), <1>2
      <4>3. \A u, m \in Nat : i \in 1..Len(history') /\ i <= u /\ u <= m => i \in 1..m
        OBVIOUS
      <4>4. i \in DOMAIN history
        BY Zenon, <2>1, <2>2, <4>1, <4>2, <4>3
      <4>5. QED
        BY Zenon, <1>2, <4>4
    <3>3. Pending(id, n) \/ OnWire(id, n)
      BY ZenonT(30), <1>2, <1>4, <2>1, <2>3, <3>2 DEF Replays
    <3>4. QED
      BY ZenonT(30), <1>4, <2>1, <3>3, OnWireKept
  <2>4. QED
    <3>1. \A i, n : matches(start[id].sub, history[i])' <=> matches(start'[id].sub, history'[i])
      BY ZenonT(30) DEF matches
    <3>2. QED
      BY ZenonT(30), <2>2, <2>3, <3>1 DEF Replays
<1>5. CASE Steady
  <2>1. /\ start' = start
        /\ \A c \in Conns : Opening(c) \/ Opening(c)' => task'[c] = task[c]
        /\ \A s \in subs' : \E r \in subs : r.id = s.id
    BY ZenonT(30), <1>5 DEF Steady
  <2>2. \A c \in Conns : /\ task[c].pc \in {"register", "answer"} => task'[c] = task[c]
                         /\ task'[c].pc \in {"register", "answer"} => task'[c] = task[c]
    BY ZenonT(30), <2>1 DEF Opening
  <2>3. \A id \in Subs : (Begun(id)' => Begun(id)) /\ \A n : Pending(id, n) => Pending(id, n)'
    BY <2>1, <2>2 DEF Begun, Pending
  <2>4. QED
    BY ZenonT(30), <1>4, <2>1, <2>3 DEF ReplayInv
<1>6. ASSUME NEW i \in Subs, RelayFails(i) PROVE ReplayInv'
  <2>1. UNCHANGED <<start, task, subs>>
    BY ZenonT(30), <1>6 DEF RelayFails, book
  <2>2. \A id \in Subs : (Begun(id)' => Begun(id)) /\ \A n : Pending(id, n) => Pending(id, n)'
    BY ZenonT(30), <2>1 DEF Begun, Pending
  <2>3. QED
    BY ZenonT(30), <1>4, <2>1, <2>2 DEF ReplayInv
<1>7. ASSUME NEW c \in Conns, Begins(c) PROVE ReplayInv'
  <2>1. /\ start' = start /\ subs' \subseteq subs /\ task'[c].pc = "replay" /\ ~Opening(c)
        /\ \A d \in Conns \ {c} : task'[d] = task[d]
    BY ZenonT(30), <1>7 DEF Begins, Same, Without, book
  <2>2. \A id \in Subs : Begun(id)' => Begun(id)
    BY ZenonT(30), <2>1 DEF Begun
  <2>3. \A id \in Subs : \A n : Pending(id, n) => Pending(id, n)'
    BY Zenon, <2>1 DEF Pending, Opening
  <2>4. QED
    BY ZenonT(30), <1>4, <2>1, <2>2, <2>3 DEF ReplayInv
<1>8. ASSUME NEW c \in Conns, Reads(c) PROVE ReplayInv'
  <2> DEFINE t == task[c]
             a == t.sub
             r == Replay(t.since, a)
             b == [sub |-> a, since |-> t.since, gap |-> Gap(t.since),
                   upto |-> Len(history), before |-> {}]
  <2>1. /\ t \in Looking /\ t.pc = "replay"
        /\ task'[c].pc = "register" /\ task'[c].sub = a /\ task'[c].replay = r
        /\ start' = [start EXCEPT ![a.id] = b]
        /\ \A d \in Conns \ {c} : task'[d] = task[d]
        /\ UNCHANGED <<subs, history>>
    <3>1. /\ t \in Looking /\ t.pc = "replay" /\ start' = [start EXCEPT ![a.id] = b]
          /\ task'[c] = [pc |-> "register", sub |-> a, replay |-> r]
          /\ \A d \in Conns \ {c} : task'[d] = task[d]
          /\ UNCHANGED <<subs, history>>
      BY ZenonT(60), <1>8 DEF Reads, Same
    <3>2. task'[c].pc = "register" /\ task'[c].sub = a /\ task'[c].replay = r
      <4> HIDE DEF r, a
      <4>1. task'[c] = [pc |-> "register", sub |-> a, replay |-> r]
        BY Zenon, <3>1
      <4>2. QED
        BY <4>1
    <3>3. QED
      BY Zenon, <3>1, <3>2
  <2>2. t.since \in Nat /\ a.id \in Subs
    BY ZenonT(30), <2>1 DEF Looking, Asks
  <2>3. b.sub = a /\ b.since = t.since /\ b.gap = Gap(t.since) /\ b.upto = Len(history)
    BY Zenon
  <2> HIDE DEF b, r
  <2>4. start'[a.id] = b /\ \A id \in Subs \ {a.id} : start'[id] = start[id]
    BY ZenonT(30), <1>1, <2>1, <2>2
  <2>5. \A id \in Subs : a.id = id => Replays(id)'
    <3> SUFFICES ASSUME NEW id \in Subs, a.id = id PROVE Replays(id)'
      BY ZenonT(30)
    <3>1. ASSUME InOrder', ~b.gap, b.since > 0, NEW i \in DOMAIN history,
                 NEW n \in Nat, n = history[i].seq, n > b.since, matches(b.sub, history[i])
          PROVE  Pending(id, n)'
      <4>1. InOrder /\ ~Gap(t.since) /\ t.since > 0 /\ history[i].seq > t.since
            /\ matches(a, history[i])
        BY ZenonT(30), <1>2, <2>3, <3>1
      <4>2. \E k \in DOMAIN r : r[k].seq = n
        <5>1. \E k \in DOMAIN Replay(t.since, a) : Replay(t.since, a)[k].seq = history[i].seq
          <6> HIDE DEF t, a
          <6>1. QED
            BY ZenonT(60), <2>2, <4>1, LogHolds
        <5>2. QED
          BY ZenonT(60), <3>1, <5>1 DEF r
      <4>3. QED
        BY ZenonT(30), <2>1, <4>2 DEF Pending
    <3>2. start'[id].upto <= Len(history')
      BY ZenonT(30), <1>2, <2>1, <2>3, <2>4
    <3>3. \A i : matches(start[id].sub, history[i])' <=> matches(b.sub, history[i])
      BY ZenonT(30), <2>1, <2>4 DEF matches
    <3>4. QED
      BY ZenonT(30), <2>1, <2>4, <3>1, <3>2, <3>3 DEF Replays
  <2>6. \A id \in Subs \ {a.id} : (Begun(id)' => Begun(id))
                                  /\ \A n : Pending(id, n) => Pending(id, n)'
    <3>1. \A id \in Subs \ {a.id} : Begun(id)' => Begun(id)
      BY ZenonT(30), <2>1 DEF Begun
    <3>2. \A id \in Subs \ {a.id} : \A n : Pending(id, n) => Pending(id, n)'
      BY ZenonT(30), <2>1 DEF Pending
    <3>3. QED
      BY ZenonT(30), <3>1, <3>2
  <2>7. \A id \in Subs \ {a.id} : Begun(id)' => Replays(id)'
    BY ZenonT(30), <1>4, <2>4, <2>6
  <2>8. QED
    BY ZenonT(30), <2>5, <2>7 DEF ReplayInv
<1>9. ASSUME NEW c \in Conns, Enters(c) PROVE ReplayInv'
  <2> DEFINE t == task[c]
             a == t.sub
             b == [start[a.id] EXCEPT !.before = dispatched]
  <2>1. /\ t \in Entering /\ t.pc = "register" /\ task'[c] = [t EXCEPT !.pc = "answer"]
        /\ start' = [start EXCEPT ![a.id] = b] /\ subs' = subs \cup {a}
        /\ \A d \in Conns \ {c} : task'[d] = task[d]
    BY Zenon, <1>9 DEF Enters, Same
  <2>2. /\ a.id \in Subs /\ task'[c].pc = "answer" /\ task'[c].sub = a
        /\ task'[c].replay = t.replay
    BY Zenon, <2>1, RecordFacts DEF Entering, Asks
  <2>3. start[a.id] \in Starts
    BY Zenon, <2>1 DEF Entered, Known
  <2>4. /\ b.sub = start[a.id].sub /\ b.since = start[a.id].since
        /\ b.gap = start[a.id].gap /\ b.upto = start[a.id].upto
    BY Zenon, <2>3 DEF Starts
  <2> HIDE DEF b
  <2>5. start'[a.id] = b /\ \A id \in Subs \ {a.id} : start'[id] = start[id]
    BY ZenonT(60), <1>1, <2>1, <2>2
  <2>6. \A id \in Subs : Begun(id)' => Begun(id)
    BY ZenonT(30), <2>1, <2>2 DEF Begun
  <2>7. \A id \in Subs : \A n : Pending(id, n) => Pending(id, n)'
    <3> SUFFICES ASSUME NEW id \in Subs, NEW n, Pending(id, n) PROVE Pending(id, n)'
      BY ZenonT(30)
    <3>1. PICK d \in Conns : /\ task[d].pc \in {"register", "answer"} /\ task[d].sub.id = id
                             /\ \E k \in DOMAIN task[d].replay : task[d].replay[k].seq = n
      BY Zenon DEF Pending
    <3>2. /\ task'[d].pc \in {"register", "answer"} /\ task'[d].sub.id = id
          /\ task'[d].replay = task[d].replay
      BY ZenonT(30), <2>1, <2>2, <3>1
    <3>3. QED
      BY Zenon, <3>1, <3>2 DEF Pending
  <2>8. QED
    BY ZenonT(30), <1>4, <2>4, <2>5, <2>6, <2>7 DEF ReplayInv
<1>10. ASSUME NEW c \in Conns, Replies(c) PROVE ReplayInv'
  <2> DEFINE t == task[c]
             a == t.sub
             w == Written(t.replay, a.id)
  <2>1. /\ t \in Entering /\ t.pc = "answer" /\ wire' = [wire EXCEPT ![c] = @ \o w]
        /\ task'[c].pc = "idle" /\ \A d \in Conns \ {c} : task'[d] = task[d]
        /\ UNCHANGED <<start, subs>>
    BY ZenonT(30), <1>10 DEF Replies, Same, book
  <2>2. t.replay \in Seq(Recs) /\ a.id \in Subs
    BY ZenonT(30), <2>1 DEF Entering, Asks
  <2>3. /\ w \in Seq(Frames) /\ DOMAIN w = DOMAIN t.replay
        /\ \A k \in DOMAIN w : w[k].id = a.id /\ w[k].seq = t.replay[k].seq
    <3>1. /\ w \in Seq(Frames) /\ DOMAIN w = DOMAIN t.replay
          /\ \A k \in DOMAIN t.replay : ~w[k].live /\ w[k].id = a.id /\ w[k].seq = t.replay[k].seq
      <4> HIDE DEF t, a
      <4>1. QED
        BY Zenon, <2>2, WrittenFacts DEF w
    <3> HIDE DEF w
    <3>2. QED
      BY Zenon, <3>1
  <2> HIDE DEF w
  <2>4. \A k \in DOMAIN w : Len(wire[c]) + k \in DOMAIN wire'[c]
                            /\ wire'[c][Len(wire[c]) + k] = w[k]
    <3>1. wire[c] \in Seq(Frames) /\ wire'[c] = wire[c] \o w
      BY ZenonT(30), <2>1 DEF BusTypes
    <3>2. \A k \in DOMAIN w : /\ Len(wire[c]) + k \in DOMAIN (wire[c] \o w)
                              /\ (wire[c] \o w)[Len(wire[c]) + k] = w[k]
      <4>1. w \in Seq(Frames)
        BY Zenon, <2>3
      <4>2. QED
        BY Zenon, <3>1, <4>1, ConcatEnds
    <3>3. QED
      BY Zenon, <3>1, <3>2
  <2>5. start'[a.id].sub.conn = c
    BY ZenonT(30), <2>1 DEF SubInv, Opening
  <2>6. \A n : (\E k \in DOMAIN t.replay : t.replay[k].seq = n) =>
           \E i \in DOMAIN wire'[c] : wire'[c][i].id = a.id /\ wire'[c][i].seq = n
    BY ZenonT(30), <2>3, <2>4
  <2>7. \A id \in Subs : \A n : Pending(id, n) => Pending(id, n)' \/ OnWire(id, n)'
    <3> SUFFICES ASSUME NEW id \in Subs, NEW n, Pending(id, n)
                 PROVE  Pending(id, n)' \/ OnWire(id, n)'
      BY ZenonT(30)
    <3>1. PICK d \in Conns : /\ task[d].pc \in {"register", "answer"} /\ task[d].sub.id = id
                             /\ \E k \in DOMAIN task[d].replay : task[d].replay[k].seq = n
      BY Zenon DEF Pending
    <3>2. CASE d = c
      <4>1. PICK i \in DOMAIN wire'[c] : wire'[c][i].id = id /\ wire'[c][i].seq = n
        BY Zenon, <2>6, <3>1, <3>2
      <4>2. start'[id].sub.conn = c
        BY Zenon, <2>5, <3>1, <3>2
      <4>3. QED
        BY Zenon, <4>1, <4>2 DEF OnWire, Conn
    <3>3. CASE d # c
      BY ZenonT(30), <2>1, <3>1, <3>3 DEF Pending
    <3>4. QED
      BY Zenon, <3>2, <3>3
  <2>8. \A id \in Subs : Begun(id)' => Begun(id)
    BY ZenonT(30), <2>1 DEF Begun
  <2>9. QED
    BY ZenonT(30), <1>4, <2>1, <2>7, <2>8 DEF ReplayInv
<1>11. QED
  BY ZenonT(30), <1>5, <1>6, <1>7, <1>8, <1>9, <1>10, SubMoves

\* Once registered, a subscriber gets what is dispatched, unless its channel is full.
LiveInv ==
  \A s \in subs : s.id \notin closed =>
    \A i \in DOMAIN history, n \in Nat :
      /\ n = history[i].seq /\ n \in dispatched
      /\ n \notin start[s.id].before \cup missed[s.id]
      /\ matches(s, history[i])
      => InRx(s.id, n) \/ OnWire(s.id, n)

LEMMA LiveInit == BusInit => LiveInv
BY ZenonT(30) DEF BusInit, LiveInv

LEMMA LiveStep ==
  ASSUME BusTypes, Entered, NumberInv, HistoryInv, SubInv, PushInv, LiveInv, [BusNext]_busVars
  PROVE  LiveInv'
<1>1. /\ start \in [Subs -> Starts \cup {Nothing}] /\ rx \in [Subs -> Seq(Recs)]
      /\ subs \in SUBSET Asks /\ \A s \in subs : s.id \in Subs /\ Known(s.id)
  BY ZenonT(30) DEF BusTypes, SubInv, Asks
<1>2. /\ \A i \in DOMAIN history : i \in DOMAIN history' /\ history'[i] = history[i]
      /\ \A n \in dispatched : \E i \in DOMAIN history : history[i].seq = n
      /\ \A i, k \in DOMAIN history' : i # k => history'[i].seq # history'[k].seq
  BY ZenonT(30), HistoryGrows, HistoryStep DEF HistoryInv
\* An event dispatched before was in the history before.
<1>3. \A i \in DOMAIN history' : history'[i].seq \in dispatched =>
         i \in DOMAIN history /\ history'[i] = history[i]
  BY <1>2
<1>4. ASSUME NEW r \in subs, NEW s, s.id = r.id, s.identity = r.identity, s.topics \subseteq r.topics,
             r.id \notin closed, start'[s.id].sub = start[s.id].sub,
             start[s.id].before \subseteq start'[s.id].before,
             missed[s.id] \subseteq missed'[s.id],
             \A n : InRx(r.id, n) => InRx(r.id, n)' \/ OnWire(r.id, n)',
             NEW i \in DOMAIN history', NEW n \in Nat, n = history'[i].seq, n \in dispatched,
             n \notin start'[s.id].before \cup missed'[s.id], matches(s, history'[i])
      PROVE  InRx(s.id, n)' \/ OnWire(s.id, n)'
  <2>1. i \in DOMAIN history /\ history'[i] = history[i] /\ matches(r, history[i])
    BY ZenonT(30), <1>3, <1>4 DEF matches
  <2>2. InRx(r.id, n) \/ OnWire(r.id, n)
    BY ZenonT(30), <1>4, <2>1 DEF LiveInv
  <2>3. OnWire(r.id, n) => OnWire(r.id, n)'
    BY ZenonT(30), <1>1, <1>4, OnWireKept
  <2>4. QED
    BY ZenonT(30), <1>4, <2>2, <2>3
\* Where no event is dispatched, it is enough that every channel keeps its events.
<1>5. ASSUME UNCHANGED dispatched, closed \subseteq closed',
             \A s \in subs' : s.id \notin closed' /\ ~(dispatched \subseteq start'[s.id].before) =>
               \E r \in subs : /\ r.id = s.id /\ r.identity = s.identity
                               /\ s.topics \subseteq r.topics
                               /\ start'[s.id].sub = start[s.id].sub
                               /\ start[s.id].before \subseteq start'[s.id].before
                               /\ missed[s.id] \subseteq missed'[s.id]
                               /\ \A n : InRx(r.id, n) => InRx(r.id, n)' \/ OnWire(r.id, n)'
      PROVE  LiveInv'
  <2> SUFFICES ASSUME NEW s \in subs', s.id \notin closed', NEW i \in DOMAIN history', NEW n \in Nat,
                      n = history'[i].seq, n \in dispatched',
                      n \notin start'[s.id].before \cup missed'[s.id], matches(s, history'[i])
               PROVE  InRx(s.id, n)' \/ OnWire(s.id, n)'
    <3>1. \A s, i : matches(s, history[i])' <=> matches(s, history'[i])
      BY ZenonT(30) DEF matches
    <3>2. QED
      BY ZenonT(30), <3>1 DEF LiveInv
  <2>0. ~(dispatched \subseteq start'[s.id].before)
    BY ZenonT(30), <1>5
  <2>1. PICK r \in subs : /\ r.id = s.id /\ r.identity = s.identity
                          /\ s.topics \subseteq r.topics
                          /\ start'[s.id].sub = start[s.id].sub
                          /\ start[s.id].before \subseteq start'[s.id].before
                          /\ missed[s.id] \subseteq missed'[s.id]
                          /\ \A m : InRx(r.id, m) => InRx(r.id, m)' \/ OnWire(r.id, m)'
    BY ZenonT(30), <1>5, <2>0
  <2>2. r.id \notin closed /\ n \in dispatched
    BY ZenonT(30), <1>5, <2>1
  <2>3. QED
    BY ZenonT(30), <1>4, <2>1, <2>2
<1>6. ASSUME Steady, UNCHANGED <<rx, dispatched, missed>> PROVE LiveInv'
  <2>1. /\ UNCHANGED <<closed, start>>
        /\ \A s \in subs' : \E r \in subs : /\ r.id = s.id /\ r.identity = s.identity
                                            /\ s.topics \subseteq r.topics
    BY Zenon, <1>6 DEF Steady
  <2>2. \A id, n : InRx(id, n) => InRx(id, n)'
    BY Zenon, <1>6 DEF InRx
  <2>3. ASSUME NEW s \in subs', ~(dispatched \subseteq start'[s.id].before)
        PROVE  \E r \in subs : /\ r.id = s.id /\ r.identity = s.identity
                               /\ s.topics \subseteq r.topics
                               /\ start'[s.id].sub = start[s.id].sub
                               /\ start[s.id].before \subseteq start'[s.id].before
                               /\ missed[s.id] \subseteq missed'[s.id]
                               /\ \A n : InRx(r.id, n) => InRx(r.id, n)' \/ OnWire(r.id, n)'
    <3>1. PICK r \in subs : r.id = s.id /\ r.identity = s.identity /\ s.topics \subseteq r.topics
      BY Zenon, <2>1
    <3>2. /\ start' = start /\ start[s.id].before \subseteq start[s.id].before
          /\ missed' = missed /\ missed[s.id] \subseteq missed[s.id]
      BY Zenon, <1>6, <2>1
    <3>3. \A n : InRx(r.id, n) => InRx(r.id, n)' \/ OnWire(r.id, n)'
      BY Zenon, <2>2
    <3>4. QED
      BY Zenon, <3>1, <3>2, <3>3
  <2>4. QED
    BY Zenon, <1>5, <1>6, <2>1, <2>3
<1>7. ASSUME NEW p \in Tasks, Dispatch(p), Steady, UNCHANGED <<subs, history>> PROVE LiveInv'
  <2> DEFINE e == task[p].ev
  <2>1. /\ task[p].pc = "logged" /\ e \in Recs /\ dispatched' = dispatched \cup {e.seq}
        /\ \A id \in Subs : rx'[id] = rx[id] \/ rx'[id] = Append(rx[id], e)
        /\ \A s \in subs : matches(s, e) /\ s.id \notin closed =>
             rx'[s.id] = Append(rx[s.id], e) \/ e.seq \in missed'[s.id]
        /\ \A id \in Subs : missed[id] \subseteq missed'[id]
    BY ZenonT(30), <1>7, DispatchFacts
  <2>2. UNCHANGED <<closed, start>>
    BY ZenonT(30), <1>7 DEF Steady
  <2>3. \E i \in DOMAIN history : history[i] = e
    BY Zenon, <2>1 DEF HistoryInv
  <2> HIDE DEF e
  <2>4. ASSUME NEW id \in Subs, rx'[id] = Append(rx[id], e)
        PROVE  \A n : InRx(id, n) \/ n = e.seq => InRx(id, n)'
    <3>1. rx[id] \in Seq(Recs)
      BY ZenonT(30), <1>1
    <3>2. /\ Len(rx[id]) + 1 \in DOMAIN Append(rx[id], e)
          /\ Append(rx[id], e)[Len(rx[id]) + 1] = e
          /\ \A k \in DOMAIN rx[id] : /\ k \in DOMAIN Append(rx[id], e)
                                     /\ Append(rx[id], e)[k] = rx[id][k]
      <4>1. e \in Recs
        BY Zenon, <2>1
      <4>2. /\ Len(rx[id]) + 1 \in DOMAIN Append(rx[id], e)
            /\ Append(rx[id], e)[Len(rx[id]) + 1] = e
        BY ZenonT(60), <3>1, <4>1, AppendFacts
      <4>3. QED
        BY Zenon, <3>1, <4>1, <4>2, AppendKeeps
    <3>3. /\ Len(rx[id]) + 1 \in DOMAIN rx'[id] /\ rx'[id][Len(rx[id]) + 1] = e
          /\ \A k \in DOMAIN rx[id] : k \in DOMAIN rx'[id] /\ rx'[id][k] = rx[id][k]
      BY Zenon, <2>4, <3>2
    <3>4. \A m : m = e.seq => InRx(id, m)'
      BY ZenonT(30), <3>2, <3>3 DEF InRx
    <3>5. \A n : InRx(id, n) => InRx(id, n)'
      BY ZenonT(30), <3>2, <3>3 DEF InRx
    <3>6. QED
      BY Zenon, <3>4, <3>5
  <2>5. \A id \in Subs : \A n : InRx(id, n) => InRx(id, n)'
    <3>1. \A id \in Subs : rx'[id] = rx[id] => \A n : InRx(id, n) => InRx(id, n)'
      BY ZenonT(30) DEF InRx
    <3>2. QED
      BY ZenonT(30), <2>1, <2>4, <3>1
  <2> SUFFICES ASSUME NEW s \in subs, s.id \notin closed, NEW i \in DOMAIN history', NEW n \in Nat,
                      n = history'[i].seq, n \in dispatched',
                      n \notin start'[s.id].before \cup missed'[s.id], matches(s, history'[i])
               PROVE  InRx(s.id, n)' \/ OnWire(s.id, n)'
    <3>1. \A s, i : matches(s, history[i])' <=> matches(s, history'[i])
      BY ZenonT(30) DEF matches
    <3>2. QED
      BY ZenonT(30), <1>7, <2>2, <3>1 DEF LiveInv
  <2>6. CASE n \in dispatched
    <3>1. s.id \in Subs
      BY ZenonT(30), <1>1
    <3>2. QED
      BY ZenonT(30), <1>4, <2>1, <2>2, <2>5, <2>6, <3>1
  <2>7. CASE n = e.seq
    <3>1. history'[i] = e
      <4>1. PICK m \in DOMAIN history : history[m] = e
        BY Zenon, <2>3
      <4>2. i \in DOMAIN history /\ history[i].seq = history[m].seq /\ history'[i] = history[i]
        BY Zenon, <1>7, <2>7, <4>1
      <4>3. QED
        BY Zenon, <1>2, <4>1, <4>2
    <3>2. rx'[s.id] = Append(rx[s.id], e)
      BY ZenonT(30), <2>1, <2>7, <3>1
    <3>3. QED
      BY ZenonT(30), <1>1, <2>4, <2>7, <3>2
  <2>8. QED
    BY Zenon, <2>1, <2>6, <2>7
<1>8. ASSUME NEW j \in Subs, Relay(j), Steady, UNCHANGED <<dispatched, missed>> PROVE LiveInv'
  <2> DEFINE c == Conn(j)
             e == Head(rx[j])
             f == [live |-> TRUE, id |-> j, seq |-> e.seq]
  <2>1. /\ rx[j] # <<>> /\ rx' = [rx EXCEPT ![j] = Tail(@)]
        /\ wire' = [wire EXCEPT ![c] = Append(@, f)]
    BY ZenonT(30), <1>8 DEF Relay, Conn
  <2>2. /\ UNCHANGED <<closed, start>>
        /\ \A s \in subs' : \E r \in subs : /\ r.id = s.id /\ r.identity = s.identity
                                            /\ s.topics \subseteq r.topics
    BY ZenonT(30), <1>8 DEF Steady
  <2>3. c \in Conns /\ Conn(j)' = c
    BY ZenonT(30), <2>1, <2>2 DEF PushInv, Known, Conn, Starts, Asks
  <2>4. /\ rx[j] \in Seq(Recs) /\ Len(rx[j]) \in Nat /\ e = rx[j][1] /\ e \in Recs
        /\ Tail(rx[j]) \in Seq(Recs) /\ Len(Tail(rx[j])) = Len(rx[j]) - 1
        /\ \A k \in 1..(Len(rx[j]) - 1) : Tail(rx[j])[k] = rx[j][k + 1]
    <3>1. rx[j] \in Seq(Recs) /\ rx[j] # <<>>
      BY Zenon, <1>1, <2>1
    <3>2. Len(rx[j]) \in Nat
      BY Zenon, <3>1, DomainFacts
    <3>3. QED
      BY ZenonT(60), <3>1, <3>2, SeqFacts
  <2>5. f \in Frames /\ f.id = j /\ f.seq = e.seq
    BY ZenonT(30), <2>4 DEF Frames, Recs
  <2> HIDE DEF c, e, f
  <2>6. \A n : n = e.seq => OnWire(j, n)'
    <3>1. wire[c] \in Seq(Frames) /\ wire'[c] = Append(wire[c], f)
      BY ZenonT(30), <2>1, <2>3 DEF BusTypes
    <3>2. Len(wire[c]) + 1 \in DOMAIN wire'[c] /\ wire'[c][Len(wire[c]) + 1] = f
      <4>1. /\ Len(wire[c]) + 1 \in DOMAIN Append(wire[c], f)
            /\ Append(wire[c], f)[Len(wire[c]) + 1] = f
        BY Zenon, <2>5, <3>1, AppendFacts
      <4>2. QED
        BY Zenon, <3>1, <4>1
    <3>3. QED
      BY ZenonT(30), <2>3, <2>5, <3>2 DEF OnWire
  <2>7. \A n : InRx(j, n) /\ n # e.seq => InRx(j, n)'
    <3> SUFFICES ASSUME NEW n, NEW k \in DOMAIN rx[j], rx[j][k].seq = n, n # e.seq PROVE InRx(j, n)'
      BY ZenonT(30) DEF InRx
    <3>1. k # 1
      BY Zenon, <2>4
    <3>2. k - 1 \in DOMAIN Tail(rx[j]) /\ Tail(rx[j])[k - 1] = rx[j][k]
      BY Zenon, <2>1, <2>4, <3>1, TailFacts
    <3>3. rx'[j] = Tail(rx[j])
      BY Zenon, <1>1, <2>1
    <3>4. QED
      BY Zenon, <3>2, <3>3 DEF InRx
  <2>8. \A id \in Subs \ {j} : \A n : InRx(id, n) => InRx(id, n)'
    BY ZenonT(30), <1>1, <2>1 DEF InRx
  <2>9. \A id \in Subs : \A n : InRx(id, n) => InRx(id, n)' \/ OnWire(id, n)'
    BY ZenonT(30), <2>6, <2>7, <2>8
  <2>10. ASSUME NEW s \in subs'
         PROVE  \E r \in subs : /\ r.id = s.id /\ r.identity = s.identity
                                /\ s.topics \subseteq r.topics
                                /\ start'[s.id].sub = start[s.id].sub
                                /\ start[s.id].before \subseteq start'[s.id].before
                                /\ missed[s.id] \subseteq missed'[s.id]
                                /\ \A n : InRx(r.id, n) => InRx(r.id, n)' \/ OnWire(r.id, n)'
    <3>1. PICK r \in subs : r.id = s.id /\ r.identity = s.identity /\ s.topics \subseteq r.topics
      BY Zenon, <2>2
    <3>2. r.id \in Subs
      BY Zenon, <1>1
    <3>3. start' = start /\ missed' = missed
      BY Zenon, <1>8, <2>2
    <3>4. QED
      BY Zenon, <2>9, <3>1, <3>2, <3>3
  <2>11. UNCHANGED dispatched /\ closed \subseteq closed'
    BY Zenon, <1>8, <2>2
  <2>12. QED
    BY Zenon, <1>5, <2>10, <2>11
<1>9. ASSUME NEW j \in Subs, RelayFails(j) PROVE LiveInv'
  <2>1. /\ rx' = [rx EXCEPT ![j] = <<>>] /\ closed' = closed \cup {j}
        /\ UNCHANGED <<subs, dispatched, start, missed>>
    BY ZenonT(30), <1>9 DEF RelayFails, book
  <2>2. \A id \in Subs \ {j} : \A n : InRx(id, n) => InRx(id, n)'
    BY ZenonT(30), <1>1, <2>1 DEF InRx
  <2>3. \A s \in subs' : s.id \notin closed' => s.id \in Subs \ {j}
    BY ZenonT(30), <1>1, <2>1
  <2>4. QED
    BY ZenonT(30), <1>5, <2>1, <2>2, <2>3
<1>10. ASSUME NEW c \in Conns, Begins(c) PROVE LiveInv'
  <2>1. UNCHANGED <<rx, closed, dispatched, start, missed>> /\ subs' \subseteq subs
    BY ZenonT(30), <1>10 DEF Begins, Without, book
  <2>2. \A id, n : InRx(id, n) => InRx(id, n)'
    BY ZenonT(30), <2>1 DEF InRx
  <2>3. QED
    BY ZenonT(30), <1>5, <2>1, <2>2
<1>11. ASSUME NEW c \in Conns, Reads(c) PROVE LiveInv'
  <2>1. UNCHANGED <<rx, closed, dispatched, subs, missed>>
    BY ZenonT(30), <1>11 DEF Reads
  <2>2. task[c].sub.id \in Subs /\ \A s \in subs : s.id # task[c].sub.id
    <3>1. Joining(c) /\ task[c].sub.id \in Subs
      BY ZenonT(30), <1>11 DEF Reads, Joining, Looking, Asks
    <3>2. QED
      BY ZenonT(30), <3>1 DEF SubInv, Unused
  <2>3. \A s \in subs : start'[s.id] = start[s.id]
    BY ZenonT(30), <1>1, <1>11, <2>2 DEF Reads
  <2>4. \A id, n : InRx(id, n) => InRx(id, n)'
    BY ZenonT(30), <2>1 DEF InRx
  <2>5. QED
    BY ZenonT(30), <1>5, <2>1, <2>3, <2>4
<1>12. ASSUME NEW c \in Conns, Enters(c) PROVE LiveInv'
  <2> DEFINE a == task[c].sub
             b == [start[a.id] EXCEPT !.before = dispatched]
  <2>1. /\ UNCHANGED <<rx, closed, dispatched, missed>> /\ subs' = subs \cup {a}
        /\ start' = [start EXCEPT ![a.id] = b]
    BY ZenonT(30), <1>12 DEF Enters
  <2>2. a.id \in Subs /\ start[a.id] \in Starts /\ \A s \in subs : s.id # a.id
    <3>1. Joining(c) /\ a.id \in Subs
      BY Zenon, <1>12 DEF Enters, Joining, Entering, Asks
    <3>2. start[a.id] \in Starts
      BY Zenon, <1>12 DEF Enters, Entered, Known
    <3>3. QED
      BY ZenonT(30), <3>1, <3>2 DEF SubInv, Unused
  <2>3. b.before = dispatched
    BY ZenonT(30), <2>2 DEF Starts
  <2> HIDE DEF b
  <2>4. start'[a.id] = b /\ \A s \in subs : start'[s.id] = start[s.id]
    BY ZenonT(30), <1>1, <2>1, <2>2
  <2>5. \A id, n : InRx(id, n) => InRx(id, n)'
    BY ZenonT(30), <2>1 DEF InRx
  <2>6. \A s \in subs' : s \in subs \/ dispatched \subseteq start'[s.id].before
    BY ZenonT(30), <2>1, <2>3, <2>4
  <2>7. QED
    BY ZenonT(30), <1>5, <2>1, <2>4, <2>5, <2>6
<1>13. ASSUME NEW c \in Conns, Replies(c) PROVE LiveInv'
  <2>1. UNCHANGED <<rx, closed, dispatched, subs, start, missed>>
    BY ZenonT(30), <1>13 DEF Replies, book
  <2>2. \A id, n : InRx(id, n) => InRx(id, n)'
    BY Zenon, <2>1 DEF InRx
  <2>3. QED
    BY ZenonT(30), <1>5, <2>1, <2>2
<1>14. QED
  BY ZenonT(30), <1>6, <1>7, <1>8, <1>9, <1>10, <1>11, <1>12, <1>13, SubMoves

\* EventRouter::subscribe and assign_and_dispatch: what a registered subscriber that was
\* told of no gap does not get was dispatched between the two steps of its registration or
\* found its channel full, if the log is in order; for any sizes of the log and the
\* channels and any number of connections, emitters and subscriptions.
THEOREM WindowIsAllThatIsLost == BusSpec => []OnlyTheWindowIsLost
<1> DEFINE I == /\ BusTypes /\ Entered /\ NumberInv /\ HistoryInv /\ LogInv
                /\ SubInv /\ PushInv /\ ReplayInv /\ LiveInv
<1>1. BusInit => I
  BY ZenonT(30), BusTypesInit, EnteredInit, NumberInit, HistoryInit, LogInit, SubInit, PushInit,
     ReplayInit, LiveInit
<1>2. I /\ [BusNext]_busVars => I'
  BY ZenonT(30), BusTypesStep, EnteredStep, NumberStep, HistoryStep, LogStep, SubStep, PushStep,
     ReplayStep, LiveStep
<1>3. I => OnlyTheWindowIsLost
  <2> SUFFICES ASSUME I, NEW s \in subs, s.id \in relaying, InOrder,
                      ~start[s.id].gap, start[s.id].since > 0,
                      NEW i \in DOMAIN history, history[i].seq > start[s.id].since,
                      history[i].seq \in dispatched, matches(s, history[i]),
                      history[i].seq \notin Window(s.id) \cup missed[s.id]
               PROVE  history[i].seq \in Reached(s.id)
    BY ZenonT(30) DEF OnlyTheWindowIsLost
  <2> DEFINE n == history[i].seq
  <2>1. s.id \in Subs /\ n \in Nat /\ s.id \notin closed
    <3>1. s.id \in Subs /\ dispatched \in SUBSET Nat
      BY ZenonT(30) DEF BusTypes, Asks
    <3>2. QED
      BY ZenonT(30), <3>1 DEF SubInv
  <2>2. CASE n \notin start[s.id].before
    <3>1. InRx(s.id, n) \/ OnWire(s.id, n)
      BY ZenonT(30), <2>1, <2>2 DEF LiveInv
    <3>2. QED
      BY ZenonT(30), <3>1, ReachedFacts
  <2>3. CASE n \in start[s.id].before
    <3>1. i <= start[s.id].upto
      <4>1. PICK k \in DOMAIN history \cap 1..start[s.id].upto : history[k].seq = n
        BY ZenonT(30), <2>3 DEF Window
      <4>2. k = i
        BY ZenonT(30), <4>1 DEF HistoryInv
      <4>3. start[s.id].upto \in Nat
        BY ZenonT(30) DEF SubInv, Known, Starts
      <4>4. QED
        BY <4>1, <4>2, <4>3
    <3>2. Begun(s.id) /\ matches(start[s.id].sub, history[i])
      BY ZenonT(30) DEF Begun, SubInv, matches
    <3>3. Pending(s.id, n) \/ OnWire(s.id, n)
      BY ZenonT(30), <2>1, <3>1, <3>2 DEF ReplayInv, Replays
    <3>4. ~Pending(s.id, n)
      <4> SUFFICES ASSUME NEW c \in Conns, task[c].pc \in {"register", "answer"},
                          task[c].sub.id = s.id
                   PROVE  FALSE
        BY ZenonT(30) DEF Pending
      <4>1. task[c].pc = "register" => Joining(c)
        BY ZenonT(30) DEF Joining
      <4>2. QED
        BY ZenonT(30), <2>1, <4>1 DEF SubInv, Unused
    <3>5. QED
      BY ZenonT(30), <3>3, <3>4, ReachedFacts
  <2>4. QED
    BY ZenonT(30), <2>2, <2>3
<1>4. QED
  BY <1>1, <1>2, <1>3, PTL DEF BusSpec

=============================================================================
