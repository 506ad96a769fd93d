---------------------------- MODULE ArenaProofs ----------------------------
(***************************************************************************)
(* The files around an arena.  The control block (ControlBlock), for any   *)
(* set of publishers, readers and publications and any number of publishes *)
(* and deaths.  The two gates a daemon passes (Admission), for any number  *)
(* of daemons and lock files: daemons that opened the same lock file never *)
(* own the arena together, whoever leaves, dies or unlinks the file        *)
(* meanwhile; nor do two daemons while a third was never started; and only *)
(* a living daemon refuses another.                                        *)
(***************************************************************************)
EXTENDS ControlBlock, Admission, FiniteSetTheorems, TLAPS


-----------------------------------------------------------------------------
(* The inductive invariant *)

\* The flock: a publisher inside a publish is the one exclusive holder, a reader
\* looking at an abandoned record is a shared holder, and the two exclude each
\* other.
LockInv ==
  /\ \A p \in Publishers : ppc[p] # "idle" <=> exclusive = p
  /\ \A r \in Readers : r \in shared <=> rpc[r] = "abandoned"
  /\ exclusive # NoOne => shared = {}

Writing(p) == ppc[p] \in Fields \cup {"seq_end"}

\* The counter is odd for as long as somebody may be storing into the record.
SeqInv ==
  /\ \A p \in Publishers : Writing(p) => Odd(seq)
  /\ EvenMeansPublished

\* The fields copy_payload has read when it is about to do step pc.
Copied(step) ==
  CASE step = "size" -> {"path"}
    [] step = "root_head" -> {"path", "size"}
    [] step = "root_tail" -> {"path", "size", "root_head"}
    [] step = "recheck" -> Fields
    [] OTHER -> {}

\* A copy in progress began at an even counter, and while the counter has not
\* moved what it has read so far is the record published last.
CopyInv ==
  \A r \in Readers :
    rpc[r] \in Fields \cup {"recheck"} =>
      /\ ~Odd(before[r])
      /\ before[r] <= seq
      /\ before[r] = seq => \A f \in Copied(rpc[r]) : copy[r][f] = current[f]

\* What handles remember and answer was published.
AnswerInv ==
  /\ current \in completed
  /\ SnapshotFromOnePublish
  /\ \A r \in Readers :
       IF last[r] = Nothing
         THEN answer[r]["root_head"] = Zero /\ answer[r]["root_tail"] = Zero
         ELSE answer[r] = last[r]

\* A publisher inside a publish has a publication to store.
RootInv == \A p \in Publishers : ppc[p] # "idle" => pval[p] \in Values

\* The part of the invariant that does not depend on how set_arena is called.
Inv == TypeOK /\ LockInv /\ SeqInv /\ CopyInv /\ AnswerInv /\ RootInv

\* Where a root may be torn: never under a set_arena, and never while the path is
\* still empty, because a publish stores the path first.
WholeInv ==
  /\ payload["path"] = Zero => Whole(payload)
  /\ \A s \in completed : Whole(s)
  /\ \A p \in Publishers :
       /\ (ppc[p] # "idle" /\ pkind[p] = "set_arena") => Whole(payload)
       /\ ppc[p] \in {"size", "root_head", "root_tail", "seq_end"} =>
            payload["path"] # Zero
       /\ ppc[p] \in {"root_head", "root_tail"} => pkind[p] # "set_arena"
       /\ ppc[p] = "root_tail" => payload["root_head"] = Source(p, "root_tail")
       /\ ppc[p] = "seq_end" => Whole(payload)

-----------------------------------------------------------------------------
\* Every variable keeps its type whatever step is taken.
LEMMA TypeStep == TypeOK /\ [Next]_vars => TypeOK'
<1> SUFFICES ASSUME TypeOK, [Next]_vars PROVE TypeOK'
  BY Zenon
<1> USE DEF TypeOK, Snapshot, Slots, PublisherSteps, ReaderSteps, Calls
<1>1. ASSUME NEW p \in Publishers, PublisherStep(p) PROVE TypeOK'
  <2>1. ASSUME NEW v \in Values, set_arena(p, v) PROVE TypeOK'
    BY <2>1 DEF set_arena, TakePublishLock, readVars
  <2>2. ASSUME NEW v \in Values, set_arena_with_root(p, v) PROVE TypeOK'
    BY <2>2 DEF set_arena_with_root, TakePublishLock, readVars
  <2>3. CASE seq_begin(p)
    BY <2>3 DEF seq_begin, Fields, readVars, lockVars
  <2>4. CASE volatile_copy_in(p)
    BY Zenon, <2>4 DEF volatile_copy_in, AfterWriting, Source, Fields, readVars, lockVars
  <2>5. CASE seq_end(p)
    BY <2>5 DEF seq_end, readVars, lockVars
  <2>6. CASE Unlock(p)
    BY Zenon, <2>6 DEF Unlock, readVars
  <2>7. CASE Die(p)
    BY <2>7 DEF Die, readVars
  <2> QED
    BY Zenon, <1>1, <2>1, <2>2, <2>3, <2>4, <2>5, <2>6, <2>7 DEF PublisherStep
<1>2. ASSUME NEW r \in Readers, StartRead(r) \/ ReaderProgress(r) \/ open_or_create(r)
      PROVE TypeOK'
  <2>1. CASE StartRead(r)
    BY Zenon, <2>1 DEF StartRead, pubVars, lockVars
  <2>2. CASE LoadSequence(r)
    BY Zenon, <2>2 DEF LoadSequence, Fields, Odd, pubVars, lockVars
  <2>3. CASE volatile_copy_out(r)
    BY Zenon, <2>3 DEF volatile_copy_out, AfterCopying, Fields, pubVars, lockVars
  <2>4. CASE Accept(r)
    BY Zenon, <2>4 DEF Accept, ZeroSnapshot, pubVars, lockVars
  <2>5. CASE Retry(r)
    BY Zenon, <2>5 DEF Retry, ZeroSnapshot, pubVars, lockVars
  <2>6. CASE ProbeHeld(r)
    BY Zenon, <2>6 DEF ProbeHeld, pubVars, lockVars
  <2>7. CASE ProbeFree(r)
    BY Zenon, <2>7 DEF ProbeFree, pubVars
  <2>8. CASE abandoned_payload(r)
    <3>1. AbandonedAnswer(r) \in Snapshot
      BY Zenon, <1>2 DEF AbandonedAnswer, Fields
    <3> QED
      BY ZenonT(40), <2>8, <3>1 DEF abandoned_payload, pubVars
  <2>9. CASE open_or_create(r)
    BY Zenon, <2>9 DEF open_or_create, ZeroSnapshot, pubVars
  <2> QED
    BY Zenon, <1>2, <2>1, <2>2, <2>3, <2>4, <2>5, <2>6, <2>7, <2>8, <2>9 DEF ReaderProgress
<1>3. CASE UNCHANGED vars
  BY Zenon, <1>3 DEF vars
<1> QED
  BY Zenon, <1>1, <1>2, <1>3 DEF Next

-----------------------------------------------------------------------------
\* A handle that has read nothing is told apart from every record.
LEMMA NothingIsNoSnapshot == Nothing \notin Snapshot
BY Zenon, ControlAssumption

\* Initially the file is zeros, nobody publishes and nobody has read.
LEMMA InitInv ==
  Init => Inv /\ WholeInv
<1> SUFFICES ASSUME Init
             PROVE Inv /\ WholeInv
  BY Zenon
<1> USE ControlAssumption DEF Init, ZeroSnapshot
<1>1. TypeOK
  BY Zenon DEF TypeOK, Snapshot, Slots, PublisherSteps, ReaderSteps, Calls
<1>2. LockInv
  BY Zenon DEF LockInv
<1>3. SeqInv
  BY Zenon DEF SeqInv, EvenMeansPublished, Writing, Fields
<1>4. CopyInv
  BY Zenon DEF CopyInv, Fields
<1>5. AnswerInv
  BY Zenon DEF AnswerInv, SnapshotFromOnePublish, Fields
<1>6. RootInv
  BY Zenon DEF RootInv, Fields
<1>7. WholeInv
  BY Zenon DEF WholeInv, Whole, Fields
<1> QED
  BY Zenon, <1>1, <1>2, <1>3, <1>4, <1>5, <1>6, <1>7 DEF Inv

\* The flock discipline is kept by every step.
LEMMA LockStep == TypeOK /\ LockInv /\ [Next]_vars => LockInv'
<1> SUFFICES ASSUME TypeOK, LockInv, [Next]_vars PROVE LockInv'
  BY Zenon
<1> USE ControlAssumption DEF TypeOK, LockInv
<1>1. ASSUME NEW p \in Publishers, PublisherStep(p) PROVE LockInv'
  <2>1. ASSUME NEW v \in Values, NEW k, TakePublishLock(p, k, v) PROVE LockInv'
    BY Zenon, <2>1 DEF TakePublishLock, readVars
  <2>2. CASE seq_begin(p)
    BY Zenon, <2>2 DEF seq_begin, readVars, lockVars
  <2>3. CASE volatile_copy_in(p)
    BY Zenon, <2>3 DEF volatile_copy_in, AfterWriting, Fields, readVars, lockVars
  <2>4. CASE seq_end(p)
    BY Zenon, <2>4 DEF seq_end, readVars, lockVars
  <2>5. CASE Unlock(p)
    BY Zenon, <2>5 DEF Unlock, readVars
  <2>6. CASE Die(p)
    BY Zenon, <2>6 DEF Die, readVars
  <2> QED
    BY Zenon, <1>1, <2>1, <2>2, <2>3, <2>4, <2>5, <2>6
    DEF PublisherStep, set_arena, set_arena_with_root
<1>2. ASSUME NEW r \in Readers, StartRead(r) \/ ReaderProgress(r) \/ open_or_create(r)
      PROVE LockInv'
  <2>1. CASE StartRead(r)
    BY Zenon, <2>1 DEF StartRead, pubVars, lockVars
  <2>2. CASE LoadSequence(r)
    BY Zenon, <2>2 DEF LoadSequence, Odd, pubVars, lockVars
  <2>3. CASE volatile_copy_out(r)
    BY Zenon, <2>3 DEF volatile_copy_out, AfterCopying, Fields, pubVars, lockVars
  <2>4. CASE Accept(r) \/ Retry(r) \/ ProbeHeld(r)
    BY Zenon, <2>4 DEF Accept, Retry, ProbeHeld, pubVars, lockVars
  <2>5. CASE ProbeFree(r)
    BY Zenon, <2>5 DEF ProbeFree, pubVars
  <2>6. CASE abandoned_payload(r)
    BY Zenon, <2>6 DEF abandoned_payload, pubVars
  <2>7. CASE open_or_create(r)
    BY Zenon, <2>7 DEF open_or_create, pubVars
  <2> QED
    BY Zenon, <1>2, <2>1, <2>2, <2>3, <2>4, <2>5, <2>6, <2>7 DEF ReaderProgress
<1>3. CASE UNCHANGED vars
  BY Zenon, <1>3 DEF vars
<1> QED
  BY Zenon, <1>1, <1>2, <1>3 DEF Next

\* Readers never change the record, the counter or a publisher.
LEMMA ReaderFrame ==
  ASSUME NEW r \in Readers, StartRead(r) \/ ReaderProgress(r) \/ open_or_create(r)
  PROVE  UNCHANGED <<seq, payload, exclusive, ppc, pval, pkind, current, completed>>
BY Zenon DEF ReaderProgress, StartRead, LoadSequence, volatile_copy_out, Accept, Retry,
       ProbeHeld, ProbeFree, abandoned_payload, open_or_create, pubVars, lockVars

\* Publishers never change a reader.
LEMMA PublisherFrame ==
  ASSUME NEW p \in Publishers, PublisherStep(p)
  PROVE  UNCHANGED <<rpc, before, copy, last, answer>>
BY Zenon DEF PublisherStep, set_arena, set_arena_with_root, TakePublishLock, seq_begin,
       volatile_copy_in, seq_end, Unlock, Die, readVars

\* The counter is a natural number, so adding one changes its parity.
LEMMA Parity == ASSUME NEW n \in Nat PROVE Odd(n + 1) <=> ~Odd(n)
BY SMTT(40) DEF Odd

\* The counter stays odd while somebody writes, and an even counter means the
\* record is the one published last.
LEMMA SeqStep == TypeOK /\ LockInv /\ SeqInv /\ [Next]_vars => SeqInv'
<1> SUFFICES ASSUME TypeOK, LockInv, SeqInv, [Next]_vars PROVE SeqInv'
  BY Zenon
<1> USE ControlAssumption DEF TypeOK, LockInv, SeqInv, EvenMeansPublished, Writing
<1>1. ASSUME NEW p \in Publishers, PublisherStep(p) PROVE SeqInv'
  <2>1. ASSUME NEW v \in Values, NEW k, TakePublishLock(p, k, v) PROVE SeqInv'
    BY Zenon, <2>1 DEF TakePublishLock, Fields, Odd
  <2>2. CASE seq_begin(p)
    BY Zenon, <2>2, Parity DEF seq_begin, lockVars
  <2>3. CASE volatile_copy_in(p)
    BY Zenon, <2>3 DEF volatile_copy_in, AfterWriting, Fields, lockVars, Odd
  <2>4. CASE seq_end(p)
    BY Zenon, <2>4, Parity DEF seq_end, Fields, lockVars
  <2>5. CASE Unlock(p) \/ Die(p)
    BY Zenon, <2>5 DEF Unlock, Die, Fields, Odd
  <2> QED
    BY Zenon, <1>1, <2>1, <2>2, <2>3, <2>4, <2>5
    DEF PublisherStep, set_arena, set_arena_with_root
<1>2. ASSUME NEW r \in Readers, StartRead(r) \/ ReaderProgress(r) \/ open_or_create(r)
      PROVE SeqInv'
  BY Zenon, <1>2, ReaderFrame DEF Odd
<1>3. CASE UNCHANGED vars
  BY Zenon, <1>3 DEF vars, Odd
<1> QED
  BY Zenon, <1>1, <1>2, <1>3 DEF Next

\* A copy in progress agrees with the published record until the counter moves.
LEMMA CopyStep ==
  TypeOK /\ LockInv /\ SeqInv /\ CopyInv /\ [Next]_vars => CopyInv'
<1> SUFFICES ASSUME TypeOK, LockInv, SeqInv, CopyInv, [Next]_vars PROVE CopyInv'
  BY Zenon
<1> USE DEF TypeOK, CopyInv
<1>1. ASSUME NEW p \in Publishers, PublisherStep(p) PROVE CopyInv'
  <2>1. \/ seq' = seq /\ current' = current
        \/ seq' = seq + 1
    BY Zenon, <1>1 DEF PublisherStep, set_arena, set_arena_with_root, TakePublishLock,
                seq_begin, volatile_copy_in, seq_end, Unlock, Die
  <2> QED
    BY <1>1, <2>1, PublisherFrame DEF Odd, Copied
<1>2. ASSUME NEW r \in Readers, StartRead(r) \/ ReaderProgress(r) \/ open_or_create(r)
      PROVE CopyInv'
  <2> USE ReaderFrame, <1>2
  <2>1. CASE StartRead(r) \/ Retry(r) \/ Accept(r) \/ ProbeHeld(r) \/ ProbeFree(r)
             \/ abandoned_payload(r) \/ open_or_create(r)
    BY <2>1 DEF StartRead, Retry, Accept, ProbeHeld, ProbeFree, abandoned_payload,
                open_or_create, Fields, Odd, Copied
  <2>2. CASE LoadSequence(r)
    BY <2>2 DEF LoadSequence, Fields, Odd, Copied
  <2>3. CASE volatile_copy_out(r)
    BY <2>3 DEF volatile_copy_out, AfterCopying, SeqInv, EvenMeansPublished,
                Snapshot, Fields, Odd, Copied
  <2> QED
    BY Zenon, <2>1, <2>2, <2>3 DEF ReaderProgress
<1>3. CASE UNCHANGED vars
  BY Zenon, <1>3 DEF vars, Odd, Copied
<1> QED
  BY Zenon, <1>1, <1>2, <1>3 DEF Next

\* A copy that is accepted is the record published last.
LEMMA AcceptedIsCurrent ==
  ASSUME TypeOK, CopyInv, NEW r \in Readers, Accept(r)
  PROVE  copy[r] = current
<1>1. \A f \in Fields : copy[r][f] = current[f]
  BY Zenon DEF Accept, CopyInv, Copied
<1> QED
  BY <1>1 DEF TypeOK, Snapshot

\* What handles remember and answer stays published.
LEMMA AnswerStep ==
  TypeOK /\ CopyInv /\ AnswerInv /\ [Next]_vars => AnswerInv'
<1> SUFFICES ASSUME TypeOK, CopyInv, AnswerInv, [Next]_vars PROVE AnswerInv'
  BY Zenon
<1> USE DEF AnswerInv, SnapshotFromOnePublish
<1>1. ASSUME NEW p \in Publishers, PublisherStep(p) PROVE AnswerInv'
  <2>1. \/ UNCHANGED <<current, completed>>
        \/ current' \in completed' /\ completed \subseteq completed'
    BY Zenon, <1>1 DEF PublisherStep, set_arena, set_arena_with_root, TakePublishLock,
                seq_begin, volatile_copy_in, seq_end, Unlock, Die
  <2> QED
    BY Zenon, <1>1, <2>1, PublisherFrame
<1>2. ASSUME NEW r \in Readers, StartRead(r) \/ ReaderProgress(r) \/ open_or_create(r)
      PROVE AnswerInv'
  <2>0. UNCHANGED <<current, completed>>
    BY Zenon, <1>2, ReaderFrame
  <2>1. CASE StartRead(r) \/ LoadSequence(r) \/ volatile_copy_out(r) \/ Retry(r)
             \/ ProbeHeld(r) \/ ProbeFree(r)
    BY Zenon, <2>0, <2>1 DEF StartRead, LoadSequence, volatile_copy_out, Retry, ProbeHeld,
                      ProbeFree
  <2>2. CASE Accept(r)
    <3>1. /\ last' = [last EXCEPT ![r] = current]
          /\ answer' = [answer EXCEPT ![r] = current]
      BY ZenonT(40), <2>2, AcceptedIsCurrent DEF Accept
    <3>2. current \in Snapshot
      BY Zenon DEF TypeOK
    <3> QED
      BY Zenon, <2>0, <3>1, <3>2, NothingIsNoSnapshot DEF TypeOK
  <2>3. CASE abandoned_payload(r)
    <3>1. last' = last
      BY Zenon, <2>3 DEF abandoned_payload
    <3>2. answer' = answer \/ answer' = [answer EXCEPT ![r] = AbandonedAnswer(r)]
      BY Zenon, <2>3 DEF abandoned_payload
    <3> QED
      BY <2>0, <3>1, <3>2 DEF AbandonedAnswer, TypeOK, Snapshot, Fields
  <2>4. CASE open_or_create(r)
    BY Zenon, <2>0, <2>4 DEF open_or_create, ZeroSnapshot, TypeOK, Fields
  <2> QED
    BY Zenon, <1>2, <2>1, <2>2, <2>3, <2>4 DEF ReaderProgress
<1>3. CASE UNCHANGED vars
  BY Zenon, <1>3 DEF vars
<1> QED
  BY Zenon, <1>1, <1>2, <1>3 DEF Next

\* A publisher keeps its publication until it leaves.
LEMMA RootStep == TypeOK /\ RootInv /\ [Next]_vars => RootInv'
<1> SUFFICES ASSUME TypeOK, RootInv, [Next]_vars PROVE RootInv'
  BY Zenon
<1>z. Zero \notin Values
  BY Zenon, ControlAssumption
<1>1. ASSUME NEW p \in Publishers, PublisherStep(p) PROVE RootInv'
  <2> USE <1>z DEF TypeOK, RootInv
  <2>1. ASSUME NEW v \in Values, NEW k, TakePublishLock(p, k, v) PROVE RootInv'
    BY Zenon, <2>1 DEF TakePublishLock
  <2>2. CASE seq_begin(p)
    BY Zenon, <2>2 DEF seq_begin
  <2>3. CASE volatile_copy_in(p)
    BY Zenon, <2>3 DEF volatile_copy_in, Snapshot, Fields
  <2>4. CASE seq_end(p)
    BY Zenon, <2>4 DEF seq_end
  <2>5. CASE Unlock(p) \/ Die(p)
    BY Zenon, <2>5 DEF Unlock, Die
  <2> QED
    BY Zenon, <1>1, <2>1, <2>2, <2>3, <2>4, <2>5
    DEF PublisherStep, set_arena, set_arena_with_root
<1>2. ASSUME NEW r \in Readers, StartRead(r) \/ ReaderProgress(r) \/ open_or_create(r)
      PROVE RootInv'
  BY Zenon, <1>2, ReaderFrame DEF RootInv
<1>3. CASE UNCHANGED vars
  BY Zenon, <1>3 DEF vars, RootInv
<1> QED
  BY Zenon, <1>1, <1>2, <1>3 DEF Next

\* With set_arena called only on an empty path, no finished publish leaves a torn
\* root.
LEMMA WholeStep ==
  ASSUME AnySetArena = FALSE
  PROVE  TypeOK /\ LockInv /\ RootInv /\ WholeInv /\ [Next]_vars => WholeInv'
<1> SUFFICES ASSUME TypeOK, LockInv, RootInv, WholeInv, [Next]_vars PROVE WholeInv'
  BY Zenon
<1>z. Zero \notin Values
  BY Zenon, ControlAssumption
<1>1. ASSUME NEW p \in Publishers, PublisherStep(p) PROVE WholeInv'
  <2> USE <1>z DEF TypeOK, LockInv, RootInv, WholeInv, Source
  <2>1. ASSUME NEW v \in Values, set_arena(p, v) PROVE WholeInv'
    BY Zenon, <2>1, ControlAssumption DEF set_arena, TakePublishLock, Whole
  <2>2. ASSUME NEW v \in Values, set_arena_with_root(p, v) PROVE WholeInv'
    BY <2>2, ControlAssumption DEF set_arena_with_root, TakePublishLock, Whole
  <2>3. CASE seq_begin(p)
    BY Zenon, <2>3 DEF seq_begin, lockVars, Whole
  <2>4. CASE volatile_copy_in(p)
    <3>1. \A q \in Publishers : q # p => ppc[q] = "idle"
      BY Zenon, <2>4, ControlAssumption DEF volatile_copy_in, Fields
    <3>2. payload' = [payload EXCEPT ![ppc[p]] = Source(p, ppc[p])]
      BY Zenon, <2>4 DEF volatile_copy_in
    <3>3. CASE ppc[p] = "path"
      BY <2>4, <3>1, <3>2, <3>3 DEF volatile_copy_in, AfterWriting, Snapshot, Fields,
                               lockVars, Whole
    <3>4. CASE ppc[p] = "size"
      BY <2>4, <3>1, <3>2, <3>4 DEF volatile_copy_in, AfterWriting, Snapshot, Fields,
                               lockVars, Whole
    <3>5. CASE ppc[p] = "root_head"
      BY <2>4, <3>1, <3>2, <3>5 DEF volatile_copy_in, AfterWriting, Snapshot, Fields,
                               lockVars, Whole
    <3>6. CASE ppc[p] = "root_tail"
      BY <2>4, <3>1, <3>2, <3>6 DEF volatile_copy_in, AfterWriting, Snapshot, Fields,
                               lockVars, Whole
    <3> QED
      BY ZenonT(40), <2>4, <3>3, <3>4, <3>5, <3>6 DEF volatile_copy_in, Fields
  <2>5. CASE seq_end(p)
    BY Zenon, <2>5 DEF seq_end, lockVars, Whole
  <2>6. CASE Unlock(p) \/ Die(p)
    BY ZenonT(60), <2>6 DEF Unlock, Die, Whole
  <2> QED
    BY ZenonT(40), <1>1, <2>1, <2>2, <2>3, <2>4, <2>5, <2>6 DEF PublisherStep
<1>2. ASSUME NEW r \in Readers, StartRead(r) \/ ReaderProgress(r) \/ open_or_create(r)
      PROVE WholeInv'
  BY Zenon, <1>2, ReaderFrame DEF WholeInv, Whole, Source
<1>3. CASE UNCHANGED vars
  BY Zenon, <1>3 DEF vars, WholeInv, Whole, Source
<1> QED
  BY Zenon, <1>1, <1>2, <1>3 DEF Next

-----------------------------------------------------------------------------
\* The invariant holds in every behaviour of the control block.
THEOREM Invariance == Spec => []Inv
<1>1. Init => Inv
  BY Zenon, InitInv DEF Inv
<1>2. Inv /\ [Next]_vars => Inv'
  BY Zenon, TypeStep, LockStep, SeqStep, CopyStep, AnswerStep, RootStep DEF Inv
<1> QED
  BY <1>1, <1>2, PTL DEF Spec

\* Type correctness of the control block model.
THEOREM TypeCorrect == Spec => []TypeOK
BY Invariance, PTL DEF Inv

\* An even counter means the mapped record is the one the last finished publish
\* left, whatever publishers die (seq_begin, seq_end).
THEOREM EvenIsPublished == Spec => []EvenMeansPublished
<1>1. Inv => EvenMeansPublished
  BY Zenon DEF Inv, SeqInv
<1> QED
  BY <1>1, Invariance, PTL

\* A snapshot a handle keeps is the record one publish left: Controller::snapshot
\* never mixes two.
THEOREM SnapshotsAreWhole == Spec => []SnapshotFromOnePublish
<1>1. Inv => SnapshotFromOnePublish
  BY Zenon DEF Inv, AnswerInv
<1> QED
  BY <1>1, Invariance, PTL

\* Controller::current_root answers the zero sentinel or a root published in
\* full, provided set_arena is called as setup_arena calls it.
THEOREM RootsAreWhole ==
  ASSUME AnySetArena = FALSE
  PROVE  Spec => []RootPublishedInFull
<1>1. Init => WholeInv
  BY Zenon, InitInv
<1>2. Inv /\ WholeInv /\ [Next]_vars => WholeInv'
  BY ZenonT(40), WholeStep DEF Inv
<1>3. Inv /\ WholeInv => RootPublishedInFull
  BY Zenon, ControlAssumption
  DEF Inv, AnswerInv, SnapshotFromOnePublish, WholeInv, RootPublishedInFull, Whole
<1> QED
  BY <1>1, <1>2, <1>3, Invariance, PTL DEF Spec

\* Controller::snapshot and abandoned_payload: a handle that has answered a root goes on
\* answering one while it stays open, unless a reset was published in full.
THEOREM ServingGoesOn == Spec => KeepsServing
<1>1. Inv /\ [Next]_vars =>
        [\A r \in Readers :
           (answer[r]["root_head"] # Zero /\ last'[r] # Nothing) =>
             (answer'[r]["root_head"] # Zero \/ current["root_head"] = Zero)]_vars
  <2> SUFFICES ASSUME Inv, [Next]_vars, NEW r \in Readers,
                      answer[r]["root_head"] # Zero, last'[r] # Nothing
               PROVE answer'[r]["root_head"] # Zero \/ current["root_head"] = Zero
    BY Zenon
  <2>0. answer \in [Readers -> Snapshot]
    BY Zenon DEF Inv, TypeOK
  <2>1. CASE answer'[r] = answer[r]
    BY Zenon, <2>1
  <2>2. CASE Accept(r)
    <3>1. answer' = [answer EXCEPT ![r] = current]
      BY ZenonT(40), <2>2, AcceptedIsCurrent DEF Accept, Inv
    <3> QED
      BY Zenon, <2>0, <3>1
  <2>3. CASE abandoned_payload(r) /\ answer' # answer
    <3>1. answer' = [answer EXCEPT ![r] = AbandonedAnswer(r)]
      BY Zenon, <2>3 DEF abandoned_payload
    <3>2. AbandonedAnswer(r)["root_head"] = answer[r]["root_head"]
      BY Zenon DEF AbandonedAnswer, Inv, AnswerInv, TypeOK, Snapshot, Fields
    <3> QED
      BY Zenon, <2>0, <3>1, <3>2
  <2>4. CASE open_or_create(r)
    <3>1. last' = [last EXCEPT ![r] = Nothing]
      BY Zenon, <2>4 DEF open_or_create
    <3> QED
      BY Zenon, <3>1 DEF Inv, TypeOK
  <2>5. ASSUME NEW p \in Publishers, PublisherStep(p) PROVE answer' = answer
    BY Zenon, <2>5, PublisherFrame
  <2>6. ASSUME NEW q \in Readers, StartRead(q) \/ ReaderProgress(q) \/ open_or_create(q)
        PROVE \/ answer'[r] = answer[r] \/ Accept(r) \/ open_or_create(r)
              \/ abandoned_payload(r) /\ answer' # answer
    BY Zenon, <2>0, <2>6 DEF ReaderProgress, StartRead, LoadSequence, volatile_copy_out, Accept,
         Retry, ProbeHeld, ProbeFree, abandoned_payload, open_or_create
  <2>7. CASE UNCHANGED vars
    BY Zenon, <2>1, <2>7 DEF vars
  <2> QED
    BY Zenon, <2>1, <2>2, <2>3, <2>4, <2>5, <2>6, <2>7 DEF Next
<1> QED
  BY <1>1, Invariance, PTL DEF Spec, KeepsServing

\* The control block implements the atomic root register.
THEOREM Refinement == Spec => ImplementsRegister
<1>1. Init => Register!Init
  BY DEF Init, Register!Init, ZeroSnapshot, Fields
<1>2. Inv /\ [Next]_vars => [Register!Next]_Register!regVars
  <2> SUFFICES ASSUME Inv, [Next]_vars PROVE [Register!Next]_Register!regVars
    BY Zenon
  <2> USE DEF Register!regVars
  <2>1. ASSUME NEW p \in Publishers, PublisherStep(p)
        PROVE [Register!Next]_Register!regVars
    <3>1. answer' = answer
      BY Zenon, <2>1, PublisherFrame
    <3>2. CASE current' = current
      BY Zenon, <3>1, <3>2
    <3>3. CASE seq_end(p)
      <4>1. current' = payload
        BY Zenon, <3>3 DEF seq_end
      <4>2. payload["root_head"] \in Values \cup {Zero}
        BY Zenon DEF Inv, TypeOK, Snapshot, Slots, Fields
      <4> QED
        BY Zenon, <3>1, <4>1, <4>2 DEF Register!Next, Register!Publish
    <3> QED
      BY Zenon, <2>1, <3>2, <3>3 DEF PublisherStep, set_arena, set_arena_with_root,
         TakePublishLock, seq_begin, volatile_copy_in, Unlock, Die
  <2>2. ASSUME NEW r \in Readers,
               StartRead(r) \/ ReaderProgress(r) \/ open_or_create(r)
        PROVE [Register!Next]_Register!regVars
    <3>1. current' = current
      BY Zenon, <2>2, ReaderFrame
    <3>2. CASE answer' = answer
      BY Zenon, <3>1, <3>2
    <3>3. CASE Accept(r)
      <4>1. answer' = [answer EXCEPT ![r] = current]
        BY ZenonT(40), <3>3, AcceptedIsCurrent DEF Accept, Inv
      <4>2. Register!Read(r)
        BY ZenonT(40), <3>1, <4>1 DEF Register!Read, Inv, TypeOK
      <4> QED
        BY Zenon, <4>2 DEF Register!Next
    <3>4. CASE abandoned_payload(r) /\ answer' # answer
      <4>1. answer' = [answer EXCEPT ![r] = AbandonedAnswer(r)]
        BY Zenon, <3>4 DEF abandoned_payload
      <4>2. AbandonedAnswer(r)["root_head"] = answer[r]["root_head"]
        BY Zenon DEF AbandonedAnswer, Inv, AnswerInv, TypeOK, Snapshot, Fields
      <4> QED
        BY Zenon, <3>1, <4>1, <4>2 DEF Inv, TypeOK
    <3>5. CASE open_or_create(r)
      <4>1. Register!Reopen(r)
        BY ZenonT(40), <3>1, <3>5 DEF open_or_create, ZeroSnapshot, Fields, Register!Reopen, Inv,
                          TypeOK
      <4> QED
        BY Zenon, <4>1 DEF Register!Next
    <3> QED
      BY Zenon, <2>2, <3>2, <3>3, <3>4, <3>5 DEF ReaderProgress, StartRead, LoadSequence,
         volatile_copy_out, Retry, ProbeHeld, ProbeFree, abandoned_payload
  <2>3. CASE UNCHANGED vars
    BY Zenon, <2>3 DEF vars
  <2> QED
    BY Zenon, <2>1, <2>2, <2>3 DEF Next
<1> QED
  BY <1>1, <1>2, Invariance, PTL DEF Spec, ImplementsRegister, Register!Spec

-----------------------------------------------------------------------------
(* Admission                                                               *)

\* From the flock to its release.
Locked == {"locked", "write", "rename", "running", "leaving", "unlink", "release"}

\* A daemon past the flock holds the one of the inode it opened, and keeps the
\* descriptor open.
HoldsInv ==
  \A d \in Daemons :
    /\ pc[d] \in {"opened"} \cup Locked => fd[d] \in Inodes
    /\ pc[d] \in Locked => holder[fd[d]] = d

FlockInv == AdmissionTypeOK /\ HoldsInv

\* A flock that is held is a living daemon's, past its try_acquire, and nobody's pid is
\* in the sentinel or its temporary before it wrote it.
LivingInv ==
  /\ \A i \in Inodes : holder[i] # None => pc[holder[i]] \in Locked
  /\ \A d \in Daemons :
       d \in {owner, temp} => pc[d] \notin {"new", "opened", "locked", "write"}

Started == {d \in Daemons : pc[d] # "new"}
FinitelyMany == IsFiniteSet(Started)

\* From the flock to the unlinking of the lock file.
Inside(d) == pc[d] \in {"locked", "write", "rename", "running", "leaving"}
Opened(d) == pc[d] = "opened" \/ Inside(d)

\* Two started daemons at most: until one of them unlinks the lock file both opened the
\* file it names, so one flock decides between them and the one that has it is alone
\* with the sentinel.
PairInv ==
  (\A a, b, c \in Started : a = b \/ b = c \/ a = c) =>
    /\ \A d \in Daemons : Opened(d) /\ Started = {d} => lockFile = fd[d]
    /\ \A d, e \in Daemons : Opened(d) /\ Opened(e) => fd[d] = fd[e]
    /\ \A d \in Daemons : pc[d] = "rename" => temp = d
    /\ \A d \in Daemons : Owns(d) => owner = d

-----------------------------------------------------------------------------
\* Every step of a daemon keeps the types.
LEMMA AdmissionTypeStep == AdmissionTypeOK /\ HoldsInv /\ [AdmissionNext]_admissionVars => AdmissionTypeOK'
<1> SUFFICES ASSUME AdmissionTypeOK, HoldsInv, [AdmissionNext]_admissionVars PROVE AdmissionTypeOK'
  BY Zenon
<1> USE DEF AdmissionTypeOK, Steps, Go
<1>1. ASSUME NEW d \in Daemons, Start(d) PROVE AdmissionTypeOK'
  <2>1. CASE Open(d)
    BY Zenon, <2>1 DEF Open
  <2>2. CASE Flock(d)
    BY <2>2 DEF Flock, Close
  <2>3. CASE ReadSentinel(d)
    BY Zenon, <2>3 DEF ReadSentinel
  <2>4. CASE WriteSentinel(d)
    BY Zenon, <2>4 DEF WriteSentinel
  <2>5. CASE RenameSentinel(d)
    BY Zenon, <2>5 DEF RenameSentinel
  <2> QED
    BY Zenon, <1>1, <2>1, <2>2, <2>3, <2>4, <2>5 DEF Start
<1>2. ASSUME NEW d \in Daemons, Shutdown(d) \/ Leave(d) \/ Kill(d) PROVE AdmissionTypeOK'
  <2>1. CASE Shutdown(d)
    BY Zenon, <2>1 DEF Shutdown
  <2>2. CASE DropOwner(d) \/ UnlinkLock(d)
    BY Zenon, <2>2 DEF DropOwner, UnlinkLock
  <2>3. CASE ReleaseLock(d) \/ Kill(d)
    BY Zenon, <2>3 DEF ReleaseLock, Kill, Close
  <2> QED
    BY Zenon, <1>2, <2>1, <2>2, <2>3 DEF Leave
<1>3. CASE UNCHANGED admissionVars
  BY Zenon, <1>3 DEF admissionVars
<1> QED
  BY Zenon, <1>1, <1>2, <1>3 DEF AdmissionNext

\* Closing d's descriptor leaves the flocks of the others alone.
LEMMA CloseStep ==
  ASSUME AdmissionTypeOK, HoldsInv, NEW d \in Daemons, Close(d), Go(d, "gone")
  PROVE  HoldsInv'
BY Zenon DEF AdmissionTypeOK, HoldsInv, Close, Go, Locked

\* The flock is taken from nobody, and lost by nobody but the one that closes.
LEMMA HoldsStep == AdmissionTypeOK /\ HoldsInv /\ [AdmissionNext]_admissionVars => HoldsInv'
<1> SUFFICES ASSUME AdmissionTypeOK, HoldsInv, [AdmissionNext]_admissionVars PROVE HoldsInv'
  BY Zenon
<1>1. ASSUME NEW d \in Daemons, Start(d) PROVE HoldsInv'
  <2> USE DEF AdmissionTypeOK, HoldsInv, Locked, Go
  <2>1. CASE Open(d)
    BY Zenon, <2>1 DEF Open
  <2>2. CASE Flock(d) /\ holder[fd[d]] = None
    BY <2>2, AdmissionAssumption DEF Flock
  <2>3. CASE Flock(d) /\ holder[fd[d]] # None
    BY Zenon, <2>3, CloseStep DEF Flock
  <2>4. CASE ReadSentinel(d) \/ WriteSentinel(d) \/ RenameSentinel(d)
    BY Zenon, <2>4 DEF ReadSentinel, WriteSentinel, RenameSentinel
  <2> QED
    BY Zenon, <1>1, <2>1, <2>2, <2>3, <2>4 DEF Start
<1>2. ASSUME NEW d \in Daemons, Shutdown(d) \/ Leave(d) \/ Kill(d) PROVE HoldsInv'
  <2>1. CASE Shutdown(d) \/ DropOwner(d) \/ UnlinkLock(d)
    BY Zenon, <2>1 DEF Shutdown, DropOwner, UnlinkLock, AdmissionTypeOK, HoldsInv, Locked, Go
  <2>2. CASE ReleaseLock(d) \/ Kill(d)
    BY Zenon, <2>2, CloseStep DEF ReleaseLock, Kill
  <2> QED
    BY Zenon, <1>2, <2>1, <2>2 DEF Leave
<1>3. CASE UNCHANGED admissionVars
  BY Zenon, <1>3 DEF admissionVars, HoldsInv, Locked
<1> QED
  BY Zenon, <1>1, <1>2, <1>3 DEF AdmissionNext

\* Only the daemon that locks becomes a holder, and only one that wrote is named.
LEMMA LivingStep == AdmissionTypeOK /\ HoldsInv /\ LivingInv /\ [AdmissionNext]_admissionVars => LivingInv'
<1> SUFFICES ASSUME AdmissionTypeOK, HoldsInv, LivingInv, [AdmissionNext]_admissionVars PROVE LivingInv'
  BY Zenon
<1> USE AdmissionAssumption DEF AdmissionTypeOK, LivingInv, Locked, Go
<1>1. ASSUME NEW d \in Daemons, Start(d) PROVE LivingInv'
  <2>1. CASE Open(d)
    BY Zenon, <2>1 DEF Open
  <2>2. CASE Flock(d)
    BY <2>2 DEF Flock, Close, HoldsInv
  <2>3. CASE ReadSentinel(d)
    BY Zenon, <2>3 DEF ReadSentinel
  <2>4. CASE WriteSentinel(d)
    BY Zenon, <2>4 DEF WriteSentinel
  <2>5. CASE RenameSentinel(d)
    BY Zenon, <2>5 DEF RenameSentinel
  <2> QED
    BY Zenon, <1>1, <2>1, <2>2, <2>3, <2>4, <2>5 DEF Start
<1>2. ASSUME NEW d \in Daemons, Shutdown(d) \/ Leave(d) \/ Kill(d) PROVE LivingInv'
  <2>1. CASE Shutdown(d) \/ DropOwner(d) \/ UnlinkLock(d)
    BY <2>1 DEF Shutdown, DropOwner, UnlinkLock
  <2>2. CASE ReleaseLock(d) \/ Kill(d)
    BY <2>2 DEF ReleaseLock, Kill, Close
  <2> QED
    BY Zenon, <1>2, <2>1, <2>2 DEF Leave
<1>3. CASE UNCHANGED admissionVars
  BY Zenon, <1>3 DEF admissionVars
<1> QED
  BY Zenon, <1>1, <1>2, <1>3 DEF AdmissionNext

\* A daemon that was started stays started.
LEMMA StartedStep == AdmissionTypeOK /\ [AdmissionNext]_admissionVars => Started \subseteq Started'
BY Zenon DEF AdmissionTypeOK, AdmissionNext, Start, Leave, Open, Flock, ReadSentinel, WriteSentinel, RenameSentinel,
       Shutdown, DropOwner, UnlinkLock, ReleaseLock, Kill, is_pid_alive, Go, admissionVars, Started

\* One step starts one daemon at most.
LEMMA StartsOne ==
  AdmissionTypeOK /\ [AdmissionNext]_admissionVars => \/ Started' = Started
                           \/ \E d \in Daemons : Started' = Started \cup {d}
<1> SUFFICES ASSUME AdmissionTypeOK, [AdmissionNext]_admissionVars
             PROVE \/ Started' = Started
                   \/ \E d \in Daemons : Started' = Started \cup {d}
  BY Zenon
<1>1. ASSUME NEW d \in Daemons, NEW step, step # "new", Go(d, step)
      PROVE Started' = Started \cup {d}
  BY Zenon, <1>1 DEF Go, AdmissionTypeOK, Started
<1>2. ASSUME NEW d \in Daemons, Start(d) \/ Shutdown(d) \/ Leave(d) \/ Kill(d)
      PROVE Started' = Started \cup {d}
  BY Zenon, <1>1, <1>2 DEF Start, Leave, Open, Flock, ReadSentinel, WriteSentinel, RenameSentinel,
                    Shutdown, DropOwner, UnlinkLock, ReleaseLock, Kill
<1>3. CASE UNCHANGED admissionVars
  BY Zenon, <1>3 DEF admissionVars, Started
<1> QED
  BY Zenon, <1>2, <1>3 DEF AdmissionNext

\* Two daemons that opened the same lock file are not both past its flock.
LEMMA InsideAlone ==
  ASSUME HoldsInv, NEW d \in Daemons, NEW e \in Daemons, Inside(d), Inside(e), fd[d] = fd[e]
  PROVE  d = e
BY Zenon DEF HoldsInv, Inside, Locked

\* While a third daemon is not started, the flock and the sentinel agree.
LEMMA PairStep == AdmissionTypeOK /\ HoldsInv /\ PairInv /\ [AdmissionNext]_admissionVars => PairInv'
<1> SUFFICES ASSUME AdmissionTypeOK, HoldsInv, PairInv, [AdmissionNext]_admissionVars,
                    (\A a, b, c \in Started : a = b \/ b = c \/ a = c)'
             PROVE /\ (\A d \in Daemons : Opened(d) /\ Started = {d} => lockFile = fd[d])'
                   /\ (\A d, e \in Daemons : Opened(d) /\ Opened(e) => fd[d] = fd[e])'
                   /\ (\A d \in Daemons : pc[d] = "rename" => temp = d)'
                   /\ (\A d \in Daemons : Owns(d) => owner = d)'
  BY Zenon DEF PairInv
<1>0. \A a, b, c \in Started : a = b \/ b = c \/ a = c
  BY Zenon, StartedStep
<1>1. /\ \A d \in Daemons : Opened(d) /\ Started = {d} => lockFile = fd[d]
      /\ \A d, e \in Daemons : Opened(d) /\ Opened(e) => fd[d] = fd[e]
      /\ \A d \in Daemons : pc[d] = "rename" => temp = d
      /\ \A d \in Daemons : Owns(d) => owner = d
  BY Zenon, <1>0 DEF PairInv
<1>2. \A d, e \in Daemons : Inside(d) /\ Inside(e) => d = e
  BY Zenon, <1>1, InsideAlone DEF Opened
<1>3. \A d \in Daemons : Opened(d) => d \in Started /\ fd[d] \in Inodes /\ fd[d] # None
  BY Zenon, AdmissionAssumption DEF Opened, Inside, Started, HoldsInv, Locked
<1>4. ASSUME NEW d \in Daemons, Open(d) PROVE PairInv'
  <2>1. /\ pc[d] = "new" /\ pc' = [pc EXCEPT ![d] = "opened"]
        /\ UNCHANGED <<owner, temp>> /\ d \in Started' /\ d \notin Started
    BY Zenon, <1>4 DEF Open, Go, Started, AdmissionTypeOK
  <2>2. fd'[d] = lockFile' /\ \A e \in Daemons \ {d} : fd'[e] = fd[e]
    BY Zenon, <1>4 DEF Open, AdmissionTypeOK
  <2>3. ASSUME NEW e \in Daemons, e # d, Opened(e) PROVE fd[e] = lockFile'
    <3>1. Started = {e}
      BY <1>3, <2>1, <2>3, StartedStep
    <3>2. lockFile = fd[e] /\ lockFile # None
      BY Zenon, <1>1, <1>3, <2>3, <3>1
    <3> QED
      BY Zenon, <1>4, <3>2 DEF Open
  <2>4. \A e \in Daemons \ {d} : pc'[e] = pc[e]
    BY <2>1
  <2> QED
    BY <1>1, <2>1, <2>2, <2>3, <2>4 DEF PairInv, Opened, Inside, Owns, AdmissionTypeOK
<1>5. ASSUME NEW d \in Daemons, pc[d] # "new", NEW step, step # "new", Go(d, step)
      PROVE /\ pc'[d] = step /\ \A e \in Daemons \ {d} : pc'[e] = pc[e]
            /\ Started' = Started
  BY Zenon, <1>5 DEF Go, AdmissionTypeOK, Started
<1>6. ASSUME NEW d \in Daemons, Flock(d) PROVE PairInv'
  <2>1. /\ pc[d] = "opened" /\ UNCHANGED <<lockFile, owner, temp>>
        /\ \/ Go(d, "locked") /\ fd' = fd
           \/ Go(d, "gone") /\ fd' = [fd EXCEPT ![d] = None]
    BY Zenon, <1>6 DEF Flock, Close
  <2> QED
    BY <1>1, <1>5, <2>1 DEF PairInv, Opened, Inside, Owns, AdmissionTypeOK
<1>7. ASSUME NEW d \in Daemons, ReadSentinel(d) \/ WriteSentinel(d) \/ RenameSentinel(d)
      PROVE PairInv'
  <2>1. Inside(d) /\ UNCHANGED <<lockFile, fd>>
    BY Zenon, <1>7 DEF ReadSentinel, WriteSentinel, RenameSentinel, Inside
  <2>2. CASE ReadSentinel(d)
    BY <1>1, <1>5, <2>1, <2>2 DEF ReadSentinel, PairInv, Opened, Inside, Owns
  <2>3. CASE WriteSentinel(d)
    BY <1>1, <1>2, <1>5, <2>1, <2>3 DEF WriteSentinel, PairInv, Opened, Inside, Owns
  <2>4. CASE RenameSentinel(d)
    BY <1>1, <1>2, <1>5, <2>1, <2>4 DEF RenameSentinel, PairInv, Opened, Inside, Owns
  <2> QED
    BY Zenon, <1>7, <2>2, <2>3, <2>4
<1>8. ASSUME NEW d \in Daemons, Shutdown(d) \/ DropOwner(d) PROVE PairInv'
  <2>1. Inside(d) /\ UNCHANGED <<lockFile, fd, temp>>
    BY Zenon, <1>8 DEF Shutdown, DropOwner, Inside
  <2> QED
    BY <1>1, <1>2, <1>5, <1>8, <2>1 DEF Shutdown, DropOwner, PairInv, Opened, Inside, Owns
<1>9. ASSUME NEW d \in Daemons, UnlinkLock(d) PROVE PairInv'
  <2>1. /\ pc[d] = "unlink" /\ Go(d, "release") /\ UNCHANGED <<fd, temp, owner>>
        /\ d \in Started
    BY Zenon, <1>9 DEF UnlinkLock, Started
  <2> QED
    BY <1>1, <1>5, <2>1 DEF PairInv, Opened, Inside, Owns
<1>10. ASSUME NEW d \in Daemons, ReleaseLock(d) \/ Kill(d) PROVE PairInv'
  <2>1. /\ pc[d] # "new" /\ Go(d, "gone") /\ UNCHANGED <<lockFile, temp, owner>>
        /\ fd' = [fd EXCEPT ![d] = None]
    BY Zenon, <1>10 DEF ReleaseLock, Kill, is_pid_alive, Close
  <2> QED
    BY <1>1, <1>5, <2>1 DEF PairInv, Opened, Inside, Owns, AdmissionTypeOK
<1>11. ASSUME UNCHANGED admissionVars PROVE PairInv'
  BY Zenon, <1>1, <1>11 DEF admissionVars, PairInv, Opened, Inside, Owns, Started
<1>12. PairInv'
  <2>1. ASSUME NEW d \in Daemons, Start(d) PROVE PairInv'
    BY Zenon, <1>4, <1>6, <1>7, <2>1 DEF Start
  <2>2. ASSUME NEW d \in Daemons, Shutdown(d) \/ Leave(d) \/ Kill(d) PROVE PairInv'
    BY Zenon, <1>8, <1>9, <1>10, <2>2 DEF Leave
  <2> QED
    BY Zenon, <1>11, <2>1, <2>2 DEF AdmissionNext
<1> QED
  BY Zenon, <1>12 DEF PairInv

\* At most two elements, as a statement about any three.
LEMMA AtMostTwo ==
  ASSUME NEW S, IsFiniteSet(S), Cardinality(S) <= 2
  PROVE  \A a, b, c \in S : a = b \/ b = c \/ a = c
<1> SUFFICES ASSUME NEW a \in S, NEW b \in S, NEW c \in S, a # b, b # c, a # c PROVE FALSE
  BY Zenon
<1>1. IsFiniteSet({a}) /\ Cardinality({a}) = 1
  BY Zenon, FS_Singleton
<1>2. IsFiniteSet({a} \cup {b}) /\ Cardinality({a} \cup {b}) = 1 + 1
  BY Zenon, <1>1, FS_AddElement
<1>3. Cardinality(({a} \cup {b}) \cup {c}) = (1 + 1) + 1
  BY Zenon, <1>2, FS_AddElement
<1>4. Cardinality(({a} \cup {b}) \cup {c}) <= Cardinality(S)
  BY Zenon, FS_Subset
<1>5. Cardinality(S) \in Nat
  BY Zenon, FS_CardinalityType
<1> QED
  BY <1>3, <1>4, <1>5

-----------------------------------------------------------------------------
\* A daemon that is past the flock of try_acquire holds it until it closes.
THEOREM HoldsLock == AdmissionSpec => []FlockInv
<1>1. AdmissionInit => FlockInv
  BY Zenon DEF AdmissionInit, FlockInv, AdmissionTypeOK, HoldsInv, Locked, Steps
<1>2. FlockInv /\ [AdmissionNext]_admissionVars => FlockInv'
  BY Zenon, AdmissionTypeStep, HoldsStep DEF FlockInv
<1> QED
  BY <1>1, <1>2, PTL DEF AdmissionSpec

\* Of the daemons that opened the same lock file at most one is past both gates of
\* run_daemon_with_options: ArenaLock's exclusion, for as long as the path keeps
\* naming the file.
THEOREM OneOwner == AdmissionSpec => []OneOwnerPerLockFile
<1>1. FlockInv => OneOwnerPerLockFile
  BY Zenon DEF FlockInv, HoldsInv, Locked, OneOwnerPerLockFile, Owns
<1> QED
  BY <1>1, HoldsLock, PTL

\* One daemon and its successor, whenever the successor starts and however the first one
\* leaves: ArenaLock and OwnerGuard admit one of them at a time and <arena>.owner names
\* it, as long as no third daemon was started.
THEOREM PairIsExclusive == AdmissionSpec => []TwoDaemonsOneOwner
<1>1. AdmissionInit => PairInv /\ FinitelyMany
  <2> SUFFICES ASSUME AdmissionInit PROVE PairInv /\ FinitelyMany
    BY Zenon
  <2>1. Started = {}
    BY Zenon DEF AdmissionInit, Started
  <2>2. PairInv
    BY Zenon DEF AdmissionInit, PairInv, Opened, Inside, Owns
  <2> QED
    BY Zenon, <2>1, <2>2, FS_EmptySet DEF FinitelyMany
<1>2. FlockInv /\ PairInv /\ [AdmissionNext]_admissionVars => PairInv'
  BY Zenon, PairStep DEF FlockInv
<1>3. FlockInv /\ FinitelyMany /\ [AdmissionNext]_admissionVars => FinitelyMany'
  <2> SUFFICES ASSUME FlockInv, FinitelyMany, [AdmissionNext]_admissionVars
               PROVE FinitelyMany'
    BY Zenon
  <2>1. \A d \in Daemons : IsFiniteSet(Started \cup {d})
    BY Zenon, FS_AddElement DEF FinitelyMany
  <2> QED
    BY Zenon, <2>1, StartsOne DEF FlockInv, FinitelyMany
<1>4. FlockInv /\ PairInv /\ FinitelyMany => TwoDaemonsOneOwner
  <2> SUFFICES ASSUME FlockInv, PairInv, FinitelyMany, Cardinality(Started) <= 2
               PROVE SingleOwner /\ \A d \in Daemons : Owns(d) => owner = d
    BY Zenon DEF TwoDaemonsOneOwner, Started
  <2>1. \A d \in Daemons : Owns(d) => owner = d
    BY Zenon, AtMostTwo DEF PairInv, FinitelyMany
  <2> QED
    BY Zenon, <2>1 DEF SingleOwner
<1> QED
  BY <1>1, <1>2, <1>3, <1>4, HoldsLock, PTL DEF AdmissionSpec

\* The kernel drops a dead daemon's flock and is_pid_alive sees through its sentinel: for
\* any number of daemons, one that try_acquire turns away is turned away by another that
\* is alive.
THEOREM OnlyTheLivingRefuse == AdmissionSpec => RefusedOnlyByTheLiving
<1>1. AdmissionInit => LivingInv
  BY Zenon, AdmissionAssumption DEF AdmissionInit, LivingInv
<1>2. FlockInv /\ LivingInv /\ [AdmissionNext]_admissionVars => LivingInv'
  BY Zenon, LivingStep DEF FlockInv
<1>3. FlockInv /\ LivingInv =>
        [\A d \in Daemons :
           ((Flock(d) /\ pc'[d] = "gone") \/ (ReadSentinel(d) /\ pc'[d] = "unlink"))
             => \E e \in Daemons \ {d} : is_pid_alive(e)]_admissionVars
  <2> SUFFICES ASSUME FlockInv, LivingInv, NEW d \in Daemons,
                      (Flock(d) /\ pc'[d] = "gone") \/ (ReadSentinel(d) /\ pc'[d] = "unlink")
               PROVE \E e \in Daemons \ {d} : is_pid_alive(e)
    BY Zenon
  <2> USE DEF FlockInv, AdmissionTypeOK
  <2>1. CASE Flock(d) /\ pc'[d] = "gone"
    <3>1. pc[d] = "opened" /\ fd[d] \in Inodes /\ holder[fd[d]] # None
      BY Zenon, <2>1 DEF Flock, Go, HoldsInv
    <3>2. holder[fd[d]] \in Daemons /\ pc[holder[fd[d]]] \in Locked
      BY Zenon, <3>1 DEF LivingInv
    <3> QED
      BY Zenon, <3>1, <3>2 DEF Locked, is_pid_alive
  <2>2. CASE ReadSentinel(d) /\ pc'[d] = "unlink"
    <3>1. pc[d] = "locked" /\ owner # None /\ is_pid_alive(owner)
      BY Zenon, <2>2 DEF ReadSentinel, Go
    <3>2. owner \in Daemons /\ owner # d
      BY Zenon, <3>1 DEF LivingInv
    <3> QED
      BY Zenon, <3>1, <3>2
  <2> QED
    BY Zenon, <2>1, <2>2
<1> QED
  BY <1>1, <1>2, <1>3, HoldsLock, PTL DEF AdmissionSpec, RefusedOnlyByTheLiving
=============================================================================
