---------------------------- MODULE ControlBlock ----------------------------
(***************************************************************************)
(* The control block of rs/ll-core/core/src/control.rs: a memory-mapped    *)
(* record (arena path, arena size, current root) that publishers in any    *)
(* process rewrite in place under a seqlock and that readers copy without  *)
(* a lock.  A publisher holds an exclusive flock while the counter is odd; *)
(* it may die at any point, which leaves the counter odd, the record half  *)
(* written and the lock free.                                              *)
(*                                                                         *)
(* A publication is one model value v: a whole publication wrote v into    *)
(* every field, so a record whose fields differ is a mixture of two.  The  *)
(* root is two fields because the code writes it in two halves.            *)
(***************************************************************************)
EXTENDS Naturals, FiniteSets

CONSTANTS Publishers,    \* processes that publish, one handle each
          Readers,       \* handles that read
          Values,        \* publications
          Zero,          \* the bytes of a fresh control file
          NoOne,         \* nobody holds the exclusive lock
          Nothing,       \* a handle's `last` before its first consistent read
          AnySetArena,   \* TRUE: set_arena called whenever the API allows it;
                         \* FALSE: called as setup_arena does, on an empty path
          MaxPublishes,  \* bound on publishes begun
          MaxDeaths      \* bound on publishers killed

Fields == {"path", "size", "root_head", "root_tail"}
Slots == Values \cup {Zero}
Snapshot == [Fields -> Slots]
ZeroSnapshot == [f \in Fields |-> Zero]

ASSUME ControlAssumption ==
  /\ Zero \notin Values
  /\ NoOne \notin Publishers
  /\ Nothing \notin Snapshot
  /\ AnySetArena \in BOOLEAN
  /\ MaxPublishes \in Nat
  /\ MaxDeaths \in Nat

VARIABLES seq,        \* the sync counter at OFF_SYNC
          payload,    \* the mapped record
          exclusive,  \* the publisher holding the flock exclusively
          shared,     \* the readers holding it shared
          ppc, pval, pkind,           \* each publisher: step, value, call
          rpc, before, copy, last,    \* each reader: step, counter seen, copy
          answer,     \* answer[r]: the record r's last call returned
          current,    \* ghost: the record as the last finished publish left it
          completed,  \* ghost: every record a finished publish left
          publishes, deaths

pubVars == <<ppc, pval, pkind>>
readVars == <<rpc, before, copy, last, answer>>
lockVars == <<exclusive, shared>>
vars == <<seq, payload, exclusive, shared, ppc, pval, pkind, rpc, before, copy,
          last, answer, current, completed, publishes, deaths>>

\* The order in which write_path_and_size and set_arena_with_root_hooked store
\* the fields.  set_arena stops after the size, so the root stays as it is.
AfterWriting(kind, f) ==
  CASE f = "path" -> "size"
    [] f = "size" -> IF kind = "set_arena" THEN "seq_end" ELSE "root_head"
    [] f = "root_head" -> "root_tail"
    [] f = "root_tail" -> "seq_end"

\* The order in which copy_payload reads them.
AfterCopying(f) ==
  CASE f = "path" -> "size"
    [] f = "size" -> "root_head"
    [] f = "root_head" -> "root_tail"
    [] f = "root_tail" -> "recheck"

PublisherSteps == Fields \cup {"idle", "seq_begin", "seq_end", "unlock"}
ReaderSteps == Fields \cup {"idle", "load", "probe", "abandoned", "recheck"}
Calls == {"set_arena", "set_arena_with_root", "reset"}

Odd(n) == n % 2 = 1

\* A root a reader is handed: the two halves of one publication, or a mixture.
Whole(s) == s["root_head"] = s["root_tail"]

Init ==
  /\ seq = 0
  /\ payload = ZeroSnapshot
  /\ exclusive = NoOne
  /\ shared = {}
  /\ ppc = [p \in Publishers |-> "idle"]
  /\ pval = [p \in Publishers |-> Zero]
  /\ pkind = [p \in Publishers |-> "set_arena"]
  /\ rpc = [r \in Readers |-> "idle"]
  /\ before = [r \in Readers |-> 0]
  /\ copy = [r \in Readers |-> ZeroSnapshot]
  /\ last = [r \in Readers |-> Nothing]
  /\ answer = [r \in Readers |-> ZeroSnapshot]
  /\ current = ZeroSnapshot
  /\ completed = {ZeroSnapshot}
  /\ publishes = 0
  /\ deaths = 0

-----------------------------------------------------------------------------
(* Publishers *)

\* PublishLock::take: flock(LOCK_EX) waits until nobody else holds the lock.
TakePublishLock(p, kind, v) ==
  /\ ppc[p] = "idle"
  /\ publishes < MaxPublishes
  /\ exclusive = NoOne
  /\ shared = {}
  /\ exclusive' = p
  /\ ppc' = [ppc EXCEPT ![p] = "seq_begin"]
  /\ pval' = [pval EXCEPT ![p] = v]
  /\ pkind' = [pkind EXCEPT ![p] = kind]
  /\ publishes' = publishes + 1
  /\ UNCHANGED <<seq, payload, shared, readVars, current, completed, deaths>>

set_arena(p, v) ==
  /\ AnySetArena \/ payload["path"] = Zero
  /\ TakePublishLock(p, "set_arena", v)

\* The root is one of a publication, or, for --reset-arena, the zero sentinel.
set_arena_with_root(p, v) ==
  \E kind \in {"set_arena_with_root", "reset"} : TakePublishLock(p, kind, v)

\* Even becomes odd.  A counter a dead publisher left odd stays odd.
seq_begin(p) ==
  /\ ppc[p] = "seq_begin"
  /\ seq' = IF Odd(seq) THEN seq ELSE seq + 1
  /\ ppc' = [ppc EXCEPT ![p] = "path"]
  /\ UNCHANGED <<payload, lockVars, pval, pkind, readVars, current, completed,
                 publishes, deaths>>

\* The bytes a publish has for a field.
Source(p, f) ==
  IF pkind[p] = "reset" /\ f \in {"root_head", "root_tail"} THEN Zero ELSE pval[p]

\* One volatile_copy_in of the publish.
volatile_copy_in(p) ==
  /\ ppc[p] \in Fields
  /\ payload' = [payload EXCEPT ![ppc[p]] = Source(p, ppc[p])]
  /\ ppc' = [ppc EXCEPT ![p] = AfterWriting(pkind[p], ppc[p])]
  /\ UNCHANGED <<seq, lockVars, pval, pkind, readVars, current, completed,
                 publishes, deaths>>

seq_end(p) ==
  /\ ppc[p] = "seq_end"
  /\ seq' = seq + 1
  /\ ppc' = [ppc EXCEPT ![p] = "unlock"]
  /\ current' = payload
  /\ completed' = completed \cup {payload}
  /\ UNCHANGED <<payload, lockVars, pval, pkind, readVars, publishes, deaths>>

\* The flush, then PublishLock's drop.
Unlock(p) ==
  /\ ppc[p] = "unlock"
  /\ exclusive' = NoOne
  /\ ppc' = [ppc EXCEPT ![p] = "idle"]
  /\ pval' = [pval EXCEPT ![p] = Zero]
  /\ UNCHANGED <<seq, payload, shared, pkind, readVars, current,
                 completed, publishes, deaths>>

\* The publisher is killed: the kernel drops its lock, the mapped bytes stay.
Die(p) ==
  /\ ppc[p] # "idle"
  /\ deaths < MaxDeaths
  /\ deaths' = deaths + 1
  /\ exclusive' = NoOne
  /\ ppc' = [ppc EXCEPT ![p] = "idle"]
  /\ pval' = [pval EXCEPT ![p] = Zero]
  /\ UNCHANGED <<seq, payload, shared, pkind, readVars, current,
                 completed, publishes>>

-----------------------------------------------------------------------------
(* Readers: the loop of Controller::snapshot *)

StartRead(r) ==
  /\ rpc[r] = "idle"
  /\ rpc' = [rpc EXCEPT ![r] = "load"]
  /\ UNCHANGED <<seq, payload, lockVars, pubVars, before, copy, last, answer,
                 current, completed, publishes, deaths>>

LoadSequence(r) ==
  /\ rpc[r] = "load"
  /\ before' = [before EXCEPT ![r] = seq]
  /\ rpc' = [rpc EXCEPT ![r] = IF Odd(seq) THEN "probe" ELSE "path"]
  /\ UNCHANGED <<seq, payload, lockVars, pubVars, copy, last, answer, current,
                 completed, publishes, deaths>>

\* One field of copy_payload, while publishers may be writing it.
volatile_copy_out(r) ==
  /\ rpc[r] \in Fields
  /\ copy' = [copy EXCEPT ![r][rpc[r]] = payload[rpc[r]]]
  /\ rpc' = [rpc EXCEPT ![r] = AfterCopying(rpc[r])]
  /\ UNCHANGED <<seq, payload, lockVars, pubVars, before, last, answer, current,
                 completed, publishes, deaths>>

\* Mutant: the copy is kept without looking at the counter again.
AcceptUnchecked(r) ==
  /\ rpc[r] = "recheck"
  /\ last' = [last EXCEPT ![r] = copy[r]]
  /\ answer' = [answer EXCEPT ![r] = copy[r]]
  /\ rpc' = [rpc EXCEPT ![r] = "idle"]
  /\ copy' = [copy EXCEPT ![r] = ZeroSnapshot]
  /\ UNCHANGED <<seq, payload, lockVars, pubVars, before, current, completed,
                 publishes, deaths>>

\* The counter did not move: the copy is kept, remembered and returned.
Accept(r) ==
  /\ rpc[r] = "recheck"
  /\ before[r] = seq
  /\ last' = [last EXCEPT ![r] = copy[r]]
  /\ answer' = [answer EXCEPT ![r] = copy[r]]
  /\ rpc' = [rpc EXCEPT ![r] = "idle"]
  /\ copy' = [copy EXCEPT ![r] = ZeroSnapshot]
  /\ UNCHANGED <<seq, payload, lockVars, pubVars, before, current,
                 completed, publishes, deaths>>

Retry(r) ==
  /\ rpc[r] = "recheck"
  /\ before[r] # seq
  /\ rpc' = [rpc EXCEPT ![r] = "load"]
  /\ copy' = [copy EXCEPT ![r] = ZeroSnapshot]
  /\ UNCHANGED <<seq, payload, lockVars, pubVars, before, last, answer,
                 current, completed, publishes, deaths>>

\* try_lock_shared: refused while a publisher holds the lock.
ProbeHeld(r) ==
  /\ rpc[r] = "probe"
  /\ exclusive # NoOne
  /\ rpc' = [rpc EXCEPT ![r] = "load"]
  /\ UNCHANGED <<seq, payload, lockVars, pubVars, before, copy, last, answer,
                 current, completed, publishes, deaths>>

\* Mutant: an odd counter is always taken for a live publish.
ProbeNeverFree(r) == ProbeHeld(r)

ProbeFree(r) ==
  /\ rpc[r] = "probe"
  /\ exclusive = NoOne
  /\ shared' = shared \cup {r}
  /\ rpc' = [rpc EXCEPT ![r] = "abandoned"]
  /\ UNCHANGED <<seq, payload, exclusive, pubVars, before, copy, last, answer,
                 current, completed, publishes, deaths>>

\* Mutants: the torn record itself; the zero sentinel even when the handle has a
\* snapshot.
TornAnswer(r) == IF last[r] # Nothing THEN last[r] ELSE payload
ZeroAnswer(r) == [payload EXCEPT !["root_head"] = Zero, !["root_tail"] = Zero]

\* What a read of an abandoned publish answers: what this handle last read, or
\* the path and size as they stand with the root as the zero sentinel.
AbandonedAnswer(r) ==
  IF last[r] # Nothing
    THEN last[r]
    ELSE [payload EXCEPT !["root_head"] = Zero, !["root_tail"] = Zero]

\* abandoned_payload under the shared lock, then its unlock.
abandoned_payload(r) ==
  /\ rpc[r] = "abandoned"
  /\ shared' = shared \ {r}
  /\ \/ /\ before[r] = seq
        /\ answer' = [answer EXCEPT ![r] = AbandonedAnswer(r)]
        /\ rpc' = [rpc EXCEPT ![r] = "idle"]
     \/ /\ before[r] # seq
        /\ rpc' = [rpc EXCEPT ![r] = "load"]
        /\ UNCHANGED answer
  /\ UNCHANGED <<seq, payload, exclusive, pubVars, before, copy, last, current,
                 completed, publishes, deaths>>

\* The process drops its handle, or dies, and opens the file again.
open_or_create(r) ==
  /\ rpc' = [rpc EXCEPT ![r] = "idle"]
  /\ shared' = shared \ {r}
  /\ last' = [last EXCEPT ![r] = Nothing]
  /\ answer' = [answer EXCEPT ![r] = ZeroSnapshot]
  /\ copy' = [copy EXCEPT ![r] = ZeroSnapshot]
  /\ UNCHANGED <<seq, payload, exclusive, pubVars, before, current,
                 completed, publishes, deaths>>

-----------------------------------------------------------------------------
PublisherStep(p) ==
  \/ \E v \in Values : set_arena(p, v) \/ set_arena_with_root(p, v)
  \/ seq_begin(p) \/ volatile_copy_in(p) \/ seq_end(p) \/ Unlock(p)
  \/ Die(p)

ReaderProgress(r) ==
  \/ LoadSequence(r) \/ volatile_copy_out(r) \/ Accept(r) \/ Retry(r)
  \/ ProbeHeld(r) \/ ProbeFree(r) \/ abandoned_payload(r)

Next == \/ \E p \in Publishers : PublisherStep(p)
        \/ \E r \in Readers : StartRead(r) \/ ReaderProgress(r) \/ open_or_create(r)

Spec == Init /\ [][Next]_vars

\* A publisher that is not killed runs on to its unlock, and a reader's loop
\* runs: nothing in the code blocks inside either.
FairSpec ==
  /\ Spec
  /\ \A p \in Publishers :
       WF_vars(seq_begin(p) \/ volatile_copy_in(p) \/ seq_end(p) \/ Unlock(p))
  /\ \A r \in Readers : WF_vars(ReaderProgress(r))

-----------------------------------------------------------------------------
(* Properties *)

TypeOK ==
  /\ seq \in Nat
  /\ payload \in Snapshot
  /\ exclusive \in Publishers \cup {NoOne}
  /\ shared \subseteq Readers
  /\ ppc \in [Publishers -> PublisherSteps]
  /\ pval \in [Publishers -> Slots]
  /\ pkind \in [Publishers -> Calls]
  /\ rpc \in [Readers -> ReaderSteps]
  /\ before \in [Readers -> Nat]
  /\ copy \in [Readers -> Snapshot]
  /\ last \in [Readers -> Snapshot \cup {Nothing}]
  /\ answer \in [Readers -> Snapshot]
  /\ current \in Snapshot
  /\ completed \subseteq Snapshot
  /\ publishes \in Nat
  /\ deaths \in Nat

\* The seqlock's meaning: whenever the counter is even the mapped record is the
\* one the last finished publish left, dead publishers included (seq_begin keeps
\* a dead publisher's counter odd until a whole publish closes it).
EvenMeansPublished == ~Odd(seq) => payload = current

\* Controller::snapshot: a snapshot a handle keeps is "exactly as some single
\* set_arena* call left" the record, however publishers interleave and die.
SnapshotFromOnePublish ==
  \A r \in Readers : last[r] # Nothing => last[r] \in completed

\* Controller::current_root: the root a reader is handed is the zero sentinel or
\* one that some set_arena_with_root call published in full.
RootPublishedInFull ==
  \A r \in Readers :
    /\ Whole(answer[r])
    /\ answer[r]["root_head"] # Zero =>
         \E s \in completed : /\ s["root_head"] = answer[r]["root_head"]
                              /\ s["root_tail"] = answer[r]["root_tail"]

\* A reader's loop ends: a publisher that dies with the counter odd does not
\* leave its readers spinning (abandoned_payload), and one that lives lets them
\* through once it is done.
ReadsReturn == \A r \in Readers : rpc[r] # "idle" ~> rpc[r] = "idle"

\* A handle that has read a root keeps answering one while it stays open, unless a
\* reset was published in full: over an abandoned publish, a reset's too, its arena
\* is stale for the moment and not empty.
KeepsServing ==
  [][\A r \in Readers :
       (answer[r]["root_head"] # Zero /\ last'[r] # Nothing) =>
         (answer'[r]["root_head"] # Zero \/ current["root_head"] = Zero)]_vars

\* What a polling reader sees of current_root is an atomic register: every
\* answer is the root published last at the moment the read accepts it, or, over
\* an abandoned publish, the one this handle had.
Register == INSTANCE RootRegister
  WITH Roots <- Values, NoRoot <- Zero,
       register <- current["root_head"],
       view <- [r \in Readers |-> answer[r]["root_head"]]

\* ControlBlock implements RootRegister under that mapping.
ImplementsRegister == Register!Spec
=============================================================================
