----------------------------- MODULE SourceWrite -----------------------------
(***************************************************************************)
(* The one write path of the store (cli-lib/src/source_write.rs) for files *)
(* and the three-way merge of a write whose base moved (merge.rs).  A tree *)
(* maps every path to the lines its file holds, or to Absent.  A proposal  *)
(* is a set of changes, one per path, each with the base its author read;  *)
(* it lands whole or is refused whole.                                     *)
(*                                                                         *)
(* Contents stand for their blob hashes.  A file is empty or holds every   *)
(* line of Lines, and the text of a line says which line it is, so a line  *)
(* diff matches a line only with itself.                                   *)
(***************************************************************************)
EXTENDS Naturals, Sequences, FiniteSets

CONSTANTS Paths, Lines, Texts, Absent, Any

Empty == <<>>
Contents == {Empty} \cup [Lines -> Texts]

ASSUME SourceAssumption ==
  /\ IsFiniteSet(Lines) /\ Lines = 1..Cardinality(Lines)
  /\ Texts # {} /\ Paths # {}
  /\ Absent \notin Contents /\ Any \notin Contents

Write(p, base, bytes) == [path |-> p, base |-> base, op |-> "write", bytes |-> bytes]
Delete(p, base) == [path |-> p, base |-> base, op |-> "delete", bytes |-> Empty]

-----------------------------------------------------------------------------
(* Line diffs.  A range is <<start, end>>, 0-based and half-open.          *)

Differ(f, t) == {i \in Lines : f[i] # t[i]}

Runs(S) ==
  {r \in (0..Cardinality(Lines)) \X (0..Cardinality(Lines)) :
     /\ r[1] < r[2]
     /\ \A i \in Lines : (r[1] < i /\ i <= r[2]) => i \in S
     /\ r[1] \notin S
     /\ (r[2] + 1) \notin S}

\* The hunks of the diff f -> t, each with its range on either side.
changed_lines(f, t) ==
  IF f = t THEN {}
  ELSE IF Len(f) = Len(t) THEN {[from |-> r, to |-> r] : r \in Runs(Differ(f, t))}
  ELSE {[from |-> <<0, Len(f)>>, to |-> <<0, Len(t)>>]}

\* gix-merge's rule: a hunk starts inside a hunk of the other side, or where it starts.
overlaps(a, b) == a[1] = b[1] \/ (a[1] < b[1] /\ b[1] < a[2]) \/ (b[1] < a[1] /\ a[1] < b[2])

\* What the merge makes of the two sides: nothing when hunks overlap.  Two sides that
\* agree are one.
merge(base, ours, theirs) ==
  IF ours = theirs \/ theirs = base THEN {ours}
  ELSE IF ours = base THEN {theirs}
  ELSE IF \E o \in changed_lines(base, ours), t \in changed_lines(base, theirs) :
             overlaps(o.from, t.from) THEN {}
  ELSE {[i \in Lines |-> IF ours[i] # base[i] THEN ours[i] ELSE theirs[i]]}

-----------------------------------------------------------------------------
(* Proposals.                                                              *)

\* decide_one: what the path holds once the change is applied; nothing when the change
\* is refused (malformed, stale, in conflict, or of no file).
decide_one(tree, w) ==
  LET current == tree[w.path]
      result == IF w.op = "write" THEN w.bytes ELSE Absent
  IN IF w.base = Absent THEN
          IF w.op = "write" /\ current \in {Absent, w.bytes} THEN {result} ELSE {}
     ELSE IF current = Absent THEN {}
     ELSE IF w.base \in {Any, current} THEN {result}
     ELSE IF w.op = "delete" THEN {}
     ELSE merge(w.base, w.bytes, current)

\* check: what propose would say now.
check(tree, writes) == \A w \in writes : decide_one(tree, w) # {}

\* propose_checked, once check has accepted: every change of the proposal lands.
propose(tree, writes) ==
  [p \in Paths |->
     IF \E w \in writes : w.path = p
     THEN CHOOSE x \in decide_one(tree, CHOOSE w \in writes : w.path = p) : TRUE
     ELSE tree[p]]

=============================================================================
