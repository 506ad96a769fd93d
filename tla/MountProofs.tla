---------------------------- MODULE MountProofs -----------------------------
(***************************************************************************)
(* The host's mount of the store, for any paths, line numbers, texts,      *)
(* processes and bound on remembered reads: no save undoes a line another  *)
(* writer landed since the saver's READ, and a COMMIT answers "done" over  *)
(* an edit that did not land only after a refusal or a crossing.  First    *)
(* what a merge keeps of two edited copies, then what the handle, the      *)
(* tree and the processes' own accounts agree on.                          *)
(***************************************************************************)
EXTENDS HostMount, FiniteSetTheorems, WellFoundedInduction, TLAPS

-----------------------------------------------------------------------------
(* The least and the greatest of a set of numbers.                         *)

LEMMA Least ==
  ASSUME NEW T, T \subseteq Nat, T # {}
  PROVE  \E x \in T : \A y \in T : x <= y
<1> DEFINE R == OpToRel(<, Nat)
<1>1. IsWellFoundedOn(R, Nat)
  BY Zenon, NatLessThanWellFounded
<1>2. \A x, y \in Nat : y < x => <<y, x>> \in R
  BY Zenon DEF OpToRel
<1> HIDE DEF R
<1>3. PICK x \in T : \A y \in T : ~ (<<y, x>> \in R)
  BY Zenon, <1>1, WFMin
<1>4. ASSUME NEW y \in T PROVE x <= y
  <2>1. x \in Nat /\ y \in Nat
    BY Zenon
  <2>2. ~(y < x)
    BY <1>2, <1>3, <2>1, Zenon
  <2>3. QED
    BY <2>1, <2>2
<1>5. QED
  BY Zenon, <1>4

LEMMA Greatest ==
  ASSUME NEW T, T \subseteq Nat, T # {}, NEW n \in Nat, \A y \in T : y <= n
  PROVE  \E x \in T : \A y \in T : y <= x
<1> DEFINE M == {n - y : y \in T}
<1>1. M \subseteq Nat /\ M # {}
  <2>1. \A y \in T : n - y \in Nat
    OBVIOUS
  <2>2. QED
    BY Zenon, <2>1
<1>2. PICK m \in M : \A k \in M : m <= k
  BY Zenon, <1>1, Least
<1>3. PICK x \in T : m = n - x
  BY Zenon, <1>2
<1>4. ASSUME NEW y \in T PROVE y <= x
  <2>1. n - x <= n - y
    BY Zenon, <1>2, <1>3
  <2>2. QED
    BY <2>1
<1>5. QED
  BY Zenon, <1>4

-----------------------------------------------------------------------------
(* Line diffs.                                                             *)

Count == Cardinality(Lines)

LEMMA CountFacts == Count \in Nat /\ Lines = 1..Count
BY Zenon, SourceAssumption, FS_CardinalityType DEF Count

\* Runs: every line of a set lies in one of its runs.
LEMMA RunThrough ==
  ASSUME NEW S \in SUBSET Lines, NEW i \in S
  PROVE  \E r \in Runs(S) : r[1] < i /\ i <= r[2]
<1>1. Count \in Nat /\ Lines = 1..Count /\ i \in 1..Count
  BY Zenon, CountFacts
<1> DEFINE Below == {k \in 0..(i - 1) : k \notin S}
           Above == {k \in i..Count : (k + 1) \notin S}
<1>2. Below \subseteq Nat /\ 0 \in Below /\ \A k \in Below : k <= i - 1
  BY <1>1
<1>3. PICK lo \in Below : \A k \in Below : k <= lo
  <2>1. i - 1 \in Nat
    BY <1>1
  <2>2. QED
    BY Zenon, <1>2, <2>1, Greatest
<1>4. Above \subseteq Nat /\ Count \in Above
  BY <1>1
<1>5. PICK hi \in Above : \A k \in Above : hi <= k
  BY Zenon, <1>4, Least
<1>6. lo \in 0..Count /\ hi \in 0..Count /\ lo < i /\ i <= hi /\ lo \notin S /\ (hi + 1) \notin S
  BY <1>1, <1>3, <1>5
<1>7. ASSUME NEW j \in Lines, lo < j, j <= hi
      PROVE  j \in S
  <2>1. j \in Nat
    BY <1>1
  <2>2. CASE j <= i - 1
    <3>1. j \in Below \/ j \in S
      BY <1>1, <2>1, <2>2
    <3>2. QED
      BY <1>1, <1>3, <1>6, <1>7, <2>1, <3>1
  <2>3. CASE j = i
    BY Zenon, <2>3
  <2>4. CASE j > i
    <3>1. (j - 1) \in Above \/ j \in S
      BY <1>1, <2>1, <2>4
    <3>2. ~(hi <= j - 1)
      BY <1>1, <1>6, <1>7, <2>1
    <3>3. QED
      BY Zenon, <1>5, <3>1, <3>2
  <2>5. QED
    BY <1>1, <2>1, <2>2, <2>3, <2>4
<1> DEFINE r == <<lo, hi>>
<1>8. r \in (0..Count) \X (0..Count) /\ r[1] = lo /\ r[2] = hi
  BY Zenon, <1>6
<1> HIDE DEF r
<1>9. r \in Runs(S)
  <2>1. r[1] < r[2]
    BY <1>1, <1>6, <1>8
  <2>2. QED
    BY Zenon, <1>6, <1>7, <1>8, <2>1 DEF Runs, Count
<1>10. QED
  BY Zenon, <1>6, <1>8, <1>9

\* Two contents differ at a line; an empty file differs from another at every line.
Apart(f, t, i) == f # t /\ (f = Empty \/ t = Empty \/ f[i] # t[i])

\* A range of content c reaches line i.
Covers(r, c, i) == IF c = Empty THEN r[1] = 0 /\ r[2] = 0
                   ELSE r[1] \in Nat /\ r[2] \in Nat /\ r[1] < i /\ i <= r[2]

LEMMA Lengths ==
  ASSUME NEW c \in Contents
  PROVE  /\ c = Empty => Len(c) = 0
         /\ c # Empty => c \in [Lines -> Texts] /\ Len(c) = Count /\ Count > 0
<1>1. Count \in Nat /\ Lines = 1..Count
  BY Zenon, CountFacts
<1>2. Len(Empty) = 0
  BY Zenon DEF Empty
<1>3. CASE c # Empty
  <2>1. c \in [1..Count -> Texts]
    BY Zenon, <1>1, <1>3 DEF Contents
  <2>2. c \in Seq(Texts) /\ Len(c) = Count
    BY <1>1, <2>1
  <2>3. Count # 0
    BY <1>3, <2>2 DEF Empty
  <2>4. QED
    BY <1>1, <1>3, <2>1, <2>2, <2>3
<1>4. QED
  BY Zenon, <1>2, <1>3

\* changed_lines: a line at which two contents differ lies in a hunk of their diff.
LEMMA HunkAt ==
  ASSUME NEW f \in Contents, NEW t \in Contents, NEW i \in Lines, Apart(f, t, i)
  PROVE  \E d \in changed_lines(f, t) : Covers(d.from, f, i) /\ Covers(d.to, t, i)
<1>1. Count \in Nat /\ i \in 1..Count /\ f # t
  BY Zenon, CountFacts DEF Apart
<1>2. CASE f # Empty /\ t # Empty
  <2>1. Len(f) = Len(t) /\ i \in Differ(f, t) /\ Differ(f, t) \in SUBSET Lines
    BY Zenon, <1>2, Lengths DEF Apart, Differ
  <2>2. PICK r \in Runs(Differ(f, t)) : r[1] < i /\ i <= r[2]
    BY Zenon, <2>1, RunThrough
  <2>3. r[1] \in Nat /\ r[2] \in Nat
    BY <1>1 DEF Runs, Count
  <2>4. [from |-> r, to |-> r] \in changed_lines(f, t)
    BY Zenon, <1>1, <2>1, <2>2 DEF changed_lines
  <2>5. QED
    BY Zenon, <1>2, <2>2, <2>3, <2>4 DEF Covers
<1>3. CASE f = Empty \/ t = Empty
  <2> DEFINE d == [from |-> <<0, Len(f)>>, to |-> <<0, Len(t)>>]
  <2>1. Len(f) # Len(t) /\ Len(f) \in Nat /\ Len(t) \in Nat
    BY <1>1, <1>3, Lengths
  <2>2. d \in changed_lines(f, t)
    BY Zenon, <1>1, <2>1 DEF changed_lines
  <2>3. Covers(d.from, f, i) /\ Covers(d.to, t, i)
    BY <1>1, <1>3, <2>1, Lengths DEF Covers
  <2>4. QED
    BY Zenon, <2>2, <2>3
<1>4. QED
  BY Zenon, <1>2, <1>3

\* overlaps and touches: ranges that reach the same line meet.
LEMMA RangesMeet ==
  ASSUME NEW c, NEW i \in Lines, NEW a, NEW b, Covers(a, c, i), Covers(b, c, i)
  PROVE  overlaps(a, b) /\ touches(a, b)
<1>1. i \in Nat
  BY CountFacts
<1>2. CASE c = Empty
  <2>1. a[1] = 0 /\ a[2] = 0 /\ b[1] = 0 /\ b[2] = 0
    BY Zenon, <1>2 DEF Covers
  <2>2. overlaps(a, b)
    BY Zenon, <2>1 DEF overlaps
  <2>3. touches(a, b)
    <3>1. a[1] = a[2] /\ b[1] <= a[1] /\ a[1] <= b[2]
      BY <2>1
    <3>2. QED
      BY Zenon, <3>1 DEF touches
  <2>4. QED
    BY Zenon, <2>2, <2>3
<1>3. CASE c # Empty
  <2>1. /\ a[1] \in Nat /\ a[2] \in Nat /\ a[1] < i /\ i <= a[2]
        /\ b[1] \in Nat /\ b[2] \in Nat /\ b[1] < i /\ i <= b[2]
    BY Zenon, <1>3 DEF Covers
  <2>2. overlaps(a, b)
    BY <1>1, <2>1 DEF overlaps
  <2>3. touches(a, b)
    BY <1>1, <2>1 DEF touches
  <2>4. QED
    BY Zenon, <2>2, <2>3
<1>4. QED
  BY Zenon, <1>2, <1>3

LEMMA SomeLine ==
  ASSUME NEW f \in Contents, NEW t \in Contents, f # t
  PROVE  \E i \in Lines : Apart(f, t, i)
<1>1. Count \in Nat /\ Lines = 1..Count
  BY Zenon, CountFacts
<1>2. CASE f # Empty /\ t # Empty
  <2>1. f \in [Lines -> Texts] /\ t \in [Lines -> Texts]
    BY Zenon, <1>2, Lengths
  <2>2. \E i \in Lines : f[i] # t[i]
    BY <2>1
  <2>3. QED
    BY Zenon, <2>2 DEF Apart
<1>3. CASE f = Empty \/ t = Empty
  <2>1. 1 \in Lines
    BY <1>1, <1>3, Lengths
  <2>2. QED
    BY Zenon, <1>3, <2>1 DEF Apart
<1>4. QED
  BY Zenon, <1>2, <1>3

-----------------------------------------------------------------------------
(* The merge and the proposals.                                            *)

\* merge: sides that both changed a line are refused.
LEMMA BothSidesRefused ==
  ASSUME NEW base \in Contents, NEW ours \in Contents, NEW theirs \in Contents,
         NEW i \in Lines, Apart(base, ours, i), Apart(base, theirs, i)
  PROVE  \E o \in changed_lines(base, ours), t \in changed_lines(base, theirs) :
            overlaps(o.from, t.from)
<1>1. PICK o \in changed_lines(base, ours) : Covers(o.from, base, i)
  BY Zenon, HunkAt
<1>2. PICK t \in changed_lines(base, theirs) : Covers(t.from, base, i)
  BY Zenon, HunkAt
<1>3. overlaps(o.from, t.from)
  BY Zenon, <1>1, <1>2, RangesMeet
<1>4. QED
  BY Zenon, <1>3

\* merge: what it makes is a content, and where it is not what the other writer left, it
\* is what the saver wrote over a line the other writer did not change.
LEMMA MergeKeeps ==
  ASSUME NEW base \in Contents, NEW ours \in Contents, NEW theirs \in Contents,
         NEW m \in merge(base, ours, theirs)
  PROVE  /\ m \in Contents
         /\ \A i \in Lines : LineAt(m, i) # LineAt(theirs, i) =>
              LineAt(ours, i) = LineAt(m, i) /\ LineAt(base, i) = LineAt(theirs, i)
<1>1. CASE ours = theirs \/ theirs = base \/ ours = base
  BY <1>1, Zenon DEF merge
<1>2. CASE ~(ours = theirs \/ theirs = base \/ ours = base)
  <2> DEFINE Mixed == [i \in Lines |-> IF ours[i] # base[i] THEN ours[i] ELSE theirs[i]]
  <2>1. m = Mixed /\ ~ \E o \in changed_lines(base, ours), t \in changed_lines(base, theirs) :
                         overlaps(o.from, t.from)
    BY Zenon, <1>2 DEF merge
  <2>2. \A i \in Lines : ~Apart(base, ours, i) \/ ~Apart(base, theirs, i)
    BY Zenon, <2>1, BothSidesRefused
  <2>3. base # Empty
    BY Zenon, <1>2, <2>2, SomeLine DEF Apart
  <2>4. ours # Empty
    BY Zenon, <1>2, <2>2, SomeLine DEF Apart
  <2>5. theirs # Empty
    BY Zenon, <1>2, <2>2, SomeLine DEF Apart
  <2>6. base \in [Lines -> Texts] /\ ours \in [Lines -> Texts] /\ theirs \in [Lines -> Texts]
    BY Zenon, <2>3, <2>4, <2>5, Lengths
  <2>7. Mixed \in [Lines -> Texts] /\ Mixed # Empty
    <3>1. Mixed \in [Lines -> Texts]
      BY Zenon, <2>6
    <3>2. \A c \in [Lines -> Texts] : c # Empty
      BY <2>3, CountFacts, Lengths DEF Empty
    <3>3. QED
      BY Zenon, <3>1, <3>2
  <2>8. ASSUME NEW i \in Lines, LineAt(m, i) # LineAt(theirs, i)
        PROVE  LineAt(ours, i) = LineAt(m, i) /\ LineAt(base, i) = LineAt(theirs, i)
    <3>1. m[i] # theirs[i] /\ m[i] = IF ours[i] # base[i] THEN ours[i] ELSE theirs[i]
      BY Zenon, <2>1, <2>5, <2>7, <2>8 DEF LineAt
    <3>2. ours[i] # base[i] /\ m[i] = ours[i]
      BY Zenon, <3>1
    <3>3. base[i] = theirs[i]
      BY Zenon, <2>2, <3>2 DEF Apart
    <3>4. QED
      BY Zenon, <2>1, <2>3, <2>4, <2>5, <2>7, <3>2, <3>3 DEF LineAt
  <2>9. QED
    BY Zenon, <2>1, <2>7, <2>8 DEF Contents
<1>3. QED
  BY Zenon, <1>1, <1>2

Held == Contents \cup {Absent}

\* decide_one: what a change makes of a path that holds a file or nothing.
LEMMA DecideType ==
  ASSUME NEW t \in [Paths -> Held], NEW w, w.path \in Paths, w.bytes \in Contents,
         w.base \in Held
  PROVE  decide_one(t, w) \subseteq Held
<1>1. t[w.path] \in Held
  BY Zenon
<1>2. Any \notin Held \/ Any = Absent
  BY Zenon, SourceAssumption DEF Held
<1>3. CASE w.base \in Contents /\ t[w.path] \in Contents
  <2>1. merge(w.base, w.bytes, t[w.path]) \subseteq Contents
    BY Zenon, <1>3, MergeKeeps
  <2>2. QED
    BY Zenon, <1>1, <1>3, <2>1 DEF decide_one, Held
<1>4. CASE t[w.path] = Absent
  <2>1. decide_one(t, w) \in {{}, {w.bytes}, {Absent}}
    BY <1>4, ZenonT(30) DEF decide_one
  <2>2. QED
    BY Zenon, <2>1 DEF Held
<1>6. CASE w.base = Absent
  <2>1. decide_one(t, w) \in {{}, {w.bytes}, {Absent}}
    BY <1>6, ZenonT(30) DEF decide_one
  <2>2. QED
    BY Zenon, <2>1 DEF Held
<1>5. QED
  BY Zenon, <1>1, <1>3, <1>4, <1>6 DEF Held

\* propose: a proposal that check accepts leaves a tree.
LEMMA ProposeType ==
  ASSUME NEW t \in [Paths -> Held], NEW W, check(t, W),
         \A w \in W : w.bytes \in Contents /\ w.base \in Held
  PROVE  propose(t, W) \in [Paths -> Held]
<1>1. ASSUME NEW p \in Paths, NEW w \in W, w.path = p
      PROVE  (CHOOSE x \in decide_one(t, CHOOSE v \in W : v.path = p) : TRUE) \in Held
  <2> DEFINE v == CHOOSE v \in W : v.path = p
  <2>1. v \in W /\ v.path = p
    BY Zenon, <1>1
  <2> HIDE DEF v
  <2>2. decide_one(t, v) \subseteq Held
    BY Zenon, <2>1, DecideType
  <2>3. decide_one(t, v) # {}
    BY Zenon, <2>1 DEF check
  <2>4. (CHOOSE x \in decide_one(t, v) : TRUE) \in decide_one(t, v)
    BY Zenon, <2>3
  <2>5. QED
    BY Zenon, <2>2, <2>4 DEF v
<1>2. QED
  BY Zenon, <1>1 DEF propose

-----------------------------------------------------------------------------
(* The mount's state.                                                      *)

Copies == [bytes : Contents, held : BOOLEAN, ok : BOOLEAN]

Handles ==
  [open : BOOLEAN, path : Paths, base : Contents, bytes : Contents, dirty : BOOLEAN,
   earlier : SUBSET Contents, complete : BOOLEAN, reread : BOOLEAN,
   from : Copies, by : SUBSET Procs]

Ops == {"none", "read", "write", "truncate", "commit", "rename", "idle"}
Pcs == {"none", "reread", "settle", "forget", "unrefuse", "serve", "refused", "stage",
        "mark", "void", "voided", "land", "staged", "flush", "clean", "move", "swap", "follow"}

Requests ==
  [op : Ops, pc : Pcs, bytes : Contents, path : Paths \cup {Absent}, stable : BOOLEAN]

Accounts ==
  [pend : SUBSET Procs, void : SUBSET Procs,
   undone : BOOLEAN, untrue : BOOLEAN, unknown : BOOLEAN]

MountTypes ==
  /\ tree \in [Paths -> Held]
  /\ h \in Handles
  /\ stage \in {"Clean", "Written", "Truncated", "Refused"}
  /\ req \in [Actors -> Requests]
  /\ copy \in [Procs -> Copies]
  /\ g \in Accounts
  /\ crossed \in BOOLEAN

\* Reads: a copy that counts as read is among what a complete handle remembers.
Remembered(x) == x.ok /\ h.complete => x.bytes \in h.earlier \cup {h.base}

ReadsInv == Remembered(h.from) /\ \A p \in Procs : Remembered(copy[p])

LEMMA InitialFacts ==
  /\ Initial \in Contents /\ Empty \in Contents /\ NoCopy \in Copies
  /\ None \in Requests
  /\ NoHandle \in Handles /\ NoHandle.path \in Paths
  /\ NoHandle.from = NoCopy /\ NoHandle.by = {} /\ ~NoHandle.dirty
<1>1. (CHOOSE t \in Texts : TRUE) \in Texts
  BY Zenon, SourceAssumption
<1>2. Initial \in Contents /\ Empty \in Contents /\ NoCopy \in Copies /\ None \in Requests
  <2>1. Initial \in [Lines -> Texts]
    BY Zenon, <1>1 DEF Initial
  <2>2. Initial \in Contents /\ Empty \in Contents
    BY Zenon, <2>1 DEF Contents
  <2>3. NoCopy \in Copies
    BY Zenon, <2>2 DEF NoCopy, Copies
  <2>4. None \in Requests
    BY Zenon, <2>2 DEF None, Requests, Ops, Pcs
  <2>5. QED
    BY Zenon, <2>2, <2>3, <2>4
<1>3. (CHOOSE p \in Paths : TRUE) \in Paths
  BY Zenon, SourceAssumption
<1>4. QED
  BY Zenon, <1>2, <1>3 DEF NoHandle, Opened, Handles

LEMMA OtherPath == ASSUME NEW p \in Paths PROVE Other(p) \in Paths
BY Zenon, MountAssumption DEF Other

\* agree and check: a save that would land changes no line whose text its author had not
\* read, if the copy it was made of is remembered.
LEMMA LandingKeeps ==
  ASSUME NEW x \in Handles, tree \in [Paths -> Held],
         x.from.ok => (x.complete => x.from.bytes \in x.earlier \cup {x.base}),
         check(tree, Proposal(x, x.bytes)), agree(x, x.bytes)
  PROVE  LET new == propose(tree, Proposal(x, x.bytes))[x.path]
         IN new \in Contents /\ ~Undoes(x.from, tree[x.path], new)
<1> DEFINE w == Write(x.path, x.base, x.bytes)
           now == tree[x.path]
           new == propose(tree, Proposal(x, x.bytes))[x.path]
<1>1. /\ x.path \in Paths /\ x.base \in Contents /\ x.bytes \in Contents
      /\ x.from.bytes \in Contents /\ now \in Held
  BY Zenon DEF Handles, Copies
<1>2. w.path = x.path /\ w.base = x.base /\ w.bytes = x.bytes /\ w.op = "write"
  BY Zenon DEF Write
<1>3. Proposal(x, x.bytes) = {w}
  BY Zenon DEF Proposal
<1>4. decide_one(tree, w) # {}
  BY Zenon, <1>3 DEF check
<1>5. new \in decide_one(tree, w)
  <2>1. (CHOOSE v \in {w} : v.path = x.path) = w
    BY Zenon, <1>2
  <2>2. new = CHOOSE b \in decide_one(tree, w) : TRUE
    BY Zenon, <1>1, <1>2, <1>3, <2>1 DEF propose
  <2>3. QED
    BY Zenon, <1>4, <2>2
<1>6. now \in Contents /\ x.base # Absent /\ x.base # Any
  BY Zenon, <1>1, <1>2, <1>4, SourceAssumption DEF decide_one, Held
<1>7. new \in IF x.base = now THEN {x.bytes} ELSE merge(x.base, x.bytes, now)
  BY Zenon, <1>2, <1>5, <1>6, SourceAssumption DEF decide_one
<1>8. new \in Contents
  BY Zenon, <1>1, <1>6, <1>7, MergeKeeps
<1>9. ASSUME NEW i \in Lines, LineAt(new, i) # LineAt(now, i),
             x.from.ok, LineAt(x.from.bytes, i) # LineAt(now, i)
      PROVE  FALSE
  <2>1. LineAt(x.bytes, i) # LineAt(now, i) /\ LineAt(x.base, i) = LineAt(now, i)
    <3>1. CASE x.base = now
      BY Zenon, <1>7, <1>9, <3>1
    <3>2. CASE x.base # now
      BY <1>1, <1>6, <1>7, <1>9, <3>2, MergeKeeps
    <3>3. QED
      BY Zenon, <3>1, <3>2
  <2>2. x.from.bytes # x.base
    BY Zenon, <1>9, <2>1
  <2>3. ~(x.earlier = {} /\ x.complete)
    BY Zenon, <1>9, <2>2
  <2>4. now # Absent
    BY Zenon, <1>6, SourceAssumption
  <2>5. /\ x.complete
        /\ \A read \in x.earlier \cup {x.base} :
             \A s \in changed_lines(read, now), e \in changed_lines(now, x.bytes) :
               ~touches(s.to, e.from)
    BY Zenon, <2>3, <2>4 DEF agree
  <2>6. Apart(x.from.bytes, now, i) /\ Apart(now, x.bytes, i)
    BY Zenon, <1>9, <2>1 DEF LineAt, Apart
  <2>7. PICK s \in changed_lines(x.from.bytes, now) : Covers(s.to, now, i)
    BY Zenon, <1>1, <1>6, <2>6, HunkAt
  <2>8. PICK e \in changed_lines(now, x.bytes) : Covers(e.from, now, i)
    BY Zenon, <1>1, <1>6, <2>6, HunkAt
  <2>9. touches(s.to, e.from)
    BY Zenon, <2>7, <2>8, RangesMeet
  <2>10. QED
    BY Zenon, <1>9, <2>5, <2>7, <2>8, <2>9
<1>10. QED
  BY Zenon, <1>8, <1>9 DEF Undoes

\* remember and landed: nothing a complete handle remembers is forgotten.
LEMMA RememberKeeps ==
  ASSUME NEW x \in Handles, NEW blob \in Contents, NEW base \in Contents
  PROVE  LET y == remember(x, blob, base)
         IN /\ y \in Handles
            /\ y.open = x.open /\ y.reread = x.reread /\ y.path = x.path /\ y.from = x.from
            /\ y.by = x.by /\ y.dirty = x.dirty
            /\ y.complete => /\ x.complete
                             /\ x.earlier \cup {blob} \subseteq y.earlier \cup {base}
BY Zenon DEF remember, Handles

LEMMA LandedKeeps ==
  ASSUME NEW x \in Handles, NEW blob \in Contents
  PROVE  LET y == landed(x, x.base, blob)
         IN /\ y \in Handles
            /\ y.open = x.open /\ y.reread = x.reread /\ y.path = x.path
            /\ x.reread /\ y.complete =>
                 /\ x.complete
                 /\ x.earlier \cup {x.base} \subseteq y.earlier \cup {blob}
<1> DEFINE z == remember(x, x.base, blob)
<1>1. /\ z \in Handles
      /\ z.open = x.open /\ z.reread = x.reread /\ z.path = x.path
      /\ z.complete => /\ x.complete
                       /\ x.earlier \cup {x.base} \subseteq z.earlier \cup {blob}
  <2>1. x.base \in Contents
    BY Zenon DEF Handles
  <2>2. QED
    BY ZenonT(60), <2>1, RememberKeeps
<1> HIDE DEF z
<1>2. CASE x.reread
  <2> DEFINE y == [z EXCEPT !.earlier = @ \ {blob}]
  <2>1. landed(x, x.base, blob) = y
    BY Zenon, <1>2 DEF landed, z
  <2>2. /\ y \in Handles /\ y.earlier = z.earlier \ {blob} /\ y.complete = z.complete
        /\ y.open = z.open /\ y.reread = z.reread /\ y.path = z.path
    BY Zenon, <1>1 DEF Handles
  <2> HIDE DEF y
  <2>3. QED
    BY Zenon, <1>1, <2>1, <2>2
<1>3. CASE ~x.reread
  BY Zenon, <1>3 DEF landed
<1>4. QED
  BY Zenon, <1>2, <1>3

LEMMA MountTypesInit == Init => MountTypes
<1> SUFFICES ASSUME Init PROVE MountTypes
  BY Zenon
<1>1. crossed \in BOOLEAN /\ stage \in {"Clean", "Written", "Truncated", "Refused"}
  BY Zenon DEF Init
<1>5. g \in Accounts
  BY Zenon DEF Init, Accounts
<1>2. tree \in [Paths -> Held]
  BY Zenon, InitialFacts DEF Init, Held
<1>3. h \in Handles /\ req \in [Actors -> Requests] /\ copy \in [Procs -> Copies]
  BY Zenon, InitialFacts DEF Init
<1>4. QED
  BY Zenon, <1>1, <1>2, <1>3, <1>5 DEF MountTypes

LEMMA RequestType ==
  ASSUME req \in [Actors -> Requests], NEW a \in Actors
  PROVE  /\ \A s \in Pcs : Go(a, s) => req' \in [Actors -> Requests]
         /\ Done(a) => req' \in [Actors -> Requests]
         /\ \A r \in Requests : Ask(a, r) => req' \in [Actors -> Requests]
<1>1. ASSUME NEW s \in Pcs, Go(a, s) PROVE req' \in [Actors -> Requests]
  BY Zenon, <1>1 DEF Go, Requests
<1>2. ASSUME Done(a) PROVE req' \in [Actors -> Requests]
  BY Zenon, <1>2, InitialFacts DEF Done
<1>3. ASSUME NEW r \in Requests, Ask(a, r) PROVE req' \in [Actors -> Requests]
  BY Zenon, <1>3 DEF Ask
<1>4. QED
  BY Zenon, <1>1, <1>2, <1>3

LEMMA AccountType ==
  ASSUME g \in Accounts, NEW a \in Actors, crossed \in BOOLEAN
  PROVE  /\ Told(a) => g' \in Accounts
         /\ \A ok \in BOOLEAN : Answer(a, ok) => g' \in Accounts
<1>1. ASSUME Told(a) PROVE g' \in Accounts
  BY Zenon, <1>1 DEF Told, Accounts
<1>2. ASSUME NEW ok \in BOOLEAN, Answer(a, ok) PROVE g' \in Accounts
  BY ZenonT(30), <1>2 DEF Answer, Accounts
<1>3. QED
  BY Zenon, <1>1, <1>2

LEMMA AnswerType ==
  ASSUME req \in [Actors -> Requests], NEW a \in Actors, NEW ok \in BOOLEAN, Answer(a, ok)
  PROVE  req' \in [Actors -> Requests]
<1>1. Done(a) \/ Go(a, "move")
  BY Zenon DEF Answer
<1>2. QED
  BY Zenon, <1>1, RequestType DEF Pcs

LEMMA MountTypesStep == MountTypes /\ ReadsInv /\ [Next]_vars => MountTypes'
<1> SUFFICES ASSUME MountTypes, ReadsInv, [Next]_vars PROVE MountTypes'
  BY Zenon
<1> USE DEF Pcs
<1>1. /\ tree \in [Paths -> Held] /\ h \in Handles
      /\ stage \in {"Clean", "Written", "Truncated", "Refused"}
      /\ req \in [Actors -> Requests] /\ copy \in [Procs -> Copies]
      /\ g \in Accounts /\ crossed \in BOOLEAN
  BY Zenon DEF MountTypes
<1>2. /\ h.path \in Paths /\ h.base \in Contents /\ h.bytes \in Contents /\ h.from \in Copies
      /\ h.by \in SUBSET Procs /\ tree[h.path] \in Held
  BY Zenon, <1>1 DEF Handles
<1>3. \A p \in Procs : p \in Actors
  BY Zenon DEF Actors
<1>4. \A a \in Actors : req[a].bytes \in Contents /\ req[a].path \in Paths \cup {Absent}
  BY Zenon, <1>1 DEF Requests
<1>5. Empty \in Contents /\ NoCopy \in Copies /\ None \in Requests
  BY Zenon, InitialFacts
<1>c. Cross => crossed' \in BOOLEAN
  BY Zenon, <1>1 DEF Cross
<1> DEFINE Rest == /\ tree' \in [Paths -> Held] /\ h' \in Handles
                   /\ stage' \in {"Clean", "Written", "Truncated", "Refused"}
                   /\ req' \in [Actors -> Requests] /\ copy' \in [Procs -> Copies]
                   /\ g' \in Accounts
<1>6. ASSUME NEW p \in Procs, AskRead(p) PROVE Rest
  <2> DEFINE r == [None EXCEPT !.op = "read", !.pc = "reread"]
  <2>1. r \in Requests /\ p \in Actors
    BY Zenon, <1>3, <1>5 DEF Requests, Ops
  <2>2. req' \in [Actors -> Requests] /\ UNCHANGED <<tree, stage, copy, g>>
    BY Zenon, <1>1, <1>6, <2>1, RequestType DEF AskRead, Ask
  <2>3. h' \in Handles
    <3>1. CASE h.open
      BY Zenon, <1>1, <1>6, <3>1 DEF AskRead
    <3>2. CASE ~h.open
      <4>1. PICK q \in Paths : tree[q] # Absent /\ h' = Opened(q, tree[q])
        BY Zenon, <1>6, <3>2 DEF AskRead
      <4>2. tree[q] \in Contents
        BY Zenon, <1>1, <4>1 DEF Held
      <4>3. QED
        BY Zenon, <1>5, <4>1, <4>2 DEF Opened, Handles
    <3>3. QED
      BY Zenon, <3>1, <3>2
  <2>4. QED
    BY Zenon, <1>1, <2>2, <2>3
<1>7. ASSUME NEW p \in Procs, AskWrite(p) PROVE Rest
  <2>1. PICK bytes \in [Lines -> Texts], stable \in BOOLEAN :
          Ask(p, [None EXCEPT !.op = "write", !.pc = "refused", !.bytes = bytes,
                              !.stable = stable])
    BY Zenon, <1>7 DEF AskWrite
  <2> DEFINE r == [None EXCEPT !.op = "write", !.pc = "refused", !.bytes = bytes,
                               !.stable = stable]
  <2>2. r \in Requests /\ p \in Actors
    BY Zenon, <1>3, <1>5 DEF Requests, Ops, Contents
  <2>3. req' \in [Actors -> Requests]
    BY Zenon, <1>1, <2>1, <2>2, RequestType
  <2>4. QED
    BY Zenon, <1>1, <1>7, <2>1, <2>3 DEF AskWrite, Ask
<1>8. ASSUME NEW p \in Procs, AskTruncate(p) \/ AskCommit(p) \/ AskRename(p) PROVE Rest
  <2>1. PICK r \in Requests : Ask(p, r)
    <3>1. CASE AskTruncate(p)
      <4> DEFINE r == [None EXCEPT !.op = "truncate", !.pc = "refused"]
      <4>1. r \in Requests
        BY Zenon, <1>5 DEF Requests, Ops
      <4>2. QED
        BY Zenon, <3>1, <4>1 DEF AskTruncate
    <3>2. CASE AskCommit(p)
      <4> DEFINE r == [None EXCEPT !.op = "commit", !.pc = "land"]
      <4>1. r \in Requests
        BY Zenon, <1>5 DEF Requests, Ops
      <4>2. QED
        BY Zenon, <3>2, <4>1 DEF AskCommit
    <3>3. CASE AskRename(p)
      <4> DEFINE r == [None EXCEPT !.op = "rename",
                           !.pc = IF stage \in {"Written", "Truncated"} THEN "land" ELSE "move"]
      <4>1. r \in Requests
        BY Zenon, <1>5 DEF Requests, Ops
      <4>2. QED
        BY Zenon, <3>3, <4>1 DEF AskRename
    <3>4. QED
      BY Zenon, <1>8, <3>1, <3>2, <3>3
  <2>2. req' \in [Actors -> Requests]
    BY Zenon, <1>1, <1>3, <2>1, RequestType
  <2>3. UNCHANGED <<tree, stage, copy, g, h>>
    BY Zenon, <1>8, <2>1 DEF Ask, AskTruncate, AskCommit, AskRename
  <2>4. QED
    BY Zenon, <1>1, <2>2, <2>3
<1>9. ASSUME Tick PROVE Rest
  <2> DEFINE r == [None EXCEPT !.op = "idle", !.pc = "land"]
  <2>1. r \in Requests
    BY Zenon, <1>5 DEF Requests, Ops
  <2>2. req' \in [Actors -> Requests]
    BY Zenon, <1>1, <1>9, <2>1 DEF Tick
  <2>3. QED
    BY Zenon, <1>1, <1>9, <2>2 DEF Tick
<1>10. ASSUME NEW p \in Procs, Reread(p) PROVE Rest
  <2> DEFINE x == [h EXCEPT !.reread = TRUE]
             held == tree[h.path]
             z == remember(x, h.base, held)
  <2>1. x \in Handles /\ x.base = h.base
    BY Zenon, <1>1 DEF Handles
  <2>2. req' \in [Actors -> Requests]
    <3>1. Go(p, "settle") \/ Done(p)
      BY Zenon, <1>10 DEF Reread
    <3>2. QED
      BY Zenon, <1>1, <1>3, <3>1, RequestType
  <2>3. h' \in {h, x} \/ (held # Absent /\ h' = [z EXCEPT !.base = held, !.bytes = held])
    BY Zenon, <1>10 DEF Reread
  <2>4. ASSUME held # Absent PROVE [z EXCEPT !.base = held, !.bytes = held] \in Handles
    <3>1. held \in Contents
      BY Zenon, <1>2, <2>4 DEF Held
    <3>2. z \in Handles
      BY Zenon, <1>2, <2>1, <3>1, RememberKeeps
    <3> HIDE DEF z, held
    <3>3. QED
      BY Zenon, <3>1, <3>2 DEF Handles
  <2>5. QED
    BY Zenon, <1>1, <1>10, <2>1, <2>2, <2>3, <2>4 DEF Reread
<1>11. ASSUME NEW p \in Procs, Settle(p) \/ Unrefuse(p) PROVE Rest
  <2>1. \E s \in Pcs : Go(p, s)
    BY Zenon, <1>11 DEF Settle, Unrefuse
  <2>2. req' \in [Actors -> Requests]
    BY Zenon, <1>1, <1>3, <2>1, RequestType
  <2>3. QED
    BY Zenon, <1>1, <1>11, <2>2 DEF Settle, Unrefuse
<1>12. Distrust \in [Procs -> Copies]
  BY Zenon, <1>1 DEF Distrust, Copies
<1>13. ASSUME NEW p \in Procs, Forget(p) PROVE Rest
  <2>1. req' \in [Actors -> Requests]
    BY Zenon, <1>1, <1>3, <1>13, RequestType DEF Forget
  <2>2. h' \in Handles
    BY Zenon, <1>1, <1>13 DEF Forget, Handles, Copies
  <2>3. QED
    BY Zenon, <1>1, <1>12, <1>13, <2>1, <2>2 DEF Forget
<1>14. ASSUME NEW p \in Procs, Serve(p) PROVE Rest
  <2>1. req' \in [Actors -> Requests]
    BY Zenon, <1>1, <1>3, <1>14, RequestType DEF Serve
  <2> DEFINE c == [bytes |-> h.bytes, held |-> TRUE, ok |-> ~h.dirty /\ h.bytes = h.base]
  <2>2. c \in Copies
    BY Zenon, <1>1, <1>2 DEF Copies, Handles
  <2>3. copy' \in [Procs -> Copies]
    BY Zenon, <1>1, <1>14, <2>2 DEF Serve
  <2>4. QED
    BY Zenon, <1>1, <1>14, <2>1, <2>3 DEF Serve
<1>15. ASSUME NEW p \in Procs, Refused(p) PROVE Rest
  <2>1. req' \in [Actors -> Requests]
    BY Zenon, <1>1, <1>3, <1>15, RequestType DEF Refused
  <2>2. g' \in Accounts
    BY Zenon, <1>1, <1>3, <1>15, AccountType DEF Refused
  <2>3. QED
    BY Zenon, <1>1, <1>15, <2>1, <2>2 DEF Refused
<1>16. ASSUME NEW p \in Procs, NEW bytes \in Contents, Staged(p, bytes)
       PROVE  h' \in Handles /\ g' \in Accounts
  <2>1. h' \in Handles
    BY Zenon, <1>1, <1>16 DEF Staged, Handles
  <2>2. g' \in Accounts
    BY Zenon, <1>1, <1>16 DEF Staged, Accounts
  <2>3. QED
    BY Zenon, <2>1, <2>2
<1>17. ASSUME NEW p \in Procs, write_checked(p) \/ setattr(p) PROVE Rest
  <2>1. (\E s \in Pcs : Go(p, s)) \/ Done(p)
    BY Zenon, <1>17 DEF write_checked, setattr
  <2>2. req' \in [Actors -> Requests]
    BY Zenon, <1>1, <1>3, <2>1, RequestType
  <2>3. UNCHANGED <<h, g>> \/ (\E bytes \in Contents : Staged(p, bytes))
    BY Zenon, <1>3, <1>4, <1>5, <1>17 DEF write_checked, setattr
  <2>4. h' \in Handles /\ g' \in Accounts
    BY Zenon, <1>1, <1>16, <2>3
  <2>5. QED
    BY Zenon, <1>1, <1>17, <2>2, <2>4 DEF write_checked, setattr
<1>18. ASSUME NEW p \in Procs, Mark(p) \/ Unmarked(p) PROVE Rest
  <2>1. Go(p, "land") \/ Done(p)
    BY Zenon, <1>18 DEF Mark, Unmarked
  <2>2. req' \in [Actors -> Requests]
    BY Zenon, <1>1, <1>3, <2>1, RequestType
  <2>3. g' \in Accounts
    BY Zenon, <1>1, <1>3, <1>18, AccountType DEF Mark, Unmarked
  <2>4. QED
    BY Zenon, <1>1, <1>18, <2>2, <2>3 DEF Mark, Unmarked
<1>19. ASSUME NEW p \in Procs, RenameRead(p) PROVE Rest
  <2>1. req' \in [Actors -> Requests]
    <3>1. CASE Done(p)
      BY Zenon, <1>1, <1>3, <3>1, RequestType
    <3>2. CASE \E from \in Paths :
                 /\ tree[from] # Absent
                 /\ req' = [req EXCEPT ![p] = [@ EXCEPT !.pc = "swap", !.path = from,
                                                      !.bytes = tree[from]]]
      <4>1. PICK from \in Paths :
                 /\ tree[from] # Absent
                 /\ req' = [req EXCEPT ![p] = [@ EXCEPT !.pc = "swap", !.path = from,
                                                      !.bytes = tree[from]]]
        BY Zenon, <3>2
      <4>2. tree[from] \in Contents
        BY Zenon, <1>1, <4>1 DEF Held
      <4>3. QED
        BY ZenonT(30), <1>1, <1>3, <4>1, <4>2 DEF Requests
    <3>3. QED
      BY Zenon, <1>19, <3>1, <3>2 DEF RenameRead
  <2>2. QED
    BY Zenon, <1>1, <1>19, <2>1 DEF RenameRead
<1>20. ASSUME NEW p \in Procs, rename_file(p) PROVE Rest
  <2> DEFINE from == req[p].path
             W == {Delete(from, req[p].bytes), Write(Other(from), Absent, req[p].bytes)}
  <2>1. req' \in [Actors -> Requests]
    BY Zenon, <1>1, <1>3, <1>20, RequestType DEF rename_file
  <2>2. \A w \in W : w.bytes \in Contents /\ w.base \in Held
    BY <1>3, <1>4, <1>5 DEF Delete, Write, Held
  <2>3. check(tree, W) => propose(tree, W) \in [Paths -> Held]
    BY Zenon, <1>1, <2>2, ProposeType
  <2>4. tree' \in [Paths -> Held]
    BY Zenon, <1>1, <1>20, <2>3 DEF rename_file
  <2>5. QED
    BY Zenon, <1>1, <1>20, <2>1, <2>4 DEF rename_file
<1>21. ASSUME NEW p \in Procs, Follow(p) PROVE Rest
  <2>1. req' \in [Actors -> Requests]
    BY Zenon, <1>1, <1>3, <1>21, RequestType DEF Follow
  <2>2. h' \in Handles /\ copy' \in [Procs -> Copies]
    <3>1. CASE h.path # req[p].path
      BY Zenon, <1>1, <1>21, <3>1 DEF Follow
    <3>2. CASE h.path = req[p].path
      <4>1. Other(h.path) \in Paths /\ req[p].bytes \in Contents
        BY Zenon, <1>2, <1>3, <1>4, OtherPath
      <4>2. h' = [h EXCEPT !.path = Other(@), !.base = req[p].bytes,
                           !.from.ok = @ /\ h.base = req[p].bytes]
        BY Zenon, <1>21, <3>2 DEF Follow
      <4>3. h' \in Handles
        BY Zenon, <1>1, <1>2, <4>1, <4>2 DEF Handles, Copies
      <4>4. copy' \in {copy, Distrust}
        BY Zenon, <1>21, <3>2 DEF Follow
      <4>5. QED
        BY Zenon, <1>1, <1>12, <4>3, <4>4
    <3>3. QED
      BY Zenon, <3>1, <3>2
  <2>3. QED
    BY Zenon, <1>1, <1>21, <2>1, <2>2 DEF Follow
<1>22. ASSUME Remote PROVE Rest
  <2>1. PICK q \in Paths :
          /\ tree[q] # Absent
          /\ \/ \E c \in Contents : tree' = propose(tree, {Write(q, tree[q], c)})
             \/ tree' = propose(tree, {Delete(q, tree[q])})
    BY Zenon, <1>22 DEF Remote
  <2>2. tree[q] \in Contents /\ tree[q] # Absent /\ tree[q] \in Held
    BY Zenon, <1>1, <2>1 DEF Held
  <2>3. ASSUME NEW c \in Contents PROVE propose(tree, {Write(q, tree[q], c)}) \in [Paths -> Held]
    <3> DEFINE w == Write(q, tree[q], c)
    <3>1. w.path = q /\ w.bytes = c /\ w.base = tree[q] /\ w.op = "write"
      BY Zenon DEF Write
    <3>2. decide_one(tree, w) # {}
      BY Zenon, <2>2, <3>1 DEF decide_one
    <3>3. QED
      BY Zenon, <1>1, <2>2, <3>1, <3>2, ProposeType DEF check
  <2>4. propose(tree, {Delete(q, tree[q])}) \in [Paths -> Held]
    <3> DEFINE w == Delete(q, tree[q])
    <3>1. w.path = q /\ w.bytes = Empty /\ w.base = tree[q] /\ w.op = "delete"
      BY Zenon DEF Delete
    <3>2. decide_one(tree, w) # {}
      BY Zenon, <2>2, <3>1 DEF decide_one
    <3>3. QED
      BY Zenon, <1>1, <1>5, <2>2, <3>1, <3>2, ProposeType DEF check
  <2>5. tree' \in [Paths -> Held]
    BY Zenon, <2>1, <2>3, <2>4
  <2>6. QED
    BY Zenon, <1>1, <1>22, <2>5 DEF Remote
<1>23. ASSUME NEW a \in Actors, CommitRefused(a) \/ CommitStaged(a) \/ Committed(a) PROVE Rest
  <2>1. \/ \E ok \in BOOLEAN : Answer(a, ok)
        \/ (\E s \in Pcs : Go(a, s)) /\ UNCHANGED g
    BY Zenon, <1>23 DEF CommitRefused, CommitStaged, Committed
  <2>2. req' \in [Actors -> Requests]
    BY Zenon, <1>1, <2>1, AnswerType, RequestType
  <2>3. g' \in Accounts
    BY Zenon, <1>1, <2>1, AccountType
  <2>4. QED
    BY Zenon, <1>1, <1>23, <2>2, <2>3 DEF CommitRefused, CommitStaged, Committed
<1>24. ASSUME NEW a \in Actors, flush(a) PROVE Rest
  <2> DEFINE W == Proposal(h, h.bytes)
             bytes == propose(tree, W)[h.path]
  <2>1. req' \in [Actors -> Requests]
    <3>1. Go(a, "clean") \/ Go(a, "void")
      BY Zenon, <1>24 DEF flush
    <3>2. QED
      BY Zenon, <1>1, <3>1, RequestType
  <2>2. CASE UNCHANGED <<tree, h, g>>
    BY Zenon, <1>1, <1>24, <2>1, <2>2 DEF flush
  <2>3. CASE /\ check(tree, W) /\ agree(h, h.bytes) /\ tree' = propose(tree, W)
             /\ h' = [landed(h, h.base, bytes) EXCEPT
                        !.base = bytes, !.bytes = bytes, !.dirty = FALSE,
                        !.by = {}, !.from = NoCopy]
             /\ g' = [g EXCEPT !.pend = @ \ h.by,
                               !.undone = @ \/ Undoes(h.from, tree[h.path], bytes)]
    <3>1. bytes \in Contents /\ ~Undoes(h.from, tree[h.path], bytes)
      BY Zenon, <1>1, <2>3, LandingKeeps DEF ReadsInv, Remembered
    <3>2. \A w \in W : w.bytes \in Contents /\ w.base \in Held
      BY <1>2 DEF Proposal, Write, Held
    <3>3. tree' \in [Paths -> Held]
      BY Zenon, <1>1, <2>3, <3>2, ProposeType
    <3> DEFINE z == landed(h, h.base, bytes)
    <3>4. z \in Handles
      BY Zenon, <1>1, <3>1, LandedKeeps
    <3>5. h' = [z EXCEPT !.base = bytes, !.bytes = bytes, !.dirty = FALSE,
                         !.by = {}, !.from = NoCopy]
      BY Zenon, <2>3
    <3>6. g' \in Accounts
      BY Zenon, <1>1, <2>3, <3>1 DEF Accounts
    <3> HIDE DEF z, bytes
    <3>7. h' \in Handles
      BY Zenon, <1>5, <3>1, <3>4, <3>5 DEF Handles
    <3>8. QED
      BY Zenon, <1>1, <1>24, <2>1, <3>3, <3>6, <3>7 DEF flush
  <2>4. QED
    BY Zenon, <1>24, <2>2, <2>3 DEF flush
<1>25. ASSUME NEW a \in Actors, discard(a) PROVE Rest
  <2>1. req' \in [Actors -> Requests]
    BY Zenon, <1>1, <1>25, RequestType DEF discard
  <2>2. h' \in Handles
    BY Zenon, <1>1, <1>2, <1>5, <1>25 DEF discard, Handles
  <2>3. g' \in Accounts
    BY Zenon, <1>1, <1>2, <1>25 DEF discard, Accounts
  <2>4. QED
    BY Zenon, <1>1, <1>25, <2>1, <2>2, <2>3 DEF discard
<1>26. ASSUME NEW a \in Actors, Discarded(a) PROVE Rest
  <2>1. (Go(a, "move") /\ UNCHANGED g) \/ (Done(a) /\ Told(a))
    BY Zenon, <1>26 DEF Discarded
  <2>2. req' \in [Actors -> Requests] /\ g' \in Accounts
    BY Zenon, <1>1, <2>1, RequestType, AccountType
  <2>3. QED
    BY Zenon, <1>1, <1>26, <2>2 DEF Discarded
<1>27. CASE Next
  <2>1. Rest
    BY Zenon, <1>6, <1>7, <1>8, <1>9, <1>10, <1>11, <1>13, <1>14, <1>15, <1>17, <1>18, <1>19, <1>20,
       <1>21, <1>22, <1>23, <1>24, <1>25, <1>26, <1>27, ZenonT(60)
       DEF Next, Asking, Handling, Serving
  <2>2. crossed' \in BOOLEAN
    BY Zenon, <1>27, <1>c DEF Next
  <2>3. QED
    BY Zenon, <2>1, <2>2 DEF MountTypes
<1>28. CASE UNCHANGED vars
  BY Zenon, <1>1, <1>28 DEF MountTypes, vars
<1>29. QED
  BY Zenon, <1>27, <1>28

-----------------------------------------------------------------------------
(* Who moves in a step.                                                    *)

Alone(a, at) == req'[a].pc = at /\ \A b \in Actors \ {a} : req'[b] = req[b]

LEMMA Moves ==
  ASSUME req \in [Actors -> Requests], NEW a \in Actors
  PROVE  /\ \A s \in Pcs : Go(a, s) => Alone(a, s)
         /\ Done(a) => Alone(a, "none")
         /\ \A r \in Requests : Ask(a, r) => Alone(a, r.pc)
         /\ \A ok \in BOOLEAN : Answer(a, ok) => Alone(a, "none") \/ Alone(a, "move")
<1>1. ASSUME NEW s \in Pcs, Go(a, s) PROVE Alone(a, s)
  BY Zenon, <1>1 DEF Go, Alone, Requests
<1>2. ASSUME Done(a) PROVE Alone(a, "none")
  BY Zenon, <1>2 DEF Done, Alone, None
<1>3. ASSUME NEW r \in Requests, Ask(a, r) PROVE Alone(a, r.pc)
  BY Zenon, <1>3 DEF Ask, Alone
<1>4. ASSUME NEW ok \in BOOLEAN, Answer(a, ok) PROVE Alone(a, "none") \/ Alone(a, "move")
  <2>1. Done(a) \/ Go(a, "move")
    BY Zenon, <1>4 DEF Answer
  <2>2. QED
    BY Zenon, <1>1, <1>2, <2>1 DEF Pcs
<1>5. QED
  BY Zenon, <1>1, <1>2, <1>3, <1>4

\* What the requests are about to do, by the action that moved.
LEMMA AskMoves ==
  ASSUME MountTypes, NEW p \in Procs
  PROVE  /\ AskRead(p) => Alone(p, "reread")
         /\ AskWrite(p) \/ AskTruncate(p) => Alone(p, "refused")
         /\ AskCommit(p) => Alone(p, "land")
         /\ AskRename(p) => Alone(p, "land") \/ Alone(p, "move")
<1> DEFINE R(o, s) == [None EXCEPT !.op = o, !.pc = s]
<1>1. None \in Requests /\ p \in Actors /\ req \in [Actors -> Requests]
  BY Zenon, InitialFacts DEF MountTypes, Actors
<1>2. \A o \in Ops, s \in Pcs : R(o, s) \in Requests /\ R(o, s).pc = s
  BY Zenon, <1>1 DEF Requests
<1>3. ASSUME AskRead(p) PROVE Alone(p, "reread")
  <2>1. Ask(p, R("read", "reread"))
    BY Zenon, <1>3 DEF AskRead
  <2>2. R("read", "reread") \in Requests /\ R("read", "reread").pc = "reread"
    BY <1>2 DEF Ops, Pcs
  <2> HIDE DEF R
  <2>3. QED
    BY Zenon, <1>1, <2>1, <2>2, Moves
<1>4. ASSUME AskTruncate(p) PROVE Alone(p, "refused")
  <2>1. Ask(p, R("truncate", "refused"))
    BY Zenon, <1>4 DEF AskTruncate
  <2>2. R("truncate", "refused") \in Requests /\ R("truncate", "refused").pc = "refused"
    BY Zenon, <1>2 DEF Ops, Pcs
  <2> HIDE DEF R
  <2>3. QED
    BY Zenon, <1>1, <2>1, <2>2, Moves
<1>5. ASSUME AskCommit(p) PROVE Alone(p, "land")
  <2>1. Ask(p, R("commit", "land"))
    BY Zenon, <1>5 DEF AskCommit
  <2>2. R("commit", "land") \in Requests /\ R("commit", "land").pc = "land"
    BY Zenon, <1>2 DEF Ops, Pcs
  <2> HIDE DEF R
  <2>3. QED
    BY Zenon, <1>1, <2>1, <2>2, Moves
<1>6. ASSUME AskRename(p) PROVE Alone(p, "land") \/ Alone(p, "move")
  <2>1. Ask(p, R("rename", "land")) \/ Ask(p, R("rename", "move"))
    BY Zenon, <1>6 DEF AskRename
  <2>2. /\ R("rename", "land") \in Requests /\ R("rename", "land").pc = "land"
        /\ R("rename", "move") \in Requests /\ R("rename", "move").pc = "move"
    BY Zenon, <1>2 DEF Ops, Pcs
  <2> HIDE DEF R
  <2>3. QED
    BY Zenon, <1>1, <2>1, <2>2, Moves
<1>7. ASSUME AskWrite(p) PROVE Alone(p, "refused")
  <2>1. PICK bytes \in [Lines -> Texts], stable \in BOOLEAN :
          Ask(p, [None EXCEPT !.op = "write", !.pc = "refused", !.bytes = bytes,
                              !.stable = stable])
    BY Zenon, <1>7 DEF AskWrite
  <2> DEFINE r == [None EXCEPT !.op = "write", !.pc = "refused", !.bytes = bytes,
                               !.stable = stable]
  <2>2. r \in Requests /\ r.pc = "refused"
    BY Zenon, <1>1 DEF Requests, Ops, Pcs, Contents
  <2> HIDE DEF r
  <2>3. Ask(p, r)
    BY Zenon, <2>1 DEF r
  <2>4. QED
    BY Zenon, <1>1, <2>2, <2>3, Moves
<1>8. QED
  BY Zenon, <1>3, <1>4, <1>5, <1>6, <1>7

LEMMA HandlingMoves ==
  ASSUME MountTypes, NEW p \in Procs
  PROVE  /\ Reread(p) => \/ Alone(p, "settle") /\ (h.dirty \/ h'.reread)
                         \/ Alone(p, "none")
         /\ Settle(p) => Alone(p, "serve") \/ (Alone(p, "forget") /\ stage = "Refused")
         /\ Forget(p) => Alone(p, "unrefuse")
         /\ Unrefuse(p) => Alone(p, "serve")
         /\ Serve(p) => Alone(p, "none")
         /\ Refused(p) => Alone(p, "none") \/ (Alone(p, "stage") /\ UNCHANGED g)
         /\ write_checked(p) => Alone(p, "mark") \/ (Alone(p, "void") /\ UNCHANGED <<h, g>>)
         /\ setattr(p) => Alone(p, "mark") \/ (Alone(p, "none") /\ UNCHANGED <<h, g>>)
         /\ Mark(p) => Alone(p, "land") \/ Alone(p, "none")
         /\ Unmarked(p) => Alone(p, "none")
         /\ RenameRead(p) => Alone(p, "swap") \/ Alone(p, "none")
         /\ rename_file(p) => Alone(p, "follow") \/ Alone(p, "none")
         /\ Follow(p) => Alone(p, "none")
<1>1. p \in Actors /\ req \in [Actors -> Requests]
  BY Zenon DEF MountTypes, Actors
<1>2. (\A s \in Pcs : Go(p, s) => Alone(p, s)) /\ (Done(p) => Alone(p, "none"))
  BY Zenon, <1>1, Moves
<1> USE DEF Pcs
<1>3. ASSUME Reread(p)
      PROVE  \/ Alone(p, "settle") /\ (h.dirty \/ h'.reread)
             \/ Alone(p, "none")
  <2>1. CASE h.dirty
    BY Zenon, <1>2, <1>3, <2>1 DEF Reread
  <2>2. CASE ~h.dirty /\ tree[h.path] = Absent
    BY Zenon, <1>2, <1>3, <2>2 DEF Reread
  <2>3. CASE ~h.dirty /\ tree[h.path] # Absent
    <3> DEFINE x == [h EXCEPT !.reread = TRUE]
               z == remember(x, h.base, tree[h.path])
    <3>1. /\ Go(p, "settle")
          /\ h' \in {x, [z EXCEPT !.base = tree[h.path], !.bytes = tree[h.path]]}
      BY Zenon, <1>3, <2>3 DEF Reread
    <3>2. x \in Handles /\ x.reread /\ h.base \in Contents /\ tree[h.path] \in Contents
      BY Zenon, <2>3 DEF MountTypes, Handles, Held
    <3>3. z \in Handles /\ z.reread
      BY Zenon, <3>2, RememberKeeps
    <3> HIDE DEF z, x
    <3>4. h'.reread
      BY Zenon, <3>1, <3>2, <3>3 DEF Handles
    <3>5. QED
      BY Zenon, <1>2, <3>1, <3>4
  <2>4. QED
    BY Zenon, <2>1, <2>2, <2>3
<1>4. ASSUME Settle(p) PROVE Alone(p, "serve") \/ (Alone(p, "forget") /\ stage = "Refused")
  BY Zenon, <1>2, <1>4 DEF Settle
<1>5. (Forget(p) => Alone(p, "unrefuse")) /\ (Unrefuse(p) => Alone(p, "serve"))
      /\ (Serve(p) => Alone(p, "none")) /\ (Unmarked(p) => Alone(p, "none"))
      /\ (Follow(p) => Alone(p, "none"))
  BY Zenon, <1>2 DEF Forget, Unrefuse, Serve, Unmarked, Follow
<1>6. ASSUME Refused(p) PROVE Alone(p, "none") \/ (Alone(p, "stage") /\ UNCHANGED g)
  BY Zenon, <1>2, <1>6 DEF Refused
<1>7. ASSUME write_checked(p)
      PROVE  Alone(p, "mark") \/ (Alone(p, "void") /\ UNCHANGED <<h, g>>)
  BY Zenon, <1>2, <1>7 DEF write_checked
<1>8. ASSUME setattr(p) PROVE Alone(p, "mark") \/ (Alone(p, "none") /\ UNCHANGED <<h, g>>)
  BY Zenon, <1>2, <1>8 DEF setattr
<1>9. ASSUME Mark(p) PROVE Alone(p, "land") \/ Alone(p, "none")
  BY Zenon, <1>2, <1>9 DEF Mark
<1>10. ASSUME rename_file(p) PROVE Alone(p, "follow") \/ Alone(p, "none")
  BY Zenon, <1>2, <1>10 DEF rename_file
<1>11. ASSUME RenameRead(p) PROVE Alone(p, "swap") \/ Alone(p, "none")
  <2>1. CASE Done(p)
    BY Zenon, <1>2, <2>1
  <2>2. CASE ~Done(p)
    <3>1. PICK from \in Paths :
            req' = [req EXCEPT ![p] = [@ EXCEPT !.pc = "swap", !.path = from,
                                                !.bytes = tree[from]]]
      BY Zenon, <1>11, <2>2 DEF RenameRead
    <3>2. Alone(p, "swap")
      BY Zenon, <1>1, <3>1 DEF Alone, Requests
    <3>3. QED
      BY Zenon, <3>2
  <2>3. QED
    BY Zenon, <2>1, <2>2
<1>12. QED
  BY <1>3, <1>4, <1>5, <1>6, <1>7, <1>8, <1>9, <1>10, <1>11, Zenon

LEMMA ServingMoves ==
  ASSUME MountTypes, NEW a \in Actors
  PROVE  /\ CommitRefused(a) \/ CommitStaged(a) =>
              \E s \in {"none", "move", "staged", "flush"} : Alone(a, s)
         /\ Committed(a) \/ Discarded(a) => Alone(a, "none") \/ Alone(a, "move")
         /\ flush(a) => Alone(a, "clean") \/ (Alone(a, "void") /\ UNCHANGED <<tree, h, g>>)
         /\ discard(a) => Alone(a, "voided")
<1>1. req \in [Actors -> Requests]
  BY Zenon DEF MountTypes
<1>2. /\ \A s \in Pcs : Go(a, s) => Alone(a, s)
      /\ Done(a) => Alone(a, "none")
      /\ \A ok \in BOOLEAN : Answer(a, ok) => Alone(a, "none") \/ Alone(a, "move")
  BY Zenon, <1>1, Moves
<1> USE DEF Pcs
<1>3. ASSUME CommitRefused(a) \/ CommitStaged(a)
      PROVE  \E s \in {"none", "move", "staged", "flush"} : Alone(a, s)
  <2>1. Go(a, "staged") \/ Go(a, "flush") \/ \E ok \in BOOLEAN : Answer(a, ok)
    BY Zenon, <1>3 DEF CommitRefused, CommitStaged
  <2>2. QED
    BY Zenon, <1>2, <2>1
<1>4. ASSUME Committed(a) PROVE Alone(a, "none") \/ Alone(a, "move")
  BY Zenon, <1>2, <1>4 DEF Committed
<1>5. ASSUME Discarded(a) PROVE Alone(a, "none") \/ Alone(a, "move")
  BY Zenon, <1>2, <1>5 DEF Discarded
<1>6. ASSUME flush(a)
      PROVE  Alone(a, "clean") \/ (Alone(a, "void") /\ UNCHANGED <<tree, h, g>>)
  BY Zenon, <1>2, <1>6 DEF flush
<1>7. discard(a) => Alone(a, "voided")
  BY Zenon, <1>2 DEF discard
<1>8. QED
  BY Zenon, <1>3, <1>4, <1>5, <1>6, <1>7

LEMMA TickMoves == ASSUME MountTypes, Tick PROVE Alone(Idle, "land")
<1>1. None \in Requests /\ Idle \in Actors /\ req \in [Actors -> Requests]
  BY Zenon, InitialFacts DEF MountTypes, Actors
<1>2. QED
  BY Zenon, <1>1 DEF Tick, Alone, Requests

-----------------------------------------------------------------------------
(* Whoever edits has read, and a reread handle remembers what was read.    *)

SinceRead == {"settle", "forget", "unrefuse", "serve", "refused", "stage"}

SeenInv ==
  /\ h.dirty \/ h.from.ok => h.open /\ h.reread
  /\ \A p \in Procs : copy[p].held \/ copy[p].ok => h.open /\ h.reread
  /\ \A a \in Actors : /\ req[a].pc \in SinceRead => h.open /\ h.reread
                       /\ req[a].pc = "reread" => h.open

LEMMA SeenKept ==
  ASSUME SeenInv, NEW a \in Actors, NEW at, Alone(a, at),
         h.open => h'.open, h.open /\ h.reread => h'.reread,
         h'.dirty \/ h'.from.ok => h'.open /\ h'.reread,
         \A p \in Procs : copy'[p].held \/ copy'[p].ok => h'.open /\ h'.reread,
         at \in SinceRead => h'.open /\ h'.reread,
         at = "reread" => h'.open
  PROVE  SeenInv'
<1>1. ASSUME NEW b \in Actors
      PROVE  /\ req'[b].pc \in SinceRead => h'.open /\ h'.reread
             /\ req'[b].pc = "reread" => h'.open
  <2>1. CASE b = a
    BY Zenon, <2>1 DEF Alone
  <2>2. CASE b # a
    <3>1. req'[b].pc = req[b].pc
      BY Zenon, <2>2 DEF Alone
    <3>2. /\ req[b].pc \in SinceRead => h.open /\ h.reread
          /\ req[b].pc = "reread" => h.open
      BY Zenon DEF SeenInv
    <3>3. QED
      BY Zenon, <3>1, <3>2
  <2>3. QED
    BY Zenon, <2>1, <2>2
<1>2. QED
  BY Zenon, <1>1 DEF SeenInv

LEMMA SeenInit == Init => SeenInv
BY InitialFacts DEF Init, SeenInv, SinceRead, NoCopy, None

LEMMA SeenStep == MountTypes /\ SeenInv /\ [Next]_vars => SeenInv'
<1> SUFFICES ASSUME MountTypes, SeenInv, [Next]_vars PROVE SeenInv'
  BY Zenon
<1>1. /\ h \in Handles /\ req \in [Actors -> Requests] /\ copy \in [Procs -> Copies]
      /\ tree \in [Paths -> Held]
  BY Zenon DEF MountTypes
<1>2. \A p \in Procs : p \in Actors
  BY Zenon DEF Actors
<1>3. /\ h.dirty \/ h.from.ok => h.open /\ h.reread
      /\ \A p \in Procs : copy[p].held \/ copy[p].ok => h.open /\ h.reread
  BY Zenon DEF SeenInv
<1>s. ASSUME NEW a \in Actors, NEW at, Alone(a, at), UNCHANGED <<h, copy>>,
             at \in SinceRead => h.open /\ h.reread, at = "reread" => h.open
      PROVE  SeenInv'
  BY Zenon, <1>3, <1>s, SeenKept
<1>r. ASSUME NEW a \in Actors
      PROVE  /\ \A s \in SinceRead : At(a, s) => h.open /\ h.reread
             /\ At(a, "reread") => h.open
  BY Zenon DEF SeenInv, At
<1> USE DEF SinceRead
<1>4. ASSUME NEW p \in Procs, AskRead(p) PROVE SeenInv'
  <2>1. Alone(p, "reread") /\ UNCHANGED copy
    BY Zenon, <1>4, AskMoves DEF AskRead, Ask
  <2>2. CASE h.open
    BY Zenon, <1>2, <1>4, <1>s, <2>1, <2>2 DEF AskRead
  <2>3. CASE ~h.open
    <3>1. h'.open /\ ~h'.dirty /\ ~h'.from.ok
      BY <1>4, <2>3 DEF AskRead, Opened, NoCopy
    <3>2. QED
      BY Zenon, <1>2, <1>3, <2>1, <2>3, <3>1, SeenKept
  <2>4. QED
    BY Zenon, <2>2, <2>3
<1>5. ASSUME NEW p \in Procs, AskWrite(p) \/ AskTruncate(p) PROVE SeenInv'
  <2>1. Alone(p, "refused") /\ UNCHANGED <<h, copy>> /\ copy[p].held
    BY Zenon, <1>5, AskMoves DEF AskWrite, AskTruncate, Ask
  <2>2. QED
    BY Zenon, <1>2, <1>3, <1>s, <2>1
<1>6. ASSUME NEW p \in Procs, AskCommit(p) \/ AskRename(p) PROVE SeenInv'
  <2>1. UNCHANGED <<h, copy>> /\ (Alone(p, "land") \/ Alone(p, "move"))
    BY Zenon, <1>6, AskMoves DEF AskCommit, AskRename, Ask
  <2>2. QED
    BY Zenon, <1>2, <1>s, <2>1
<1>7. ASSUME Tick PROVE SeenInv'
  <2>1. UNCHANGED <<h, copy>> /\ Alone(Idle, "land") /\ Idle \in Actors
    BY Zenon, <1>7, TickMoves DEF Tick, Actors
  <2>2. QED
    BY Zenon, <1>s, <2>1
<1>8. ASSUME Remote PROVE SeenInv'
  BY Zenon, <1>8 DEF Remote, SeenInv
<1>9. ASSUME NEW p \in Procs, Reread(p) PROVE SeenInv'
  <2>1. h.open
    BY Zenon, <1>2, <1>9, <1>r DEF Reread
  <2>2. h'.open /\ (h.reread => h'.reread) /\ h'.dirty = h.dirty /\ h'.from = h.from
    <3> DEFINE x == [h EXCEPT !.reread = TRUE]
               held == tree[h.path]
               z == remember(x, h.base, held)
    <3>1. x \in Handles /\ x.reread /\ h.base \in Contents /\ held \in Held
          /\ x.open = h.open /\ x.dirty = h.dirty /\ x.from = h.from
      BY Zenon, <1>1 DEF Handles
    <3>2. h' \in {h, x} \/ (held # Absent /\ h' = [z EXCEPT !.base = held, !.bytes = held])
      BY Zenon, <1>9 DEF Reread
    <3>3. held # Absent => /\ z \in Handles /\ z.reread /\ z.open = h.open
                           /\ z.dirty = h.dirty /\ z.from = h.from
      BY Zenon, <3>1, RememberKeeps DEF Held
    <3> HIDE DEF z, x, held
    <3>4. CASE h' \in {h, x}
      BY Zenon, <2>1, <3>1, <3>4
    <3>5. CASE held # Absent /\ h' = [z EXCEPT !.base = held, !.bytes = held]
      BY Zenon, <2>1, <3>1, <3>3, <3>5 DEF Handles
    <3>6. QED
      BY Zenon, <3>2, <3>4, <3>5
  <2>3. \/ Alone(p, "settle") /\ (h.dirty \/ h'.reread)
        \/ Alone(p, "none")
    BY Zenon, <1>9, HandlingMoves
  <2>4. UNCHANGED copy
    BY Zenon, <1>9 DEF Reread
  <2>5. CASE Alone(p, "none")
    BY Zenon, <1>2, <1>3, <2>2, <2>4, <2>5, SeenKept
  <2>6. CASE Alone(p, "settle") /\ (h.dirty \/ h'.reread)
    BY Zenon, <1>2, <1>3, <2>2, <2>4, <2>6, SeenKept
  <2>7. QED
    BY Zenon, <2>3, <2>5, <2>6
<1>10. ASSUME NEW p \in Procs, Settle(p) \/ Unrefuse(p) PROVE SeenInv'
  <2>1. h.open /\ h.reread
    BY Zenon, <1>2, <1>10, <1>r DEF Settle, Unrefuse
  <2>2. UNCHANGED <<h, copy>> /\ (Alone(p, "serve") \/ Alone(p, "forget"))
    BY Zenon, <1>10, HandlingMoves DEF Settle, Unrefuse
  <2>3. QED
    BY Zenon, <1>2, <1>s, <2>1, <2>2
<1>11. ASSUME NEW p \in Procs, Forget(p) PROVE SeenInv'
  <2>1. h.open /\ h.reread
    BY Zenon, <1>2, <1>11, <1>r DEF Forget
  <2>2. h'.open /\ h'.reread
    BY Zenon, <1>1, <1>11, <2>1 DEF Forget, Handles
  <2>3. QED
    BY Zenon, <1>2, <1>11, <2>2, HandlingMoves, SeenKept
<1>12. ASSUME NEW p \in Procs, Serve(p) PROVE SeenInv'
  <2>1. h.open /\ h.reread /\ UNCHANGED h
    BY Zenon, <1>2, <1>12, <1>r DEF Serve
  <2>2. QED
    BY Zenon, <1>2, <1>12, <2>1, HandlingMoves, SeenKept
<1>13. ASSUME NEW p \in Procs, Refused(p) PROVE SeenInv'
  <2>1. h.open /\ h.reread /\ UNCHANGED <<h, copy>>
    BY Zenon, <1>2, <1>13, <1>r DEF Refused
  <2>2. QED
    BY Zenon, <1>2, <1>13, <1>s, <2>1, HandlingMoves
<1>14. ASSUME NEW p \in Procs, write_checked(p) \/ setattr(p) PROVE SeenInv'
  <2>1. h.open /\ h.reread /\ UNCHANGED copy
    BY Zenon, <1>2, <1>14, <1>r DEF write_checked, setattr
  <2>2. h'.open /\ h'.reread
    <3>1. UNCHANGED h \/ \E bytes : Staged(p, bytes)
      BY Zenon, <1>14 DEF write_checked, setattr
    <3>2. QED
      BY Zenon, <1>1, <2>1, <3>1 DEF Staged, Handles
  <2>3. \E s \in {"mark", "void", "none"} : Alone(p, s)
    BY Zenon, <1>14, HandlingMoves
  <2>4. QED
    BY Zenon, <1>2, <2>1, <2>2, <2>3, SeenKept
<1>15. ASSUME NEW p \in Procs, Mark(p) \/ Unmarked(p) \/ RenameRead(p) \/ rename_file(p)
       PROVE  SeenInv'
  <2>1. UNCHANGED <<h, copy>> /\ \E s \in {"land", "none", "swap", "follow"} : Alone(p, s)
    BY Zenon, <1>15, HandlingMoves DEF Mark, Unmarked, RenameRead, rename_file
  <2>2. QED
    BY Zenon, <1>2, <1>s, <2>1
<1>16. ASSUME NEW p \in Procs, Follow(p) PROVE SeenInv'
  <2>1. Alone(p, "none")
    BY Zenon, <1>16, HandlingMoves
  <2>2. CASE UNCHANGED <<h, copy>>
    BY Zenon, <1>2, <1>s, <2>1, <2>2
  <2>3. CASE ~UNCHANGED <<h, copy>>
    <3>1. /\ h' = [h EXCEPT !.path = Other(@), !.base = req[p].bytes,
                            !.from.ok = @ /\ h.base = req[p].bytes]
          /\ copy' \in {copy, Distrust}
      BY Zenon, <1>16, <2>3 DEF Follow
    <3>2. h'.open = h.open /\ h'.reread = h.reread /\ h'.dirty = h.dirty
          /\ (h'.from.ok => h.from.ok)
      BY Zenon, <1>1, <3>1 DEF Handles, Copies
    <3>3. \A q \in Procs : copy'[q].held = copy[q].held /\ (copy'[q].ok => copy[q].ok)
      BY Zenon, <1>1, <3>1 DEF Distrust, Copies
    <3>4. QED
      BY Zenon, <1>2, <1>3, <2>1, <3>2, <3>3, SeenKept
  <2>4. QED
    BY Zenon, <2>2, <2>3
<1>17. ASSUME NEW a \in Actors,
              CommitRefused(a) \/ CommitStaged(a) \/ Committed(a) \/ Discarded(a)
       PROVE  SeenInv'
  <2>1. UNCHANGED <<h, copy>> /\ \E s \in {"none", "move", "staged", "flush"} : Alone(a, s)
    BY Zenon, <1>17, ServingMoves DEF CommitRefused, CommitStaged, Committed, Discarded
  <2>2. QED
    BY Zenon, <1>s, <2>1
<1>18. ASSUME NEW a \in Actors, discard(a) PROVE SeenInv'
  <2>1. h'.open = h.open /\ h'.reread = h.reread /\ ~h'.dirty /\ ~h'.from.ok /\ UNCHANGED copy
    BY Zenon, <1>1, <1>18 DEF discard, Handles, NoCopy
  <2>2. QED
    BY Zenon, <1>3, <1>18, <2>1, ServingMoves, SeenKept
<1>19. ASSUME NEW a \in Actors, flush(a) PROVE SeenInv'
  <2>1. Alone(a, "clean") \/ Alone(a, "void")
    BY Zenon, <1>19, ServingMoves
  <2>2. UNCHANGED copy
    BY Zenon, <1>19 DEF flush
  <2>3. CASE UNCHANGED h
    BY Zenon, <1>s, <2>1, <2>2, <2>3
  <2>4. CASE ~UNCHANGED h
    <3> DEFINE bytes == propose(tree, Proposal(h, h.bytes))[h.path]
               z == landed(h, h.base, bytes)
    <3>1. h' = [z EXCEPT !.base = bytes, !.bytes = bytes, !.dirty = FALSE,
                         !.by = {}, !.from = NoCopy]
      BY Zenon, <1>19, <2>4 DEF flush
    <3>2. z.open = h.open /\ z.reread = h.reread /\ DOMAIN z = DOMAIN h
      <4>1. DOMAIN h = DOMAIN remember(h, h.base, bytes)
        BY Zenon, <1>1 DEF remember, Handles
      <4>2. QED
        BY Zenon, <1>1, <4>1 DEF landed, remember, Handles
    <3>3. h'.open = z.open /\ h'.reread = z.reread /\ h'.dirty = FALSE /\ h'.from = NoCopy
      <4> HIDE DEF z, bytes
      <4>1. DOMAIN z = {"open", "path", "base", "bytes", "dirty", "earlier", "complete",
                        "reread", "from", "by"}
        BY Zenon, <1>1, <3>2 DEF Handles
      <4>2. QED
        BY Zenon, <3>1, <4>1
    <3>4. QED
      <4> HIDE DEF z, bytes
      <4>1. h'.open = h.open /\ h'.reread = h.reread /\ ~h'.dirty /\ ~h'.from.ok
        <5>1. ~NoCopy.ok
          BY DEF NoCopy
        <5>2. ~h'.from.ok
          BY Zenon, <3>3, <5>1
        <5>3. QED
          BY <3>2, <3>3, <5>2
      <4>2. \A p \in Procs : copy'[p].held \/ copy'[p].ok => h'.open /\ h'.reread
        BY Zenon, <1>3, <2>2, <4>1
      <4>3. "clean" \notin SinceRead /\ "void" \notin SinceRead
        BY DEF SinceRead
      <4>4. QED
        BY ZenonT(60), <1>3, <2>1, <4>1, <4>2, <4>3, SeenKept
  <2>5. QED
    BY Zenon, <2>3, <2>4
<1>20. CASE UNCHANGED vars
  BY Zenon, <1>20 DEF SeenInv, vars
<1>21. QED
  BY Zenon, <1>4, <1>5, <1>6, <1>7, <1>8, <1>9, <1>10, <1>11, <1>12, <1>13, <1>14, <1>15, <1>16,
     <1>17, <1>18, <1>19, <1>20, ZenonT(60) DEF Next, Asking, Handling, Serving

LEMMA ReadsInit == Init => ReadsInv
BY InitialFacts DEF Init, ReadsInv, Remembered, NoCopy

\* What counts as read stays remembered while the handle forgets nothing.
LEMMA ReadsKept ==
  ASSUME ReadsInv,
         h'.complete => h.complete /\ h.earlier \cup {h.base} \subseteq h'.earlier \cup {h'.base},
         h'.from = h.from \/ ~h'.from.ok,
         UNCHANGED copy
  PROVE  ReadsInv'
<1>1. ASSUME NEW x, Remembered(x), x.ok, h'.complete
      PROVE  x.bytes \in h'.earlier \cup {h'.base}
  BY Zenon, <1>1 DEF Remembered
<1>2. QED
  BY Zenon, <1>1 DEF ReadsInv, Remembered

LEMMA ReadsStep == MountTypes /\ SeenInv /\ ReadsInv /\ [Next]_vars => ReadsInv'
<1> SUFFICES ASSUME MountTypes, SeenInv, ReadsInv, [Next]_vars PROVE ReadsInv'
  BY Zenon
<1>1. /\ h \in Handles /\ req \in [Actors -> Requests] /\ copy \in [Procs -> Copies]
      /\ tree \in [Paths -> Held]
  BY Zenon DEF MountTypes
<1>2. /\ h.path \in Paths /\ h.base \in Contents /\ tree[h.path] \in Held
      /\ h.from \in Copies
  BY Zenon, <1>1 DEF Handles
<1>s. ASSUME UNCHANGED <<h, copy>> PROVE ReadsInv'
  BY Zenon, <1>s DEF ReadsInv, Remembered
<1>3. ASSUME NEW p \in Procs, AskRead(p) PROVE ReadsInv'
  <2>1. CASE h.open
    BY Zenon, <1>3, <1>s, <2>1 DEF AskRead, Ask
  <2>2. CASE ~h.open
    <3>1. ~h'.from.ok /\ UNCHANGED copy
      BY <1>3, <2>2 DEF AskRead, Ask, Opened, NoCopy
    <3>2. \A q \in Procs : ~copy[q].ok
      BY Zenon, <2>2 DEF SeenInv
    <3>3. QED
      BY Zenon, <3>1, <3>2 DEF ReadsInv, Remembered
  <2>3. QED
    BY Zenon, <2>1, <2>2
<1>4. ASSUME NEW p \in Procs,
             \/ AskWrite(p) \/ AskTruncate(p) \/ AskCommit(p) \/ AskRename(p)
             \/ Settle(p) \/ Unrefuse(p) \/ Refused(p) \/ Mark(p) \/ Unmarked(p)
             \/ RenameRead(p) \/ rename_file(p)
      PROVE  ReadsInv'
  BY <1>4, <1>s, ZenonT(30)
     DEF AskWrite, AskTruncate, AskCommit, AskRename, Ask, Settle, Unrefuse, Refused,
         Mark, Unmarked, RenameRead, rename_file
<1>5. ASSUME Tick \/ Remote PROVE ReadsInv'
  BY Zenon, <1>5, <1>s DEF Tick, Remote
<1>6. ASSUME NEW a \in Actors,
             CommitRefused(a) \/ CommitStaged(a) \/ Committed(a) \/ Discarded(a)
      PROVE  ReadsInv'
  BY Zenon, <1>6, <1>s DEF CommitRefused, CommitStaged, Committed, Discarded
<1>7. ASSUME NEW p \in Procs, Reread(p) PROVE ReadsInv'
  <2> DEFINE x == [h EXCEPT !.reread = TRUE]
             held == tree[h.path]
             z == remember(x, h.base, held)
  <2>1. /\ x \in Handles /\ x.earlier = h.earlier /\ x.complete = h.complete
        /\ x.base = h.base /\ x.from = h.from
    BY Zenon, <1>1 DEF Handles
  <2>2. UNCHANGED copy
    BY Zenon, <1>7 DEF Reread
  <2>3. h' \in {h, x} \/ (held # Absent /\ h' = [z EXCEPT !.base = held, !.bytes = held])
    BY Zenon, <1>7 DEF Reread
  <2>4. ASSUME held # Absent
        PROVE  /\ z \in Handles /\ z.from = h.from
               /\ z.complete => h.complete /\ h.earlier \cup {h.base} \subseteq z.earlier \cup {held}
    <3>1. held \in Contents
      BY Zenon, <1>2, <2>4 DEF Held
    <3> HIDE DEF x, held
    <3>2. /\ z \in Handles /\ z.from = x.from
          /\ z.complete => x.complete /\ x.earlier \cup {h.base} \subseteq z.earlier \cup {held}
      <4>1. x \in Handles /\ held \in Contents /\ h.base \in Contents
        BY Zenon, <1>2, <2>1, <3>1
      <4>2. QED
        BY Zenon, <4>1, RememberKeeps
    <3>3. QED
      BY Zenon, <2>1, <3>2
  <2> HIDE DEF z, x, held
  <2>5. CASE h' \in {h, x}
    BY Zenon, <2>1, <2>2, <2>5, ReadsKept
  <2>6. CASE held # Absent /\ h' = [z EXCEPT !.base = held, !.bytes = held]
    <3>1. /\ h'.complete = z.complete /\ h'.earlier = z.earlier /\ h'.base = held
          /\ h'.from = z.from
      BY Zenon, <2>4, <2>6 DEF Handles
    <3>2. QED
      BY Zenon, <2>2, <2>4, <2>6, <3>1, ReadsKept
  <2>7. QED
    BY Zenon, <2>3, <2>5, <2>6
<1>8. \A q \in Procs : ~Distrust[q].ok
  BY Zenon, <1>1 DEF Distrust, Copies
<1>9. ASSUME NEW p \in Procs, Forget(p) PROVE ReadsInv'
  <2>1. ~h'.from.ok
    BY Zenon, <1>1, <1>2, <1>9 DEF Forget, Handles, Copies
  <2>2. QED
    BY Zenon, <1>8, <1>9, <2>1 DEF Forget, ReadsInv, Remembered
<1>10. ASSUME NEW p \in Procs, Serve(p) PROVE ReadsInv'
  <2>1. CASE UNCHANGED copy
    BY Zenon, <1>10, <1>s, <2>1 DEF Serve
  <2>2. CASE ~UNCHANGED copy
    <3>1. copy' = [copy EXCEPT ![p] = [bytes |-> h.bytes, held |-> TRUE,
                                       ok |-> ~h.dirty /\ h.bytes = h.base]]
      BY Zenon, <1>10, <2>2 DEF Serve
    <3>2. ASSUME NEW q \in Procs PROVE Remembered(copy[q])'
      <4>1. CASE q = p
        <5>1. copy'[q].bytes = h.bytes /\ copy'[q].ok = (~h.dirty /\ h.bytes = h.base)
          BY Zenon, <1>1, <3>1, <4>1
        <5>2. QED
          BY Zenon, <1>10, <5>1 DEF Serve, Remembered
      <4>2. CASE q # p
        <5>1. copy'[q] = copy[q]
          BY Zenon, <1>1, <3>1, <4>2
        <5>2. QED
          BY Zenon, <1>10, <5>1 DEF Serve, ReadsInv, Remembered
      <4>3. QED
        BY Zenon, <4>1, <4>2
    <3>3. QED
      BY Zenon, <1>10, <3>2 DEF Serve, ReadsInv, Remembered
  <2>3. QED
    BY Zenon, <2>1, <2>2
<1>11. ASSUME NEW p \in Procs, write_checked(p) \/ setattr(p) PROVE ReadsInv'
  <2>1. CASE UNCHANGED h
    BY Zenon, <1>11, <1>s, <2>1 DEF write_checked, setattr
  <2>2. CASE ~UNCHANGED h
    <3>1. PICK bytes : h' = [h EXCEPT !.bytes = bytes, !.dirty = TRUE, !.from = copy[p],
                                      !.by = @ \cup {p}]
      BY Zenon, <1>11, <2>2 DEF write_checked, setattr, Staged
    <3>2. /\ h'.from = copy[p] /\ h'.complete = h.complete
          /\ h'.earlier = h.earlier /\ h'.base = h.base /\ UNCHANGED copy
      BY Zenon, <1>1, <1>11, <3>1 DEF Handles, write_checked, setattr
    <3>3. QED
      BY Zenon, <3>2 DEF ReadsInv, Remembered
  <2>3. QED
    BY Zenon, <2>1, <2>2
<1>12. ASSUME NEW p \in Procs, Follow(p) PROVE ReadsInv'
  <2>1. CASE UNCHANGED <<h, copy>>
    BY Zenon, <1>s, <2>1
  <2>2. CASE ~UNCHANGED <<h, copy>>
    <3> DEFINE moved == req[p].bytes
    <3>1. /\ h' = [h EXCEPT !.path = Other(@), !.base = moved, !.from.ok = @ /\ h.base = moved]
          /\ copy' = IF h.base = moved THEN copy ELSE Distrust
      BY Zenon, <1>12, <2>2 DEF Follow
    <3>2. /\ h'.complete = h.complete /\ h'.earlier = h.earlier /\ h'.base = moved
          /\ h'.from.ok = (h.from.ok /\ h.base = moved) /\ h'.from.bytes = h.from.bytes
      BY Zenon, <1>1, <1>2, <3>1 DEF Handles, Copies
    <3>3. CASE h.base = moved
      BY Zenon, <3>1, <3>2, <3>3 DEF ReadsInv, Remembered
    <3>4. CASE h.base # moved
      BY Zenon, <1>8, <3>1, <3>2, <3>4 DEF ReadsInv, Remembered
    <3>5. QED
      BY Zenon, <3>3, <3>4
  <2>3. QED
    BY Zenon, <2>1, <2>2
<1>13. ASSUME NEW a \in Actors, discard(a) PROVE ReadsInv'
  <2>1. /\ h'.complete = h.complete /\ h'.earlier = h.earlier /\ h'.base = h.base
        /\ ~h'.from.ok /\ UNCHANGED copy
    BY Zenon, <1>1, <1>13 DEF discard, Handles, NoCopy
  <2>2. QED
    BY Zenon, <2>1, ReadsKept
<1>14. ASSUME NEW a \in Actors, flush(a) PROVE ReadsInv'
  <2> DEFINE W == Proposal(h, h.bytes)
             bytes == propose(tree, W)[h.path]
             z == landed(h, h.base, bytes)
  <2>1. UNCHANGED copy
    BY Zenon, <1>14 DEF flush
  <2>2. CASE UNCHANGED h
    BY Zenon, <1>s, <2>1, <2>2
  <2>3. CASE /\ h.dirty /\ check(tree, W) /\ agree(h, h.bytes)
             /\ h' = [z EXCEPT !.base = bytes, !.bytes = bytes, !.dirty = FALSE,
                               !.by = {}, !.from = NoCopy]
    <3>1. bytes \in Contents
      BY Zenon, <1>1, <2>3, LandingKeeps DEF ReadsInv, Remembered
    <3>2. h.reread
      BY Zenon, <2>3 DEF SeenInv
    <3>3. /\ z \in Handles
          /\ z.complete => h.complete /\ h.earlier \cup {h.base} \subseteq z.earlier \cup {bytes}
      BY Zenon, <1>1, <3>1, <3>2, LandedKeeps
    <3>4. h' = [z EXCEPT !.base = bytes, !.bytes = bytes, !.dirty = FALSE,
                         !.by = {}, !.from = NoCopy]
      BY Zenon, <2>3
    <3> HIDE DEF z, bytes
    <3>5. h'.complete = z.complete /\ h'.earlier = z.earlier /\ h'.base = bytes /\ ~h'.from.ok
      BY Zenon, <3>1, <3>3, <3>4 DEF Handles, NoCopy
    <3>6. QED
      BY Zenon, <2>1, <3>3, <3>5, ReadsKept
  <2>4. QED
    BY Zenon, <1>14, <2>2, <2>3 DEF flush
<1>15. CASE UNCHANGED vars
  BY Zenon, <1>15, <1>s DEF vars
<1>16. QED
  BY <1>3, <1>4, <1>5, <1>6, <1>7, <1>9, <1>10, <1>11, <1>12, <1>13, <1>14, <1>15, ZenonT(60)
     DEF Next, Asking, Handling, Serving

\* agree and the merge at FLUSH: what landed so far undid no edit its saver had not read.
LEMMA KeepsStep ==
  MountTypes /\ ReadsInv /\ KeepsOthersEdits /\ [Next]_vars => KeepsOthersEdits'
<1> SUFFICES ASSUME MountTypes, ReadsInv, ~g.undone, [Next]_vars PROVE ~g'.undone
  BY Zenon DEF KeepsOthersEdits
<1>1. g \in Accounts /\ h \in Handles /\ tree \in [Paths -> Held]
  BY Zenon DEF MountTypes
<1>2. ASSUME NEW a, Told(a) PROVE ~g'.undone
  BY Zenon, <1>1, <1>2 DEF Told, Accounts
<1>3. ASSUME NEW a, NEW ok, Answer(a, ok) PROVE ~g'.undone
  BY Zenon, <1>1, <1>3 DEF Answer, Accounts
<1>4. ASSUME NEW a, NEW b, Staged(a, b) PROVE ~g'.undone
  BY Zenon, <1>1, <1>4 DEF Staged, Accounts
<1>5. ASSUME NEW p \in Procs, Asking(p) PROVE ~g'.undone
  <2>1. UNCHANGED g
    BY <1>5, Zenon DEF Asking, AskRead, AskWrite, AskTruncate, AskCommit, AskRename, Ask
  <2>2. QED
    BY Zenon, <2>1
<1>6. ASSUME NEW p \in Procs, Handling(p) PROVE ~g'.undone
  <2>1. UNCHANGED g \/ Told(p) \/ \E b : Staged(p, b)
    BY <1>6, ZenonT(30)
       DEF Handling, Reread, Settle, Forget, Unrefuse, Serve, Refused, write_checked, setattr,
           Mark, Unmarked, RenameRead, rename_file, Follow
  <2>2. QED
    BY Zenon, <1>2, <1>4, <2>1
<1>7. ASSUME NEW a \in Actors, CommitRefused(a) \/ CommitStaged(a) \/ Committed(a) \/ Discarded(a)
      PROVE  ~g'.undone
  <2>1. UNCHANGED g \/ Told(a) \/ \E ok : Answer(a, ok)
    BY Zenon, <1>7 DEF CommitRefused, CommitStaged, Committed, Discarded
  <2>2. QED
    BY Zenon, <1>2, <1>3, <2>1
<1>8. ASSUME NEW a \in Actors, discard(a) PROVE ~g'.undone
  BY Zenon, <1>1, <1>8 DEF discard, Accounts
<1>9. ASSUME NEW a \in Actors, flush(a) PROVE ~g'.undone
  <2> DEFINE bytes == propose(tree, Proposal(h, h.bytes))[h.path]
  <2>1. CASE UNCHANGED g
    BY Zenon, <2>1
  <2>2. CASE /\ check(tree, Proposal(h, h.bytes)) /\ agree(h, h.bytes)
             /\ g' = [g EXCEPT !.pend = @ \ h.by,
                               !.undone = @ \/ Undoes(h.from, tree[h.path], bytes)]
    <3>1. ~Undoes(h.from, tree[h.path], bytes)
      BY Zenon, <1>1, <2>2, LandingKeeps DEF ReadsInv, Remembered
    <3>2. QED
      BY Zenon, <1>1, <2>2, <3>1 DEF Accounts
  <2>3. QED
    BY Zenon, <1>9, <2>1, <2>2 DEF flush
<1>10. ASSUME Tick \/ Remote \/ UNCHANGED vars PROVE ~g'.undone
  BY Zenon, <1>10 DEF Tick, Remote, vars
<1>11. QED
  BY <1>5, <1>6, <1>7, <1>8, <1>9, <1>10, Zenon DEF Next, Serving

-----------------------------------------------------------------------------
(* What was staged, and what the table of opens was told of it.            *)

Owed == g.pend \ g.void

StagedInv == Owed \subseteq h.by /\ (h.by # {} => h.dirty)

LEMMA OwedAfter ==
  ASSUME g \in Accounts
  PROVE  /\ \A a : Told(a) => Owed' = Owed \ {a}
         /\ \A a, ok : Answer(a, ok) => Owed' \subseteq Owed
         /\ \A a, b : Staged(a, b) => Owed' = Owed \cup {a}
         /\ \A a : discard(a) => Owed' = Owed \ h.by
<1>1. ASSUME NEW a, Told(a) PROVE Owed' = Owed \ {a}
  BY Zenon, <1>1 DEF Told, Owed, Accounts
<1>2. ASSUME NEW a, NEW ok, Answer(a, ok) PROVE Owed' \subseteq Owed
  BY ZenonT(30), <1>2 DEF Answer, Owed, Accounts
<1>3. ASSUME NEW a, NEW b, Staged(a, b) PROVE Owed' = Owed \cup {a}
  BY Zenon, <1>3 DEF Staged, Owed, Accounts
<1>4. ASSUME NEW a, discard(a) PROVE Owed' = Owed \ h.by
  BY Zenon, <1>4 DEF discard, Owed, Accounts
<1>5. QED
  BY Zenon, <1>1, <1>2, <1>3, <1>4

LEMMA FlushLands ==
  ASSUME MountTypes, StagedInv, NEW a, flush(a)
  PROVE  \/ UNCHANGED <<h, g>> /\ (~h.dirty \/ Go(a, "void"))
         \/ h'.by = {} /\ Owed' = {}
<1>1. g \in Accounts /\ h \in Handles
  BY Zenon DEF MountTypes
<1> DEFINE bytes == propose(tree, Proposal(h, h.bytes))[h.path]
           z == landed(h, h.base, bytes)
<1>2. CASE /\ h' = [z EXCEPT !.base = bytes, !.bytes = bytes, !.dirty = FALSE,
                             !.by = {}, !.from = NoCopy]
           /\ g' = [g EXCEPT !.pend = @ \ h.by,
                             !.undone = @ \/ Undoes(h.from, tree[h.path], bytes)]
  <2>1. DOMAIN z = DOMAIN h
    BY Zenon, <1>1 DEF landed, remember, Handles
  <2>2. Owed' = {}
    BY Zenon, <1>1, <1>2 DEF Owed, Accounts, StagedInv
  <2> HIDE DEF z, bytes
  <2>3. h'.by = {}
    BY Zenon, <1>1, <1>2, <2>1 DEF Handles
  <2>4. QED
    BY Zenon, <2>2, <2>3
<1>3. QED
  BY Zenon, <1>2 DEF flush

LEMMA StagedInit == Init => StagedInv
BY InitialFacts DEF Init, StagedInv, Owed

LEMMA StagedStep ==
  MountTypes /\ SeenInv /\ StagedInv /\ [Next]_vars => StagedInv'
<1> SUFFICES ASSUME MountTypes, SeenInv, StagedInv, [Next]_vars PROVE StagedInv'
  BY Zenon
<1>1. g \in Accounts /\ h \in Handles /\ tree \in [Paths -> Held] /\ h.by \in SUBSET Procs
  BY Zenon DEF MountTypes, Handles
<1>s. ASSUME h'.by = h.by, h'.dirty = h.dirty, Owed' \subseteq Owed PROVE StagedInv'
  BY Zenon, <1>s DEF StagedInv
<1>u. UNCHANGED g => Owed' \subseteq Owed
  BY Zenon DEF Owed
<1>3. ASSUME NEW p \in Procs, AskRead(p) PROVE StagedInv'
  <2>1. UNCHANGED g
    BY Zenon, <1>3 DEF AskRead, Ask
  <2>2. CASE h.open
    BY Zenon, <1>3, <1>s, <1>u, <2>1, <2>2 DEF AskRead
  <2>3. CASE ~h.open
    <3>1. h'.by = {}
      BY <1>3, <2>3 DEF AskRead, Opened
    <3>2. h.by = {}
      BY Zenon, <2>3 DEF SeenInv, StagedInv
    <3>3. QED
      BY Zenon, <1>u, <2>1, <3>1, <3>2 DEF StagedInv
  <2>4. QED
    BY Zenon, <2>2, <2>3
<1>4. ASSUME NEW p \in Procs,
             \/ AskWrite(p) \/ AskTruncate(p) \/ AskCommit(p) \/ AskRename(p)
             \/ Settle(p) \/ Unrefuse(p) \/ Serve(p) \/ Mark(p)
             \/ RenameRead(p) \/ rename_file(p)
      PROVE  StagedInv'
  <2>1. UNCHANGED <<h, g>>
    BY <1>4, ZenonT(30)
       DEF AskWrite, AskTruncate, AskCommit, AskRename, Ask, Settle, Unrefuse, Serve,
           Mark, RenameRead, rename_file
  <2>2. QED
    BY Zenon, <1>s, <1>u, <2>1
<1>5. ASSUME Tick \/ Remote \/ UNCHANGED vars PROVE StagedInv'
  <2>1. UNCHANGED <<h, g>>
    BY Zenon, <1>5 DEF Tick, Remote, vars
  <2>2. QED
    BY Zenon, <1>s, <1>u, <2>1
<1>6. ASSUME NEW p \in Procs, Refused(p) \/ Unmarked(p) PROVE StagedInv'
  <2>1. UNCHANGED h /\ (UNCHANGED g \/ Told(p))
    BY Zenon, <1>6 DEF Refused, Unmarked
  <2>2. QED
    BY Zenon, <1>1, <1>s, <1>u, <2>1, OwedAfter
<1>7. ASSUME NEW a \in Actors, CommitRefused(a) \/ CommitStaged(a) \/ Committed(a) \/ Discarded(a)
      PROVE  StagedInv'
  <2>1. UNCHANGED h /\ (UNCHANGED g \/ Told(a) \/ \E ok : Answer(a, ok))
    BY Zenon, <1>7 DEF CommitRefused, CommitStaged, Committed, Discarded
  <2>2. QED
    BY Zenon, <1>1, <1>s, <1>u, <2>1, OwedAfter
<1>8. ASSUME NEW p \in Procs, Reread(p) PROVE StagedInv'
  <2> DEFINE x == [h EXCEPT !.reread = TRUE]
             held == tree[h.path]
             z == remember(x, h.base, held)
  <2>1. /\ x \in Handles /\ x.by = h.by /\ x.dirty = h.dirty /\ h.base \in Contents
        /\ held \in Held
    BY Zenon, <1>1 DEF Handles
  <2>2. UNCHANGED g
    BY Zenon, <1>8 DEF Reread
  <2>3. h' \in {h, x} \/ (held # Absent /\ h' = [z EXCEPT !.base = held, !.bytes = held])
    BY Zenon, <1>8 DEF Reread
  <2> HIDE DEF x, held
  <2>4. held # Absent => z \in Handles /\ z.by = x.by /\ z.dirty = x.dirty
    <3>1. held # Absent => held \in Contents
      BY Zenon, <2>1 DEF Held
    <3>2. QED
      BY ZenonT(60), <2>1, <3>1, RememberKeeps
  <2> HIDE DEF z
  <2>5. h'.by = h.by /\ h'.dirty = h.dirty
    <3>1. CASE h' \in {h, x}
      BY Zenon, <2>1, <3>1
    <3>2. CASE held # Absent /\ h' = [z EXCEPT !.base = held, !.bytes = held]
      BY Zenon, <2>1, <2>4, <3>2 DEF Handles
    <3>3. QED
      BY Zenon, <2>3, <3>1, <3>2
  <2>6. QED
    BY Zenon, <1>s, <1>u, <2>2, <2>5
<1>9. ASSUME NEW p \in Procs, Forget(p) \/ Follow(p) PROVE StagedInv'
  <2>1. h'.by = h.by /\ h'.dirty = h.dirty /\ UNCHANGED g
    <3>1. CASE Forget(p)
      BY Zenon, <1>1, <3>1 DEF Forget, Handles
    <3>2. CASE Follow(p) /\ UNCHANGED h
      BY Zenon, <3>2 DEF Follow
    <3>3. CASE Follow(p) /\ ~UNCHANGED h
      <4>1. /\ h' = [h EXCEPT !.path = Other(@), !.base = req[p].bytes,
                              !.from.ok = @ /\ h.base = req[p].bytes]
            /\ UNCHANGED g
        BY Zenon, <3>3 DEF Follow
      <4>2. QED
        BY Zenon, <1>1, <4>1 DEF Handles
    <3>4. QED
      BY Zenon, <1>9, <3>1, <3>2, <3>3
  <2>2. QED
    BY Zenon, <1>s, <1>u, <2>1
<1>10. ASSUME NEW p \in Procs, write_checked(p) \/ setattr(p) PROVE StagedInv'
  <2>1. UNCHANGED <<h, g>> \/ \E b : Staged(p, b)
    BY Zenon, <1>10 DEF write_checked, setattr
  <2>2. ASSUME NEW b, Staged(p, b) PROVE StagedInv'
    <3>1. h'.by = h.by \cup {p} /\ h'.dirty
      BY Zenon, <1>1, <2>2 DEF Staged, Handles
    <3>2. Owed' = Owed \cup {p}
      BY Zenon, <1>1, <2>2, OwedAfter
    <3>3. QED
      BY Zenon, <3>1, <3>2 DEF StagedInv
  <2>3. QED
    BY Zenon, <1>s, <1>u, <2>1, <2>2
<1>11. ASSUME NEW a \in Actors, discard(a) PROVE StagedInv'
  <2>1. h'.by = {}
    BY Zenon, <1>1, <1>11 DEF discard, Handles
  <2>2. Owed' = {}
    BY Zenon, <1>1, <1>11, OwedAfter DEF StagedInv
  <2>3. QED
    BY Zenon, <2>1, <2>2 DEF StagedInv
<1>12. ASSUME NEW a \in Actors, flush(a) PROVE StagedInv'
  <2>1. UNCHANGED <<h, g>> \/ (h'.by = {} /\ Owed' = {})
    BY Zenon, <1>12, FlushLands
  <2>2. QED
    BY Zenon, <1>s, <1>u, <2>1 DEF StagedInv
<1>13. QED
  BY <1>3, <1>4, <1>5, <1>6, <1>7, <1>8, <1>9, <1>10, <1>11, <1>12, ZenonT(60)
     DEF Next, Asking, Handling, Serving

\* While no two requests crossed: what is staged and not told is about to be told, and a
\* request about to tell the table finds the handle as it left it.
Undisturbed(a) ==
  /\ req[a].pc \in {"clean", "voided"} => h.by = {}
  /\ req[a].pc \in {"forget", "unrefuse"} => stage = "Refused"

ToldInv ==
  ~crossed => /\ stage \notin {"Written", "Truncated"} => \A p \in Owed : At(p, "mark")
              /\ \A a \in Actors : Undisturbed(a)

LEMMA ToldInit == Init => ToldInv
BY DEF Init, ToldInv, Undisturbed, Owed, None, Actors

\* Cross: a step that changes the handle or the table leaves nobody else untold.
LEMMA Uncrossed ==
  ASSUME MountTypes, Cross, ~crossed', NEW a \in Actors, NEW at, Alone(a, at)
  PROVE  /\ ~crossed
         /\ UNCHANGED <<h, stage>> \/ \A b \in Actors \ {a} : ~Untold(b)
<1>1. ~crossed /\ (UNCHANGED <<h, stage>> \/ \A b \in Actors : ~(Untold(b) /\ req'[b] = req[b]))
  BY Zenon DEF Cross, MountTypes
<1>2. QED
  BY Zenon, <1>1 DEF Alone

LEMMA ToldKept ==
  ASSUME MountTypes, ToldInv, Cross, NEW a \in Actors, NEW at, Alone(a, at),
         at \in {"clean", "voided"} => h'.by = {},
         at \in {"forget", "unrefuse"} => stage' = "Refused",
         ~crossed /\ stage' \notin {"Written", "Truncated"} => \A p \in Owed' : At(p, "mark")'
  PROVE  ToldInv'
<1> SUFFICES ASSUME ~crossed'
             PROVE  /\ stage' \notin {"Written", "Truncated"} => \A p \in Owed' : At(p, "mark")'
                    /\ \A b \in Actors : Undisturbed(b)'
  BY Zenon DEF ToldInv
<1>1. ~crossed /\ (UNCHANGED <<h, stage>> \/ \A b \in Actors \ {a} : ~Untold(b))
  BY Zenon, Uncrossed
<1>2. ASSUME NEW b \in Actors, b # a PROVE Undisturbed(b)'
  <2>1. req'[b] = req[b]
    BY Zenon, <1>2 DEF Alone
  <2>2. Undisturbed(b)
    BY Zenon, <1>1 DEF ToldInv
  <2>3. CASE UNCHANGED <<h, stage>>
    BY Zenon, <2>1, <2>2, <2>3 DEF Undisturbed
  <2>4. CASE ~Untold(b)
    BY Zenon, <2>1, <2>4 DEF Undisturbed, Untold
  <2>5. QED
    BY Zenon, <1>1, <1>2, <2>3, <2>4
<1>3. Undisturbed(a)'
  BY Zenon DEF Undisturbed, Alone
<1>4. QED
  BY Zenon, <1>1, <1>2, <1>3

LEMMA ToldStep ==
  MountTypes /\ SeenInv /\ StagedInv /\ ToldInv /\ [Next]_vars => ToldInv'
<1> SUFFICES ASSUME MountTypes, SeenInv, StagedInv, ToldInv, [Next]_vars PROVE ToldInv'
  BY Zenon
<1>1. /\ g \in Accounts /\ h \in Handles /\ tree \in [Paths -> Held] /\ crossed \in BOOLEAN
      /\ \A p \in Procs : p \in Actors
      /\ Owed \subseteq Procs
  BY Zenon DEF MountTypes, Actors, Owed, Accounts
<1>2. CASE UNCHANGED vars
  BY Zenon, <1>2 DEF vars, ToldInv, Undisturbed, Owed, At
<1>3. CASE Next
  <2> USE DEF At
  <2>1. Cross
    BY Zenon, <1>3 DEF Next
  <2>s. ASSUME NEW a \in Actors, NEW at, Alone(a, at), Owed' \subseteq Owed,
               ~crossed /\ stage' \notin {"Written", "Truncated"} => \A p \in Owed : p # a /\ At(p, "mark"),
               at \in {"clean", "voided"} => h'.by = {},
               at \in {"forget", "unrefuse"} => stage' = "Refused"
        PROVE  ToldInv'
    <3>1. ASSUME ~crossed, stage' \notin {"Written", "Truncated"}, NEW p \in Owed'
          PROVE  At(p, "mark")'
      <4>1. p \in Actors \ {a} /\ At(p, "mark")
        BY Zenon, <1>1, <2>s, <3>1
      <4>2. QED
        BY Zenon, <2>s, <4>1 DEF Alone
    <3>2. QED
      BY Zenon, <2>1, <2>s, <3>1, ToldKept
  <2>m. ASSUME ~crossed, stage \notin {"Written", "Truncated"}, NEW a, NEW s, At(a, s), s # "mark"
        PROVE  \A p \in Owed : p # a /\ At(p, "mark")
    BY Zenon, <2>m DEF ToldInv
  <2>o. UNCHANGED g => Owed' \subseteq Owed
    BY Zenon DEF Owed
  <2>2. ASSUME NEW p \in Procs, Asking(p) PROVE ToldInv'
    <3>1. At(p, "none") /\ UNCHANGED <<stage, g>>
      <4>1. \E r : Ask(p, r)
        BY <2>2, Zenon DEF Asking, AskRead, AskWrite, AskTruncate, AskCommit, AskRename
      <4>2. QED
        BY <4>1 DEF Ask, None
    <3>2. \E s \in {"reread", "refused", "land", "move"} : Alone(p, s)
      BY Zenon, <2>2, AskMoves DEF Asking
    <3>3. QED
      BY Zenon, <1>1, <2>s, <2>m, <2>o, <3>1, <3>2
  <2>3. ASSUME Tick PROVE ToldInv'
    <3>1. At(Idle, "none") /\ UNCHANGED <<stage, g>> /\ Alone(Idle, "land") /\ Idle \in Actors
      BY <2>3, TickMoves DEF Tick, None, Actors
    <3>2. QED
      BY Zenon, <1>1, <2>s, <2>m, <2>o, <3>1
  <2>4. ASSUME Remote PROVE ToldInv'
    <3>1. UNCHANGED <<h, stage, req, g>> /\ (~crossed' => ~crossed)
      BY Zenon, <1>1, <2>1, <2>4 DEF Remote, Cross
    <3>2. QED
      BY Zenon, <3>1 DEF ToldInv, Undisturbed, Owed
  <2>5. ASSUME NEW p \in Procs, Reread(p) PROVE ToldInv'
    <3>1. At(p, "reread") /\ UNCHANGED <<stage, g>> /\ (Alone(p, "settle") \/ Alone(p, "none"))
      BY Zenon, <2>5, HandlingMoves DEF Reread
    <3>2. QED
      BY Zenon, <1>1, <2>s, <2>m, <2>o, <3>1
  <2>6. ASSUME NEW p \in Procs, Settle(p) PROVE ToldInv'
    <3>1. /\ At(p, "settle") /\ UNCHANGED <<stage, g>>
          /\ Alone(p, "serve") \/ (Alone(p, "forget") /\ stage = "Refused")
      BY Zenon, <2>6, HandlingMoves DEF Settle
    <3>2. QED
      BY Zenon, <1>1, <2>s, <2>m, <2>o, <3>1
  <2>7. ASSUME NEW p \in Procs, Forget(p) PROVE ToldInv'
    <3>1. At(p, "forget") /\ UNCHANGED <<stage, g>> /\ Alone(p, "unrefuse")
      BY Zenon, <2>7, HandlingMoves DEF Forget
    <3>2. CASE ~crossed
      <4>1. stage = "Refused"
        BY Zenon, <1>1, <3>1, <3>2 DEF ToldInv, Undisturbed
      <4>2. QED
        BY Zenon, <1>1, <2>s, <2>m, <2>o, <3>1, <4>1
    <3>3. CASE crossed
      BY Zenon, <2>1, <3>3 DEF Cross, ToldInv
    <3>4. QED
      BY Zenon, <3>2, <3>3
  <2>8. ASSUME NEW p \in Procs, Unrefuse(p) PROVE ToldInv'
    <3>1. At(p, "unrefuse") /\ UNCHANGED g /\ Alone(p, "serve")
      BY Zenon, <2>8, HandlingMoves DEF Unrefuse
    <3>2. ~crossed => stage = "Refused"
      BY Zenon, <1>1, <3>1 DEF ToldInv, Undisturbed
    <3>3. QED
      BY Zenon, <1>1, <2>s, <2>m, <2>o, <3>1, <3>2
  <2>9. ASSUME NEW p \in Procs, Serve(p) \/ Refused(p) PROVE ToldInv'
    <3>1. /\ UNCHANGED stage /\ (Alone(p, "none") \/ Alone(p, "stage"))
          /\ At(p, "serve") \/ At(p, "refused")
          /\ UNCHANGED g \/ Told(p)
      BY Zenon, <2>9, HandlingMoves DEF Serve, Refused
    <3>2. Owed' \subseteq Owed
      BY Zenon, <1>1, <2>o, <3>1, OwedAfter
    <3>3. QED
      BY Zenon, <1>1, <2>s, <2>m, <3>1, <3>2
  <2>10. ASSUME NEW p \in Procs, write_checked(p) \/ setattr(p) PROVE ToldInv'
    <3>1. At(p, "stage") /\ UNCHANGED stage
      BY Zenon, <2>10 DEF write_checked, setattr
    <3>2. CASE UNCHANGED <<h, g>>
      <4>1. \E s \in {"mark", "void", "none"} : Alone(p, s)
        BY Zenon, <2>10, HandlingMoves
      <4>2. QED
        BY Zenon, <1>1, <2>s, <2>m, <2>o, <3>1, <3>2, <4>1
    <3>3. CASE ~UNCHANGED <<h, g>>
      <4>1. Alone(p, "mark")
        BY Zenon, <2>10, <3>3, HandlingMoves
      <4>2. \E b : Staged(p, b)
        BY Zenon, <2>10, <3>3 DEF write_checked, setattr
      <4>3. Owed' = Owed \cup {p}
        BY Zenon, <1>1, <4>2, OwedAfter
      <4>4. ASSUME ~crossed, stage' \notin {"Written", "Truncated"}, NEW q \in Owed'
            PROVE  At(q, "mark")'
        <5>1. CASE q = p
          BY Zenon, <4>1, <5>1 DEF Alone
        <5>2. CASE q # p
          <6>1. q \in Actors \ {p} /\ At(q, "mark")
            BY Zenon, <1>1, <3>1, <4>3, <4>4, <5>2 DEF ToldInv
          <6>2. QED
            BY Zenon, <4>1, <6>1 DEF Alone
        <5>3. QED
          BY Zenon, <5>1, <5>2
      <4>5. QED
        BY Zenon, <1>1, <2>1, <4>1, <4>4, ToldKept
    <3>4. QED
      BY Zenon, <3>2, <3>3
  <2>11. ASSUME NEW p \in Procs, Mark(p) PROVE ToldInv'
    <3>1. /\ stage' \in {"Written", "Truncated"} /\ UNCHANGED g
          /\ Alone(p, "land") \/ Alone(p, "none")
      BY Zenon, <2>11, HandlingMoves DEF Mark
    <3>2. QED
      BY Zenon, <1>1, <2>s, <2>o, <3>1
  <2>12. ASSUME NEW p \in Procs, Unmarked(p) PROVE ToldInv'
    <3>1. UNCHANGED stage /\ Told(p) /\ Alone(p, "none")
      BY Zenon, <2>12, HandlingMoves DEF Unmarked
    <3>2. Owed' = Owed \ {p}
      BY Zenon, <1>1, <3>1, OwedAfter
    <3>3. ASSUME ~crossed, stage' \notin {"Written", "Truncated"}, NEW q \in Owed'
          PROVE  At(q, "mark")'
      <4>1. q \in Actors \ {p} /\ At(q, "mark")
        BY Zenon, <1>1, <3>1, <3>2, <3>3 DEF ToldInv
      <4>2. QED
        BY Zenon, <3>1, <4>1 DEF Alone
    <3>4. QED
      BY Zenon, <1>1, <2>1, <3>1, <3>3, ToldKept
  <2>13. ASSUME NEW p \in Procs, RenameRead(p) \/ rename_file(p) \/ Follow(p) PROVE ToldInv'
    <3>1. /\ UNCHANGED <<stage, g>> /\ \E s \in {"swap", "follow", "none"} : Alone(p, s)
          /\ \E s \in {"move", "swap", "follow"} : At(p, s)
      BY Zenon, <2>13, HandlingMoves DEF RenameRead, rename_file, Follow
    <3>2. QED
      BY Zenon, <1>1, <2>s, <2>m, <2>o, <3>1
  <2>14. ASSUME NEW a \in Actors, CommitRefused(a) \/ CommitStaged(a) PROVE ToldInv'
    <3>1. /\ UNCHANGED stage /\ \E s \in {"none", "move", "staged", "flush"} : Alone(a, s)
          /\ At(a, "land") \/ At(a, "staged")
          /\ UNCHANGED g \/ \E ok : Answer(a, ok)
      BY Zenon, <2>14, ServingMoves DEF CommitRefused, CommitStaged
    <3>2. Owed' \subseteq Owed
      BY Zenon, <1>1, <2>o, <3>1, OwedAfter
    <3>3. QED
      BY Zenon, <1>1, <2>s, <2>m, <3>1, <3>2
  <2>15. ASSUME NEW a \in Actors, Committed(a) \/ Discarded(a) PROVE ToldInv'
    <3>1. /\ At(a, "clean") \/ At(a, "voided")
          /\ Alone(a, "none") \/ Alone(a, "move")
          /\ UNCHANGED g \/ Told(a) \/ \E ok : Answer(a, ok)
      BY Zenon, <2>15, ServingMoves DEF Committed, Discarded
    <3>2. Owed' \subseteq Owed
      BY Zenon, <1>1, <2>o, <3>1, OwedAfter
    <3>3. ~crossed => Owed = {}
      BY Zenon, <3>1 DEF ToldInv, Undisturbed, StagedInv
    <3>4. QED
      BY Zenon, <1>1, <2>s, <3>1, <3>2, <3>3
  <2>16. ASSUME NEW a \in Actors, flush(a) PROVE ToldInv'
    <3>1. At(a, "flush") /\ UNCHANGED stage
      BY Zenon, <2>16 DEF flush
    <3>2. CASE h'.by = {} /\ Owed' = {}
      <4>1. Alone(a, "clean") \/ Alone(a, "void")
        BY Zenon, <2>16, ServingMoves
      <4>2. QED
        BY Zenon, <2>1, <3>1, <3>2, <4>1, ToldKept
    <3>3. CASE UNCHANGED <<h, g>> /\ Go(a, "void")
      <4>1. Alone(a, "void")
        BY Zenon, <3>3, Moves DEF MountTypes, Pcs
      <4>2. QED
        BY Zenon, <1>1, <2>s, <2>m, <2>o, <3>1, <3>3, <4>1
    <3>4. CASE UNCHANGED <<h, g>> /\ ~h.dirty
      <4>1. h.by = {} /\ (Alone(a, "clean") \/ Alone(a, "void"))
        BY Zenon, <2>16, <3>4, ServingMoves DEF StagedInv
      <4>2. QED
        BY Zenon, <1>1, <2>s, <2>m, <2>o, <3>1, <3>4, <4>1
    <3>5. QED
      BY Zenon, <2>16, <3>2, <3>3, <3>4, FlushLands
  <2>17. ASSUME NEW a \in Actors, discard(a) PROVE ToldInv'
    <3>1. /\ UNCHANGED stage /\ Alone(a, "voided") /\ h'.by = {}
          /\ Owed' = Owed \ h.by
      BY Zenon, <1>1, <2>17, ServingMoves, OwedAfter DEF discard, Handles
    <3>2. Owed' = {}
      BY Zenon, <3>1 DEF StagedInv
    <3>3. QED
      BY Zenon, <2>1, <3>1, <3>2, ToldKept
  <2>18. QED
    BY Zenon, <1>3, <2>2, <2>3, <2>4, <2>5, <2>6, <2>7, <2>8, <2>9, <2>10, <2>11, <2>12, <2>13,
       <2>14, <2>15, <2>16, <2>17, ZenonT(60) DEF Next, Handling, Serving
<1>4. QED
  BY Zenon, <1>2, <1>3

\* commit_id: no COMMIT has been answered over an edit the table was not told of.
LEMMA DropsStep ==
  MountTypes /\ StagedInv /\ ToldInv /\ OnlyRefusalsDrop /\ [Next]_vars => OnlyRefusalsDrop'
<1> SUFFICES ASSUME MountTypes, StagedInv, ToldInv, ~g.unknown, [Next]_vars PROVE ~g'.unknown
  BY Zenon DEF OnlyRefusalsDrop
<1>1. g \in Accounts /\ h \in Handles /\ crossed \in BOOLEAN
  BY Zenon DEF MountTypes
<1>2. ASSUME NEW a, Told(a) PROVE ~g'.unknown
  BY Zenon, <1>1, <1>2 DEF Told, Accounts
<1>3. ASSUME NEW a, NEW ok, Answer(a, ok), ok => crossed \/ a \notin Owed PROVE ~g'.unknown
  BY Zenon, <1>1, <1>3 DEF Answer, Accounts, Owed
<1>4. ASSUME NEW a, NEW b, Staged(a, b) PROVE ~g'.unknown
  BY Zenon, <1>1, <1>4 DEF Staged, Accounts
<1>5. ASSUME NEW p \in Procs, Asking(p) PROVE ~g'.unknown
  <2>1. UNCHANGED g
    BY <1>5, Zenon DEF Asking, AskRead, AskWrite, AskTruncate, AskCommit, AskRename, Ask
  <2>2. QED
    BY Zenon, <2>1
<1>6. ASSUME NEW p \in Procs, Handling(p) PROVE ~g'.unknown
  <2>1. UNCHANGED g \/ Told(p) \/ \E b : Staged(p, b)
    BY <1>6, ZenonT(30)
       DEF Handling, Reread, Settle, Forget, Unrefuse, Serve, Refused, write_checked, setattr,
           Mark, Unmarked, RenameRead, rename_file, Follow
  <2>2. QED
    BY Zenon, <1>2, <1>4, <2>1
<1>7. ASSUME NEW a \in Actors, CommitRefused(a) \/ Discarded(a) PROVE ~g'.unknown
  <2>1. UNCHANGED g \/ Told(a) \/ Answer(a, FALSE)
    BY Zenon, <1>7 DEF CommitRefused, Discarded
  <2>2. QED
    BY Zenon, <1>2, <1>3, <2>1
<1>8. ASSUME NEW a \in Actors, CommitStaged(a) PROVE ~g'.unknown
  <2>1. CASE stage \in {"Written", "Truncated"}
    BY Zenon, <1>8, <2>1 DEF CommitStaged
  <2>2. CASE stage \notin {"Written", "Truncated"}
    <3>1. crossed \/ a \notin Owed
      BY Zenon, <1>8, <2>2 DEF CommitStaged, ToldInv, At
    <3>2. QED
      BY Zenon, <1>3, <1>8, <2>2, <3>1 DEF CommitStaged
  <2>3. QED
    BY Zenon, <2>1, <2>2
<1>9. ASSUME NEW a \in Actors, Committed(a) PROVE ~g'.unknown
  <2>1. crossed \/ h.by = {}
    BY Zenon, <1>9 DEF Committed, ToldInv, Undisturbed, At
  <2>2. QED
    BY Zenon, <1>3, <1>9, <2>1 DEF Committed, StagedInv
<1>10. ASSUME NEW a \in Actors, discard(a) \/ flush(a) PROVE ~g'.unknown
  BY Zenon, <1>1, <1>10 DEF discard, flush, Accounts
<1>11. ASSUME Tick \/ Remote \/ UNCHANGED vars PROVE ~g'.unknown
  BY Zenon, <1>11 DEF Tick, Remote, vars
<1>12. QED
  BY <1>5, <1>6, <1>7, <1>8, <1>9, <1>10, <1>11, Zenon DEF Next, Serving

\* The host's NFS mount (write_checked, StoreFs::commit, merge): whatever the processes, the
\* lines, their texts and the bound on remembered reads, no save that lands changes a line
\* another writer landed after the saver's READ, as long as neither a settle nor a rename
\* changed what the handle remembers since that READ.
THEOREM MountKeepsEdits == Spec => []KeepsOthersEdits
<1> DEFINE I == MountTypes /\ SeenInv /\ ReadsInv /\ KeepsOthersEdits
<1>1. Init => I
  <2>1. Init => KeepsOthersEdits
    BY DEF KeepsOthersEdits, Init
  <2>2. QED
    BY Zenon, <2>1, MountTypesInit, SeenInit, ReadsInit
<1>2. I /\ [Next]_vars => I'
  BY Zenon, MountTypesStep, SeenStep, ReadsStep, KeepsStep
<1>3. QED
  BY <1>1, <1>2, PTL DEF Spec

\* commit_id, discard and stage: whatever the processes, a COMMIT is answered "done" over an
\* edit of its process that did not land only after a refusal or when two requests crossed.
THEOREM CommitsKnowOfDrops == Spec => []OnlyRefusalsDrop
<1> DEFINE I == /\ MountTypes /\ SeenInv /\ ReadsInv
                /\ StagedInv /\ ToldInv /\ OnlyRefusalsDrop
<1>1. Init => I
  <2>1. Init => OnlyRefusalsDrop
    BY DEF OnlyRefusalsDrop, Init
  <2>2. QED
    BY Zenon, <2>1, MountTypesInit, SeenInit, ReadsInit, StagedInit, ToldInit
<1>2. I /\ [Next]_vars => I'
  BY Zenon, MountTypesStep, SeenStep, ReadsStep, StagedStep, ToldStep, DropsStep
<1>3. QED
  BY <1>1, <1>2, PTL DEF Spec

=============================================================================
