------------------------------ MODULE HostMount ------------------------------
(***************************************************************************)
(* The host's NFS mount (storefs/src/host/nfs.rs) over StoreFs handles     *)
(* (storefs/src/lib.rs) and the store's write path (SourceWrite), for one  *)
(* file.  NFSv3 has no OPEN: one write handle per file id serves every     *)
(* process of the host.  A process reads the file, edits a line of what it *)
(* read and saves the whole file; other writers of the store edit it too.  *)
(*                                                                         *)
(* Requests run concurrently and interleave between the locks they take:   *)
(* the lock on the table of opens (the stage) and the lock on the handle,  *)
(* which is held across the handle's calls into the store.                 *)
(***************************************************************************)
EXTENDS SourceWrite

CONSTANTS Procs,        \* processes of the host
          MaxReads,     \* MAX_REMEMBERED_READS
          MaxRequests, MaxInFlight, MaxRemote

\* A rename moves the file to another path.
ASSUME MountAssumption == \A p \in Paths : \E q \in Paths : q # p

VARIABLES tree,   \* the store
          h,      \* the file id's handle
          stage,  \* what the table of opens says the handle holds
          req,    \* the request in flight of each process and of the idle committer
          copy,   \* what each process last read
          used,   \* requests and remote changes so far
          g,      \* history: what clients were told and what landings undid
          crossed \* history: two requests crossed between the handle and the table

vars == <<tree, h, stage, req, copy, used, g, crossed>>

Idle == "idle"
Actors == Procs \cup {Idle}
None == [op |-> "none", pc |-> "none", bytes |-> Empty, path |-> Absent, stable |-> FALSE]
NoCopy == [bytes |-> Empty, held |-> FALSE, ok |-> FALSE]

\* from: the copy the staged bytes were made of; by: who staged them.
Opened(p, bytes) ==
  [open |-> TRUE, path |-> p, base |-> bytes, bytes |-> bytes, dirty |-> FALSE,
   earlier |-> {}, complete |-> TRUE, reread |-> FALSE,
   from |-> NoCopy, by |-> {}]
Initial == [i \in Lines |-> CHOOSE t \in Texts : TRUE]
NoHandle == [Opened(CHOOSE p \in Paths : TRUE, Empty) EXCEPT !.open = FALSE]

Init ==
  /\ tree = [q \in Paths |-> IF q = NoHandle.path THEN Initial ELSE Absent]
  /\ h = NoHandle
  /\ stage = "Clean"
  /\ req = [a \in Actors |-> None]
  /\ copy = [p \in Procs |-> NoCopy]
  /\ used = [requests |-> 0, remote |-> 0]
  /\ g = [pend |-> {}, void |-> {},
          undone |-> FALSE, untrue |-> FALSE, unknown |-> FALSE]
  /\ crossed = FALSE

Go(a, pc) == req' = [req EXCEPT ![a].pc = pc]
Done(a) == req' = [req EXCEPT ![a] = None]
At(a, pc) == req[a].pc = pc

-----------------------------------------------------------------------------
(* Reads: what a reread handle remembers, and whether a save agrees.       *)

remember(x, blob, base) ==
  IF blob \in x.earlier \cup {base} THEN x
  ELSE IF Cardinality(x.earlier) = MaxReads THEN [x EXCEPT !.complete = FALSE]
  ELSE [x EXCEPT !.earlier = @ \cup {blob}]

\* Reads::landed: a save replaced the base.
landed(x, replaced, blob) ==
  IF x.reread THEN [remember(x, replaced, blob) EXCEPT !.earlier = @ \ {blob}] ELSE x

touches(since, e) ==
  IF since[1] = since[2] THEN e[1] <= since[1] /\ since[1] <= e[2]
  ELSE IF e[1] = e[2] THEN since[1] < e[1] /\ e[1] < since[2]
  ELSE since[1] < e[2] /\ e[1] < since[2]

\* Mutant: only the latest read is looked at.
AgreeLatest(x, bytes) ==
  LET current == tree[x.path]
  IN current = Absent \/ \A s \in changed_lines(x.base, current),
                             e \in changed_lines(current, bytes) : ~touches(s.to, e.from)

\* agree: the save touches no line that changed since a read it may be made from.
agree(x, bytes) ==
  LET current == tree[x.path]
  IN \/ x.earlier = {} /\ x.complete
     \/ current = Absent
     \/ /\ x.complete
        /\ \A read \in x.earlier \cup {x.base} :
             \A s \in changed_lines(read, current), e \in changed_lines(current, bytes) :
               ~touches(s.to, e.from)

Proposal(x, bytes) == {Write(x.path, x.base, bytes)}

-----------------------------------------------------------------------------
(* History.                                                                *)

LineAt(c, i) == IF c = Empty THEN "no line" ELSE c[i]

\* Landing new over old changes a line whose current text its author had not read.
Undoes(from, old, new) ==
  /\ from.ok
  /\ \E i \in Lines : /\ LineAt(new, i) # LineAt(old, i)
                      /\ LineAt(from.bytes, i) # LineAt(old, i)

\* A request is between the handle and the table of opens.
Untold(a) == req[a].pc \in {"mark", "clean", "void", "voided", "forget", "unrefuse"}

\* Another request changes either of them meanwhile.
Cross ==
  crossed' = (crossed \/ (<<h, stage>>' # <<h, stage>>
                          /\ \E a \in Actors : Untold(a) /\ req'[a] = req[a]))

Distrust == [p \in Procs |-> [copy[p] EXCEPT !.ok = FALSE]]

-----------------------------------------------------------------------------
(* Requests arrive.                                                        *)

InFlight == {a \in Actors : req[a] # None}

Ask(p, r) ==
  /\ req[p] = None
  /\ Cardinality(InFlight) < MaxInFlight
  /\ used.requests < MaxRequests
  /\ used' = [used EXCEPT !.requests = @ + 1]
  /\ req' = [req EXCEPT ![p] = r]
  /\ UNCHANGED <<tree, stage, copy, g>>

\* handle: the file id's first request opens it.
AskRead(p) ==
  /\ Ask(p, [None EXCEPT !.op = "read", !.pc = "reread"])
  /\ IF h.open THEN UNCHANGED h
     ELSE \E q \in Paths : tree[q] # Absent /\ h' = Opened(q, tree[q])

\* A save of what the process read, one line edited.
AskWrite(p) ==
  /\ copy[p].held
  /\ \E bytes \in [Lines -> Texts], stable \in BOOLEAN :
       /\ copy[p].bytes # Empty => Cardinality(Differ(copy[p].bytes, bytes)) = 1
       /\ Ask(p, [None EXCEPT !.op = "write", !.pc = "refused",
                              !.bytes = bytes, !.stable = stable])
  /\ UNCHANGED h

AskTruncate(p) ==
  /\ copy[p].held
  /\ Ask(p, [None EXCEPT !.op = "truncate", !.pc = "refused"])
  /\ UNCHANGED h

AskCommit(p) ==
  /\ h.open
  /\ Ask(p, [None EXCEPT !.op = "commit", !.pc = "land"])
  /\ UNCHANGED h

\* commit_all comes first: what is staged is landed before the tree changes.
AskRename(p) ==
  /\ h.open
  /\ Ask(p, [None EXCEPT !.op = "rename",
                         !.pc = IF stage \in {"Written", "Truncated"} THEN "land" ELSE "move"])
  /\ UNCHANGED h

\* Mutant: the committer looks for WRITEs.
TickWritten ==
  /\ req[Idle] = None
  /\ Cardinality(InFlight) < MaxInFlight
  /\ stage = "Written"
  /\ req' = [req EXCEPT ![Idle] = [None EXCEPT !.op = "idle", !.pc = "land"]]
  /\ UNCHANGED <<tree, h, stage, copy, used, g>>

\* commit_if_idle: a truncate has stood for its window.
Tick ==
  /\ req[Idle] = None
  /\ Cardinality(InFlight) < MaxInFlight
  /\ stage = "Truncated"
  /\ req' = [req EXCEPT ![Idle] = [None EXCEPT !.op = "idle", !.pc = "land"]]
  /\ UNCHANGED <<tree, h, stage, copy, used, g>>

-----------------------------------------------------------------------------
(* READ.                                                                   *)

Reread(p) ==
  /\ At(p, "reread")
  /\ LET held == tree[h.path]
         x == [h EXCEPT !.reread = TRUE]
     IN CASE h.dirty -> Go(p, "settle") /\ UNCHANGED h
          [] ~h.dirty /\ held = Absent -> Done(p) /\ h' = x
          [] OTHER ->
               /\ Go(p, "settle")
               /\ h' = IF held = h.base THEN x
                       ELSE [remember(x, h.base, held) EXCEPT
                               !.base = held, !.bytes = held]
  /\ UNCHANGED <<tree, stage, copy, used, g>>

Settle(p) ==
  /\ At(p, "settle")
  /\ Go(p, IF stage = "Refused" THEN "forget" ELSE "serve")
  /\ UNCHANGED <<tree, h, stage, copy, used, g>>

\* settle: a READ after a refused save forgets the handle's history.
Forget(p) ==
  /\ At(p, "forget")
  /\ h' = [h EXCEPT !.earlier = {}, !.complete = TRUE, !.from.ok = FALSE]
  /\ copy' = Distrust
  /\ Go(p, "unrefuse")
  /\ UNCHANGED <<tree, stage, used, g>>

Unrefuse(p) ==
  /\ At(p, "unrefuse")
  /\ stage' = "Clean"
  /\ Go(p, "serve")
  /\ UNCHANGED <<tree, h, copy, used, g>>

\* The attributes are read after the bytes: a file that is gone fails the READ.
Serve(p) ==
  /\ At(p, "serve")
  /\ copy' = IF tree[h.path] = Absent THEN copy
             ELSE [copy EXCEPT ![p] = [bytes |-> h.bytes, held |-> TRUE,
                                       ok |-> ~h.dirty /\ h.bytes = h.base]]
  /\ Done(p)
  /\ UNCHANGED <<tree, h, stage, used, g>>

-----------------------------------------------------------------------------
(* WRITE and SETATTR of the size.                                          *)

Told(p) == g' = [g EXCEPT !.pend = @ \ {p}, !.void = @ \ {p}]

Refused(p) ==
  /\ At(p, "refused")
  /\ IF stage = "Refused" THEN Done(p) /\ Told(p)
                          ELSE Go(p, "stage") /\ UNCHANGED g
  /\ UNCHANGED <<tree, h, stage, copy, used>>

Staged(p, bytes) ==
  /\ h' = [h EXCEPT !.bytes = bytes, !.dirty = TRUE, !.from = copy[p], !.by = @ \cup {p}]
  /\ g' = [g EXCEPT !.pend = @ \cup {p}, !.void = @ \ {p}]

\* write_checked: staged only when its FLUSH would land now.
write_checked(p) ==
  /\ At(p, "stage")
  /\ req[p].op = "write"
  /\ LET bytes == req[p].bytes
     IN CASE bytes = h.bytes -> Go(p, "mark") /\ UNCHANGED <<h, g>>
          [] bytes # h.bytes /\ check(tree, Proposal(h, bytes)) /\ agree(h, bytes) ->
               Go(p, "mark") /\ Staged(p, bytes)
          [] OTHER -> Go(p, "void") /\ UNCHANGED <<h, g>>
  /\ UNCHANGED <<tree, stage, copy, used>>

\* A truncate is staged unchecked.
setattr(p) ==
  /\ At(p, "stage")
  /\ req[p].op = "truncate"
  /\ IF tree[h.path] = Absent THEN Done(p) /\ UNCHANGED <<h, g>>
                              ELSE Go(p, "mark") /\ Staged(p, Empty)
  /\ UNCHANGED <<tree, stage, copy, used>>

\* stage: the table of opens is told; a truncate after a WRITE waits for its COMMIT.
Mark(p) ==
  /\ At(p, "mark")
  /\ req[p].op = "truncate" => tree[h.path] # Absent
  /\ stage' = IF req[p].op = "write" \/ stage = "Written" THEN "Written" ELSE "Truncated"
  /\ IF req[p].stable THEN Go(p, "land") ELSE Done(p)
  /\ UNCHANGED <<tree, h, copy, used, g>>

\* setattr answers the attributes: for a file gone meanwhile it fails, with the
\* truncate staged and the table not told.
Unmarked(p) ==
  /\ At(p, "mark")
  /\ req[p].op = "truncate"
  /\ tree[h.path] = Absent
  /\ Done(p)
  /\ Told(p)
  /\ UNCHANGED <<tree, h, stage, copy, used>>

\* discard: a refused edit is dropped with all that was staged before it.
discard(a) ==
  /\ At(a, "void")
  /\ h' = [h EXCEPT !.bytes = h.base, !.dirty = FALSE, !.by = {},
                    !.from = NoCopy]
  /\ g' = [g EXCEPT !.void = @ \cup h.by]
  /\ Go(a, "voided")
  /\ UNCHANGED <<tree, stage, copy, used>>

Discarded(a) ==
  /\ At(a, "voided")
  /\ stage' = "Refused"
  /\ IF req[a].op = "rename" THEN Go(a, "move") /\ UNCHANGED g
                             ELSE Done(a) /\ Told(a)
  /\ UNCHANGED <<tree, h, copy, used>>

-----------------------------------------------------------------------------
(* commit_id: what is staged lands, or is dropped.                         *)

\* The answer to a COMMIT or a stable WRITE; commit_all and the committer ignore it.
Answer(a, ok) ==
  IF req[a].op = "rename" THEN Go(a, "move") /\ UNCHANGED g
  ELSE /\ Done(a)
       /\ g' = [g EXCEPT !.pend = @ \ {a}, !.void = @ \ {a},
                         !.untrue = @ \/ (ok /\ a \in g.pend),
                         !.unknown = @ \/ (ok /\ a \in g.pend \ g.void /\ ~crossed)]

CommitRefused(a) ==
  /\ At(a, "land")
  /\ IF stage = "Refused" THEN Answer(a, FALSE) ELSE Go(a, "staged") /\ UNCHANGED g
  /\ UNCHANGED <<tree, h, stage, copy, used>>

\* Mutant: only WRITEs count as staged.
CommitWritten(a) ==
  /\ At(a, "staged")
  /\ IF stage = "Written" THEN Go(a, "flush") /\ UNCHANGED g ELSE Answer(a, TRUE)
  /\ UNCHANGED <<tree, h, stage, copy, used>>

CommitStaged(a) ==
  /\ At(a, "staged")
  /\ IF stage \in {"Written", "Truncated"} THEN Go(a, "flush") /\ UNCHANGED g
                                           ELSE Answer(a, TRUE)
  /\ UNCHANGED <<tree, h, stage, copy, used>>

\* StoreFs::commit: agree and propose under the store's writer; merged bytes are served
\* from then on.
flush(a) ==
  /\ At(a, "flush")
  /\ LET writes == Proposal(h, h.bytes)
         bytes == propose(tree, writes)[h.path]
     IN CASE ~h.dirty -> Go(a, "clean") /\ UNCHANGED <<tree, h, g>>
          [] h.dirty /\ check(tree, writes) /\ agree(h, h.bytes) ->
               /\ tree' = propose(tree, writes)
               /\ h' = [landed(h, h.base, bytes) EXCEPT
                          !.base = bytes, !.bytes = bytes, !.dirty = FALSE,
                          !.by = {}, !.from = NoCopy]
               /\ g' = [g EXCEPT !.pend = @ \ h.by,
                                 !.undone = @ \/ Undoes(h.from, tree[h.path], bytes)]
               /\ Go(a, "clean")
          [] OTHER -> Go(a, "void") /\ UNCHANGED <<tree, h, g>>
  /\ UNCHANGED <<stage, copy, used>>

Committed(a) ==
  /\ At(a, "clean")
  /\ stage' = "Clean"
  /\ Answer(a, TRUE)
  /\ UNCHANGED <<tree, h, copy, used>>

-----------------------------------------------------------------------------
(* RENAME of the file, and other writers of the store.                     *)

\* rename_file reads what it moves before it takes the writer.
RenameRead(p) ==
  /\ At(p, "move")
  /\ \/ \E from \in Paths :
          /\ tree[from] # Absent
          /\ req' = [req EXCEPT ![p] = [@ EXCEPT !.pc = "swap", !.path = from,
                                               !.bytes = tree[from]]]
     \/ /\ \A q \in Paths : tree[q] = Absent
        /\ Done(p)
  /\ UNCHANGED <<tree, h, stage, copy, used, g>>

Other(path) == CHOOSE q \in Paths : q # path

\* One proposal, the delete of the old path and the write of the new; refused when
\* another writer changed either meanwhile.
rename_file(p) ==
  /\ At(p, "swap")
  /\ LET from == req[p].path
         writes == {Delete(from, req[p].bytes), Write(Other(from), Absent, req[p].bytes)}
     IN IF check(tree, writes) THEN tree' = propose(tree, writes) /\ Go(p, "follow")
                               ELSE Done(p) /\ UNCHANGED tree
  /\ UNCHANGED <<h, stage, copy, used, g>>

\* The handle follows the file, with what was moved as its base.
Follow(p) ==
  /\ At(p, "follow")
  /\ LET moved == req[p].bytes
     IN IF h.path # req[p].path THEN UNCHANGED <<h, copy>>
        ELSE /\ h' = [h EXCEPT !.path = Other(@), !.base = moved,
                               !.from.ok = @ /\ h.base = moved]
             /\ copy' = IF h.base = moved THEN copy ELSE Distrust
  /\ Done(p)
  /\ UNCHANGED <<tree, stage, used, g>>

Remote ==
  /\ used.remote < MaxRemote
  /\ used' = [used EXCEPT !.remote = @ + 1]
  /\ \E q \in Paths :
       /\ tree[q] # Absent
       /\ \/ \E c \in Contents : /\ c # tree[q]
                                 /\ tree' = propose(tree, {Write(q, tree[q], c)})
          \/ tree' = propose(tree, {Delete(q, tree[q])})
  /\ UNCHANGED <<h, stage, req, copy, g>>

-----------------------------------------------------------------------------

Serving(a) ==
  \/ CommitRefused(a) \/ CommitStaged(a) \/ flush(a) \/ Committed(a)
  \/ discard(a) \/ Discarded(a)

Handling(p) ==
  \/ Reread(p) \/ Settle(p) \/ Forget(p) \/ Unrefuse(p) \/ Serve(p)
  \/ Refused(p) \/ write_checked(p) \/ setattr(p) \/ Mark(p) \/ Unmarked(p)
  \/ RenameRead(p) \/ rename_file(p) \/ Follow(p)

Asking(p) == AskRead(p) \/ AskWrite(p) \/ AskTruncate(p) \/ AskCommit(p) \/ AskRename(p)

Next ==
  /\ \/ \E p \in Procs : Asking(p) \/ Handling(p)
     \/ \E a \in Actors : Serving(a)
     \/ Tick
     \/ Remote
  /\ Cross

\* A request that arrived is served, and the committer ticks.
Fairness ==
  /\ \A p \in Procs : WF_vars(Handling(p) /\ Cross)
  /\ \A a \in Actors : WF_vars(Serving(a) /\ Cross)
  /\ WF_vars(Tick /\ Cross)

Spec == Init /\ [][Next]_vars /\ Fairness

-----------------------------------------------------------------------------

TypeOK ==
  /\ tree \in [Paths -> Contents \cup {Absent}]
  /\ Cardinality({q \in Paths : tree[q] # Absent}) <= 1
  /\ h.base \in Contents /\ h.bytes \in Contents
  /\ h.earlier \subseteq Contents /\ Cardinality(h.earlier) <= MaxReads
  /\ stage \in {"Clean", "Written", "Truncated", "Refused"}
  /\ g.pend \subseteq Procs

\* agree and the merge at FLUSH: no save through the shared handle changes a line whose
\* text another writer landed after the saver's READ, as long as neither a settle (a READ
\* after a refusal) nor a rename changed what the handle remembers since that READ.
KeepsOthersEdits == ~g.undone

\* commit_id and discard: a COMMIT is answered "done" over an edit that did not land only
\* when a refusal dropped what was staged, or when two requests crossed between the handle
\* and the table of opens.
OnlyRefusalsDrop == ~g.unknown

\* The module's header: a COMMIT is the handle's FLUSH.  One that succeeds leaves no edit
\* of its process behind.
CommitMeansLanded == ~g.untrue

\* commit_if_idle: a truncate with no WRITE after it does not wait for ever.
TruncateLands == (stage = "Truncated") ~> (stage # "Truncated")

=============================================================================
