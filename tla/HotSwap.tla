------------------------------ MODULE HotSwap ------------------------------
(***************************************************************************)
(* HotSwapGraph (fs/src/graph.rs): a graph several threads read, reloaded  *)
(* from the arena when the control block's current_root is not the root it *)
(* was loaded under.  A publisher writes the arena meanwhile and never     *)
(* waits for readers.  A load reads the header, reads the root again,      *)
(* compares the buffer with it and then copies the buffer: from the live   *)
(* mapping as it is by then (fs/src/lib.rs), or, verify-on-fault, through  *)
(* the per-page gate (fs/src/verified.rs).                                 *)
(*                                                                         *)
(* The arena keeps its size.  Blank is the empty MemoryGraph served while  *)
(* nothing is published.                                                   *)
(***************************************************************************)
EXTENDS Arena

CONSTANTS Threads,
          Republish,     \* TRUE: an image may be published a second time
          MaxPublishes

ASSUME HotSwapAssumption == Republish \in BOOLEAN /\ MaxPublishes \in Nat

VARIABLES verify,        \* the graph was built with_verify_on_fault
          arena, root,
          writing,       \* the image a publisher is writing, or NoRoot
          inner,         \* HotSwapGraph::inner
          last_root,
          pc, seen,      \* each thread in maybe_swap, and the root it polled
          buf, expected, \* the load's buffer and root
          graph,         \* what it built, then what its read is served from
          published,     \* ghost: the images published so far
          laps,          \* ghost: publishes its load overlapped with
          publishes

shared == <<arena, root, writing>>
cache == <<inner, last_root>>
thread == <<pc, seen, buf, expected, graph, laps>>
vars == <<verify, shared, cache, thread, published, publishes>>

Init ==
  /\ verify \in BOOLEAN
  /\ arena \in create_arena(NoFile, 2 * (1 + Cardinality(Commits)))
  /\ root = NoRoot /\ writing = NoRoot
  /\ inner = Blank /\ last_root = NoRoot
  /\ pc = [t \in Threads |-> "idle"]
  /\ seen = [t \in Threads |-> NoRoot]
  /\ buf = [t \in Threads |-> 0]
  /\ expected = [t \in Threads |-> NoRoot]
  /\ graph = [t \in Threads |-> Blank]
  /\ laps = [t \in Threads |-> 0]
  /\ published = {} /\ publishes = 0

-----------------------------------------------------------------------------
(* A publisher: write_to_arena, then set_arena_with_root. *)

Loading == {"expect", "hash", "copy"}

BeginPublish(image) ==
  /\ writing = NoRoot /\ publishes < MaxPublishes
  /\ image \notin published \/ Republish
  /\ arena' = Writing(arena)
  /\ writing' = image
  /\ publishes' = publishes + 1
  /\ laps' = [t \in Threads |-> IF pc[t] \in Loading THEN laps[t] + 1 ELSE laps[t]]
  /\ UNCHANGED <<verify, root, cache, pc, seen, buf, expected, graph, published>>

\* write_to_arena has begun and not returned: the inactive buffer is half written.
Copying == arena.buffer[Other(arena.active)] = Torn

FinishCopy ==
  /\ writing # NoRoot /\ Copying
  /\ arena' = Written(arena, writing)
  /\ UNCHANGED <<verify, root, writing, cache, thread, published, publishes>>

set_arena_with_root ==
  /\ writing # NoRoot /\ ~Copying
  /\ root' = writing
  /\ published' = published \cup {writing}
  /\ writing' = NoRoot
  /\ UNCHANGED <<verify, arena, cache, thread, publishes>>

\* --reset-arena: the zero root is published, the arena stays.
Reset ==
  /\ writing = NoRoot /\ root # NoRoot /\ publishes < MaxPublishes
  /\ root' = NoRoot
  /\ publishes' = publishes + 1
  /\ UNCHANGED <<verify, arena, writing, cache, thread, published>>

-----------------------------------------------------------------------------
(* maybe_swap, by each thread that serves a read *)

Go(t, step) == pc' = [pc EXCEPT ![t] = step]

\* The read is over, served or failed.
Return(t) ==
  /\ Go(t, "idle")
  /\ seen' = [seen EXCEPT ![t] = NoRoot]
  /\ buf' = [buf EXCEPT ![t] = 0]
  /\ expected' = [expected EXCEPT ![t] = NoRoot]
  /\ graph' = [graph EXCEPT ![t] = Blank]
  /\ laps' = [laps EXCEPT ![t] = 0]

\* Mutant: a graph that was loaded is not loaded again.
PollOnce(t) ==
  /\ pc[t] = "idle"
  /\ seen' = [seen EXCEPT ![t] = root]
  /\ Go(t, IF root = last_root \/ last_root # NoRoot THEN "serve" ELSE "open")
  /\ UNCHANGED <<verify, shared, cache, buf, expected, graph, laps, published, publishes>>

\* Poll the root and compare it with the cached one.
Poll(t) ==
  /\ pc[t] = "idle"
  /\ seen' = [seen EXCEPT ![t] = root]
  /\ \/ root = last_root /\ Go(t, "serve") /\ UNCHANGED graph
     \/ /\ root # last_root /\ root = NoRoot
        /\ graph' = [graph EXCEPT ![t] = Blank]
        /\ Go(t, "install")
     \/ root # last_root /\ root # NoRoot /\ Go(t, "open") /\ UNCHANGED graph
  /\ UNCHANGED <<verify, shared, cache, buf, expected, laps, published, publishes>>

\* The roots agree: the read is served from inner as it is when inner is locked.
Serve(t) ==
  /\ pc[t] = "serve"
  /\ graph' = [graph EXCEPT ![t] = inner]
  /\ Go(t, "read")
  /\ UNCHANGED <<verify, shared, cache, seen, buf, expected, laps, published, publishes>>

\* from_arena, VerifiedArena::open: map the file, find the active buffer.
OpenArena(t) ==
  /\ pc[t] = "open"
  /\ buf' = [buf EXCEPT ![t] = arena.active]
  /\ laps' = [laps EXCEPT ![t] = IF writing = NoRoot THEN 0 ELSE 1]
  /\ Go(t, "expect")
  /\ UNCHANGED <<verify, shared, cache, seen, expected, graph, published, publishes>>

\* verify_arena_root reads the root again, from a controller of its own.
ReadExpected(t) ==
  /\ pc[t] = "expect"
  /\ expected' = [expected EXCEPT ![t] = root]
  /\ Go(t, "hash")
  /\ UNCHANGED <<verify, shared, cache, seen, buf, graph, laps, published, publishes>>

\* Mutant: the buffer is not compared with the root.
HashUnchecked(t) ==
  /\ pc[t] = "hash"
  /\ Go(t, "copy")
  /\ UNCHANGED <<verify, shared, cache, seen, buf, expected, graph, laps, published, publishes>>

\* The buffer's bytes must hash to that root, else the read fails.
verify_arena_root(t) ==
  /\ pc[t] = "hash"
  /\ \/ /\ arena.buffer[buf[t]] = expected[t]
        /\ Go(t, "copy")
        /\ UNCHANGED <<seen, buf, expected, graph, laps>>
     \/ arena.buffer[buf[t]] # expected[t] /\ Return(t)
  /\ UNCHANGED <<verify, shared, cache, published, publishes>>

\* Mutant: the gate's pages are served from the mapping, not from the snapshots.
CopyMapped(t) ==
  /\ pc[t] = "copy"
  /\ graph' = [graph EXCEPT ![t] = arena.buffer[buf[t]]]
  /\ Go(t, "install")
  /\ UNCHANGED <<verify, shared, cache, seen, buf, expected, laps, published, publishes>>

\* from_bytes copies the live mapping; read_all takes a snapshot of each page and
\* checks it before any byte is served.
Copy(t) ==
  /\ pc[t] = "copy"
  /\ \/ /\ ~verify \/ arena.buffer[buf[t]] = expected[t]
        /\ graph' = [graph EXCEPT ![t] = arena.buffer[buf[t]]]
        /\ Go(t, "install")
        /\ UNCHANGED <<seen, buf, expected, laps>>
     \/ verify /\ arena.buffer[buf[t]] # expected[t] /\ Return(t)
  /\ UNCHANGED <<verify, shared, cache, published, publishes>>

\* Mutant: last_root becomes the root at the time of the installation.
InstallCurrent(t) ==
  /\ pc[t] = "install"
  /\ inner' = graph[t]
  /\ last_root' = root
  /\ Go(t, "read")
  /\ UNCHANGED <<verify, shared, seen, buf, expected, graph, laps, published, publishes>>

\* Under inner's write lock the graph is installed with the root that was polled.
Install(t) ==
  /\ pc[t] = "install"
  /\ inner' = graph[t]
  /\ last_root' = seen[t]
  /\ Go(t, "read")
  /\ UNCHANGED <<verify, shared, seen, buf, expected, graph, laps, published, publishes>>

Done(t) ==
  /\ pc[t] = "read"
  /\ Return(t)
  /\ UNCHANGED <<verify, shared, cache, published, publishes>>

maybe_swap(t) ==
  \/ Poll(t) \/ Serve(t) \/ OpenArena(t) \/ ReadExpected(t) \/ verify_arena_root(t)
  \/ Copy(t) \/ Install(t) \/ Done(t)

Next ==
  \/ \E image \in Images : BeginPublish(image)
  \/ FinishCopy \/ set_arena_with_root \/ Reset
  \/ \E t \in Threads : maybe_swap(t)

Spec == Init /\ [][Next]_vars

\* Reads keep coming on every thread, and a publish that began goes on.
FairSpec ==
  /\ Spec
  /\ WF_vars(FinishCopy) /\ WF_vars(set_arena_with_root)
  /\ \A t \in Threads : WF_vars(maybe_swap(t))

-----------------------------------------------------------------------------
Graphs == {Blank, Torn} \cup Images
Roots == {NoRoot} \cup Images

TypeOK ==
  /\ arena \in ArenaFile
  /\ root \in Roots /\ writing \in Roots /\ last_root \in Roots
  /\ inner \in Graphs /\ graph \in [Threads -> Graphs]
  /\ seen \in [Threads -> Roots] /\ expected \in [Threads -> Roots]
  /\ buf \in [Threads -> Buffers] /\ laps \in [Threads -> Nat]
  /\ pc \in [Threads -> {"idle", "serve", "open", "expect", "hash", "copy", "install", "read"}]

\* verified.rs: "the bytes a faulting read returns are the very bytes that verified".
\* Behind the gate every graph a read is served from is an image that was published,
\* whatever the publisher writes meanwhile.
GateServesPublished ==
  verify => \A t \in Threads : pc[t] = "read" => graph[t] \in {Blank} \cup published

\* lib.rs: "we deserialize what we verified".  Without the gate the second buffer
\* makes that true of a load that no more than one publish overlaps.
OnePublishIsHarmless ==
  \A t \in Threads :
    pc[t] = "install" /\ seen[t] # NoRoot /\ laps[t] <= 1 => graph[t] = expected[t]

\* "Same root -> no swap": while images are not published twice, a cached root that
\* is the current one means the graph loaded under it is that root's image.
CachedRootIsServed ==
  verify /\ last_root = root => inner = (IF root = NoRoot THEN Blank ELSE root)

\* When publishing stops, the graph comes to serve the root that stands, and stays.
Converges == <>[](inner = (IF root = NoRoot THEN Blank ELSE root))
=============================================================================
