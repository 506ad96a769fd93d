---------------------------- MODULE ReaderProofs ----------------------------
(***************************************************************************)
(* How reads are served.  Loads from the arena (HotSwap) for any set of    *)
(* commits, any number of reading threads and of publishes: what the       *)
(* verify-on-fault gate serves was published, a load that one publish      *)
(* overlaps takes what it verified, and a cached root that is current      *)
(* stands for its own image.  The reader pool (ReaderPool) for any number  *)
(* of readers, writers and writes and any queue capacity.                  *)
(***************************************************************************)
EXTENDS HotSwap, ReaderPool, FiniteSetTheorems, TLAPS

Served == {Blank} \cup published

\* Roots are set by publishes only, so a root a load compares with is one; and what
\* has passed the gate, or was installed after it, is one of their images.
GateInv ==
  verify =>
    /\ root \in {NoRoot} \cup published
    /\ inner \in Served
    /\ \A t \in Threads :
         /\ expected[t] \in {NoRoot} \cup published
         /\ pc[t] \in {"install", "read"} => graph[t] \in Served

SwapInv == TypeOK /\ GateInv

\* The publisher writes the buffer the header does not name.  A load that overlaps one
\* publish holds the buffer the header named when it began, and that publish has either
\* flipped the header away from it or not yet.
LapInv ==
  /\ Copying => writing # NoRoot
  /\ ActiveImage(arena) # Torn
  /\ \A t \in Threads :
       pc[t] \in Loading =>
         /\ laps[t] = 0 => writing = NoRoot /\ buf[t] = arena.active
         /\ laps[t] <= 1 /\ Copying => buf[t] = arena.active
         /\ laps[t] <= 1 /\ pc[t] = "copy" => arena.buffer[buf[t]] = expected[t]

\* Images that are published once: a root that was polled and is current has been
\* current since, so the load under it read that root and built that image.
OnceInv ==
  /\ published \subseteq Images
  /\ {root, last_root} \subseteq {NoRoot} \cup published
  /\ writing \notin published
  /\ last_root = NoRoot => inner = Blank
  /\ (verify /\ last_root = root /\ root # NoRoot) => inner = root
  /\ \A t \in Threads :
       /\ seen[t] \in {NoRoot} \cup published
       /\ pc[t] \in {"open"} \cup Loading => seen[t] # NoRoot
       /\ (pc[t] \in {"hash", "copy"} /\ seen[t] = root) => expected[t] = root
       /\ (pc[t] = "install" /\ seen[t] = NoRoot) => graph[t] = Blank
       /\ (verify /\ pc[t] = "install" /\ seen[t] = root /\ root # NoRoot)
            => graph[t] = root

-----------------------------------------------------------------------------
\* The zero sentinel is neither an image nor bytes of a buffer.
LEMMA NoRootApart == NoRoot \notin {Blank, Torn} \cup Images
BY Zenon, ArenaAssumption DEF Images

\* write_to_arena keeps an arena file one, while it copies and when it returns.
LEMMA ArenaWrites ==
  ASSUME NEW a \in ArenaFile, NEW image \in Images
  PROVE  Writing(a) \in ArenaFile /\ Written(a, image) \in ArenaFile
<1>1. Other(a.active) \in Buffers
  BY DEF ArenaFile, Buffers, Other
<1>2. Writing(a) \in ArenaFile
  BY Zenon, <1>1 DEF ArenaFile, Writing
<1>3. Written(a, image) \in ArenaFile
  BY Zenon, <1>1 DEF ArenaFile, Written
<1> QED
  BY Zenon, <1>2, <1>3

\* A fresh arena and an empty graph satisfy the invariant.
LEMMA InitSwap == Init => SwapInv
<1> SUFFICES ASSUME Init PROVE SwapInv
  BY Zenon
<1>1. Cardinality(Commits) \in Nat
  BY Zenon, ArenaAssumption, FS_CardinalityType
<1>2. arena \in ArenaFile
  BY <1>1 DEF Init, create_arena, ArenaFile, Buffers
<1>3. TypeOK
  BY Zenon, <1>2 DEF Init, TypeOK, Roots, Graphs, Buffers
<1>4. GateInv
  BY Zenon DEF Init, GateInv, Served
<1> QED
  BY Zenon, <1>3, <1>4 DEF SwapInv

\* Publishers and readers keep the types.
LEMMA TypeStep == TypeOK /\ [Next]_vars => TypeOK'
<1> SUFFICES ASSUME TypeOK, [Next]_vars PROVE TypeOK'
  BY Zenon
<1> USE DEF TypeOK
<1>1. ASSUME NEW image \in Images, BeginPublish(image) PROVE TypeOK'
  <2>1. arena' \in ArenaFile
    BY Zenon, <1>1, ArenaWrites DEF BeginPublish
  <2>2. laps' \in [Threads -> Nat]
    BY <1>1 DEF BeginPublish
  <2> QED
    BY Zenon, <1>1, <2>1, <2>2 DEF BeginPublish, Roots, cache
<1>2. CASE FinishCopy
  <2>1. writing \in Images
    BY Zenon, <1>2 DEF FinishCopy, Roots
  <2> QED
    BY Zenon, <1>2, <2>1, ArenaWrites DEF FinishCopy, cache, thread
<1>3. CASE set_arena_with_root \/ Reset
  BY Zenon, <1>3 DEF set_arena_with_root, Reset, Roots, cache, thread
<1>4. ASSUME NEW t \in Threads, maybe_swap(t) PROVE TypeOK'
  <2> USE DEF Go, shared, cache
  <2>1. CASE Poll(t)
    BY Zenon, <2>1 DEF Poll, Graphs
  <2>2. CASE Serve(t)
    BY Zenon, <2>2 DEF Serve
  <2>3. CASE OpenArena(t)
    BY Zenon, <2>3 DEF OpenArena, ArenaFile
  <2>4. CASE ReadExpected(t)
    BY Zenon, <2>4 DEF ReadExpected
  <2>5. CASE verify_arena_root(t)
    BY <2>5 DEF verify_arena_root, Return, Roots, Graphs, Buffers
  <2>6. CASE Copy(t)
    <3>1. arena.buffer[buf[t]] \in Graphs
      BY Zenon DEF ArenaFile, Graphs
    <3> QED
      BY <2>6, <3>1 DEF Copy, Return, Roots, Graphs, Buffers
  <2>7. CASE Install(t)
    BY Zenon, <2>7 DEF Install
  <2>8. CASE Done(t)
    BY Zenon, <2>8 DEF Done, Return, Roots, Graphs, Buffers
  <2> QED
    BY Zenon, <1>4, <2>1, <2>2, <2>3, <2>4, <2>5, <2>6, <2>7, <2>8 DEF maybe_swap
<1>5. CASE UNCHANGED vars
  BY Zenon, <1>5 DEF vars, shared, cache, thread
<1> QED
  BY Zenon, <1>1, <1>2, <1>3, <1>4, <1>5 DEF Next

\* Nothing that was not published passes the gate.
LEMMA GateStep == TypeOK /\ GateInv /\ [Next]_vars => GateInv'
<1> SUFFICES ASSUME TypeOK, GateInv, [Next]_vars PROVE GateInv'
  BY Zenon
<1> USE DEF GateInv, Served
<1>1. ASSUME NEW image \in Images, BeginPublish(image) PROVE GateInv'
  BY Zenon, <1>1 DEF BeginPublish, cache
<1>2. CASE FinishCopy \/ set_arena_with_root \/ Reset
  BY Zenon, <1>2 DEF FinishCopy, set_arena_with_root, Reset, cache, thread
<1>3. ASSUME NEW t \in Threads, maybe_swap(t) PROVE GateInv'
  <2> USE DEF TypeOK, Go, shared, cache
  <2>1. CASE Poll(t)
    BY Zenon, <2>1 DEF Poll
  <2>2. CASE Serve(t)
    BY Zenon, <2>2 DEF Serve
  <2>3. CASE OpenArena(t) \/ ReadExpected(t)
    BY Zenon, <2>3 DEF OpenArena, ReadExpected
  <2>4. CASE verify_arena_root(t) \/ Done(t)
    BY Zenon, <2>4 DEF verify_arena_root, Done, Return
  <2>5. CASE Copy(t)
    <3>1. arena.buffer[buf[t]] # NoRoot
      BY NoRootApart DEF ArenaFile
    <3> QED
      BY <2>5, <3>1 DEF Copy, Return
  <2>6. CASE Install(t)
    BY Zenon, <2>6 DEF Install
  <2> QED
    BY Zenon, <1>3, <2>1, <2>2, <2>3, <2>4, <2>5, <2>6 DEF maybe_swap
<1>4. CASE UNCHANGED vars
  BY Zenon, <1>4 DEF vars, shared, cache, thread
<1> QED
  BY Zenon, <1>1, <1>2, <1>3, <1>4 DEF Next

\* What write_to_arena does to the two buffers.
LEMMA ArenaBuffers ==
  ASSUME NEW a \in ArenaFile, NEW image \in Images
  PROVE  /\ Writing(a).active = a.active
         /\ Writing(a).buffer[a.active] = a.buffer[a.active]
         /\ Writing(a).buffer[Other(a.active)] = Torn
         /\ Written(a, image).active = Other(a.active)
         /\ Written(a, image).buffer[Other(a.active)] = image
         /\ Written(a, image).buffer[a.active] = a.buffer[a.active]
         /\ Other(Other(a.active)) = a.active
BY DEF ArenaFile, Buffers, Other, Writing, Written

\* The buffer of a load that at most one publish overlaps is not written.
LEMMA LapStep ==
  TypeOK /\ LapInv /\ OnePublishIsHarmless /\ [Next]_vars => (LapInv /\ OnePublishIsHarmless)'
<1> SUFFICES ASSUME TypeOK, LapInv, OnePublishIsHarmless, [Next]_vars
             PROVE (LapInv /\ OnePublishIsHarmless)'
  BY Zenon
<1> USE DEF LapInv, OnePublishIsHarmless, Loading
<1>1. ASSUME NEW image \in Images, BeginPublish(image)
      PROVE (LapInv /\ OnePublishIsHarmless)'
  <2>1. image # NoRoot
    BY Zenon, NoRootApart
  <2>2. /\ arena'.active = arena.active
        /\ arena'.buffer[arena.active] = arena.buffer[arena.active]
        /\ Copying'
    BY Zenon, <1>1, ArenaBuffers DEF BeginPublish, TypeOK, Copying
  <2>3. UNCHANGED <<pc, buf, seen, expected, graph>> /\ writing' = image /\ writing = NoRoot
    BY Zenon, <1>1 DEF BeginPublish
  <2>4. \A t \in Threads :
          /\ pc[t] \in Loading => laps'[t] = laps[t] + 1
          /\ pc[t] \notin Loading => laps'[t] = laps[t]
    BY Zenon, <1>1 DEF BeginPublish
  <2>5. \A t \in Threads : pc[t] \in Loading /\ laps'[t] <= 1 => laps[t] = 0
    BY <2>4 DEF TypeOK
  <2> QED
    BY <2>1, <2>2, <2>3, <2>4, <2>5 DEF TypeOK, ActiveImage
<1>2. CASE FinishCopy
  <2>1. writing \in Images
    BY Zenon, <1>2 DEF FinishCopy, TypeOK, Roots
  <2>2. /\ arena'.active = Other(arena.active) /\ Other(arena'.active) = arena.active
        /\ arena'.buffer[arena'.active] = writing
        /\ arena'.buffer[arena.active] = arena.buffer[arena.active]
    BY <1>2, <2>1, ArenaBuffers DEF FinishCopy, TypeOK
  <2>3. writing # Torn
    BY Zenon, <2>1, ArenaAssumption DEF Images
  <2>4. ~Copying'
    BY Zenon, <2>2 DEF Copying, ActiveImage
  <2>5. UNCHANGED <<pc, buf, seen, expected, graph, laps, writing>> /\ writing # NoRoot
    BY Zenon, <1>2 DEF FinishCopy, thread
  <2>6. Copying
    BY Zenon, <1>2 DEF FinishCopy
  <2> QED
    BY Zenon, <2>2, <2>3, <2>4, <2>5, <2>6 DEF ActiveImage
<1>3. CASE set_arena_with_root \/ Reset
  BY Zenon, <1>3 DEF set_arena_with_root, Reset, thread, Copying, ActiveImage
<1>4. ASSUME NEW t \in Threads, maybe_swap(t) PROVE (LapInv /\ OnePublishIsHarmless)'
  <2>0. UNCHANGED <<arena,
        writing>> /\ Copying' = Copying /\ ActiveImage(arena)' = ActiveImage(arena)
    BY Zenon, <1>4 DEF maybe_swap, Poll, Serve, OpenArena, ReadExpected, verify_arena_root, Copy,
                Install, Done, shared, Copying, ActiveImage
  <2> USE <2>0 DEF TypeOK, Go
  <2>1. CASE Poll(t)
    BY <2>1 DEF Poll
  <2>2. CASE Serve(t)
    BY Zenon, <2>2 DEF Serve
  <2>3. CASE OpenArena(t)
    BY <2>3 DEF OpenArena
  <2>4. CASE ReadExpected(t)
    BY Zenon, <2>4 DEF ReadExpected
  <2>5. CASE verify_arena_root(t)
    BY <2>5 DEF verify_arena_root, Return
  <2>6. CASE Copy(t)
    BY <2>6 DEF Copy, Return
  <2>7. CASE Install(t) \/ Done(t)
    BY <2>7 DEF Install, Done, Return
  <2> QED
    BY Zenon, <1>4, <2>1, <2>2, <2>3, <2>4, <2>5, <2>6, <2>7 DEF maybe_swap
<1>5. CASE UNCHANGED vars
  BY Zenon, <1>5 DEF vars, shared, thread, Copying, ActiveImage
<1> QED
  BY Zenon, <1>1, <1>2, <1>3, <1>4, <1>5 DEF Next

\* While no image is published twice a root never comes back.
LEMMA OnceStep ==
  ASSUME Republish = FALSE
  PROVE  TypeOK /\ OnceInv /\ [Next]_vars => OnceInv'
<1> SUFFICES ASSUME TypeOK, OnceInv, [Next]_vars PROVE OnceInv'
  BY Zenon
<1>0. NoRoot \notin published
  BY Zenon, NoRootApart DEF OnceInv
<1> USE <1>0 DEF OnceInv, Loading
<1>1. ASSUME NEW image \in Images, BeginPublish(image) PROVE OnceInv'
  BY Zenon, <1>1 DEF BeginPublish, cache
<1>2. CASE FinishCopy
  BY Zenon, <1>2 DEF FinishCopy, cache, thread
<1>3. CASE set_arena_with_root
  <2>1. writing \in Images
    BY Zenon, <1>3 DEF set_arena_with_root, TypeOK, Roots
  <2>2. NoRoot \notin published'
    BY Zenon, <1>3 DEF set_arena_with_root
  <2> QED
    BY Zenon, <1>3, <2>1, <2>2 DEF set_arena_with_root, cache, thread
<1>4. CASE Reset
  BY Zenon, <1>4 DEF Reset, cache, thread
<1>5. ASSUME NEW t \in Threads, maybe_swap(t) PROVE OnceInv'
  <2> USE DEF TypeOK, Go, shared, cache
  <2>1. CASE Poll(t)
    BY <2>1 DEF Poll
  <2>2. CASE Serve(t)
    BY Zenon, <2>2 DEF Serve
  <2>3. CASE OpenArena(t)
    BY Zenon, <2>3 DEF OpenArena
  <2>4. CASE ReadExpected(t)
    BY Zenon, <2>4 DEF ReadExpected
  <2>5. CASE verify_arena_root(t)
    BY <2>5 DEF verify_arena_root, Return
  <2>6. CASE Copy(t)
    BY <2>6 DEF Copy, Return
  <2>7. CASE Install(t)
    BY Zenon, <2>7 DEF Install
  <2>8. CASE Done(t)
    BY Zenon, <2>8 DEF Done, Return
  <2> QED
    BY Zenon, <1>5, <2>1, <2>2, <2>3, <2>4, <2>5, <2>6, <2>7, <2>8 DEF maybe_swap
<1>6. CASE UNCHANGED vars
  BY Zenon, <1>6 DEF vars, shared, cache, thread
<1> QED
  BY Zenon, <1>1, <1>2, <1>3, <1>4, <1>5, <1>6 DEF Next

-----------------------------------------------------------------------------
\* The types and the gate's invariant hold in every behaviour.
THEOREM SwapInvariance == Spec => []SwapInv
<1>1. SwapInv /\ [Next]_vars => SwapInv'
  BY Zenon, TypeStep, GateStep DEF SwapInv
<1> QED
  BY InitSwap, <1>1, PTL DEF Spec

\* VerifiedArena::read_all serves only bytes that verified against the root of its
\* load: behind the gate a read is served from an image that was published, or from
\* the empty graph, however publishes overlap the load.
THEOREM GateHolds == Spec => []GateServesPublished
<1>1. SwapInv => GateServesPublished
  BY Zenon DEF SwapInv, GateInv, Served, GateServesPublished
<1> QED
  BY <1>1, SwapInvariance, PTL

\* SqliteGraph::from_arena hashes the mapped buffer and then copies it: while at most one
\* publish overlaps the load, what it copies is what it verified, gate or no gate.
THEOREM LoadsWhatItVerified == Spec => []OnePublishIsHarmless
<1>1. Init => LapInv /\ OnePublishIsHarmless
  <2> SUFFICES ASSUME Init PROVE LapInv /\ OnePublishIsHarmless
    BY Zenon
  <2>1. /\ arena.active = 0 /\ arena.buffer[0] = Blank /\ arena.buffer[1] = Blank
        /\ Other(0) = 1
    BY DEF Init, create_arena, Buffers, Other
  <2>2. ~Copying /\ ActiveImage(arena) # Torn
    BY Zenon, <2>1, ArenaAssumption DEF Copying, ActiveImage
  <2> QED
    BY Zenon, <2>2 DEF Init, LapInv, OnePublishIsHarmless, Loading
<1>2. SwapInv => TypeOK
  BY Zenon DEF SwapInv
<1> QED
  BY <1>1, <1>2, LapStep, SwapInvariance, PTL DEF Spec

\* HotSwapGraph::maybe_swap, "Same root -> no swap": behind the gate, if no image is
\* published a second time, a cached root that is the current one means the graph in
\* inner is that root's image, whichever thread installed last.
THEOREM CachedRootHolds ==
  ASSUME Republish = FALSE
  PROVE  Spec => []CachedRootIsServed
<1>1. Init => OnceInv
  BY Zenon DEF Init, OnceInv, Loading
<1>2. SwapInv => TypeOK
  BY Zenon DEF SwapInv
<1>3. OnceInv => CachedRootIsServed
  BY Zenon DEF OnceInv, CachedRootIsServed
<1> QED
  BY <1>1, <1>2, <1>3, OnceStep, SwapInvariance, PTL DEF Spec

-----------------------------------------------------------------------------
(* The pool of copies that reads of one adapter borrow.  The inductive      *)
(* invariant adds to StampAtMostOneBehind who holds the writer mutex, that  *)
(* generations publish growing databases, and how far the cached bytes may  *)
(* be behind the generation.                                                *)

Refreshing == {"drain", "store"}

\* refresh_readers runs under the writer mutex.
LockInv ==
  \A w \in Writers : wpc[w] \in {"bump"} \cup Refreshing => writerLock = w

\* Each generation publishes at least what the one before published.
GrowthInv ==
  /\ \A g, h \in 0..gen : g <= h => refreshed[g] <= refreshed[h]
  /\ refreshed[gen] <= db

\* A refresh holds a newer database than the last, and then publishes it.
SerializedInv ==
  \A w \in Writers :
    /\ wpc[w] = "bump" => refreshed[gen] <= serialized[w] /\ serialized[w] <= db
    /\ wpc[w] \in Refreshing => serialized[w] = refreshed[gen]

\* The cached bytes are behind the generation only inside a refresh, by one.
BytesInv ==
  /\ readerBytes >= refreshed[Previous(gen)]
  /\ (\A w \in Writers : wpc[w] \notin Refreshing) => readerBytes = refreshed[gen]

ReaderGenInv == \A r \in Readers : myGen[r] <= gen

StampInv ==
  /\ PoolTypeOK /\ LockInv /\ GrowthInv /\ SerializedInv /\ BytesInv /\ ReaderGenInv
  /\ StampAtMostOneBehind

-----------------------------------------------------------------------------
\* ArrayQueue::pop: the first copy goes, the others stay as they are.
LEMMA QueuePop ==
  ASSUME NEW S, NEW q \in Seq(S), q # << >>
  PROVE  /\ Head(q) \in S /\ Head(q) = q[1] /\ 1 \in 1..Len(q)
         /\ Tail(q) \in Seq(S) /\ Len(Tail(q)) = Len(q) - 1
         /\ \A i \in 1..Len(Tail(q)) : Tail(q)[i] = q[i + 1] /\ i + 1 \in 1..Len(q)
  OBVIOUS

\* ArrayQueue::push: the copy goes last, the others stay as they are.
LEMMA QueuePush ==
  ASSUME NEW S, NEW q \in Seq(S), NEW c \in S
  PROVE  /\ Append(q, c) \in Seq(S) /\ Len(Append(q, c)) = Len(q) + 1
         /\ \A i \in 1..Len(Append(q, c)) :
              Append(q, c)[i] = c \/ (i \in 1..Len(q) /\ Append(q, c)[i] = q[i])
  OBVIOUS

\* The adapter as SqliteGraphAdapter::build leaves it satisfies the invariant.
LEMMA InitStamp ==
  ASSUME PoolInit
  PROVE  StampInv
<1> USE PoolAssumption DEF PoolInit
<1>1. PoolTypeOK
  BY DEF PoolTypeOK, PooledCopy, WriterSteps, ReaderSteps
<1>2. LockInv /\ SerializedInv /\ ReaderGenInv
  BY DEF LockInv, SerializedInv, ReaderGenInv, Refreshing
<1>3. GrowthInv /\ BytesInv
  BY DEF GrowthInv, BytesInv, Previous
<1>4. StampAtMostOneBehind
  BY DEF StampAtMostOneBehind, StampedWithin, Previous
<1> QED
  BY Zenon, <1>1, <1>2, <1>3, <1>4 DEF StampInv

\* Every step of with_reader, write_record and refresh_readers keeps the types.
LEMMA PoolTypeStep ==
  ASSUME PoolTypeOK, [PoolNext]_poolVars
  PROVE  PoolTypeOK'
<1> USE PoolAssumption DEF PoolTypeOK, WriterSteps, ReaderSteps, database,
        refreshing, reading, ghosts
<1>1. ASSUME NEW w \in Writers, WriterStep(w) PROVE PoolTypeOK'
  <2>1. CASE write_record(w)
    BY <2>1 DEF write_record
  <2>2. CASE Serialize(w)
    BY Zenon, <2>2 DEF Serialize
  <2>3. CASE SerializeFails(w)
    BY Zenon, <2>3 DEF SerializeFails
  <2>4. CASE BumpGeneration(w)
    BY <2>4 DEF BumpGeneration
  <2>5. CASE Drain(w)
    <3>1. pool # << >> => Tail(pool) \in Seq(PooledCopy) /\ Len(Tail(pool)) <= PoolSize
      BY QueuePop
    <3> QED
      BY Zenon, <2>5, <3>1 DEF Drain
  <2>6. CASE StoreReaderBytes(w)
    BY Zenon, <2>6 DEF StoreReaderBytes
  <2> QED
    BY Zenon, <1>1, <2>1, <2>2, <2>3, <2>4, <2>5, <2>6 DEF WriterStep
<1>2. ASSUME NEW r \in Readers, with_reader(r) PROVE PoolTypeOK'
  <2>1. CASE LoadGeneration(r)
    BY Zenon, <2>1 DEF LoadGeneration
  <2>2. CASE Pop(r)
    <3>1. /\ Head(pool) \in PooledCopy /\ Tail(pool) \in Seq(PooledCopy)
          /\ Len(Tail(pool)) <= PoolSize
      BY <2>2, QueuePop DEF Pop
    <3> QED
      BY ZenonT(60), <2>2, <3>1 DEF Pop
  <2>3. CASE MakeReader(r)
    BY Zenon, <2>3 DEF MakeReader, PooledCopy
  <2>4. CASE CheckGeneration(r)
    BY Zenon, <2>4 DEF CheckGeneration
  <2>5. CASE Push(r)
    <3>1. pool \in Seq(PooledCopy) /\ mine[r] \in PooledCopy
      BY Zenon
    <3>2. /\ Append(pool, mine[r]) \in Seq(PooledCopy)
          /\ Len(pool) < PoolSize => Len(Append(pool, mine[r])) <= PoolSize
      BY <3>1, QueuePush
    <3>3. pool' \in Seq(PooledCopy) /\ Len(pool') <= PoolSize
      BY Zenon, <2>5, <3>1, <3>2 DEF Push
    <3> QED
      BY Zenon, <2>5, <3>3 DEF Push
  <2> QED
    BY Zenon, <1>2, <2>1, <2>2, <2>3, <2>4, <2>5 DEF with_reader
<1>3. CASE UNCHANGED poolVars
  BY Zenon, <1>3 DEF poolVars
<1> QED
  BY Zenon, <1>1, <1>2, <1>3 DEF PoolNext

-----------------------------------------------------------------------------
\* The steps of with_reader leave the database, the writers and the refreshes.
LEMMA ReaderFrame ==
  ASSUME NEW r \in Readers, with_reader(r)
  PROVE  UNCHANGED <<db, readerBytes, gen, refreshing, ghosts>>
BY Zenon DEF with_reader, LoadGeneration, Pop, MakeReader, CheckGeneration,
   Push, database

\* refresh_readers runs under the writer mutex, so refreshes come one by one.
LEMMA LockStep ==
  ASSUME StampInv, [PoolNext]_poolVars
  PROVE  LockInv'
<1> USE PoolAssumption DEF StampInv, PoolTypeOK, LockInv, Refreshing
<1>1. ASSUME NEW w \in Writers, WriterStep(w) PROVE LockInv'
  <2>1. CASE write_record(w)
    BY <2>1 DEF write_record
  <2>2. CASE Serialize(w)
    BY <2>2 DEF Serialize
  <2>3. CASE SerializeFails(w)
    BY <2>3 DEF SerializeFails
  <2>4. CASE BumpGeneration(w)
    BY <2>4 DEF BumpGeneration
  <2>5. CASE Drain(w)
    BY <2>5 DEF Drain
  <2>6. CASE StoreReaderBytes(w)
    BY <2>6 DEF StoreReaderBytes
  <2> QED
    BY Zenon, <1>1, <2>1, <2>2, <2>3, <2>4, <2>5, <2>6 DEF WriterStep
<1>2. ASSUME NEW r \in Readers, with_reader(r) PROVE LockInv'
  BY <1>2, ReaderFrame DEF refreshing
<1>3. CASE UNCHANGED poolVars
  BY Zenon, <1>3 DEF poolVars, refreshing
<1> QED
  BY Zenon, <1>1, <1>2, <1>3 DEF PoolNext

\* Generations publish growing databases, and the cached bytes are behind the
\* generation only inside a refresh.
LEMMA RefreshStep ==
  ASSUME StampInv, [PoolNext]_poolVars
  PROVE  GrowthInv' /\ SerializedInv' /\ BytesInv'
<1> USE PoolAssumption DEF GrowthInv, SerializedInv, BytesInv, Refreshing, Previous
<1> PoolTypeOK /\ LockInv /\ GrowthInv /\ SerializedInv /\ BytesInv
  BY Zenon DEF StampInv
<1>1. ASSUME NEW w \in Writers, WriterStep(w)
      PROVE  GrowthInv' /\ SerializedInv' /\ BytesInv'
  <2>1. CASE write_record(w)
    BY <2>1 DEF write_record, PoolTypeOK, ghosts
  <2>2. CASE Serialize(w)
    BY <2>2 DEF Serialize, PoolTypeOK, database, ghosts
  <2>3. CASE SerializeFails(w)
    BY Zenon, <2>3 DEF SerializeFails, PoolTypeOK, database, ghosts
  <2>4. CASE BumpGeneration(w)
    <3>1. \A v \in Writers : v # w => wpc[v] \notin {"bump"} \cup Refreshing
      BY Zenon, <2>4 DEF BumpGeneration, LockInv
    <3>2. readerBytes = refreshed[gen]
      BY Zenon, <2>4, <3>1 DEF BumpGeneration, PoolTypeOK
    <3>3. /\ gen' = gen + 1 /\ gen \in Nat
          /\ \A g \in 0..gen : refreshed'[g] = refreshed[g]
          /\ refreshed'[gen + 1] = serialized[w]
      BY <2>4 DEF BumpGeneration, PoolTypeOK
    <3>4. GrowthInv'
      <4>1. /\ refreshed[gen] <= serialized[w] /\ serialized[w] <= db /\ db' = db
            /\ serialized[w] \in Nat /\ \A g \in 0..gen : refreshed[g] \in Nat
        <5>1. wpc[w] = "bump" /\ db' = db
          BY Zenon, <2>4 DEF BumpGeneration
        <5>2. serialized[w] \in Nat /\ \A g \in 0..gen : refreshed[g] \in Nat
          BY Zenon DEF PoolTypeOK
        <5>3. refreshed[gen] <= serialized[w] /\ serialized[w] <= db
          BY Zenon, <5>1
        <5> QED
          BY Zenon, <5>1, <5>2, <5>3
      <4>2. ASSUME NEW g \in 0..(gen + 1), NEW h \in 0..(gen + 1), g <= h
            PROVE  refreshed'[g] <= refreshed'[h]
        <5>1. CASE h \in 0..gen
          BY <3>3, <4>2, <5>1
        <5>2. CASE h = gen + 1 /\ g = h
          BY <3>3, <4>1, <5>2
        <5>3. CASE h = gen + 1 /\ g \in 0..gen
          <6>1. gen \in 0..gen /\ g <= gen
            BY <3>3, <5>3
          <6>2. refreshed[g] <= refreshed[gen]
            BY Zenon, <5>3, <6>1
          <6> QED
            BY <3>3, <4>1, <5>3, <6>1, <6>2
        <5> QED
          BY <3>3, <5>1, <5>2, <5>3
      <4> QED
        BY Zenon, <3>3, <4>1, <4>2
    <3>5. SerializedInv' /\ BytesInv'
      BY <2>4, <3>1, <3>2, <3>3 DEF BumpGeneration, PoolTypeOK
    <3> QED
      BY Zenon, <3>4, <3>5
  <2>5. CASE Drain(w)
    BY Zenon, <2>5 DEF Drain, PoolTypeOK, ghosts
  <2>6. CASE StoreReaderBytes(w)
    <3>1. \A v \in Writers : v # w => wpc[v] \notin {"bump"} \cup Refreshing
      BY Zenon, <2>6 DEF StoreReaderBytes, LockInv
    <3> QED
      BY <2>6, <3>1 DEF StoreReaderBytes, PoolTypeOK
  <2> QED
    BY Zenon, <1>1, <2>1, <2>2, <2>3, <2>4, <2>5, <2>6 DEF WriterStep
<1>2. ASSUME NEW r \in Readers, with_reader(r)
      PROVE  GrowthInv' /\ SerializedInv' /\ BytesInv'
  BY Zenon, <1>2, ReaderFrame DEF refreshing, ghosts
<1>3. CASE UNCHANGED poolVars
  BY Zenon, <1>3 DEF poolVars, database, refreshing, ghosts
<1> QED
  BY Zenon, <1>1, <1>2, <1>3 DEF PoolNext

\* A read's generation is one that has begun.
LEMMA ReaderGenStep ==
  ASSUME StampInv, [PoolNext]_poolVars
  PROVE  ReaderGenInv'
<1> USE DEF StampInv, PoolTypeOK, ReaderGenInv
<1>1. ASSUME NEW w \in Writers, WriterStep(w) PROVE ReaderGenInv'
  <2>1. CASE write_record(w)
    BY <2>1 DEF write_record, reading, database
  <2>2. CASE Serialize(w)
    BY <2>2 DEF Serialize, reading, database
  <2>3. CASE SerializeFails(w)
    BY <2>3 DEF SerializeFails, reading, database
  <2>4. CASE BumpGeneration(w)
    BY <2>4 DEF BumpGeneration, reading, database
  <2>5. CASE Drain(w)
    BY <2>5 DEF Drain, reading, database
  <2>6. CASE StoreReaderBytes(w)
    BY <2>6 DEF StoreReaderBytes, reading, database
  <2> QED
    BY Zenon, <1>1, <2>1, <2>2, <2>3, <2>4, <2>5, <2>6 DEF WriterStep
<1>2. ASSUME NEW r \in Readers, with_reader(r) PROVE ReaderGenInv'
  <2>1. CASE LoadGeneration(r)
    BY <2>1 DEF LoadGeneration, database
  <2>2. CASE Pop(r)
    BY <2>2 DEF Pop, database
  <2>3. CASE MakeReader(r)
    BY <2>3 DEF MakeReader, database
  <2>4. CASE CheckGeneration(r)
    BY <2>4 DEF CheckGeneration, database
  <2>5. CASE Push(r)
    BY <2>5 DEF Push, database
  <2> QED
    BY Zenon, <1>2, <2>1, <2>2, <2>3, <2>4, <2>5 DEF with_reader
<1>3. CASE UNCHANGED poolVars
  BY Zenon, <1>3 DEF poolVars, database, reading
<1> QED
  BY Zenon, <1>1, <1>2, <1>3 DEF PoolNext

-----------------------------------------------------------------------------
\* What a generation published is never changed.
LEMMA GenerationsGrow ==
  ASSUME StampInv, [PoolNext]_poolVars
  PROVE  /\ gen \in Nat /\ gen' \in Nat /\ gen <= gen'
         /\ \A g \in 0..gen : refreshed'[g] = refreshed[g]
<1>1. ASSUME NEW w \in Writers, WriterStep(w)
      PROVE  /\ gen \in Nat /\ gen' \in Nat /\ gen <= gen'
             /\ \A g \in 0..gen : refreshed'[g] = refreshed[g]
  <2>1. CASE write_record(w)
    BY <2>1 DEF write_record, database, ghosts, StampInv, PoolTypeOK
  <2>2. CASE Serialize(w)
    BY <2>2 DEF Serialize, database, ghosts, StampInv, PoolTypeOK
  <2>3. CASE SerializeFails(w)
    BY <2>3 DEF SerializeFails, database, ghosts, StampInv, PoolTypeOK
  <2>4. CASE BumpGeneration(w)
    BY <2>4 DEF BumpGeneration, database, ghosts, StampInv, PoolTypeOK
  <2>5. CASE Drain(w)
    BY <2>5 DEF Drain, database, ghosts, StampInv, PoolTypeOK
  <2>6. CASE StoreReaderBytes(w)
    BY <2>6 DEF StoreReaderBytes, database, ghosts, StampInv, PoolTypeOK
  <2> QED
    BY Zenon, <1>1, <2>1, <2>2, <2>3, <2>4, <2>5, <2>6 DEF WriterStep
<1>2. ASSUME NEW r \in Readers, with_reader(r)
      PROVE  gen \in Nat /\ gen' = gen /\ refreshed' = refreshed
  BY Zenon, <1>2, ReaderFrame DEF ghosts, StampInv, PoolTypeOK
<1>3. CASE UNCHANGED poolVars
  BY <1>3 DEF poolVars, database, ghosts, StampInv, PoolTypeOK
<1> QED
  BY <1>1, <1>2, <1>3 DEF PoolNext

\* StampedWithin over any generation and any history of refreshes.
Within(c, g, out) == c.gen <= g /\ c.version >= out[Previous(c.gen)]

\* A stamp stays good when generations are added.
LEMMA StampStable ==
  ASSUME NEW c \in PooledCopy, NEW g \in Nat, NEW h \in Nat, g <= h, NEW p, NEW q,
         \A k \in 0..g : q[k] = p[k], Within(c, g, p)
  PROVE  Within(c, h, q)
BY DEF Within, Previous, PooledCopy

\* A copy with_reader makes from the cached bytes carries a good stamp, although
\* refresh_readers may be between the generation and the bytes.
LEMMA MadeWithin ==
  ASSUME StampInv, NEW r \in Readers
  PROVE  StampedWithin([version |-> readerBytes, gen |-> myGen[r]])
<1>1. myGen[r] \in 0..gen /\ gen \in Nat
  BY DEF StampInv, PoolTypeOK, ReaderGenInv
<1>2. /\ Previous(myGen[r]) \in 0..gen /\ Previous(gen) \in 0..gen
      /\ Previous(myGen[r]) <= Previous(gen)
  BY <1>1 DEF Previous
<1>3. refreshed[Previous(myGen[r])] <= refreshed[Previous(gen)]
  BY Zenon, <1>2 DEF StampInv, GrowthInv
<1>4. /\ refreshed[Previous(myGen[r])] \in Nat /\ refreshed[Previous(gen)] \in Nat
      /\ readerBytes \in Nat /\ readerBytes >= refreshed[Previous(gen)]
  BY Zenon, <1>2 DEF StampInv, PoolTypeOK, BytesInv
<1>5. readerBytes >= refreshed[Previous(myGen[r])]
  BY <1>3, <1>4
<1> QED
  BY <1>1, <1>5 DEF StampedWithin

\* Every step keeps the stamps of the queued and the borrowed copies good.
LEMMA StampStep ==
  ASSUME StampInv, [PoolNext]_poolVars
  PROVE  StampAtMostOneBehind'
<1> DEFINE Good(c) == Within(c, gen', refreshed')
<1> PoolTypeOK /\ StampAtMostOneBehind
  BY Zenon DEF StampInv
<1>1. /\ gen \in Nat /\ gen' \in Nat /\ gen <= gen'
      /\ \A g \in 0..gen : refreshed'[g] = refreshed[g]
  BY Zenon, GenerationsGrow
<1>2. ASSUME NEW i \in 1..Len(pool) PROVE Good(pool[i])
  <2>1. pool[i] \in PooledCopy /\ Within(pool[i], gen, refreshed)
    BY DEF PoolTypeOK, StampAtMostOneBehind, StampedWithin, Within
  <2> QED
    BY Zenon, <1>1, <2>1, StampStable
<1>3. ASSUME NEW r \in Readers, rpc[r] \in {"use", "push"} PROVE Good(mine[r])
  <2>1. mine[r] \in PooledCopy /\ Within(mine[r], gen, refreshed)
    BY Zenon, <1>3 DEF PoolTypeOK, StampAtMostOneBehind, StampedWithin, Within
  <2> QED
    BY Zenon, <1>1, <2>1, StampStable
<1>4. ASSUME pool # << >>
      PROVE  Good(Head(pool)) /\ \A i \in 1..Len(Tail(pool)) : Good(Tail(pool)[i])
  <2>1. pool \in Seq(PooledCopy)
    BY Zenon DEF PoolTypeOK
  <2>2. /\ Head(pool) = pool[1] /\ 1 \in 1..Len(pool)
        /\ \A i \in 1..Len(Tail(pool)) :
             Tail(pool)[i] = pool[i + 1] /\ i + 1 \in 1..Len(pool)
    BY Zenon, <1>4, <2>1, QueuePop
  <2> QED
    BY Zenon, <1>2, <2>2
<1> SUFFICES /\ \A i \in 1..Len(pool') : Good(pool'[i])
             /\ \A r \in Readers : rpc'[r] \in {"use", "push"} => Good(mine'[r])
  BY Zenon DEF StampAtMostOneBehind, StampedWithin, Within
<1> HIDE DEF Good
<1>5. ASSUME NEW w \in Writers, WriterStep(w)
      PROVE  (pool' = pool \/ (pool # << >> /\ pool' = Tail(pool)))
             /\ rpc' = rpc /\ mine' = mine
  BY Zenon, <1>5 DEF WriterStep, write_record, Serialize, SerializeFails,
     BumpGeneration,
     Drain, StoreReaderBytes, database, reading
<1>6. ASSUME NEW r \in Readers, with_reader(r)
      PROVE  /\ \A i \in 1..Len(pool') : Good(pool'[i])
             /\ \A t \in Readers : rpc'[t] \in {"use", "push"} => Good(mine'[t])
  <2>1. CASE LoadGeneration(r)
    BY Zenon, <1>2, <1>3, <2>1 DEF LoadGeneration, database, PoolTypeOK
  <2>2. CASE Pop(r)
    BY Zenon, <1>3, <1>4, <2>2 DEF Pop, PoolTypeOK
  <2>3. CASE MakeReader(r)
    <3>1. Good([version |-> readerBytes, gen |-> myGen[r]])
      BY Zenon, <2>3, MadeWithin DEF MakeReader, Good, StampedWithin, Within, database,
         ghosts
    <3> QED
      BY Zenon, <1>2, <1>3, <2>3, <3>1 DEF MakeReader, database, PoolTypeOK
  <2>4. CASE CheckGeneration(r)
    BY Zenon, <1>2, <1>3, <2>4 DEF CheckGeneration, database, PoolTypeOK
  <2>5. CASE Push(r)
    <3>1. mine[r] \in PooledCopy /\ pool \in Seq(PooledCopy) /\ Good(mine[r])
      BY Zenon, <1>3, <2>5 DEF Push, PoolTypeOK
    <3>2. \A i \in 1..Len(Append(pool, mine[r])) : Good(Append(pool, mine[r])[i])
      BY <1>2, <3>1, QueuePush
    <3> QED
      BY Zenon, <1>2, <1>3, <2>5, <3>2 DEF Push, PoolTypeOK
  <2> QED
    BY Zenon, <1>6, <2>1, <2>2, <2>3, <2>4, <2>5 DEF with_reader
<1>7. CASE UNCHANGED poolVars
  BY Zenon, <1>2, <1>3, <1>7 DEF poolVars, database, reading
<1> QED
  BY Zenon, <1>2, <1>3, <1>4, <1>5, <1>6, <1>7 DEF PoolNext

-----------------------------------------------------------------------------
\* StampInv is an invariant of the reader pool.
THEOREM PoolInvariance == PoolSpec => []StampInv
<1>1. PoolInit => StampInv
  BY Zenon, InitStamp
<1>2. StampInv /\ [PoolNext]_poolVars => StampInv'
  <2> SUFFICES ASSUME StampInv, [PoolNext]_poolVars PROVE StampInv'
    BY Zenon
  <2>1. PoolTypeOK'
    BY Zenon, PoolTypeStep DEF StampInv
  <2> QED
    BY Zenon, <2>1, LockStep, RefreshStep, ReaderGenStep, StampStep DEF StampInv
<1> QED
  BY <1>1, <1>2, PTL DEF PoolSpec

\* The queue never exceeds its capacity and all state keeps its type, for any
\* number of threads, writes and queue slots.
THEOREM PoolTypeCorrect == PoolSpec => []PoolTypeOK
<1>1. StampInv => PoolTypeOK
  BY Zenon DEF StampInv
<1> QED
  BY <1>1, PoolInvariance, PTL

\* However reads and refreshes interleave, a copy with_reader runs on is missing
\* at most the writes of the refresh its stamp names.
THEOREM AtMostOneBehind == PoolSpec => []StampAtMostOneBehind
<1>1. StampInv => StampAtMostOneBehind
  BY Zenon DEF StampInv
<1> QED
  BY <1>1, PoolInvariance, PTL
=============================================================================
