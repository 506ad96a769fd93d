----------------------------- MODULE ReaderPool -----------------------------
(***************************************************************************)
(* SqliteGraphAdapter's reader pool (rs/ll-open/fs/src/graph.rs): one      *)
(* writer connection, a bounded queue of in-memory copies of it that reads *)
(* borrow, and a generation that tells fresh copies from stale ones.       *)
(*                                                                         *)
(* The database is abstracted to the number of writes it holds.  A copy is *)
(* [version |-> the writes in it, gen |-> the generation it is stamped     *)
(* with].                                                                  *)
(***************************************************************************)
EXTENDS Integers, Sequences

CONSTANTS Readers, Writers,  \* threads reading and threads writing
          PoolSize,          \* the queue's capacity, at least 1
          NoOne,             \* nobody holds the writer mutex
          MaxWrites          \* bound on the writes

ASSUME PoolAssumption ==
  PoolSize \in Nat \ {0} /\ MaxWrites \in Nat /\ NoOne \notin Writers

VARIABLES db,           \* writes the writer connection holds
          readerBytes,  \* writes in the cached bytes, reader_bytes
          gen,          \* reader_gen
          pool,         \* readers, the queue of copies
          writerLock,   \* holder of the writer mutex inside refresh_readers
          wpc, serialized,    \* a writer's step and the bytes it serialized
          rpc, myGen, mine,   \* a reader's step, current_gen and copy
          acked,        \* ghost: every write up to this one has returned
          floor,        \* ghost: acked when the read began
          refreshed     \* ghost: refreshed[g] is what generation g publishes

database == <<db, readerBytes, gen, pool>>
refreshing == <<writerLock, wpc, serialized>>
reading == <<rpc, myGen, mine, floor>>
ghosts == <<acked, refreshed>>
poolVars == <<database, refreshing, reading, ghosts>>

PooledCopy == [version : Nat, gen : Nat]
WriterSteps == {"idle", "written", "bump", "drain", "store"}
ReaderSteps == {"idle", "pop", "use", "push"}

\* The first PoolSize copies are made with the adapter, in generation 0.
PoolInit ==
  /\ db = 0 /\ readerBytes = 0 /\ gen = 0 /\ acked = 0
  /\ pool = [i \in 1..PoolSize |-> [version |-> 0, gen |-> 0]]
  /\ writerLock = NoOne
  /\ wpc = [w \in Writers |-> "idle"]
  /\ serialized = [w \in Writers |-> 0]
  /\ rpc = [r \in Readers |-> "idle"]
  /\ myGen = [r \in Readers |-> 0]
  /\ mine = [r \in Readers |-> [version |-> 0, gen |-> 0]]
  /\ floor = [r \in Readers |-> 0]
  /\ refreshed = [g \in 0..0 |-> 0]

-----------------------------------------------------------------------------
\* write_record's update, under the mutex.  The guard is dropped before
\* refresh_readers takes the mutex again.
write_record(w) ==
  /\ wpc[w] = "idle" /\ writerLock = NoOne /\ db < MaxWrites
  /\ db' = db + 1
  /\ wpc' = [wpc EXCEPT ![w] = "written"]
  /\ UNCHANGED <<readerBytes, gen, pool, writerLock, serialized, reading, ghosts>>

Serialize(w) ==
  /\ wpc[w] = "written" /\ writerLock = NoOne
  /\ writerLock' = w
  /\ serialized' = [serialized EXCEPT ![w] = db]
  /\ wpc' = [wpc EXCEPT ![w] = "bump"]
  /\ UNCHANGED <<database, reading, ghosts>>

\* serialize fails: the write stays in the database and returns the error.
SerializeFails(w) ==
  /\ wpc[w] = "written" /\ writerLock = NoOne
  /\ wpc' = [wpc EXCEPT ![w] = "idle"]
  /\ UNCHANGED <<database, writerLock, serialized, reading, ghosts>>

BumpGeneration(w) ==
  /\ wpc[w] = "bump"
  /\ gen' = gen + 1
  /\ refreshed' = [g \in 0..(gen + 1) |->
                     IF g = gen + 1 THEN serialized[w] ELSE refreshed[g]]
  /\ wpc' = [wpc EXCEPT ![w] = "drain"]
  /\ UNCHANGED <<db, readerBytes, pool, writerLock, serialized, reading, acked>>

\* One pop of the drain, which ends when it finds the queue empty.
Drain(w) ==
  /\ wpc[w] = "drain"
  /\ \/ pool # << >> /\ pool' = Tail(pool) /\ UNCHANGED wpc
     \/ pool = << >> /\ wpc' = [wpc EXCEPT ![w] = "store"] /\ UNCHANGED pool
  /\ UNCHANGED <<db, readerBytes, gen, writerLock, serialized, reading, ghosts>>

\* The cached bytes are replaced, the mutex released, and the write returns.
StoreReaderBytes(w) ==
  /\ wpc[w] = "store"
  /\ readerBytes' = serialized[w]
  /\ writerLock' = NoOne
  /\ acked' = serialized[w]
  /\ wpc' = [wpc EXCEPT ![w] = "idle"]
  /\ UNCHANGED <<db, gen, pool, serialized, reading, refreshed>>

-----------------------------------------------------------------------------
\* with_reader loads the generation.
LoadGeneration(r) ==
  /\ rpc[r] = "idle"
  /\ myGen' = [myGen EXCEPT ![r] = gen]
  /\ floor' = [floor EXCEPT ![r] = acked]
  /\ rpc' = [rpc EXCEPT ![r] = "pop"]
  /\ UNCHANGED <<database, refreshing, mine, ghosts>>

\* Mutant: a popped copy is used, and goes back, under this read's generation.
PopRestamped(r) ==
  /\ rpc[r] = "pop" /\ pool # << >>
  /\ pool' = Tail(pool)
  /\ mine' = [mine EXCEPT ![r] = [Head(pool) EXCEPT !.gen = myGen[r]]]
  /\ rpc' = [rpc EXCEPT ![r] = "use"]
  /\ UNCHANGED <<db, readerBytes, gen, refreshing, myGen, floor, ghosts>>

\* A popped copy of this read's generation is borrowed, another discarded.
Pop(r) ==
  /\ rpc[r] = "pop" /\ pool # << >>
  /\ pool' = Tail(pool)
  /\ IF Head(pool).gen = myGen[r]
       THEN /\ mine' = [mine EXCEPT ![r] = Head(pool)]
            /\ rpc' = [rpc EXCEPT ![r] = "use"]
       ELSE UNCHANGED <<mine, rpc>>
  /\ UNCHANGED <<db, readerBytes, gen, refreshing, myGen, floor, ghosts>>

\* The queue is empty: the copy is made from the cached bytes and stamped with
\* the generation loaded before.
MakeReader(r) ==
  /\ rpc[r] = "pop" /\ pool = << >>
  /\ mine' = [mine EXCEPT ![r] = [version |-> readerBytes, gen |-> myGen[r]]]
  /\ rpc' = [rpc EXCEPT ![r] = "use"]
  /\ UNCHANGED <<database, refreshing, myGen, floor, ghosts>>

\* The closure has run; a copy of the current generation is to go back.
CheckGeneration(r) ==
  /\ rpc[r] = "use"
  /\ rpc' = [rpc EXCEPT ![r] = IF mine[r].gen = gen THEN "push" ELSE "idle"]
  /\ UNCHANGED <<database, refreshing, myGen, mine, floor, ghosts>>

\* A full queue refuses the push and the copy is dropped.
Push(r) ==
  /\ rpc[r] = "push"
  /\ pool' = IF Len(pool) < PoolSize THEN Append(pool, mine[r]) ELSE pool
  /\ rpc' = [rpc EXCEPT ![r] = "idle"]
  /\ UNCHANGED <<db, readerBytes, gen, refreshing, myGen, mine, floor, ghosts>>

-----------------------------------------------------------------------------
WriterStep(w) ==
  \/ write_record(w) \/ Serialize(w) \/ SerializeFails(w) \/ BumpGeneration(w)
  \/ Drain(w) \/ StoreReaderBytes(w)

with_reader(r) ==
  LoadGeneration(r) \/ Pop(r) \/ MakeReader(r) \/ CheckGeneration(r) \/ Push(r)

PoolNext == (\E w \in Writers : WriterStep(w)) \/ (\E r \in Readers : with_reader(r))

PoolSpec == PoolInit /\ [][PoolNext]_poolVars

-----------------------------------------------------------------------------
\* Types; the queue never holds more than its capacity (ArrayQueue::new).
PoolTypeOK ==
  /\ db \in Nat /\ readerBytes \in Nat /\ gen \in Nat /\ acked \in Nat
  /\ pool \in Seq(PooledCopy) /\ Len(pool) <= PoolSize
  /\ writerLock \in Writers \cup {NoOne}
  /\ wpc \in [Writers -> WriterSteps] /\ serialized \in [Writers -> Nat]
  /\ rpc \in [Readers -> ReaderSteps] /\ myGen \in [Readers -> Nat]
  /\ mine \in [Readers -> PooledCopy] /\ floor \in [Readers -> Nat]
  /\ refreshed \in [0..gen -> Nat]

\* refresh_readers: after a write, new readers "see the mutation".  A read that
\* begins after a write returned runs on a copy that has it.
ReadsSeeReturnedWrites ==
  \A r \in Readers : rpc[r] = "use" => mine[r].version >= floor[r]

Previous(g) == IF g = 0 THEN 0 ELSE g - 1

\* The stamp g is of a generation begun, and the copy holds at least what the
\* refresh before g published.
StampedWithin(copy) ==
  copy.gen <= gen /\ copy.version >= refreshed[Previous(copy.gen)]

\* What with_reader's generation check does guarantee, whatever the threads do:
\* a copy in the queue or in use lacks at most the writes of the one refresh its
\* stamp names.
StampAtMostOneBehind ==
  /\ \A i \in 1..Len(pool) : StampedWithin(pool[i])
  /\ \A r \in Readers : rpc[r] \in {"use", "push"} => StampedWithin(mine[r])
=============================================================================
