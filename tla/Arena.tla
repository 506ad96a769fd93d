------------------------------- MODULE Arena -------------------------------
(***************************************************************************)
(* The double-buffered arena file (rs/ll-core/core/src/layout.rs) as a     *)
(* record and the operations on it as functions of that record.  An image  *)
(* is the set of commits in the serialized database; its length is one     *)
(* unit and one per commit, and a file's size counts units of both buffers *)
(* (the header page is left out).  The root of an image is the image: the  *)
(* hash has no collisions.                                                 *)
(***************************************************************************)
EXTENDS Integers, FiniteSets

CONSTANTS Commits,  \* what a database can hold
          NoFile,   \* there is no arena file
          NoRoot,   \* the zero sentinel: nothing is published
          Blank,    \* a buffer of zeros
          Torn      \* bytes that are no image

ASSUME ArenaAssumption ==
  /\ IsFiniteSet(Commits)
  /\ \A x \in {NoFile, NoRoot, Blank, Torn}, image \in SUBSET Commits : x # image
  /\ NoRoot # Torn /\ Blank # Torn /\ NoRoot # Blank

Images == SUBSET Commits
ImageLen(image) == 1 + Cardinality(image)

Buffers == {0, 1}
Other(b) == 1 - b
ArenaFile == [size : Nat, active : Buffers, buffer : [Buffers -> {Blank, Torn} \cup Images]]

buffer_size(size) == size \div 2

\* The image the header names.
ActiveImage(arena) == arena.buffer[arena.active]

\* set_len on an existing file.  Buffer 1's offset derives from the file size, so
\* a resize makes it other bytes of the file; buffer 0 keeps an image that fits.
Resized(arena, size) ==
  LET Kept == IF /\ arena.buffer[0] \notin {Blank, Torn}
                 /\ ImageLen(arena.buffer[0]) > buffer_size(size)
              THEN Torn ELSE arena.buffer[0]
  IN  {[size |-> size, active |-> arena.active,
        buffer |-> [b \in Buffers |-> IF b = 0 THEN Kept ELSE other]] :
       other \in {Blank, Torn}}

\* create_arena opens or creates the file, sets its length and writes a header only
\* where there is none.
create_arena(arena, size) ==
  IF arena = NoFile
    THEN {[size |-> size, active |-> 0, buffer |-> [b \in Buffers |-> Blank]]}
    ELSE IF arena.size = size THEN {arena} ELSE Resized(arena, size)

\* Mutant: the copy goes into the buffer the header names.
WritingActive(arena) == [arena EXCEPT !.buffer[arena.active] = Torn]

\* Mutant: the header is flipped before the copy is made.
FlippedFirst(arena) ==
  [arena EXCEPT !.buffer[Other(arena.active)] = Torn, !.active = Other(arena.active)]

\* write_to_arena while it copies: the inactive buffer is neither old nor new.
Writing(arena) == [arena EXCEPT !.buffer[Other(arena.active)] = Torn]

\* write_to_arena when it returns: the header names the buffer just filled.
Written(arena, image) ==
  [arena EXCEPT !.buffer[Other(arena.active)] = image, !.active = Other(arena.active)]

\* write_grown_arena: a new file renamed over the path, filled by write_to_arena.
write_grown_arena(image, size) ==
  [size |-> size, active |-> 1, buffer |-> [b \in Buffers |-> IF b = 1 THEN image ELSE Blank]]

\* arena_size_for: the size stays while the image fits a buffer, else two buffers
\* with a quarter of headroom.
arena_size_for(current, image) ==
  IF ImageLen(image) <= buffer_size(current)
    THEN current
    ELSE 2 * (ImageLen(image) + ImageLen(image) \div 4)
=============================================================================
