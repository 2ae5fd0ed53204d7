---------------------------- MODULE ObjectEngine ----------------------------
(***************************************************************************)
(* The random-access Object of src/src/object/object.rs: one key's          *)
(* ObjectHandle (an ordered list of immutable chunks and a recorded size), *)
(* the repository's chunk store, and the state of an open Object: its seek *)
(* position, the incremental chunker's buffer, the chunks written since    *)
(* the last flush (new_chunks) and the index of start_location.            *)
(*                                                                         *)
(* Data abstraction.  A byte is a member of the small set Byte.  A chunk's *)
(* hash is a collision-free digest (BLAKE2b-256, chunk_hash), so a chunk   *)
(* is identified with its content: Chunk.size is Len(c) and Chunk.hash is  *)
(* c itself.  The chunk store is the set of contents written through      *)
(* write_chunk.  ChunkLocation is kept only as the index of                *)
(* start_location, the one field that outlives the call computing it.     *)
(* Sequences are 1-based: index i here is index i - 1 of the Rust Vec.     *)
(*                                                                         *)
(* A panic (current_chunk past the end, copy_from_slice with unequal       *)
(* lengths, Vec::splice with a reversed range) ends the program: it is     *)
(* recorded in panicked and no step follows it.                            *)
(***************************************************************************)
EXTENDS Naturals, Integers, Sequences, FiniteSets, Functions

CONSTANTS
    Byte,           \* the byte values
    BoundaryBytes,  \* bytes after which the content-defined chunker cuts
    InitData,       \* contents the handle may hold when the repository is opened
    WriteInputs,    \* buffers passed to Object::write
    ReadSizes,      \* buffer lengths passed to Object::read
    MaxBytes        \* bound on the bytes held by the object and its chunker

ASSUME ConstantsAssumption ==
    /\ BoundaryBytes \subseteq Byte
    /\ InitData \subseteq Seq(Byte)
    /\ WriteInputs \subseteq Seq(Byte)
    /\ ReadSizes \subseteq Nat
    /\ MaxBytes \in Nat

VARIABLES
    chunks,      \* ObjectHandle.chunks
    size,        \* ObjectHandle.size
    stored,      \* the chunk contents the repository holds (write_chunk)
    open,        \* an Object for the key is alive (Object::new .. Drop)
    position,    \* Object.position
    buffer,      \* the bytes the chunker holds that end no chunk yet
    newChunks,   \* Object.new_chunks
    startIndex,  \* Object.start_location.index
    panicked     \* "none", or the operation whose panic ended the program

vars == <<chunks, size, stored, open, position, buffer, newChunks, startIndex,
          panicked>>

-----------------------------------------------------------------------------
(***************************************************************************)
(* The content-defined chunker (IncrementalChunker<ZPAQ>).  It cuts after  *)
(* every byte of BoundaryBytes, so boundaries depend on content only.      *)
(* Byte i of a fed stream B belongs to chunk Piece(B, i), one more than    *)
(* the number of boundary bytes before it.  Drain(B) is the list of        *)
(* complete chunks the chunker emits (chunks()) and Rest(B) what stays     *)
(* buffered; Final(r) is what flush() adds for a non-empty remainder.      *)
(***************************************************************************)
Piece(B, i) == Cardinality({d \in 1..(i - 1) : B[d] \in BoundaryBytes}) + 1

Before(B, j) == Cardinality({i \in 1..Len(B) : Piece(B, i) < j})

NumCuts(B) == Cardinality({i \in 1..Len(B) : B[i] \in BoundaryBytes})

Drain(B) == [j \in 1..NumCuts(B) |-> SubSeq(B, Before(B, j) + 1, Before(B, j + 1))]

Rest(B) == SubSeq(B, Before(B, NumCuts(B) + 1) + 1, Len(B))

Final(r) == IF r = <<>> THEN <<>> ELSE <<r>>

\* The chunks of a whole stream: feed it, then flush the chunker.
Chunking(B) == Drain(B) \o Final(Rest(B))

-----------------------------------------------------------------------------
(***************************************************************************)
(* Offsets in the handle.  Upto(cs, i) is the number of bytes in chunks    *)
(* 1..i, i.e. chunk_end after i iterations of the loop of current_chunk;  *)
(* SumSizes is the fold that recomputes ObjectHandle.size in flush.        *)
(***************************************************************************)
Upto(cs, i) == Cardinality(UNION {{j} \X (1..Len(cs[j])) : j \in 1..i})

SumSizes(cs) == Upto(cs, Len(cs))

(***************************************************************************)
(* current_chunk walks the chunks and returns the first one with           *)
(* chunk_start <= position <= chunk_end.  Chunk ends only grow along the   *)
(* list, so it skips exactly the chunks that end before the position: the *)
(* chunk it returns is the one after them, and it panics when no chunk is *)
(* left.                                                                   *)
(***************************************************************************)
EndsBefore(cs, pos) == {i \in 1..Len(cs) : Upto(cs, i) < pos}

Loc(cs, pos) == Cardinality(EndsBefore(cs, pos)) + 1

HasLoc(cs, pos) == Loc(cs, pos) <= Len(cs)

\* ChunkLocation::relative_position
Rel(cs, pos) == pos - Upto(cs, Loc(cs, pos) - 1)

\* The bytes of the chunk at pos before / from the seek position.
HeadAt(cs, pos) == SubSeq(cs[Loc(cs, pos)], 1, Rel(cs, pos))
TailAt(cs, pos) == SubSeq(cs[Loc(cs, pos)], Rel(cs, pos) + 1, Len(cs[Loc(cs, pos)]))

\* Bytes the object and its chunker hold, for the bound MaxBytes.
Held == SumSizes(chunks) + SumSizes(newChunks) + Len(buffer) + position

Live == open /\ panicked = "none" /\ Held <= MaxBytes

Panic(site) == /\ panicked' = site
               /\ UNCHANGED <<chunks, size, stored, open, position, buffer, newChunks, startIndex>>

-----------------------------------------------------------------------------
(***************************************************************************)
(* Write::flush.  FlushPost is the state flush() leaves when it returns   *)
(* Ok: the tail of the chunk at the seek position                          *)
(* is fed to the chunker, the chunker is flushed, the resulting chunks are *)
(* stored and appended to new_chunks, and the chunks of the range          *)
(* start_location.index..end_location.index are replaced by new_chunks.    *)
(* FlushPanics holds when flush() panics instead.                          *)
(***************************************************************************)
FlushFed == buffer \o TailAt(chunks, position)

FlushNew == newChunks \o Chunking(FlushFed)

FlushChunks == SubSeq(chunks, 1, startIndex - 1) \o FlushNew
                   \o SubSeq(chunks, Loc(chunks, position), Len(chunks))

FlushPanics == \/ ~HasLoc(chunks, position)
               \/ startIndex > Loc(chunks, position)

\* The state after an Ok flush, as a record of the variables it writes.
FlushPost == [chunks |-> FlushChunks,
              size |-> SumSizes(FlushChunks),
              stored |-> stored \cup Range(Chunking(FlushFed))]

FlushSite == IF HasLoc(chunks, position) THEN "splice" ELSE "current_chunk"

-----------------------------------------------------------------------------
Init ==
    /\ \E d \in InitData : /\ chunks = Chunking(d)
                           /\ size = Len(d)
    /\ stored = Range(chunks)
    /\ open = FALSE
    /\ position = 0
    /\ buffer = <<>>
    /\ newChunks = <<>>
    /\ startIndex = 1
    /\ panicked = "none"

\* Object::new, reached from ObjectRepository::get for an existing key.
OpenObject ==
    /\ ~open
    /\ panicked = "none"
    /\ open' = TRUE
    /\ position' = 0
    /\ buffer' = <<>>
    /\ newChunks' = <<>>
    /\ startIndex' = 1
    /\ UNCHANGED <<chunks, size, stored, panicked>>

\* Write::write(buf).  The first write after a flush (new_chunks empty)
\* records start_location and feeds the chunk's bytes before the position.
Write(buf) ==
    /\ Live
    /\ IF newChunks = <<>> /\ ~HasLoc(chunks, position)
       THEN Panic("current_chunk")
       ELSE LET first == newChunks = <<>>
                fed   == buffer \o (IF first THEN HeadAt(chunks, position) ELSE <<>>) \o buf
            IN  /\ startIndex' = IF first THEN Loc(chunks, position) ELSE startIndex
                /\ newChunks' = newChunks \o Drain(fed)
                /\ stored' = stored \cup Range(Drain(fed))
                /\ buffer' = Rest(fed)
                /\ position' = position + Len(buf)
                /\ UNCHANGED <<chunks, size, open, panicked>>

\* Write::flush, called by the user.
Flush ==
    /\ Live
    /\ IF FlushPanics
       THEN Panic(FlushSite)
       ELSE /\ chunks' = FlushPost.chunks
            /\ size' = FlushPost.size
            /\ stored' = FlushPost.stored
            /\ newChunks' = <<>>
            /\ buffer' = <<>>
            /\ UNCHANGED <<open, position, startIndex, panicked>>

\* Drop: flush, discarding an Err (there is none besides panics here), and
\* end the Object's borrow of the repository.
DropObject ==
    /\ Live
    /\ IF FlushPanics
       THEN Panic(FlushSite)
       ELSE /\ chunks' = FlushPost.chunks
            /\ size' = FlushPost.size
            /\ stored' = FlushPost.stored
            /\ newChunks' = <<>>
            /\ buffer' = <<>>
            /\ open' = FALSE
            /\ UNCHANGED <<position, startIndex, panicked>>

(***************************************************************************)
(* Seek::seek.  After the flush, SeekFrom::Start(o) clamps o to the size;  *)
(* SeekFrom::End(o) subtracts o from the size and fails when o > size;     *)
(* SeekFrom::Current(o) fails when the target is negative.  A failed seek  *)
(* keeps the flush's effects and the old position.                         *)
(***************************************************************************)
SeekTarget(from, o, sz) ==
    CASE from = "Start"   -> IF o < sz THEN o ELSE sz
      [] from = "End"     -> IF sz - o < sz THEN sz - o ELSE sz
      [] from = "Current" -> IF position + o < sz THEN position + o ELSE sz

\* A seek that forgets the negative-target check of SeekFrom::Current.
SeekFailsEndOnly(from, o, sz) == from = "End" /\ o > sz

SeekFails(from, o, sz) ==
    \/ from = "End" /\ o > sz
    \/ from = "Current" /\ position + o < 0

Seek(from, o) ==
    /\ Live
    /\ IF FlushPanics
       THEN Panic(FlushSite)
       ELSE /\ chunks' = FlushPost.chunks
            /\ size' = FlushPost.size
            /\ stored' = FlushPost.stored
            /\ newChunks' = <<>>
            /\ buffer' = <<>>
            /\ position' = IF SeekFails(from, o, FlushPost.size) THEN position
                           ELSE SeekTarget(from, o, FlushPost.size)
            /\ UNCHANGED <<open, startIndex, panicked>>

(***************************************************************************)
(* Object::truncate(length).  After the flush, when length is below the    *)
(* size the chunk at length is cut at length and written back, the chunks  *)
(* from it on are dropped and the cut chunk is pushed.  The size field is  *)
(* left as it is.                                                          *)
(***************************************************************************)
Truncate(length) ==
    /\ Live
    /\ IF FlushPanics
       THEN Panic(FlushSite)
       ELSE LET cs == FlushPost.chunks
                last == HeadAt(cs, length)
            IN  /\ newChunks' = <<>>
                /\ buffer' = <<>>
                /\ size' = FlushPost.size
                /\ IF length >= FlushPost.size
                   THEN /\ chunks' = cs
                        /\ stored' = FlushPost.stored
                        /\ UNCHANGED position
                   ELSE /\ chunks' = SubSeq(cs, 1, Loc(cs, length) - 1) \o <<last>>
                        /\ stored' = FlushPost.stored \cup {last}
                        /\ position' = length
                /\ UNCHANGED <<open, startIndex, panicked>>

(***************************************************************************)
(* Read::read into a buffer of n bytes: the bytes of the current chunk     *)
(* from the position, at most n; buf.copy_from_slice panics unless exactly *)
(* n bytes were taken.                                                     *)
(***************************************************************************)
ReadBytes(n) ==
    LET r == Rel(chunks, position)
        c == chunks[Loc(chunks, position)]
    IN  SubSeq(c, r + 1, IF r + n < Len(c) THEN r + n ELSE Len(c))

Read(n) ==
    /\ Live
    /\ CASE ~HasLoc(chunks, position)     -> Panic("current_chunk")
         [] Len(ReadBytes(n)) # n         -> Panic("copy_from_slice")
         [] OTHER -> /\ position' = position + n
                     /\ UNCHANGED <<chunks, size, stored, open, buffer, newChunks,
                                    startIndex, panicked>>

Next ==
    \/ OpenObject
    \/ \E buf \in WriteInputs : Write(buf)
    \/ Flush
    \/ DropObject
    \/ \E o \in 0..MaxBytes : Seek("Start", o)
    \/ \E from \in {"End", "Current"}, o \in -MaxBytes..MaxBytes : Seek(from, o)
    \/ \E length \in 0..MaxBytes : Truncate(length)
    \/ \E n \in ReadSizes : Read(n)

Spec == Init /\ [][Next]_vars

-----------------------------------------------------------------------------
Chunk == Seq(Byte)

TypeOK ==
    /\ chunks \in Seq(Chunk)
    /\ size \in Nat
    /\ stored \subseteq Chunk
    /\ open \in BOOLEAN
    /\ position \in Nat
    /\ buffer \in Chunk
    /\ newChunks \in Seq(Chunk)
    /\ startIndex \in Nat \ {0}
    /\ panicked \in {"none", "current_chunk", "splice", "copy_from_slice"}

-----------------------------------------------------------------------------
(***************************************************************************)
(* The byte stream the Object stands for.  With no write pending it is the *)
(* concatenation of the handle's chunks.  While a write is pending it is   *)
(* the handle's bytes before start_location, the bytes written since (in   *)
(* new_chunks and the chunker), and the handle's bytes from the position   *)
(* on.                                                                     *)
(***************************************************************************)
Flat(cs) == LET ends == [i \in 0..Len(cs) |-> Upto(cs, i)]
            IN  [k \in 1..SumSizes(cs) |->
                   LET i == CHOOSE i \in 1..Len(cs) : ends[i - 1] < k /\ k <= ends[i]
                   IN  cs[i][k - ends[i - 1]]]

Pending == newChunks # <<>> \/ buffer # <<>>

Stream ==
    IF Pending
    THEN SubSeq(Flat(chunks), 1, Upto(chunks, startIndex - 1)) \o Flat(newChunks) \o buffer
           \o SubSeq(Flat(chunks), position + 1, SumSizes(chunks))
    ELSE Flat(chunks)

Abstract == INSTANCE ObjectStream WITH data <- Stream, pos <- position

(***************************************************************************)
(* The Object implements a byte stream: every step of write, flush, seek,  *)
(* truncate, read and drop is a step of ObjectStream on Stream and the     *)
(* position (a panic, which ends the program, is a stutter).               *)
(***************************************************************************)
StreamRefinement == Abstract!Spec

=============================================================================
