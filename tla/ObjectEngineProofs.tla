------------------------- MODULE ObjectEngineProofs -------------------------
(***************************************************************************)
(* Proofs about ObjectEngine for every value of its constants: the type   *)
(* invariant, and that every chunk descriptor held by the ObjectHandle or  *)
(* by new_chunks names a chunk the repository stores.                      *)
(*                                                                         *)
(* The argument rests on what current_chunk computes.  Loc(cs, pos) - 1 is *)
(* the number of chunks that end before pos; because chunk ends only grow  *)
(* along the list those chunks are exactly the first Loc(cs, pos) - 1, so  *)
(* the chunk Loc(cs, pos) starts at or before pos and, when it exists,     *)
(* ends at or after it.  Hence relative_position lies within the chunk and *)
(* the slices [..rel] and [rel..] taken by write, flush and truncate are   *)
(* slices of the chunk.                                                    *)
(***************************************************************************)
EXTENDS ObjectEngine, FiniteSetTheorems, SequenceTheorems, TLAPS

-----------------------------------------------------------------------------
(* Cardinalities of sets of indices.                                       *)

\* The interval 1..n has n members.
LEMMA CardInterval ==
  ASSUME NEW n \in Nat
  PROVE  IsFiniteSet(1..n) /\ Cardinality(1..n) = n
BY FS_Interval

\* A set of indices 1..n is finite and has at most n members.
LEMMA CardInInterval ==
  ASSUME NEW n \in Nat, NEW S \in SUBSET (1..n)
  PROVE  /\ IsFiniteSet(S)
         /\ Cardinality(S) \in 0..n
<1>1. IsFiniteSet(1..n) /\ Cardinality(1..n) = n
  BY CardInterval
<1>2. IsFiniteSet(S) /\ Cardinality(S) <= n
  BY <1>1, FS_Subset
<1>3. Cardinality(S) \in Nat
  BY <1>2, FS_CardinalityType
<1>. QED  BY <1>2, <1>3

-----------------------------------------------------------------------------
(* Slices of sequences.                                                    *)

\* A slice within the bounds of a sequence is a sequence of its elements.
LEMMA SubSeqType ==
  ASSUME NEW X, NEW s \in Seq(X), NEW m \in Int, NEW n \in Int,
         1 <= m, n <= Len(s)
  PROVE  /\ SubSeq(s, m, n) \in Seq(X)
         /\ Range(SubSeq(s, m, n)) \subseteq Range(s)
<1>1. \A i \in m..n : s[i] \in X
  BY ElementOfSeq
<1>2. /\ SubSeq(s, m, n) \in Seq(X)
      /\ Len(SubSeq(s, m, n)) = IF m <= n THEN n - m + 1 ELSE 0
      /\ \A i \in 1..(n - m + 1) : SubSeq(s, m, n)[i] = s[m + i - 1]
  BY <1>1, SubSeqProperties
<1>3. DOMAIN SubSeq(s, m, n) = 1..Len(SubSeq(s, m, n))
  BY <1>2, LenProperties
<1>4. DOMAIN s = 1..Len(s)
  BY LenProperties
<1>5. Range(SubSeq(s, m, n)) \subseteq Range(s)
  <2>. SUFFICES ASSUME NEW i \in DOMAIN SubSeq(s, m, n)
                PROVE  \E j \in DOMAIN s : SubSeq(s, m, n)[i] = s[j]
    BY DEF Range
  <2>1. i \in 1..(n - m + 1) /\ m + i - 1 \in 1..Len(s)
    BY <1>2, <1>3
  <2>. QED  BY <2>1, <1>2, <1>4
<1>. QED  BY <1>2, <1>5

\* The descriptors of two lists put end to end.
LEMMA RangeConcatChunks ==
  ASSUME NEW s1 \in Seq(Chunk), NEW s2 \in Seq(Chunk)
  PROVE  /\ s1 \o s2 \in Seq(Chunk)
         /\ Range(s1 \o s2) = Range(s1) \cup Range(s2)
BY ConcatProperties, RangeConcatenation

-----------------------------------------------------------------------------
(* The chunker.                                                            *)

\* Every chunk the chunker emits, and what it keeps buffered, is a
\* sequence of bytes of the stream fed to it.
LEMMA ChunkerType ==
  ASSUME NEW B \in Seq(Byte)
  PROVE  /\ Drain(B) \in Seq(Chunk)
         /\ Rest(B) \in Chunk
         /\ Chunking(B) \in Seq(Chunk)
<1>1. Len(B) \in Nat
  BY LenProperties
<1>2. \A j : Before(B, j) \in 0..Len(B)
  BY <1>1, CardInInterval DEF Before
<1>3. NumCuts(B) \in Nat
  BY <1>1, CardInInterval DEF NumCuts
<1>4. \A j : SubSeq(B, Before(B, j) + 1, Before(B, j + 1)) \in Chunk
  BY <1>2, SubSeqType DEF Chunk
<1>5. Drain(B) \in Seq(Chunk)
  <2>1. Drain(B) \in [1..NumCuts(B) -> Chunk]
    BY <1>4 DEF Drain
  <2>. QED  BY <2>1, <1>3, SeqDef
<1>6. Rest(B) \in Chunk
  BY <1>1, <1>2, SubSeqType DEF Rest, Chunk
<1>7. Final(Rest(B)) \in Seq(Chunk)
  BY <1>6, EmptySeq DEF Final
<1>. QED  BY <1>5, <1>6, <1>7, ConcatProperties DEF Chunking

-----------------------------------------------------------------------------
(* Chunk offsets.  Upto(cs, i) counts the pairs <<j, k>> with j a chunk    *)
(* among the first i and k a byte of it.                                   *)

UptoSet(cs, i) == UNION {{j} \X (1..Len(cs[j])) : j \in 1..i}

\* The pairs of one chunk: as many as the chunk has bytes.
LEMMA ChunkPairs ==
  ASSUME NEW cs \in Seq(Chunk), NEW j \in 1..Len(cs)
  PROVE  /\ Len(cs[j]) \in Nat
         /\ IsFiniteSet({j} \X (1..Len(cs[j])))
         /\ Cardinality({j} \X (1..Len(cs[j]))) = Len(cs[j])
<1>1. Len(cs[j]) \in Nat
  BY ElementOfSeq, LenProperties DEF Chunk
<1>2. IsFiniteSet({j}) /\ Cardinality({j}) = 1
  BY FS_Singleton
<1>3. IsFiniteSet(1..Len(cs[j])) /\ Cardinality(1..Len(cs[j])) = Len(cs[j])
  BY <1>1, CardInterval
<1>4. /\ IsFiniteSet({j} \X (1..Len(cs[j])))
      /\ Cardinality({j} \X (1..Len(cs[j]))) = Cardinality({j}) * Cardinality(1..Len(cs[j]))
  BY <1>2, <1>3, FS_Product
<1>. QED  BY <1>1, <1>2, <1>3, <1>4

\* The bytes of the first i chunks form a finite set, and Upto counts it.
LEMMA UptoFinite ==
  ASSUME NEW cs \in Seq(Chunk), NEW i \in 0..Len(cs)
  PROVE  /\ IsFiniteSet(UptoSet(cs, i))
         /\ Upto(cs, i) = Cardinality(UptoSet(cs, i))
         /\ Upto(cs, i) \in Nat
<1>. DEFINE T == {{j} \X (1..Len(cs[j])) : j \in 1..i}
            f == [j \in 1..i |-> {j} \X (1..Len(cs[j]))]
<1>1. f \in Surjection(1..i, T)
  BY DEF Surjection
<1>2. IsFiniteSet(1..i)
  BY FS_Interval
<1>3. IsFiniteSet(T)
  BY <1>1, <1>2, FS_Surjection
<1>4. \A S \in T : IsFiniteSet(S)
  <2>. SUFFICES ASSUME NEW j \in 1..i
                PROVE  IsFiniteSet({j} \X (1..Len(cs[j])))
    OBVIOUS
  <2>1. j \in 1..Len(cs)
    BY LenProperties
  <2>. QED  BY <2>1, ChunkPairs
<1>5. IsFiniteSet(UptoSet(cs, i))
  BY <1>3, <1>4, FS_UNION DEF UptoSet
<1>. QED  BY <1>5, FS_CardinalityType DEF Upto, UptoSet

\* No chunk, no byte.
LEMMA UptoZero ==
  ASSUME NEW cs \in Seq(Chunk)
  PROVE  Upto(cs, 0) = 0
<1>1. UptoSet(cs, 0) = {}
  BY DEF UptoSet
<1>. QED  BY <1>1, FS_EmptySet DEF Upto, UptoSet

\* The end of chunk i is the end of chunk i - 1 plus the size of chunk i:
\* the step of the loop of current_chunk, chunk_end += chunk.size.
LEMMA UptoStep ==
  ASSUME NEW cs \in Seq(Chunk), NEW i \in 1..Len(cs)
  PROVE  Upto(cs, i) = Upto(cs, i - 1) + Len(cs[i])
<1>. DEFINE A == UptoSet(cs, i - 1)
            C == {i} \X (1..Len(cs[i]))
<1>0. i - 1 \in 0..Len(cs) /\ i \in 0..Len(cs)
  BY LenProperties
<1>1. UptoSet(cs, i) = A \cup C
  BY DEF UptoSet
<1>2. A \cap C = {}
  BY DEF UptoSet
<1>3. IsFiniteSet(A) /\ Upto(cs, i - 1) = Cardinality(A)
  BY <1>0, UptoFinite
<1>4. IsFiniteSet(C) /\ Cardinality(C) = Len(cs[i])
  BY ChunkPairs
<1>5. Cardinality(A \cup C) = Cardinality(A) + Cardinality(C)
  <2>1. Cardinality(A \cup C) = Cardinality(A) + Cardinality(C) - Cardinality(A \cap C)
    BY <1>3, <1>4, FS_Union, Zenon
  <2>2. Cardinality(A \cap C) = 0
    BY <1>2, FS_EmptySet
  <2>. QED  BY <2>1, <2>2, <1>3, <1>4, FS_CardinalityType
<1>6. Upto(cs, i) = Cardinality(UptoSet(cs, i))
  BY <1>0, UptoFinite
<1>. QED  BY <1>1, <1>3, <1>4, <1>5, <1>6

\* Chunk ends only grow along the list.
LEMMA UptoMono ==
  ASSUME NEW cs \in Seq(Chunk), NEW i \in 0..Len(cs), NEW j \in 0..Len(cs), i <= j
  PROVE  Upto(cs, i) <= Upto(cs, j)
<1>1. UptoSet(cs, i) \subseteq UptoSet(cs, j)
  BY DEF UptoSet
<1>. QED  BY <1>1, UptoFinite, FS_Subset

-----------------------------------------------------------------------------
(* current_chunk.                                                          *)

\* A set of indices closed downwards is an initial interval.
LEMMA DownClosed ==
  ASSUME NEW n \in Nat, NEW S \in SUBSET (1..n),
         \A m \in S : \A l \in 1..m : l \in S
  PROVE  S = 1..Cardinality(S)
<1>. DEFINE k == Cardinality(S)
<1>1. IsFiniteSet(S) /\ k \in 0..n
  BY CardInInterval
<1>2. S \subseteq 1..k
  <2>. SUFFICES ASSUME NEW m \in S, m > k
                PROVE  FALSE
    BY <1>1
  <2>1. 1..m \subseteq S
    OBVIOUS
  <2>2. Cardinality(1..m) <= k
    BY <2>1, <1>1, FS_Subset
  <2>3. Cardinality(1..m) = m
    BY CardInterval
  <2>. QED  BY <1>1, <2>2, <2>3
<1>3. IsFiniteSet(1..k) /\ Cardinality(1..k) = k
  BY <1>1, CardInterval
<1>. QED  BY <1>1, <1>2, <1>3, FS_Subset

\* The chunks that end before pos are exactly the first Loc(cs, pos) - 1.
LEMMA LocPrefix ==
  ASSUME NEW cs \in Seq(Chunk), NEW pos \in Nat
  PROVE  /\ EndsBefore(cs, pos) = 1..(Loc(cs, pos) - 1)
         /\ Loc(cs, pos) \in 1..(Len(cs) + 1)
<1>. DEFINE S == EndsBefore(cs, pos)
<1>1. Len(cs) \in Nat
  BY LenProperties
<1>2. \A m \in S : \A l \in 1..m : l \in S
  <2>. SUFFICES ASSUME NEW m \in S, NEW l \in 1..m
                PROVE  l \in S
    OBVIOUS
  <2>1. m \in 1..Len(cs) /\ Upto(cs, m) < pos
    BY DEF EndsBefore
  <2>2. Upto(cs, l) <= Upto(cs, m)
    BY <1>1, <2>1, UptoMono
  <2>3. Upto(cs, l) \in Nat /\ Upto(cs, m) \in Nat
    BY <1>1, <2>1, UptoFinite
  <2>. QED  BY <2>1, <2>2, <2>3 DEF EndsBefore
<1>3. S \in SUBSET (1..Len(cs))
  BY DEF EndsBefore
<1>4. Cardinality(S) \in 0..Len(cs)
  BY <1>1, <1>3, CardInInterval
<1>5. S = 1..Cardinality(S)
  BY <1>1, <1>2, <1>3, DownClosed
<1>6. Loc(cs, pos) = Cardinality(S) + 1
  BY DEF Loc
<1>. QED  BY <1>4, <1>5, <1>6

\* current_chunk returns a chunk that starts at or before the position and
\* ends at or after it, so relative_position is an offset into that chunk;
\* it finds one whenever the position is below the size.
LEMMA LocBounds ==
  ASSUME NEW cs \in Seq(Chunk), NEW pos \in Nat
  PROVE  /\ Loc(cs, pos) \in 1..(Len(cs) + 1)
         /\ Upto(cs, Loc(cs, pos) - 1) <= pos
         /\ HasLoc(cs, pos) => Rel(cs, pos) \in 0..Len(cs[Loc(cs, pos)])
         /\ pos < SumSizes(cs) => HasLoc(cs, pos)
<1>. DEFINE k == Loc(cs, pos) - 1
<1>0. Len(cs) \in Nat
  BY LenProperties
<1>1. k \in 0..Len(cs) /\ Loc(cs, pos) \in 1..(Len(cs) + 1)
  <2>1. Loc(cs, pos) \in 1..(Len(cs) + 1)
    BY LocPrefix
  <2>. QED  BY <1>0, <2>1
<1>2. \A i \in 1..Len(cs) : i \in 1..k <=> Upto(cs, i) < pos
  <2>1. EndsBefore(cs, pos) = 1..k
    BY LocPrefix
  <2>. QED  BY <2>1 DEF EndsBefore
<1>3. \A i \in 0..Len(cs) : Upto(cs, i) \in Nat
  BY UptoFinite
<1>4. Upto(cs, k) <= pos
  <2>1. CASE k = 0
    BY <2>1, UptoZero
  <2>2. CASE k > 0
    <3>1. k \in 1..Len(cs)
      BY <2>2, <1>0, <1>1
    <3>2. Upto(cs, k) < pos
      BY <3>1, <1>2
    <3>. QED  BY <3>1, <3>2, <1>3
  <2>. QED  BY <2>1, <2>2, <1>0, <1>1
<1>5. ASSUME HasLoc(cs, pos)
      PROVE  Rel(cs, pos) \in 0..Len(cs[Loc(cs, pos)])
  <2>1. k + 1 \in 1..Len(cs) /\ Loc(cs, pos) = k + 1
    BY <1>0, <1>1, <1>5 DEF HasLoc
  <2>2. ~(Upto(cs, k + 1) < pos)
    BY <1>2, <2>1
  <2>3. Upto(cs, k + 1) = Upto(cs, k) + Len(cs[k + 1])
    BY <2>1, UptoStep
  <2>4. Upto(cs, k) \in Nat /\ Upto(cs, k + 1) \in Nat
    BY <1>0, <1>1, <1>3, <2>1
  <2>5. Rel(cs, pos) = pos - Upto(cs, k)
    BY DEF Rel
  <2>. QED  BY <1>4, <2>1, <2>2, <2>3, <2>4, <2>5
<1>6. ASSUME pos < SumSizes(cs)
      PROVE  HasLoc(cs, pos)
  <2>. SUFFICES ASSUME ~HasLoc(cs, pos)
                PROVE  FALSE
    OBVIOUS
  <2>1. k = Len(cs)
    BY <1>0, <1>1 DEF HasLoc
  <2>2. CASE Len(cs) = 0
    <3>1. Upto(cs, Len(cs)) = 0
      BY <2>2, UptoZero
    <3>. QED  BY <1>6, <3>1 DEF SumSizes
  <2>3. CASE Len(cs) > 0
    <3>1. Upto(cs, Len(cs)) < pos
      BY <1>0, <1>2, <2>1, <2>3
    <3>2. Upto(cs, Len(cs)) \in Nat
      BY <1>0, <1>3
    <3>. QED  BY <1>6, <3>1, <3>2 DEF SumSizes
  <2>. QED  BY <1>0, <2>2, <2>3
<1>. QED  BY <1>0, <1>1, <1>4, <1>5, <1>6

-----------------------------------------------------------------------------
(* Write::flush.                                                           *)

\* Every chunk the handle or new_chunks refers to is in the repository, so
\* the read_chunk calls of write, flush, truncate and read find it.
ChunksStored == Range(chunks) \cup Range(newChunks) \subseteq stored

\* The inductive invariant: the type invariant and ChunksStored.
IInv == TypeOK /\ ChunksStored

\* A slice of the chunk at the position is a sequence of bytes, when the
\* position has a chunk.
LEMMA SliceAt ==
  ASSUME NEW cs \in Seq(Chunk), NEW pos \in Nat, HasLoc(cs, pos)
  PROVE  /\ Loc(cs, pos) \in 1..Len(cs)
         /\ cs[Loc(cs, pos)] \in Chunk
         /\ HeadAt(cs, pos) \in Chunk
         /\ TailAt(cs, pos) \in Chunk
<1>1. Loc(cs, pos) \in 1..Len(cs)
  BY LocBounds DEF HasLoc
<1>2. cs[Loc(cs, pos)] \in Seq(Byte)
  BY <1>1, ElementOfSeq DEF Chunk
<1>3. Rel(cs, pos) \in 0..Len(cs[Loc(cs, pos)])
  BY LocBounds
<1>4. Len(cs[Loc(cs, pos)]) \in Nat
  BY <1>2, LenProperties
<1>5. HeadAt(cs, pos) \in Seq(Byte)
  BY <1>2, <1>3, <1>4, SubSeqType DEF HeadAt
<1>6. TailAt(cs, pos) \in Seq(Byte)
  BY <1>2, <1>3, <1>4, SubSeqType DEF TailAt
<1>. QED  BY <1>1, <1>2, <1>5, <1>6 DEF Chunk

\* A flush that does not panic replaces a range of the handle by chunks it
\* stores first: the new list is a list of chunks, all of them stored.
LEMMA FlushOK ==
  ASSUME TypeOK, ChunksStored, ~FlushPanics
  PROVE  /\ FlushPost.chunks = FlushChunks
         /\ FlushChunks \in Seq(Chunk)
         /\ FlushPost.size \in Nat
         /\ FlushPost.stored \subseteq Chunk
         /\ Range(FlushChunks) \subseteq FlushPost.stored
         /\ stored \subseteq FlushPost.stored
<1>. DEFINE L == Loc(chunks, position)
            Pre == SubSeq(chunks, 1, startIndex - 1)
            Post == SubSeq(chunks, L, Len(chunks))
            New == Chunking(FlushFed)
<1>1. HasLoc(chunks, position) /\ startIndex <= L
  <2>1. L \in Nat
    BY LocBounds, LenProperties DEF TypeOK
  <2>. QED  BY <2>1 DEF FlushPanics, TypeOK
<1>2. L \in 1..Len(chunks) /\ TailAt(chunks, position) \in Chunk
  BY <1>1, SliceAt DEF TypeOK
<1>3. FlushFed \in Seq(Byte)
  BY <1>2, ConcatProperties DEF FlushFed, TypeOK, Chunk
<1>4. New \in Seq(Chunk)
  BY <1>3, ChunkerType
<1>5. Pre \in Seq(Chunk) /\ Range(Pre) \subseteq Range(chunks)
  BY <1>1, <1>2, SubSeqType DEF TypeOK
<1>6. Post \in Seq(Chunk) /\ Range(Post) \subseteq Range(chunks)
  BY <1>2, SubSeqType DEF TypeOK
<1>7. FlushChunks = (Pre \o (newChunks \o New)) \o Post
  BY DEF FlushChunks, FlushNew
<1>8. /\ newChunks \o New \in Seq(Chunk)
      /\ Pre \o (newChunks \o New) \in Seq(Chunk)
      /\ FlushChunks \in Seq(Chunk)
  BY <1>4, <1>5, <1>6, <1>7, ConcatProperties DEF TypeOK
<1>9. Range(FlushChunks) = (Range(Pre) \cup (Range(newChunks) \cup Range(New))) \cup Range(Post)
  <2>1. Range(newChunks \o New) = Range(newChunks) \cup Range(New)
    BY <1>4, RangeConcatenation DEF TypeOK
  <2>2. Range(Pre \o (newChunks \o New)) = Range(Pre) \cup Range(newChunks \o New)
    BY <1>5, <1>8, RangeConcatChunks
  <2>3. Range((Pre \o (newChunks \o New)) \o Post)
          = Range(Pre \o (newChunks \o New)) \cup Range(Post)
    BY <1>6, <1>8, RangeConcatChunks
  <2>. QED  BY <1>7, <2>1, <2>2, <2>3
<1>10. Range(New) \subseteq Chunk
  BY <1>4, RangeOfSeq
<1>11. SumSizes(FlushChunks) \in Nat
  BY <1>8, LenProperties, UptoFinite DEF SumSizes
<1>. QED  BY <1>5, <1>6, <1>8, <1>9, <1>10, <1>11 DEF FlushPost, TypeOK, ChunksStored

-----------------------------------------------------------------------------
(* Each operation keeps the invariant.                                     *)

\* A panic changes nothing but the record of the panic.
LEMMA PanicKeeps ==
  ASSUME IInv, NEW site \in {"current_chunk", "splice", "copy_from_slice"}, Panic(site)
  PROVE  IInv'
BY DEF IInv, TypeOK, ChunksStored, Panic

\* Object::write: the chunks the chunker completes are stored before they
\* are added to new_chunks.
LEMMA WriteKeeps ==
  ASSUME IInv, NEW buf \in WriteInputs, Write(buf)
  PROVE  IInv'
<1>1. buf \in Seq(Byte)
  BY ConstantsAssumption
<1>2. CASE newChunks = <<>> /\ ~HasLoc(chunks, position)
  BY <1>2, PanicKeeps DEF Write
<1>3. CASE ~(newChunks = <<>> /\ ~HasLoc(chunks, position))
  <2>. DEFINE first == newChunks = <<>>
              head == IF first THEN HeadAt(chunks, position) ELSE <<>>
              fed == buffer \o head \o buf
  <2>1. /\ startIndex' = IF first THEN Loc(chunks, position) ELSE startIndex
        /\ newChunks' = newChunks \o Drain(fed)
        /\ stored' = stored \cup Range(Drain(fed))
        /\ buffer' = Rest(fed)
        /\ position' = position + Len(buf)
        /\ UNCHANGED <<chunks, size, open, panicked>>
    BY <1>3 DEF Write
  <2>2. head \in Chunk
    <3>1. CASE first
      BY <1>3, <3>1, SliceAt DEF IInv, TypeOK
    <3>2. CASE ~first
      BY <3>2, EmptySeq DEF Chunk
    <3>. QED  BY <3>1, <3>2
  <2>3. fed \in Seq(Byte)
    BY <1>1, <2>2, ConcatProperties DEF IInv, TypeOK, Chunk
  <2>4. Drain(fed) \in Seq(Chunk) /\ Rest(fed) \in Chunk
    BY <2>3, ChunkerType
  <2>5. Range(Drain(fed)) \subseteq Chunk
    BY <2>4, RangeOfSeq
  <2>6. newChunks' \in Seq(Chunk) /\ Range(newChunks') = Range(newChunks) \cup Range(Drain(fed))
    BY <2>1, <2>4, RangeConcatChunks DEF IInv, TypeOK
  <2>7. startIndex' \in Nat \ {0}
    <3>1. CASE first
      BY <2>1, <3>1, LocBounds DEF IInv, TypeOK
    <3>2. CASE ~first
      BY <2>1, <3>2 DEF IInv, TypeOK
    <3>. QED  BY <3>1, <3>2
  <2>8. position' \in Nat
    BY <1>1, <2>1, LenProperties DEF IInv, TypeOK
  <2>. QED  BY <2>1, <2>4, <2>5, <2>6, <2>7, <2>8 DEF IInv, TypeOK, ChunksStored
<1>. QED  BY <1>2, <1>3

\* Write::flush, called by the user or by Drop.
LEMMA FlushKeeps ==
  ASSUME IInv, Flush \/ DropObject
  PROVE  IInv'
<1>1. CASE FlushPanics
  <2>1. Panic(FlushSite)
    BY <1>1 DEF Flush, DropObject
  <2>. QED  BY <2>1, PanicKeeps DEF FlushSite
<1>2. CASE ~FlushPanics
  <2>1. /\ chunks' = FlushPost.chunks
        /\ size' = FlushPost.size
        /\ stored' = FlushPost.stored
        /\ newChunks' = <<>>
        /\ buffer' = <<>>
        /\ open' \in BOOLEAN
        /\ UNCHANGED <<position, startIndex, panicked>>
    BY <1>2 DEF Flush, DropObject, IInv, TypeOK
  <2>2. Range(<<>>) = {}
    BY DEF Range
  <2>. QED  BY <1>2, <2>1, <2>2, FlushOK, EmptySeq DEF IInv, TypeOK, ChunksStored, Chunk
<1>. QED  BY <1>1, <1>2

\* Seek::seek lands on a position within 0..size, or keeps the old one.
LEMMA SeekTargetNat ==
  ASSUME NEW from \in {"Start", "End", "Current"}, NEW o \in Int, NEW sz \in Nat,
         position \in Nat, from = "Start" => o \in Nat, ~SeekFails(from, o, sz)
  PROVE  SeekTarget(from, o, sz) \in Nat
BY DEF SeekTarget, SeekFails

LEMMA SeekKeeps ==
  ASSUME IInv, NEW from \in {"Start", "End", "Current"},
         NEW o \in -MaxBytes..MaxBytes, from = "Start" => o \in 0..MaxBytes,
         Seek(from, o)
  PROVE  IInv'
<1>1. MaxBytes \in Nat
  BY ConstantsAssumption
<1>2. CASE FlushPanics
  BY <1>2, PanicKeeps DEF Seek, FlushSite
<1>3. CASE ~FlushPanics
  <2>1. /\ chunks' = FlushPost.chunks
        /\ size' = FlushPost.size
        /\ stored' = FlushPost.stored
        /\ newChunks' = <<>>
        /\ buffer' = <<>>
        /\ position' = IF SeekFails(from, o, FlushPost.size) THEN position
                       ELSE SeekTarget(from, o, FlushPost.size)
        /\ UNCHANGED <<open, startIndex, panicked>>
    BY <1>3 DEF Seek
  <2>2. position' \in Nat
    BY <1>1, <1>3, <2>1, FlushOK, SeekTargetNat DEF IInv, TypeOK
  <2>3. Range(<<>>) = {}
    BY DEF Range
  <2>. QED  BY <1>3, <2>1, <2>2, <2>3, FlushOK, EmptySeq DEF IInv, TypeOK, ChunksStored, Chunk
<1>. QED  BY <1>2, <1>3

\* Object::truncate: the cut chunk is written with write_chunk before it is
\* pushed, and the chunks kept are a prefix of the flushed handle.
LEMMA TruncateKeeps ==
  ASSUME IInv, NEW length \in 0..MaxBytes, Truncate(length)
  PROVE  IInv'
<1>1. CASE FlushPanics
  BY <1>1, PanicKeeps DEF Truncate, FlushSite
<1>2. CASE ~FlushPanics
  <2>. DEFINE cs == FlushPost.chunks
              last == HeadAt(cs, length)
  <2>1. cs \in Seq(Chunk) /\ Range(cs) \subseteq FlushPost.stored
        /\ FlushPost.size \in Nat /\ FlushPost.stored \subseteq Chunk
    BY <1>2, FlushOK DEF IInv
  <2>2. /\ newChunks' = <<>>
        /\ buffer' = <<>>
        /\ size' = FlushPost.size
        /\ UNCHANGED <<open, startIndex, panicked>>
    BY <1>2 DEF Truncate
  <2>3. Range(<<>>) = {}
    BY DEF Range
  <2>4. CASE length >= FlushPost.size
    <3>1. chunks' = cs /\ stored' = FlushPost.stored /\ position' = position
      BY <1>2, <2>4 DEF Truncate
    <3>. QED  BY <2>1, <2>2, <2>3, <3>1, EmptySeq DEF IInv, TypeOK, ChunksStored, Chunk
  <2>5. CASE ~(length >= FlushPost.size)
    <3>1. /\ chunks' = SubSeq(cs, 1, Loc(cs, length) - 1) \o <<last>>
          /\ stored' = FlushPost.stored \cup {last}
          /\ position' = length
      BY <1>2, <2>5 DEF Truncate
    <3>2. length < SumSizes(cs)
      BY <1>2, <2>1, <2>5, FlushOK DEF FlushPost
    <3>3. HasLoc(cs, length)
      BY <2>1, <3>2, LocBounds
    <3>4. Loc(cs, length) \in 1..Len(cs) /\ last \in Chunk
      BY <2>1, <3>3, SliceAt
    <3>5. SubSeq(cs, 1, Loc(cs, length) - 1) \in Seq(Chunk)
          /\ Range(SubSeq(cs, 1, Loc(cs, length) - 1)) \subseteq Range(cs)
      BY <2>1, <3>4, SubSeqType
    <3>6. <<last>> \in Seq(Chunk) /\ Range(<<last>>) = {last}
      BY <3>4 DEF Range
    <3>7. chunks' \in Seq(Chunk)
          /\ Range(chunks') = Range(SubSeq(cs, 1, Loc(cs, length) - 1)) \cup {last}
      BY <3>1, <3>5, <3>6, RangeConcatChunks
    <3>8. length \in Nat
      BY ConstantsAssumption
    <3>9. TypeOK'
      <4>1. chunks' \in Seq(Chunk) /\ size' \in Nat /\ stored' \subseteq Chunk
            /\ position' \in Nat
        BY <2>1, <2>2, <3>1, <3>4, <3>7, <3>8
      <4>2. newChunks' \in Seq(Chunk) /\ buffer' \in Chunk
        BY <2>2, EmptySeq DEF Chunk
      <4>3. open' \in BOOLEAN /\ startIndex' \in Nat \ {0}
            /\ panicked' \in {"none", "current_chunk", "splice", "copy_from_slice"}
        BY <2>2 DEF IInv, TypeOK
      <4>. QED  BY <4>1, <4>2, <4>3 DEF TypeOK
    <3>10. ChunksStored'
      BY <2>1, <2>2, <2>3, <3>1, <3>5, <3>7 DEF ChunksStored
    <3>. QED  BY <3>9, <3>10 DEF IInv
  <2>. QED  BY <2>4, <2>5
<1>. QED  BY <1>1, <1>2

\* Read::read moves the position forward by the buffer's length, or panics.
LEMMA ReadKeeps ==
  ASSUME IInv, NEW n \in ReadSizes, Read(n)
  PROVE  IInv'
<1>1. n \in Nat
  BY ConstantsAssumption
<1>2. \/ Panic("current_chunk")
      \/ Panic("copy_from_slice")
      \/ /\ position' = position + n
         /\ UNCHANGED <<chunks, size, stored, open, buffer, newChunks, startIndex, panicked>>
  BY DEF Read
<1>. QED  BY <1>1, <1>2, PanicKeeps DEF IInv, TypeOK, ChunksStored

\* Object::new: a fresh Object over the handle.
LEMMA OpenKeeps ==
  ASSUME IInv, OpenObject
  PROVE  IInv'
<1>1. Range(<<>>) = {}
  BY DEF Range
<1>. QED  BY <1>1, EmptySeq DEF OpenObject, IInv, TypeOK, ChunksStored, Chunk

\* The handles the repository may hold when it is opened: the chunks of
\* some content, all of them stored.
LEMMA InitIInv ==
  ASSUME Init
  PROVE  IInv
<1>1. PICK d \in InitData : chunks = Chunking(d) /\ size = Len(d)
  BY DEF Init
<1>2. d \in Seq(Byte)
  BY ConstantsAssumption
<1>3. chunks \in Seq(Chunk) /\ size \in Nat
  BY <1>1, <1>2, ChunkerType, LenProperties
<1>4. stored \subseteq Chunk
  BY <1>3, RangeOfSeq DEF Init
<1>5. Range(<<>>) = {}
  BY DEF Range
<1>6. TypeOK
  <2>1. <<>> \in Chunk /\ <<>> \in Seq(Chunk)
    <3>1. <<>> \in Chunk
      BY EmptySeq DEF Chunk
    <3>2. <<>> \in Seq(Chunk)
      BY EmptySeq
    <3>. QED  BY <3>1, <3>2
  <2>2. /\ open \in BOOLEAN /\ position \in Nat /\ startIndex \in Nat \ {0}
        /\ panicked \in {"none", "current_chunk", "splice", "copy_from_slice"}
    <3>1. open \in BOOLEAN
      BY DEF Init
    <3>2. position \in Nat /\ startIndex \in Nat \ {0}
      BY DEF Init
    <3>3. panicked \in {"none", "current_chunk", "splice", "copy_from_slice"}
      BY DEF Init
    <3>. QED  BY <3>1, <3>2, <3>3
  <2>3. buffer \in Chunk /\ newChunks \in Seq(Chunk)
    BY <2>1 DEF Init
  <2>. QED  BY <1>3, <1>4, <2>2, <2>3 DEF TypeOK
<1>7. ChunksStored
  BY <1>5 DEF Init, ChunksStored
<1>. QED  BY <1>6, <1>7 DEF IInv

-----------------------------------------------------------------------------
(***************************************************************************)
(* The invariant holds in every reachable state, for every choice of the   *)
(* constants: every step of open, write, flush, drop, seek, truncate and   *)
(* read keeps the variables typed and every descriptor of the handle and   *)
(* of new_chunks stored.                                                   *)
(***************************************************************************)
LEMMA Invariance == Spec => []IInv
<1>1. Init => IInv
  BY InitIInv
<1>2. IInv /\ [Next]_vars => IInv'
  <2>. SUFFICES ASSUME IInv, [Next]_vars
                PROVE  IInv'
    OBVIOUS
  <2>0. MaxBytes \in Nat
    BY ConstantsAssumption
  <2>1. CASE OpenObject
    BY <2>1, OpenKeeps
  <2>2. CASE \E buf \in WriteInputs : Write(buf)
    BY <2>2, WriteKeeps
  <2>3. CASE Flush \/ DropObject
    BY <2>3, FlushKeeps
  <2>4. CASE \E o \in 0..MaxBytes : Seek("Start", o)
    <3>1. PICK o \in 0..MaxBytes : Seek("Start", o)
      BY <2>4
    <3>. QED  BY <2>0, <3>1, SeekKeeps
  <2>5. CASE \E from \in {"End", "Current"}, o \in -MaxBytes..MaxBytes : Seek(from, o)
    <3>1. PICK from \in {"End", "Current"}, o \in -MaxBytes..MaxBytes : Seek(from, o)
      BY <2>5
    <3>. QED  BY <3>1, SeekKeeps
  <2>6. CASE \E length \in 0..MaxBytes : Truncate(length)
    BY <2>6, TruncateKeeps
  <2>7. CASE \E n \in ReadSizes : Read(n)
    BY <2>7, ReadKeeps
  <2>8. CASE UNCHANGED vars
    BY <2>8 DEF vars, IInv, TypeOK, ChunksStored
  <2>. QED  BY <2>1, <2>2, <2>3, <2>4, <2>5, <2>6, <2>7, <2>8 DEF Next
<1>. QED  BY <1>1, <1>2, PTL DEF Spec

(***************************************************************************)
(* Type correctness of the Object: the handle is a list of chunks, the     *)
(* position and size are naturals, start_location.index is a valid index   *)
(* base, whatever the constants.                                           *)
(***************************************************************************)
THEOREM TypeCorrect == Spec => []TypeOK
BY Invariance, PTL DEF IInv

=============================================================================
