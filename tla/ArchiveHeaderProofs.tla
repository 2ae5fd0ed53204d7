------------------------- MODULE ArchiveHeaderProofs -------------------------
(***************************************************************************)
(* Proofs about Header::write and Header::read, for every value of the     *)
(* constants: the types of the archive model, and that only the pointer    *)
(* overwrite of Header::write (or a reopen from the disk after a power     *)
(* failure) changes which header Header::read finds in the file, through   *)
(* every interleaving of commits, padding, failed steps, writeback and     *)
(* crashes.                                                                *)
(***************************************************************************)
EXTENDS ArchiveHeader, SequenceTheorems, TLAPS

\* The superblock of f holds an offset past itself.
Pointed(f) == Len(f) >= 1 /\ f[1].kind = "u64" /\ f[1].val >= 2

\* Cell p of f is a u64 and the p + f[p].val cells it announces are in f:
\* Header::read at p reads only cells 1 .. p + f[p].val.
Fits(f, p) ==
    /\ p \in 1..Len(f)
    /\ f[p].kind = "u64"
    /\ p + f[p].val <= Len(f)

\* The superblock of f points at a size whose cells are all in f.
Anchored(f) == Fits(f, f[1].val)

\* Where Header::write is, in terms of what it has appended to the file.
WriteProgress ==
    /\ pc # "idle" => committed \in Headers
    /\ pc = "padded" => /\ offset \in 2..Len(file) + 1
                        /\ offset <= Len(file) => file[offset] = Zero
    /\ pc = "len" => /\ offset \in 2..Len(file)
                     /\ \/ file[offset] = Zero
                        \/ offset = Len(file) /\ file[offset] = U64(HLen[writing])
    /\ pc = "body" => Fits(file, offset)

-----------------------------------------------------------------------------
(* A function on 1..n is a sequence of length n. *)
LEMMA FunIsSeq ==
    ASSUME NEW S, NEW n \in Nat, NEW f \in [1..n -> S]
    PROVE  f \in Seq(S) /\ Len(f) = n
<1>1. f \in Seq(S)
  BY SeqDef
<1>. QED  BY <1>1, LenProperties

(* encode::to_vec(h) is HLen[h] cells that name h. *)
LEMMA EncodeFacts ==
    ASSUME NEW h \in Headers
    PROVE  /\ Encode(h) \in Seq(Cell)
           /\ Len(Encode(h)) = HLen[h]
           /\ Encode(h)[1].val = h
<1>1. HLen[h] \in Nat \ {0}
  BY HeaderAssumption
<1>2. Encode(h) \in [1..HLen[h] -> Cell]
  BY <1>1 DEF Encode, Cell
<1>. QED  BY <1>1, <1>2, FunIsSeq DEF Encode

(* Header::read returns a header or an error. *)
LEMMA ReadHeaderType ==
    ASSUME NEW f
    PROVE  ReadHeader(f) \in Headers \cup {"error"}
BY DEF ReadHeader, Decode

(* pad_to_block_size appends zero cells and keeps what was there. *)
LEMMA PadFacts ==
    ASSUME NEW f \in Seq(Cell)
    PROVE  /\ Pad(f) \in Seq(Cell)
           /\ Len(Pad(f)) >= Len(f)
           /\ \A i \in 1..Len(f) : Pad(f)[i] = f[i]
           /\ \A i \in (Len(f) + 1)..Len(Pad(f)) : Pad(f)[i] = Zero
<1>1. PadCount(Len(f)) \in Nat
  BY LenProperties, HeaderAssumption DEF PadCount
<1>2. [i \in 1..PadCount(Len(f)) |-> Zero] \in Seq(Cell)
  BY <1>1, FunIsSeq DEF Zero, U64, Cell
<1>. DEFINE z == [i \in 1..PadCount(Len(f)) |-> Zero]
<1>4. Pad(f) = f \o z
  BY DEF Pad
<1>5. /\ f \o z \in Seq(Cell)
      /\ Len(f \o z) = Len(f) + Len(z)
      /\ \A i \in 1..Len(f) + Len(z) : (f \o z)[i] = IF i <= Len(f) THEN f[i] ELSE z[i - Len(f)]
  BY <1>2, ConcatProperties
<1>6. Len(f) \in Nat /\ Len(z) \in Nat
  BY <1>2, LenProperties
<1>3. Len(z) = PadCount(Len(f)) /\ \A k \in 1..Len(z) : z[k] = Zero
  BY <1>1, FunIsSeq DEF Zero, U64, Cell
<1>7. \A i \in (Len(f) + 1)..Len(f \o z) : (f \o z)[i] = Zero
  <2>. DEFINE a == Len(f)  b == Len(z)  c == Len(f \o z)
  <2>1. a \in Nat /\ b \in Nat /\ c = a + b
    BY <1>5, <1>6
  <2>2. \A k \in (a + 1)..c : k \in 1..a + b /\ ~(k <= a) /\ k - a \in 1..b
    <3>. HIDE DEF a, b, c
    <3>. QED  BY <2>1
  <2>. QED  BY <1>3, <1>5, <2>2
<1>8. \A i \in 1..Len(f) : (f \o z)[i] = f[i]
  BY <1>5, <1>6
<1>9. Len(f \o z) >= Len(f)
  <2>. DEFINE a == Len(f)  b == Len(z)  c == Len(f \o z)
  <2>1. a \in Nat /\ b \in Nat /\ c = a + b
    BY <1>5, <1>6
  <2>. HIDE DEF a, b, c
  <2>2. c >= a
    BY <2>1
  <2>. QED  BY <2>2 DEF a, c
<1>. QED  BY <1>4, <1>5, <1>7, <1>8, <1>9

-----------------------------------------------------------------------------
(* The types, with the superblocks the type proof needs. *)
\* A write in progress has taken its offset past the superblock.
TInv == /\ TypeOK
        /\ Pointed(file)
        /\ Pointed(disk)
        /\ pc # "idle" => offset >= 2

LEMMA InitTInv == Init => TInv
<1>. SUFFICES ASSUME Init PROVE TInv
  OBVIOUS
<1>1. HLen[InitHeader] \in Nat /\ InitHeader \in Headers
  BY HeaderAssumption
<1>2. <<U64(2), U64(HLen[InitHeader])>> \in Seq(Cell)
  <2>1. <<U64(2), U64(HLen[InitHeader])>> \in [1..2 -> Cell]
    BY <1>1 DEF U64, Cell
  <2>. QED  BY <2>1, FunIsSeq
<1>3. file \in Seq(Cell) /\ Len(file) = 2 + HLen[InitHeader] /\ file[1] = U64(2)
  BY <1>1, <1>2, EncodeFacts, ConcatProperties DEF Init
<1>. QED  BY <1>1, <1>3, HeaderAssumption DEF Init, TInv, TypeOK, Pointed, U64

(* Writeback(i) puts file[i] at i on the disk, extending it with zeros. *)
LEMMA WritebackFacts ==
    ASSUME TInv, NEW i, Writeback(i)
    PROVE  /\ disk' \in Seq(Cell)
           /\ Pointed(disk')
<1>1. i \in 1..Len(file) /\ Len(disk) \in Nat /\ Len(file) \in Nat
  BY LenProperties DEF Writeback, TInv, TypeOK
<1>. DEFINE m == IF i > Len(disk) THEN i ELSE Len(disk)
<1>2. m \in Nat /\ m >= Len(disk)
  BY <1>1
<1>3. disk' \in [1..m -> Cell]
  BY <1>1, LenProperties DEF Writeback, TInv, TypeOK, Zero, U64, Cell
<1>4. disk' \in Seq(Cell) /\ Len(disk') = m
  BY <1>2, <1>3, FunIsSeq
<1>5. disk'[1] = IF i = 1 THEN file[1] ELSE disk[1]
  BY <1>1, <1>2 DEF Writeback, TInv, Pointed
<1>. QED  BY <1>2, <1>4, <1>5 DEF TInv, Pointed

LEMMA TInvStep == TInv /\ [Next]_vars => TInv'
<1>. SUFFICES ASSUME TInv, [Next]_vars PROVE TInv'
  OBVIOUS
<1>0. file \in Seq(Cell) /\ Len(file) \in Nat /\ Len(file) >= 1
  BY LenProperties DEF TInv, TypeOK, Pointed
<1>1. ASSUME NEW h \in Headers, Begin(h) PROVE TInv'
  <2>1. Pad(file) \in Seq(Cell) /\ Len(Pad(file)) >= 1 /\ Pad(file)[1] = file[1]
    BY <1>0, PadFacts
  <2>. QED  BY <1>1, <1>0, <2>1 DEF Begin, TInv, TypeOK, Pointed
<1>2. CASE WriteLen
  <2>1. U64(HLen[writing]) \in Cell
    BY HeaderAssumption DEF TInv, TypeOK, U64, Cell
  <2>. QED  BY <1>2, <1>0, <2>1, AppendProperties DEF WriteLen, TInv, TypeOK, Pointed
<1>3. CASE WriteBody
  <2>1. Encode(writing) \in Seq(Cell)
    BY EncodeFacts DEF TInv, TypeOK
  <2>2. file \o Encode(writing) \in Seq(Cell) /\ Len(file \o Encode(writing)) >= 1
        /\ (file \o Encode(writing))[1] = file[1]
    BY <1>0, <2>1, ConcatProperties, LenProperties
  <2>. QED  BY <1>3, <2>2 DEF WriteBody, TInv, TypeOK, Pointed
<1>4. CASE WritePointer
  <2>1. U64(offset) \in Cell
    BY DEF TInv, TypeOK, U64, Cell
  <2>2. [file EXCEPT ![1] = U64(offset)] \in Seq(Cell)
    BY <1>0, <2>1, ExceptSeq
  <2>. QED  BY <1>4, <1>0, <2>2 DEF WritePointer, TInv, TypeOK, Pointed, U64
<1>a. CASE Finish
  BY <1>a DEF Finish, TInv, TypeOK, Pointed
<1>5. CASE Fail
  BY <1>5 DEF Fail, TInv, TypeOK, Pointed
<1>6. ASSUME NEW i \in 1..MaxCells, Writeback(i) PROVE TInv'
  BY <1>6, WritebackFacts DEF Writeback, TInv, TypeOK, Pointed
<1>7. CASE ProcessCrash
  BY <1>7, ReadHeaderType DEF ProcessCrash, TInv, TypeOK, Pointed
<1>8. CASE PowerFailure
  BY <1>8, ReadHeaderType DEF PowerFailure, TInv, TypeOK, Pointed
<1>9. CASE UNCHANGED vars
  BY <1>9 DEF vars, TInv, TypeOK, Pointed
<1>. QED  BY <1>1, <1>2, <1>3, <1>4, <1>a, <1>5, <1>6, <1>7, <1>8, <1>9 DEF Next

(***************************************************************************)
(* Whatever the block size, every reachable state of the archive model is  *)
(* well typed: the file and the disk are sequences of cells, and the       *)
(* repository's header is a header or the error of a failed reopen.       *)
(***************************************************************************)
THEOREM TypeCorrect == Spec => []TypeOK
<1>1. Init => TInv
  BY InitTInv
<1>2. TInv /\ [Next]_vars => TInv'
  BY TInvStep
<1>3. TInv => TypeOK
  BY DEF TInv
<1>. QED  BY <1>1, <1>2, <1>3, PTL DEF Spec

-----------------------------------------------------------------------------
(* Only the pointer overwrite changes the header found in the file. *)
\* The inductive invariant behind ReadChangesOnlyAtPointer: while the
\* repository has a header, the superblock's target lies inside the file.
KeptAnchor == committed \in Headers => Anchored(file)

AInv == TInv /\ WriteProgress /\ KeptAnchor

\* The step of ReadChangesOnlyAtPointer.
ReadMoves ==
    ReadHeader(file') # ReadHeader(file) =>
        \/ pc = "body" /\ pc' = "pointed"
        \/ file' = disk

(* The cells a + 1 .. a + b of f are kept by an extension f2 of f. *)
LEMMA SubSeqKept ==
    ASSUME NEW f \in Seq(Cell), NEW f2 \in Seq(Cell), NEW a \in Nat, NEW b \in Nat,
           a + b <= Len(f), Len(f) <= Len(f2), \A i \in 1..Len(f) : f2[i] = f[i]
    PROVE  SubSeq(f2, a + 1, a + b) = SubSeq(f, a + 1, a + b)
<1>1. Len(f) \in Nat /\ Len(f2) \in Nat
  BY LenProperties
<1>2. /\ \A i \in (a + 1)..(a + b) : f[i] \in Cell
      /\ \A i \in (a + 1)..(a + b) : f2[i] \in Cell
  BY <1>1, LenProperties
<1>3. /\ SubSeq(f, a + 1, a + b) \in Seq(Cell)
      /\ Len(SubSeq(f, a + 1, a + b)) = b
      /\ \A i \in 1..b : SubSeq(f, a + 1, a + b)[i] = f[a + i]
  BY <1>2, SubSeqProperties
<1>4. /\ SubSeq(f2, a + 1, a + b) \in Seq(Cell)
      /\ Len(SubSeq(f2, a + 1, a + b)) = b
      /\ \A i \in 1..b : SubSeq(f2, a + 1, a + b)[i] = f2[a + i]
  BY <1>2, SubSeqProperties
<1>5. \A i \in 1..b : f2[a + i] = f[a + i]
  BY <1>1
<1>. QED  BY <1>3, <1>4, <1>5, SeqEqual

(* Header::read reads only cells of f that an extension of f keeps. *)
LEMMA ExtendKeeps ==
    ASSUME NEW f \in Seq(Cell), NEW f2 \in Seq(Cell), Pointed(f), Anchored(f),
           Len(f) <= Len(f2), \A i \in 1..Len(f) : f2[i] = f[i]
    PROVE  /\ ReadHeader(f2) = ReadHeader(f)
           /\ Pointed(f2)
           /\ Anchored(f2)
<1>. DEFINE p == f[1].val
            v == f[p].val
<1>1. Len(f) \in Nat /\ Len(f2) \in Nat /\ Len(f) >= 1
  BY LenProperties DEF Pointed
<1>2. f2[1] = f[1] /\ p \in 1..Len(f) /\ f2[p] = f[p]
  BY <1>1 DEF Anchored, Fits
<1>3. f[p] \in Cell
  BY <1>2, LenProperties
<1>4. v \in Nat /\ p + v <= Len(f) /\ f[p].kind = "u64"
  BY <1>3, <1>2 DEF Anchored, Fits, Cell
<1>5. SubSeq(f2, p + 1, p + v) = SubSeq(f, p + 1, p + v)
  <2>1. \A a, b \in Nat : a + b <= Len(f) =>
            SubSeq(f2, a + 1, a + b) = SubSeq(f, a + 1, a + b)
    BY SubSeqKept
  <2>2. p \in Nat /\ v \in Nat /\ p + v <= Len(f)
    BY <1>2, <1>4
  <2>. HIDE DEF p, v
  <2>. QED  BY <2>1, <2>2
<1>6. Decode(f2, p) = Decode(f, p)
  <2>1. p \in 1..Len(f2) /\ p + f2[p].val <= Len(f2) /\ f2[p].kind = "u64"
    BY <1>1, <1>2, <1>4
  <2>. QED  BY <1>2, <1>4, <1>5, <2>1 DEF Decode
<1>7. Pointed(f2) /\ Anchored(f2)
  BY <1>1, <1>2, <1>4 DEF Pointed, Anchored, Fits
<1>. QED  BY <1>2, <1>6, <1>7 DEF ReadHeader, Pointed

(* A Header::read that finds a header read only cells inside the file. *)
LEMMA ReadAnchored ==
    ASSUME NEW f \in Seq(Cell), Pointed(f), ReadHeader(f) \in Headers
    PROVE  Anchored(f)
<1>1. Decode(f, f[1].val) \in Headers
  BY DEF ReadHeader, Pointed
<1>. QED  BY <1>1, HeaderAssumption DEF Decode, Anchored, Fits

LEMMA InitAInv == Init => AInv
<1>. SUFFICES ASSUME Init PROVE AInv
  OBVIOUS
<1>. DEFINE L == HLen[InitHeader]
            s == <<U64(2), U64(L)>>
            E == Encode(InitHeader)
<1>1. L \in Nat \ {0} /\ InitHeader \in Headers
  BY HeaderAssumption
<1>2. s \in Seq(Cell) /\ Len(s) = 2
  <2>1. s \in [1..2 -> Cell]
    BY <1>1 DEF U64, Cell
  <2>. QED  BY <2>1, FunIsSeq
<1>3. E \in Seq(Cell) /\ Len(E) = L
  BY <1>1, EncodeFacts
<1>4. /\ Len(file) = 2 + L
      /\ file[1] = U64(2)
      /\ file[2] = U64(L)
  BY <1>1, <1>2, <1>3, ConcatProperties DEF Init
<1>5. Anchored(file)
  BY <1>1, <1>4 DEF Anchored, Fits, U64
<1>. QED  BY <1>5, InitTInv DEF Init, AInv, WriteProgress, KeptAnchor

(* The steps that append to the file: the extension keeps the header read. *)
LEMMA AppendStep ==
    ASSUME AInv, committed \in Headers, file' \in Seq(Cell),
           Len(file) <= Len(file'), \A i \in 1..Len(file) : file'[i] = file[i],
           committed' = committed
    PROVE  ReadHeader(file') = ReadHeader(file) /\ KeptAnchor'
BY ExtendKeeps DEF AInv, TInv, TypeOK, KeptAnchor

LEMMA AInvStep ==
    ASSUME AInv, [Next]_vars
    PROVE  AInv' /\ ReadMoves
<1>0. TInv'
  BY TInvStep DEF AInv
<1>a. /\ file \in Seq(Cell) /\ Len(file) \in Nat /\ Len(file) >= 1
      /\ writing \in Headers /\ HLen[writing] \in Nat \ {0}
      /\ offset \in Nat
  BY LenProperties, HeaderAssumption DEF AInv, TInv, TypeOK, Pointed
<1>. SUFFICES WriteProgress' /\ KeptAnchor' /\ ReadMoves
  BY <1>0 DEF AInv
<1>1. ASSUME NEW h \in Headers, Begin(h) PROVE WriteProgress' /\ KeptAnchor' /\ ReadMoves
  <2>1. /\ file' \in Seq(Cell)
        /\ Len(file') >= Len(file)
        /\ \A i \in 1..Len(file) : file'[i] = file[i]
        /\ \A i \in (Len(file) + 1)..Len(file') : file'[i] = Zero
    BY <1>1, <1>a, PadFacts DEF Begin
  <2>2. ReadHeader(file') = ReadHeader(file) /\ KeptAnchor'
    BY <1>1, <2>1, AppendStep DEF Begin
  <2>3. WriteProgress'
    <3>1. offset' \in 2..Len(file') + 1
      BY <1>1, <1>a, <2>1, LenProperties DEF Begin
    <3>. QED  BY <1>1, <2>1, <3>1 DEF Begin, WriteProgress
  <2>. QED  BY <2>2, <2>3 DEF ReadMoves
<1>2. CASE WriteLen
  <2>. DEFINE c == U64(HLen[writing])
  <2>1. c \in Cell
    BY <1>a DEF U64, Cell
  <2>2. /\ file' \in Seq(Cell)
        /\ Len(file') = Len(file) + 1
        /\ \A i \in 1..Len(file) : file'[i] = file[i]
        /\ file'[Len(file) + 1] = c
    BY <1>2, <1>a, <2>1, AppendProperties DEF WriteLen
  <2>3. committed \in Headers
    BY <1>2 DEF WriteLen, AInv, WriteProgress
  <2>4. ReadHeader(file') = ReadHeader(file) /\ KeptAnchor'
    BY <1>2, <1>a, <2>2, <2>3, AppendStep DEF WriteLen
  <2>5. WriteProgress'
    <3>1. offset \in 2..Len(file) + 1 /\ (offset <= Len(file) => file[offset] = Zero)
      BY <1>2 DEF WriteLen, AInv, WriteProgress
    <3>2. offset \in 2..Len(file')
      BY <1>a, <2>2, <3>1
    <3>3. \/ file'[offset] = Zero
          \/ offset = Len(file') /\ file'[offset] = c
      BY <1>a, <2>2, <3>1
    <3>. QED  BY <1>2, <2>3, <3>2, <3>3 DEF WriteLen, WriteProgress
  <2>. QED  BY <2>4, <2>5 DEF ReadMoves
<1>3. CASE WriteBody
  <2>. DEFINE E == Encode(writing)
              L == HLen[writing]
              n == Len(file)
  <2>1. E \in Seq(Cell) /\ Len(E) = L
    BY <1>a, EncodeFacts
  <2>2. /\ file' \in Seq(Cell)
        /\ Len(file') = n + L
        /\ \A i \in 1..n : file'[i] = file[i]
    BY <1>3, <1>a, <2>1, ConcatProperties DEF WriteBody
  <2>3. committed \in Headers
    BY <1>3 DEF WriteBody, AInv, WriteProgress
  <2>4. ReadHeader(file') = ReadHeader(file) /\ KeptAnchor'
    <3>1. n <= Len(file')
      BY <1>a, <2>2
    <3>. QED  BY <1>3, <2>2, <2>3, <3>1, AppendStep DEF WriteBody
  <2>5. Fits(file', offset)
    <3>1. /\ offset \in 2..n
          /\ \/ file[offset] = Zero
             \/ offset = n /\ file[offset] = U64(L)
      BY <1>3 DEF WriteBody, AInv, WriteProgress
    <3>2. file'[offset] = file[offset] /\ offset \in 1..Len(file')
      BY <1>a, <2>2, <3>1
    <3>. QED  BY <1>a, <2>2, <3>1, <3>2 DEF Fits, Zero, U64
  <2>6. WriteProgress'
    BY <1>3, <2>3, <2>5 DEF WriteBody, WriteProgress
  <2>. QED  BY <2>4, <2>6 DEF ReadMoves
<1>4. CASE WritePointer
  <2>1. committed \in Headers /\ Fits(file, offset) /\ offset >= 2
    BY <1>4 DEF WritePointer, AInv, WriteProgress, TInv
  <2>2. /\ Len(file') = Len(file)
        /\ \A j \in 1..Len(file) : file'[j] = IF j = 1 THEN U64(offset) ELSE file[j]
    <3>1. U64(offset) \in Cell
      BY <1>a DEF U64, Cell
    <3>. QED  BY <1>4, <1>a, <3>1, ExceptSeq DEF WritePointer
  <2>3. Anchored(file')
    BY <1>a, <2>1, <2>2 DEF Anchored, Fits, U64
  <2>4. KeptAnchor'
    BY <1>4, <2>3 DEF WritePointer, KeptAnchor
  <2>5. WriteProgress'
    BY <1>4, <2>1 DEF WritePointer, WriteProgress
  <2>. QED  BY <1>4, <2>4, <2>5 DEF WritePointer, ReadMoves
<1>5. CASE Finish
  <2>1. Anchored(file)
    BY <1>5 DEF Finish, AInv, WriteProgress, KeptAnchor
  <2>. QED  BY <1>5, <2>1 DEF Finish, WriteProgress, KeptAnchor, ReadMoves
<1>6. CASE Fail
  BY <1>6 DEF Fail, AInv, WriteProgress, KeptAnchor, ReadMoves
<1>7. ASSUME NEW i \in 1..MaxCells, Writeback(i)
      PROVE  WriteProgress' /\ KeptAnchor' /\ ReadMoves
  BY <1>7 DEF Writeback, AInv, WriteProgress, KeptAnchor, ReadMoves
<1>8. CASE ProcessCrash
  <2>1. KeptAnchor'
    BY <1>8, <1>a, ReadAnchored DEF ProcessCrash, AInv, TInv, KeptAnchor
  <2>. QED  BY <1>8, <2>1 DEF ProcessCrash, WriteProgress, ReadMoves
<1>9. CASE PowerFailure
  <2>1. disk \in Seq(Cell) /\ Pointed(disk)
    BY DEF AInv, TInv, TypeOK
  <2>2. KeptAnchor'
    BY <1>9, <2>1, ReadAnchored DEF PowerFailure, KeptAnchor
  <2>. QED  BY <1>9, <2>2 DEF PowerFailure, WriteProgress, ReadMoves
<1>10. CASE UNCHANGED vars
  BY <1>10 DEF vars, AInv, WriteProgress, KeptAnchor, ReadMoves
<1>. QED  BY <1>1, <1>2, <1>3, <1>4, <1>5, <1>6, <1>7, <1>8, <1>9, <1>10 DEF Next

(***************************************************************************)
(* For every block size, header set, file bound and power-loss setting,    *)
(* the header Header::read finds in the page cache changes only at         *)
(* Header::write's pointer overwrite or at a reopen from the disk after a  *)
(* power failure: padding, the size, the body, a failed step and a process *)
(* crash keep the old header readable, because the superblock's target     *)
(* always lies in cells that appending leaves alone (AInv).                *)
(***************************************************************************)
THEOREM HeaderChangesOnlyAtPointer == Spec => ReadChangesOnlyAtPointer
<1>1. Init => AInv
  BY InitAInv
<1>2. AInv /\ [Next]_vars => AInv'
  BY AInvStep
<1>3. AInv /\ [Next]_vars => [ReadMoves]_vars
  BY AInvStep
<1>. QED  BY <1>1, <1>2, <1>3, PTL DEF Spec, ReadChangesOnlyAtPointer, ReadMoves

=============================================================================
