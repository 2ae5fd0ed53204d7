---------------------------- MODULE ArchiveHeader ----------------------------
(***************************************************************************)
(* The archive file and its header (src/src/header.rs): Header::write,     *)
(* which appends a new header and then repoints the superblock at it, and  *)
(* Header::read, which follows the superblock pointer.  Around them: the   *)
(* repository that asks for a commit, the operating system that writes     *)
(* dirty pages back to the disk in any order, I/O errors that make a step  *)
(* of Header::write return Err, and crashes followed by a reopen.          *)
(*                                                                         *)
(* Data abstraction.  The file is a sequence of cells, each the size of a  *)
(* u64: a cell holds an 8-byte big-endian integer or a piece of the        *)
(* serialized header.  Cell 1 is the superblock.  A serialized header h    *)
(* takes HLen[h] cells; decode succeeds exactly on the cells of one        *)
(* header.  Padding and the holes of a sparse file read as zero.           *)
(* BlockCells is the block size in cells.  Offsets are 1-based cells.      *)
(***************************************************************************)
EXTENDS Naturals, Sequences

CONSTANTS
    Headers,      \* the headers a transaction may commit (model values)
    HLen,         \* HLen[h]: cells taken by encode::to_vec(h)
    InitHeader,   \* the header of the newly created archive
    BlockCells,   \* BLOCK_SIZE in cells
    MaxCells,     \* bound on the length of the file
    PowerLoss     \* whether a crash may lose what is not yet on the disk

ASSUME HeaderAssumption ==
    /\ InitHeader \in Headers
    /\ HLen \in [Headers -> Nat \ {0}]
    /\ BlockCells \in Nat \ {0}
    /\ MaxCells \in Nat
    /\ PowerLoss \in BOOLEAN
    /\ "error" \notin Headers

VARIABLES
    file,       \* the file as the process sees it (page cache)
    disk,       \* the file as it is on the disk
    pc,         \* where Header::write is: "idle", "padded", "len", "body"
                \* or "pointed"
    offset,     \* the local offset of Header::write
    writing,    \* the header Header::write is writing
    committed   \* the repository's header: last written or read, or "error"

vars == <<file, disk, pc, offset, writing, committed>>

U64(n) == [kind |-> "u64", val |-> n]

Zero == U64(0)

Cell == [kind : {"u64"}, val : Nat] \cup [kind : {"body"}, val : Headers]

\* encode::to_vec(h)
Encode(h) == [i \in 1..HLen[h] |-> [kind |-> "body", val |-> h]]

-----------------------------------------------------------------------------
(***************************************************************************)
(* Header::read: the u64 at offset 0 is the offset of the header; the u64  *)
(* there is its size; decode reads that many bytes.  A read past the end   *)
(* of the file (read_exact) or a failed decode is an error.                *)
(***************************************************************************)
Decode(f, p) ==
    IF /\ p \in 1..Len(f)
       /\ f[p].kind = "u64"
       /\ p + f[p].val <= Len(f)
       /\ \E h \in Headers : SubSeq(f, p + 1, p + f[p].val) = Encode(h)
    THEN CHOOSE h \in Headers : SubSeq(f, p + 1, p + f[p].val) = Encode(h)
    ELSE "error"

ReadHeader(f) ==
    IF Len(f) >= 1 /\ f[1].kind = "u64" THEN Decode(f, f[1].val) ELSE "error"

\* pad_to_block_size: zeros up to the next multiple of the block size.
PadCount(n) == (BlockCells - (n % BlockCells)) % BlockCells

Pad(f) == f \o [i \in 1..PadCount(Len(f)) |-> Zero]

-----------------------------------------------------------------------------
\* A created archive: the superblock, then the length and the first header.
Init ==
    /\ file = <<U64(2), U64(HLen[InitHeader])>> \o Encode(InitHeader)
    /\ disk = file
    /\ pc = "idle"
    /\ offset = 0
    /\ writing = InitHeader
    /\ committed = InitHeader

\* The repository commits h: Header::write seeks to the end, taking the
\* offset there, and pads the file to the block size.
Begin(h) ==
    /\ pc = "idle"
    /\ committed \in Headers
    /\ Len(Pad(file)) + 1 + HLen[h] <= MaxCells
    /\ offset' = Len(file) + 1
    /\ file' = Pad(file)
    /\ writing' = h
    /\ pc' = "padded"
    /\ UNCHANGED <<disk, committed>>

\* Mutant: the size is written short by the 2 cells of the length and the
\* superblock.
WriteLenShort ==
    /\ pc = "padded"
    /\ file' = Append(file, U64(HLen[writing] - 2))
    /\ pc' = "len"
    /\ UNCHANGED <<disk, offset, writing, committed>>

\* Mutant: the pointer is overwritten together with the size, before the
\* header body is written.
WriteLenPublishes ==
    /\ pc = "padded"
    /\ file' = [Append(file, U64(HLen[writing])) EXCEPT ![1] = U64(offset)]
    /\ pc' = "len"
    /\ UNCHANGED <<disk, offset, writing, committed>>

\* write_all of the header size.
WriteLen ==
    /\ pc = "padded"
    /\ file' = Append(file, U64(HLen[writing]))
    /\ pc' = "len"
    /\ UNCHANGED <<disk, offset, writing, committed>>

\* write_all of the serialized header.
WriteBody ==
    /\ pc = "len"
    /\ file' = file \o Encode(writing)
    /\ pc' = "body"
    /\ UNCHANGED <<disk, offset, writing, committed>>

\* Seek to 0 and overwrite the pointer with the offset.
WritePointer ==
    /\ pc = "body"
    /\ file' = [file EXCEPT ![1] = U64(offset)]
    /\ pc' = "pointed"
    /\ UNCHANGED <<disk, offset, writing, committed>>

\* archive.metadata() succeeds: Header::write returns Ok and the
\* repository's header is the new one.
Finish ==
    /\ pc = "pointed"
    /\ committed' = writing
    /\ pc' = "idle"
    /\ UNCHANGED <<file, disk, offset, writing>>

\* A step of Header::write fails: the ? returns the Err, the repository keeps
\* its header, and what was written stays in the file.  After the pointer
\* write, the Err comes from archive.metadata().
Fail ==
    /\ pc # "idle"
    /\ pc' = "idle"
    /\ UNCHANGED <<file, disk, offset, writing, committed>>

\* The operating system writes one cell of the page cache to the disk.
Writeback(i) ==
    /\ i \in 1..Len(file)
    /\ IF i > Len(disk) THEN TRUE ELSE disk[i] # file[i]
    /\ disk' = [j \in 1..(IF i > Len(disk) THEN i ELSE Len(disk)) |->
                  IF j = i THEN file[i] ELSE IF j <= Len(disk) THEN disk[j] ELSE Zero]
    /\ UNCHANGED <<file, pc, offset, writing, committed>>

\* The process dies; the page cache survives it.  The repository is opened
\* again and reads the header.
ProcessCrash ==
    /\ pc' = "idle"
    /\ committed' = ReadHeader(file)
    /\ UNCHANGED <<file, disk, offset, writing>>

\* The machine loses power: only the disk survives.  The repository is
\* opened again and reads the header.
PowerFailure ==
    /\ PowerLoss
    /\ file' = disk
    /\ pc' = "idle"
    /\ committed' = ReadHeader(disk)
    /\ UNCHANGED <<disk, offset, writing>>

Next ==
    \/ \E h \in Headers : Begin(h)
    \/ WriteLen
    \/ WriteBody
    \/ WritePointer
    \/ Finish
    \/ Fail
    \/ \E i \in 1..MaxCells : Writeback(i)
    \/ ProcessCrash
    \/ PowerFailure

Spec == Init /\ [][Next]_vars

-----------------------------------------------------------------------------
TypeOK ==
    /\ file \in Seq(Cell)
    /\ disk \in Seq(Cell)
    /\ pc \in {"idle", "padded", "len", "body", "pointed"}
    /\ offset \in Nat
    /\ writing \in Headers
    /\ committed \in Headers \cup {"error"}

(***************************************************************************)
(* The header Header::read finds in the file is the repository's header    *)
(* whenever no Header::write is between its pointer write and its return:  *)
(* between two commits, during a Header::write before the pointer is       *)
(* overwritten, after a failed one and after a reopen (spec section 7: the *)
(* commit succeeds exactly when the pointer update does).                  *)
(***************************************************************************)
CommitReadable ==
    committed \in Headers /\ pc # "pointed" => ReadHeader(file) = committed

(***************************************************************************)
(* Only Header::write's pointer overwrite changes which header             *)
(* Header::read finds in the page cache (or a reopen after a power         *)
(* failure, which reads the disk): padding, the size, the body, a failed   *)
(* step and a process crash leave the old header readable, whatever the    *)
(* block size and whatever earlier writes left at the end of the file.     *)
(***************************************************************************)
ReadChangesOnlyAtPointer ==
    [][ReadHeader(file') # ReadHeader(file) =>
           \/ pc = "body" /\ pc' = "pointed"
           \/ file' = disk]_vars

(***************************************************************************)
(* The disk always holds a readable header, so that a power failure at any *)
(* moment leaves an archive that opens (the commit protocol of the spec    *)
(* makes the header durable before the pointer is written).                *)
(***************************************************************************)
DiskRecoverable == ReadHeader(disk) \in Headers

=============================================================================
