-------------------------- MODULE FuseAdapterTypes --------------------------
(***************************************************************************)
(* The types of the FUSE adapter model (src/src/fuse/fs.rs) for every set  *)
(* of names, depth bound, inodes, handles and mounted tree: the paths are  *)
(* finitely many, so FileRepo::list has an order to return, and every      *)
(* handler leaves the adapter's tables, the kernel's view and the entry    *)
(* identities within their types.                                          *)
(***************************************************************************)
EXTENDS FuseAdapterProofs, FiniteSetTheorems

-----------------------------------------------------------------------------
(* There are finitely many paths. *)
LEMMA FunctionSetFinite ==
    ASSUME NEW n \in Nat, NEW S, IsFiniteSet(S)
    PROVE  IsFiniteSet([1..n -> S])
<1>. DEFINE Graph(f) == {<<i, f[i]>> : i \in 1..n}
            T == SUBSET ((1..n) \X S)
            g == [f \in [1..n -> S] |-> Graph(f)]
<1>1. IsFiniteSet(T)
  <2>1. IsFiniteSet(1..n)
    BY FS_Interval
  <2>2. IsFiniteSet((1..n) \X S)
    BY <2>1, FS_Product
  <2>. QED  BY <2>2, FS_SUBSET
<1>2. g \in [[1..n -> S] -> T]
  OBVIOUS
<1>3. ASSUME NEW f1 \in [1..n -> S], NEW f2 \in [1..n -> S], Graph(f1) = Graph(f2)
      PROVE  f1 = f2
  <2>1. ASSUME NEW i \in 1..n PROVE f1[i] = f2[i]
    <3>1. <<i, f1[i]>> \in Graph(f2)
      BY <1>3
    <3>. QED  BY <3>1
  <2>. QED  BY <2>1
<1>4. g \in Injection([1..n -> S], T)
  BY <1>2, <1>3 DEF Injection, IsInjective
<1>. QED  BY <1>1, <1>4, FS_Injection

LEMMA PathsFinite == IsFiniteSet(Paths)
<1>. DEFINE U == {[1..n -> Names] : n \in 0..MaxDepth}
            s == [n \in 0..MaxDepth |-> [1..n -> Names]]
<1>1. IsFiniteSet(U)
  <2>1. s \in Surjection(0..MaxDepth, U)
    BY DEF Surjection
  <2>2. IsFiniteSet(0..MaxDepth)
    BY FuseAssumption, FS_Interval
  <2>. QED  BY <2>1, <2>2, FS_Surjection
<1>2. \A T \in U : IsFiniteSet(T)
  BY FuseAssumption, FunctionSetFinite
<1>. QED  BY <1>1, <1>2, FS_UNION DEF Paths

-----------------------------------------------------------------------------
(* The pieces of TypeOK. *)
KFile == [ino : Inodes, dir : BOOLEAN]

DirEntry == [path : Paths, ino : Inodes]

Sites == {"none", "lookup", "unlink", "rmdir", "read", "write", "opendir", "readdir"}

ObjectsOK(o) == o \in [Inodes -> 0..MaxEntries]

(* A function on 1..n is a sequence of length n. *)
LEMMA FunSeq ==
    ASSUME NEW S, NEW n \in Nat, NEW f \in [1..n -> S]
    PROVE  f \in Seq(S) /\ Len(f) = n
<1>1. f \in Seq(S)
  BY SeqDef
<1>. QED  BY <1>1, LenProperties

(* inode(path) is an inode of the table, or 0 for None. *)
LEMMA InodeOfType ==
    ASSUME NEW p, InodeOf(p) # 0
    PROVE  InodeOf(p) \in Inodes
BY DEF InodeOf

(* A file entry carries an identity of 1..MaxEntries. *)
LEMMA FileId ==
    ASSUME TypeOK, NEW p \in Paths, IsFile(p)
    PROVE  repo[p].id \in 1..MaxEntries
BY DEF TypeOK, IsFile, Entry, NoEntry

LEMMA AttrObjectsType ==
    ASSUME TypeOK, NEW p \in Paths, NEW ino \in Inodes
    PROVE  ObjectsOK(AttrObjects(p, ino))
<1>1. CASE IsFile(p) /\ objects[ino] = 0
  <2>1. repo[p].id \in 0..MaxEntries
    BY <1>1, FileId, FuseAssumption
  <2>. QED  BY <1>1, <2>1 DEF AttrObjects, ObjectsOK, TypeOK
<1>2. CASE ~(IsFile(p) /\ objects[ino] = 0)
  BY <1>2 DEF AttrObjects, ObjectsOK, TypeOK
<1>. QED  BY <1>1, <1>2

(* The handlers that change none of TypeOK's variables, or one of them
   within its type. *)
LEMMA ReplyType == TypeOK /\ Reply => TypeOK'
BY DEF Reply, TypeOK

LEMMA PanicType ==
    ASSUME TypeOK, NEW site \in Sites, Panic(site)
    PROVE  TypeOK'
BY DEF Panic, TypeOK, Sites

LEMMA CachedType ==
    ASSUME TypeOK, NEW o, ObjectsOK(o), Cached(o)
    PROVE  TypeOK'
BY DEF Cached, TypeOK, ObjectsOK

LEMMA CloseHandleType ==
    ASSUME TypeOK, NEW h \in Handles, CloseHandle(h)
    PROVE  TypeOK'
BY DEF CloseHandle, TypeOK, Closed

(* The kernel forgetting one of its open files leaves a sequence. *)
LEMMA ForgetType ==
    ASSUME NEW S, NEW s \in Seq(S), NEW k \in 1..Len(s)
    PROVE  Forget(s, k) \in Seq(S)
<1>1. Len(s) \in Nat
  BY LenProperties
<1>2. SubSeq(s, 1, k - 1) \in Seq(S)
  <2>1. \A i \in 1..(k - 1) : s[i] \in S
    BY <1>1, ElementOfSeq
  <2>. QED  BY <2>1, SubSeqProperties
<1>3. SubSeq(s, k + 1, Len(s)) \in Seq(S)
  <2>1. \A i \in (k + 1)..Len(s) : s[i] \in S
    BY <1>1, ElementOfSeq
  <2>. QED  BY <1>1, <2>1, SubSeqProperties
<1>. QED  BY <1>2, <1>3, ConcatProperties DEF Forget

(* FileRepo::list of a directory whose children all have inodes: each
   child once, in some order, with its inode. *)
LEMMA ListingType ==
    ASSUME TypeOK, NEW p \in Paths, \A c \in Children(p) : InodeOf(c) # 0
    PROVE  Listing(p) \in Seq(DirEntry)
<1>. DEFINE S == Children(p)
            cs == ListOrder(S)
<1>1. IsFiniteSet(S) /\ Cardinality(S) \in Nat
  <2>1. S \subseteq Paths
    BY DEF Children
  <2>2. IsFiniteSet(S)
    BY <2>1, PathsFinite, FS_Subset
  <2>. QED  BY <2>2, FS_CardinalityType
<1>2. \E f \in [1..Cardinality(S) -> S] : \A i, j \in DOMAIN f : f[i] = f[j] => i = j
  <2>1. ExistsBijection(1..Cardinality(S), S)
    BY <1>1, FS_CardinalityType
  <2>. QED  BY <2>1 DEF ExistsBijection, Bijection, Injection, IsInjective
<1>3. cs \in [1..Cardinality(S) -> S]
  BY <1>2 DEF ListOrder
<1>4. cs \in Seq(S) /\ Len(cs) = Cardinality(S)
  BY <1>1, <1>3, FunSeq
<1>5. \A j \in 1..Len(cs) : [path |-> cs[j], ino |-> InodeOf(cs[j])] \in DirEntry
  <2>. SUFFICES ASSUME NEW j \in 1..Len(cs)
                PROVE  cs[j] \in Paths /\ InodeOf(cs[j]) \in Inodes
    BY DEF DirEntry
  <2>1. cs[j] \in S
    BY <1>3, <1>4
  <2>. QED  BY <2>1, InodeOfType DEF Children
<1>6. Listing(p) \in [1..Len(cs) -> DirEntry]
  BY <1>5 DEF Listing
<1>. QED  BY <1>4, <1>6, FunSeq

(* The entries readdir sends from where the kernel's offset is. *)
LEMMA BatchType ==
    ASSUME TypeOK, NEW h \in Handles, cursor[h] <= Len(directories[h])
    PROVE  Batch(h) \in Seq(DirEntry)
<1>. DEFINE cs == directories[h]
            off == cursor[h]
            n == IF Len(cs) - off < ReplyCap THEN Len(cs) - off ELSE ReplyCap
<1>1. cs \in Seq(DirEntry) /\ off \in Nat /\ Len(cs) \in Nat /\ ReplyCap \in Nat
  BY LenProperties, FuseAssumption DEF TypeOK, DirEntry
<1>2. n \in Nat /\ off + n <= Len(cs)
  BY <1>1
<1>3. \A i \in (off + 1)..(off + n) : cs[i] \in DirEntry
  BY <1>1, <1>2, ElementOfSeq
<1>. QED  BY <1>1, <1>2, <1>3, SubSeqProperties DEF Batch

-----------------------------------------------------------------------------
(* Each handler keeps the types. *)
LEMMA InitType == Init => TypeOK
<1>. SUFFICES ASSUME Init PROVE TypeOK
  OBVIOUS
<1>1. nextId \in 1..(MaxEntries + 1)
  <2>1. IsFiniteSet({p \in Paths : InitRepo[p] # NoEntry})
    BY PathsFinite, FS_Subset
  <2>2. Cardinality({p \in Paths : InitRepo[p] # NoEntry}) \in Nat
    BY <2>1, FS_CardinalityType
  <2>. QED  BY <2>2, FuseAssumption DEF Init
<1>2. \A h \in Handles : << >> \in Seq(KFile) /\ << >> \in Seq(DirEntry) /\ << >> \in Seq(Paths)
  BY EmptySeq
<1>. QED  BY <1>1, <1>2, FuseAssumption DEF Init, TypeOK, KFile, DirEntry, Closed

(* FileRepo::create, then InodeTable::insert and entry_attr. *)
LEMMA CreateType ==
    ASSUME TypeOK, NEW p \in Paths, NEW kind \in Kinds, CreateEntry(p, kind)
    PROVE  TypeOK'
<1>1. CASE CreateError(p) # "ok"
  BY <1>1, ReplyType DEF CreateEntry
<1>2. CASE CreateError(p) = "ok"
  <2>1. nextId \in 1..MaxEntries
    BY <1>2, FuseAssumption DEF CreateEntry, TypeOK
  <2>2. [kind |-> kind, id |-> nextId] \in Entry
    BY <2>1 DEF Entry
  <2>3. nextId + 1 \in 1..(MaxEntries + 1) /\ nextId \in 0..MaxEntries
    BY <2>1, FuseAssumption
  <2>. QED  BY <1>2, <2>2, <2>3 DEF CreateEntry, FreeInodes, TypeOK
<1>. QED  BY <1>1, <1>2

(* FileRepo::remove, then inode(path).unwrap() and InodeTable::remove. *)
LEMMA RemoveType ==
    ASSUME TypeOK, NEW p \in Paths, NEW site \in Sites, RemoveEntry(p, site)
    PROVE  TypeOK'
<1>1. Reply => TypeOK'
  BY ReplyType
<1>2. Panic(site) => TypeOK'
  BY PanicType
<1>3. ASSUME InodeOf(p) # 0,
             /\ repo' = [repo EXCEPT ![p] = NoEntry]
             /\ inodes' = [inodes EXCEPT ![InodeOf(p)] = NoPath]
             /\ UNCHANGED <<nextId, objects, handles, directories, kernel,
                            cursor, listed, eof, panicked>>
      PROVE  TypeOK'
  <2>1. InodeOf(p) \in Inodes
    BY <1>3, InodeOfType
  <2>. QED  BY <1>3, <2>1 DEF TypeOK, Entry, NoEntry
<1>. QED  BY <1>1, <1>2, <1>3 DEF RemoveEntry

(* FileRepo::copy of an existing source to a new identity. *)
LEMMA RenameType ==
    ASSUME TypeOK, NEW src \in Paths, NEW d \in Paths, Exists(src), RenameCopy(src, d)
    PROVE  TypeOK'
<1>1. nextId \in 1..MaxEntries
  BY FuseAssumption DEF RenameCopy, TypeOK
<1>2. repo[src].kind \in Kinds
  BY DEF Exists, TypeOK, Entry, NoEntry
<1>3. [kind |-> repo[src].kind, id |-> nextId] \in Entry
  BY <1>1, <1>2 DEF Entry
<1>4. nextId + 1 \in 1..(MaxEntries + 1)
  BY <1>1, FuseAssumption
<1>. QED  BY <1>3, <1>4 DEF RenameCopy, TypeOK

(* What the kernel names in a call on one of its open files. *)
LEMMA KernelFileType ==
    ASSUME TypeOK, NEW f \in KernelFiles
    PROVE  /\ f[1] \in Handles
           /\ f[2] \in 1..Len(kernel[f[1]])
           /\ KernelFile(f[1], f[2]) \in KFile
<1>1. f[1] \in Handles /\ f[2] \in 1..MaxShare /\ f[2] <= Len(kernel[f[1]])
  BY DEF KernelFiles
<1>2. kernel[f[1]] \in Seq(KFile)
  BY <1>1 DEF TypeOK, KFile
<1>3. f[2] \in 1..Len(kernel[f[1]])
  BY <1>1, <1>2, LenProperties DEF MaxShare
<1>. QED  BY <1>1, <1>2, <1>3, ElementOfSeq DEF KernelFile

(* The checks read and write make before they touch the Object. *)
LEMMA IoPrologueFacts ==
    ASSUME TypeOK, NEW h \in Handles, NEW ino \in Inodes
    PROVE  /\ IoPrologue(h, ino) \in {"reply", "close", "panic", "io"}
           /\ IoPrologue(h, ino) = "io" => ObjectsOK(OpenedObjects(ino))
<1>1. IoPrologue(h, ino) \in {"reply", "close", "panic", "io"}
  BY DEF IoPrologue
<1>2. ASSUME IoPrologue(h, ino) = "io" PROVE ObjectsOK(OpenedObjects(ino))
  <2>1. inodes[ino] \in Paths /\ (objects[ino] = 0 => IsFile(inodes[ino]))
    BY <1>2 DEF IoPrologue, TypeOK
  <2>2. objects[ino] = 0 => repo[inodes[ino]].id \in 0..MaxEntries
    BY <2>1, FileId, FuseAssumption
  <2>. QED  BY <2>2 DEF OpenedObjects, ObjectsOK, TypeOK
<1>. QED  BY <1>1, <1>2

LEMMA ReadWriteType ==
    ASSUME TypeOK, NEW f \in KernelFiles,
           (\E z \in ReadSizes : Read(f[1], f[2], z)) \/ Write(f[1], f[2])
    PROVE  TypeOK'
<1>. DEFINE h == f[1]
            k == f[2]
            ino == KernelFile(h, k).ino
<1>1. h \in Handles /\ ino \in Inodes
  BY KernelFileType DEF KFile
<1>2. /\ IoPrologue(h, ino) \in {"reply", "close", "panic", "io"}
      /\ IoPrologue(h, ino) = "io" => ObjectsOK(OpenedObjects(ino))
  BY <1>1, IoPrologueFacts
<1>3. /\ Reply => TypeOK'
      /\ CloseHandle(h) => TypeOK'
      /\ Panic("read") => TypeOK'
      /\ Panic("write") => TypeOK'
      /\ ObjectsOK(OpenedObjects(ino)) /\ Cached(OpenedObjects(ino)) => TypeOK'
  BY <1>1, ReplyType, CloseHandleType, PanicType, CachedType DEF Sites
<1>. QED  BY <1>2, <1>3 DEF Read, Write

LEMMA ReleaseType ==
    ASSUME TypeOK, NEW f \in KernelFiles, Release(f[1], f[2]) \/ Releasedir(f[1], f[2])
    PROVE  TypeOK'
<1>1. f[1] \in Handles /\ f[2] \in 1..Len(kernel[f[1]]) /\ kernel[f[1]] \in Seq(KFile)
  BY KernelFileType DEF TypeOK, KFile
<1>2. Forget(kernel[f[1]], f[2]) \in Seq(KFile)
  BY <1>1, ForgetType
<1>. QED  BY <1>1, <1>2 DEF Release, Releasedir, TypeOK, KFile, Closed

LEMMA LookupType ==
    ASSUME TypeOK, NEW i \in Inodes, NEW n \in Names, Lookup(i, n)
    PROVE  TypeOK'
<1>. DEFINE p == ChildPath(i, n)
<1>1. ASSUME p # NoPath, InodeOf(p) # 0, Cached(AttrObjects(p, InodeOf(p)))
      PROVE  TypeOK'
  <2>1. p \in Paths
    BY <1>1, ChildPathPath DEF Lookup, TypeOK, InodesOK
  <2>2. InodeOf(p) \in Inodes
    BY <1>1, InodeOfType
  <2>. QED  BY <1>1, <2>1, <2>2, AttrObjectsType, CachedType
<1>2. Reply => TypeOK'
  BY ReplyType
<1>3. Panic("lookup") => TypeOK'
  BY PanicType DEF Sites
<1>. QED  BY <1>1, <1>2, <1>3 DEF Lookup

LEMMA GetAttrType ==
    ASSUME TypeOK, NEW i \in Inodes, GetAttr(i) \/ SetAttr(i)
    PROVE  TypeOK'
<1>1. ASSUME inodes[i] # NoPath, Cached(AttrObjects(inodes[i], i)) PROVE TypeOK'
  <2>1. inodes[i] \in Paths
    BY <1>1 DEF TypeOK
  <2>. QED  BY <1>1, <2>1, AttrObjectsType, CachedType
<1>. QED  BY <1>1, ReplyType DEF GetAttr, SetAttr

LEMMA OpenFileType ==
    ASSUME TypeOK, NEW i \in Inodes, NEW u \in BOOLEAN, Open(i, u)
    PROVE  TypeOK'
<1>1. ASSUME NEW h \in FreeHandles,
             /\ handles' = [handles EXCEPT ![h] = [type |-> "file", ino |-> i]]
             /\ kernel' = [kernel EXCEPT ![h] = Append(@, [ino |-> i, dir |-> FALSE])]
             /\ UNCHANGED <<repo, nextId, inodes, objects, directories, cursor,
                            listed, eof, panicked>>
      PROVE  TypeOK'
  <2>1. h \in Handles /\ kernel[h] \in Seq(KFile)
    BY DEF FreeHandles, TypeOK, KFile
  <2>2. Append(kernel[h], [ino |-> i, dir |-> FALSE]) \in Seq(KFile)
    BY <2>1, AppendProperties DEF KFile
  <2>. QED  BY <1>1, <2>1, <2>2 DEF TypeOK, KFile
<1>. QED  BY <1>1, ReplyType DEF Open

(* opendir keeps the listing under a free handle. *)
LEMMA OpenDirHandleType ==
    ASSUME TypeOK, NEW i \in Inodes, NEW p \in Paths,
           \A c \in Children(p) : InodeOf(c) # 0, OpenDirHandle(i, p)
    PROVE  TypeOK'
<1>1. PICK h \in FreeHandles :
        /\ Len(kernel[h]) < MaxShare
        /\ handles' = [handles EXCEPT ![h] = [type |-> "dir", ino |-> i]]
        /\ directories' = [directories EXCEPT ![h] = Listing(p)]
        /\ kernel' = [kernel EXCEPT ![h] = Append(@, [ino |-> i, dir |-> TRUE])]
        /\ cursor' = [cursor EXCEPT ![h] = 0]
        /\ listed' = [listed EXCEPT ![h] = <<>>]
        /\ eof' = [eof EXCEPT ![h] = FALSE]
        /\ UNCHANGED <<repo, nextId, inodes, objects, panicked>>
  BY DEF OpenDirHandle
<1>2. h \in Handles /\ kernel[h] \in Seq(KFile)
  BY DEF FreeHandles, TypeOK, KFile
<1>3. Append(kernel[h], [ino |-> i, dir |-> TRUE]) \in Seq(KFile)
  BY <1>2, AppendProperties DEF KFile
<1>4. Listing(p) \in Seq(DirEntry)
  BY ListingType
<1>5. << >> \in Seq(Paths)
  BY EmptySeq
<1>. QED  BY <1>1, <1>2, <1>3, <1>4, <1>5 DEF TypeOK, KFile, DirEntry

LEMMA OpendirType ==
    ASSUME TypeOK, NEW i \in Inodes, Opendir(i)
    PROVE  TypeOK'
<1>. DEFINE p == inodes[i]
<1>1. ASSUME p # NoPath, \A c \in Children(p) : InodeOf(c) # 0, OpenDirHandle(i, p)
      PROVE  TypeOK'
  <2>1. p \in Paths
    BY <1>1 DEF TypeOK
  <2>. QED  BY <1>1, <2>1, OpenDirHandleType
<1>2. Panic("opendir") => TypeOK'
  BY PanicType DEF Sites
<1>. QED  BY <1>1, <1>2, ReplyType DEF Opendir

(* readdir: the batch from the kernel's offset, or eof, or the panic of a
   slice past the end of the listing. *)
LEMMA ReaddirType ==
    ASSUME TypeOK, NEW f \in KernelFiles, Readdir(f[1], f[2])
    PROVE  TypeOK'
<1>. DEFINE h == f[1]
            b == Batch(h)
<1>1. h \in Handles
  BY KernelFileType
<1>2. ASSUME /\ eof' = [eof EXCEPT ![h] = TRUE]
             /\ UNCHANGED <<repo, nextId, inodes, objects, handles, directories,
                            kernel, cursor, listed, panicked>>
      PROVE  TypeOK'
  BY <1>1, <1>2 DEF TypeOK
<1>3. Panic("readdir") => TypeOK'
  BY PanicType DEF Sites
<1>4. ASSUME ~(cursor[h] > Len(directories[h])),
             /\ listed' = [listed EXCEPT ![h] = @ \o [j \in 1..Len(b) |-> b[j].path]]
             /\ cursor' = [cursor EXCEPT ![h] = IF b = <<>> THEN @ ELSE Len(b)]
             /\ eof' = [eof EXCEPT ![h] = (b = <<>>)]
             /\ UNCHANGED <<repo, nextId, inodes, objects, handles, directories,
                            kernel, panicked>>
      PROVE  TypeOK'
  <2>1. cursor[h] \in Nat /\ Len(directories[h]) \in Nat
    BY <1>1, LenProperties DEF TypeOK
  <2>2. b \in Seq(DirEntry) /\ Len(b) \in Nat
    BY <1>1, <1>4, <2>1, BatchType, LenProperties
  <2>3. [j \in 1..Len(b) |-> b[j].path] \in Seq(Paths)
    <3>1. [j \in 1..Len(b) |-> b[j].path] \in [1..Len(b) -> Paths]
      <4>1. \A j \in 1..Len(b) : b[j] \in DirEntry
        BY <2>2, ElementOfSeq
      <4>. QED  BY <4>1 DEF DirEntry
    <3>. QED  BY <2>2, <3>1, FunSeq
  <2>4. listed[h] \o [j \in 1..Len(b) |-> b[j].path] \in Seq(Paths)
    BY <1>1, <2>3, ConcatProperties DEF TypeOK
  <2>5. (IF b = <<>> THEN cursor[h] ELSE Len(b)) \in Nat
    BY <2>1, <2>2
  <2>. QED  BY <1>1, <1>4, <2>4, <2>5 DEF TypeOK
<1>. QED  BY <1>2, <1>3, <1>4 DEF Readdir

(* mknod, mkdir, symlink, unlink, rmdir and rename. *)
LEMMA CreateHandlersType ==
    ASSUME TypeOK, NEW i \in Inodes, NEW n \in Names,
           \/ \E m \in MknodModes : Mknod(i, n, m[1], m[2])
           \/ Mkdir(i, n)
           \/ Symlink(i, n)
    PROVE  TypeOK'
<1>. DEFINE cp == ChildPath(i, n)
<1>1. InDepth(i) /\ cp # NoPath => cp \in Paths
  BY ChildPathPath DEF TypeOK, InodesOK
<1>2. \A kind \in Kinds : cp \in Paths /\ CreateEntry(cp, kind) => TypeOK'
  BY CreateType
<1>3. /\ "file" \in Kinds /\ "special" \in Kinds /\ "dir" \in Kinds
  BY DEF Kinds
<1>. QED  BY <1>1, <1>2, <1>3, ReplyType DEF Mknod, Mkdir, Symlink

LEMMA RemoveHandlersType ==
    ASSUME TypeOK, NEW i \in Inodes, NEW n \in Names, Unlink(i, n) \/ Rmdir(i, n)
    PROVE  TypeOK'
<1>. DEFINE cp == ChildPath(i, n)
<1>1. InDepth(i) /\ cp # NoPath => cp \in Paths
  BY ChildPathPath DEF TypeOK, InodesOK
<1>2. /\ cp \in Paths /\ RemoveEntry(cp, "unlink") => TypeOK'
      /\ cp \in Paths /\ RemoveEntry(cp, "rmdir") => TypeOK'
  BY RemoveType DEF Sites
<1>. QED  BY <1>1, <1>2, ReplyType DEF Unlink, Rmdir

LEMMA RenameHandlerType ==
    ASSUME TypeOK, NEW i \in Inodes, NEW j \in Inodes, NEW n \in Names, NEW m \in Names,
           Rename(i, n, j, m)
    PROVE  TypeOK'
<1>. DEFINE sp == ChildPath(i, n)
            dp == ChildPath(j, m)
<1>1. CASE RenameChecks(sp, dp, TRUE) # "ok"
  BY <1>1, ReplyType DEF Rename
<1>2. CASE RenameChecks(sp, dp, TRUE) = "ok"
  <2>1. sp # NoPath /\ dp # NoPath /\ Exists(sp)
    BY <1>2, RenameChecksOk
  <2>2. sp \in Paths /\ dp \in Paths
    BY <2>1, ChildPathPath DEF Rename, TypeOK, InodesOK
  <2>3. RenameCopy(sp, dp)
    BY <1>2 DEF Rename
  <2>. QED  BY <2>1, <2>2, <2>3, RenameType
<1>. QED  BY <1>1, <1>2

LEMMA TypeStep == TypeOK /\ [Next]_vars => TypeOK'
<1>. SUFFICES ASSUME TypeOK, [Next]_vars PROVE TypeOK'
  OBVIOUS
<1>1. CASE UNCHANGED vars
  BY <1>1 DEF vars, TypeOK
<1>2. CASE \E i \in Inodes, n \in Names : Lookup(i, n)
  BY <1>2, LookupType
<1>3. CASE \E i \in Inodes : GetAttr(i) \/ SetAttr(i)
  BY <1>3, GetAttrType
<1>4. CASE \/ \E i \in Inodes, n \in Names, m \in MknodModes : Mknod(i, n, m[1], m[2])
           \/ \E i \in Inodes, n \in Names : Mkdir(i, n)
           \/ \E i \in Inodes, n \in Names : Symlink(i, n)
  BY <1>4, CreateHandlersType
<1>5. CASE \E i \in Inodes, n \in Names : Unlink(i, n) \/ Rmdir(i, n)
  BY <1>5, RemoveHandlersType
<1>6. CASE \E i, j \in Inodes, n, m \in Names : Rename(i, n, j, m)
  BY <1>6, RenameHandlerType
<1>7. CASE \E i \in Inodes, u \in BOOLEAN : Open(i, u)
  BY <1>7, OpenFileType
<1>8. CASE \/ \E f \in KernelFiles, z \in ReadSizes : Read(f[1], f[2], z)
           \/ \E f \in KernelFiles : Write(f[1], f[2])
  BY <1>8, ReadWriteType
<1>9. CASE \E f \in KernelFiles : Release(f[1], f[2]) \/ Releasedir(f[1], f[2])
  BY <1>9, ReleaseType
<1>10. CASE \E i \in Inodes : Opendir(i)
  BY <1>10, OpendirType
<1>11. CASE \E f \in KernelFiles : Readdir(f[1], f[2])
  BY <1>11, ReaddirType
<1>12. CASE \/ \E i \in Inodes : Flush(i) \/ Fsync(i)
            \/ \E h \in Handles : Fsyncdir(h)
  BY <1>12, ReplyType DEF Flush, Fsync, Fsyncdir
<1>. QED
  BY <1>1, <1>2, <1>3, <1>4, <1>5, <1>6, <1>7, <1>8, <1>9, <1>10, <1>11, <1>12
  DEF Next

(***************************************************************************)
(* For every finite set of names, depth bound, set of inodes and handles   *)
(* and mounted tree, every reachable state of the adapter is well typed:   *)
(* every entry identity and cached Object is one the repository handed     *)
(* out, every listing opendir keeps holds paths with their inodes, and the *)
(* kernel's offsets and collected names stay sequences and numbers.        *)
(***************************************************************************)
THEOREM TypeCorrect == Spec => []TypeOK
BY InitType, TypeStep, PTL DEF Spec

=============================================================================
