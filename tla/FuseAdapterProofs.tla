-------------------------- MODULE FuseAdapterProofs --------------------------
(***************************************************************************)
(* Proofs that the FileRepo stays a tree and that every inode the adapter *)
(* keeps names an existing entry, for every set of names, depth bound,     *)
(* inodes, handles and initial tree.                                       *)
(***************************************************************************)
EXTENDS FuseAdapter, SequenceTheorems, TLAPS

\* Only these variables decide the two properties.
RepoOK == DOMAIN repo = Paths

InodesOK == inodes \in [Inodes -> Paths \cup {NoPath}]

\* No two inodes name the same path, so InodeOf finds the only one.
InodesInjective ==
    \A i, j \in Inodes : inodes[i] = inodes[j] /\ inodes[i] # NoPath => i = j

IInv == /\ RepoOK
        /\ InodesOK
        /\ TreeShape
        /\ InodesNameEntries
        /\ InodesInjective

-----------------------------------------------------------------------------
(* Paths are the sequences of names of at most MaxDepth components. *)
LEMMA PathsAreSeqs ==
    ASSUME NEW q
    PROVE  q \in Paths <=> q \in Seq(Names) /\ Len(q) <= MaxDepth
<1>1. ASSUME q \in Paths PROVE q \in Seq(Names) /\ Len(q) <= MaxDepth
  <2>1. PICK n \in 0..MaxDepth : q \in [1..n -> Names]
    BY <1>1 DEF Paths
  <2>2. q \in Seq(Names)
    BY <2>1, SeqDef, FuseAssumption
  <2>3. Len(q) = n
    BY <2>1, <2>2, LenProperties, FuseAssumption
  <2>. QED  BY <2>2, <2>3
<1>2. ASSUME q \in Seq(Names), Len(q) <= MaxDepth PROVE q \in Paths
  BY <1>2, LenProperties DEF Paths
<1>. QED  BY <1>1, <1>2

(* The length of the prefix SubSeq(s, 1, L - 1) of a non-empty sequence. *)
LEMMA PrefixLength ==
    ASSUME NEW L \in Nat \ {0}
    PROVE  (IF 1 <= L - 1 THEN L - 1 ELSE 0) = L - 1
OBVIOUS

(* Sequences of different lengths differ. *)
LEMMA ShorterDiffers ==
    ASSUME NEW a, NEW b, Len(b) \in Nat, Len(a) = Len(b) - 1
    PROVE  a # b
OBVIOUS

(* The parent of a path other than the root is a path one component shorter. *)
LEMMA ParentPath ==
    ASSUME NEW q \in Paths, q # Root
    PROVE  /\ Parent(q) \in Paths
           /\ Len(Parent(q)) = Len(q) - 1
           /\ Parent(q) # q
<1>1. q \in Seq(Names) /\ Len(q) <= MaxDepth
  BY PathsAreSeqs
<1>2. Len(q) \in Nat \ {0}
  BY <1>1, EmptySeq DEF Root
<1>3. \A i \in 1..(Len(q) - 1) : q[i] \in Names
  BY <1>1, <1>2, ElementOfSeq
<1>4. /\ SubSeq(q, 1, Len(q) - 1) \in Seq(Names)
      /\ Len(SubSeq(q, 1, Len(q) - 1)) = IF 1 <= Len(q) - 1 THEN Len(q) - 1 ELSE 0
  BY <1>2, <1>3, SubSeqProperties
<1>5. Parent(q) \in Seq(Names) /\ Len(Parent(q)) = Len(q) - 1
  <2>1. Parent(q) = SubSeq(q, 1, Len(q) - 1)
    BY DEF Parent
  <2>2. (IF 1 <= Len(q) - 1 THEN Len(q) - 1 ELSE 0) = Len(q) - 1
    BY <1>2, PrefixLength
  <2>. QED  BY <1>4, <2>1, <2>2
<1>6. Parent(q) \in Paths
  <2>1. Len(Parent(q)) <= MaxDepth
    BY <1>1, <1>2, <1>5, FuseAssumption
  <2>. QED  BY <1>5, <2>1, PathsAreSeqs
<1>7. Parent(q) # q
  BY <1>2, <1>5, ShorterDiffers
<1>. QED  BY <1>5, <1>6, <1>7

(* child_path appends a name to a path shorter than the bound. *)
LEMMA ChildPathPath ==
    ASSUME InodesOK, NEW i \in Inodes, NEW n \in Names, InDepth(i),
           ChildPath(i, n) # NoPath
    PROVE  /\ ChildPath(i, n) \in Paths
           /\ ChildPath(i, n) # Root
<1>1. inodes[i] \in Paths /\ inodes[i] # NoPath
  BY DEF ChildPath, InodesOK
<1>2. inodes[i] \in Seq(Names) /\ Len(inodes[i]) < MaxDepth
  BY <1>1, PathsAreSeqs DEF InDepth
<1>3. ChildPath(i, n) = Append(inodes[i], n)
  BY <1>1 DEF ChildPath
<1>4. /\ Append(inodes[i], n) \in Seq(Names)
      /\ Append(inodes[i], n) # << >>
      /\ Len(Append(inodes[i], n)) = Len(inodes[i]) + 1
  BY <1>2, AppendProperties
<1>5. Len(inodes[i]) \in Nat
  BY <1>2, LenProperties
<1>6. Append(inodes[i], n) \in Paths
  <2>1. Len(Append(inodes[i], n)) <= MaxDepth
    BY <1>2, <1>4, <1>5, FuseAssumption
  <2>. QED  BY <1>4, <2>1, PathsAreSeqs
<1>. QED  BY <1>3, <1>4, <1>6, Zenon DEF Root

(* None of InodeTable::path is not a path, since no name is "/". *)
LEMMA NoPathNotPath == NoPath \notin Paths
<1>. SUFFICES ASSUME NoPath \in Seq(Names) PROVE FALSE
  BY PathsAreSeqs
<1>1. Len(NoPath) = 1
  BY DEF NoPath
<1>2. NoPath[1] \in Names
  BY <1>1, ElementOfSeq
<1>. QED  BY <1>2, FuseAssumption DEF NoPath

LEMMA RootPath == Root \in Paths
<1>1. << >> \in Seq(Names) /\ Len(<< >>) = 0
  BY EmptySeq
<1>2. Len(<< >>) <= MaxDepth
  BY <1>1, FuseAssumption
<1>. QED  BY <1>1, <1>2, PathsAreSeqs DEF Root

-----------------------------------------------------------------------------
(* A step that leaves the FileRepo and the inode table alone keeps IInv. *)
Frame == repo' = repo /\ inodes' = inodes

LEMMA FrameKeeps ==
    ASSUME IInv, Frame
    PROVE  IInv'
BY DEF IInv, RepoOK, InodesOK, TreeShape, InodesNameEntries, InodesInjective,
       Exists, IsDirectory, Frame

(* The replies, panics and cache updates of the handlers are such steps. *)
LEMMA ReplyFrame == Reply => Frame
BY DEF Reply, Frame

LEMMA PanicFrame == ASSUME NEW site PROVE Panic(site) => Frame
BY DEF Panic, Frame

LEMMA CachedFrame == ASSUME NEW o PROVE Cached(o) => Frame
BY DEF Cached, Frame

LEMMA CloseHandleFrame == ASSUME NEW h PROVE CloseHandle(h) => Frame
BY DEF CloseHandle, Frame

(* FuseAdapter::new mounts a tree and gives each path at most one inode. *)
LEMMA InitIInv == Init => IInv
<1>. SUFFICES ASSUME Init PROVE IInv
  OBVIOUS
<1>1. RepoOK /\ InodesOK
  BY FuseAssumption DEF Init, RepoOK, InodesOK
<1>2. TreeShape
  BY FuseAssumption DEF Init, TreeShape, IsDirectory, Exists, Parent, Root
<1>3. InodesNameEntries /\ InodesInjective
  BY FuseAssumption DEF Init, InodesNameEntries, InodesInjective, Exists
<1>. QED  BY <1>1, <1>2, <1>3 DEF IInv

-----------------------------------------------------------------------------
(***************************************************************************)
(* mknod, mkdir and symlink: FileRepo::create only adds an entry whose    *)
(* parent is a directory, and the inode insert gives it a free inode.     *)
(***************************************************************************)
LEMMA CreateKeeps ==
    ASSUME IInv, NEW p \in Paths, p # Root, NEW kind \in Kinds, CreateEntry(p, kind)
    PROVE  IInv'
<1>1. CASE CreateError(p) # "ok"
  BY <1>1, ReplyFrame, FrameKeeps DEF CreateEntry
<1>2. CASE CreateError(p) = "ok"
  <2>1. ~Exists(p) /\ IsDirectory(Parent(p))
    BY <1>2 DEF CreateError
  <2>2. PICK i \in FreeInodes :
            /\ repo' = [repo EXCEPT ![p] = [kind |-> kind, id |-> nextId]]
            /\ inodes' = [inodes EXCEPT ![i] = p]
    BY <1>2 DEF CreateEntry
  <2>3. i \in Inodes /\ inodes[i] = NoPath
    BY DEF FreeInodes
  <2>4. Parent(p) \in Paths /\ Parent(p) # p
    BY ParentPath
  <2>5. /\ \A x \in Paths \ {p} : repo'[x] = repo[x]
        /\ repo'[p].kind = kind
        /\ kind # "none"
    BY <2>2 DEF IInv, RepoOK, Kinds
  <2>6. RepoOK' /\ InodesOK'
    BY <2>2, <2>3 DEF IInv, RepoOK, InodesOK
  <2>7. TreeShape'
    <3>1. IsDirectory(Root)'
      BY <2>5, RootPath DEF IInv, TreeShape, IsDirectory
    <3>2. ASSUME NEW q \in Paths \ {Root}, Exists(q)' PROVE IsDirectory(Parent(q))'
      <4>1. Parent(q) \in Paths
        BY ParentPath
      <4>2. CASE q = p
        BY <4>2, <2>1, <2>4, <2>5 DEF IsDirectory
      <4>3. CASE q # p
        <5>1. Exists(q)
          BY <3>2, <4>3, <2>5 DEF Exists
        <5>2. IsDirectory(Parent(q))
          BY <5>1 DEF IInv, TreeShape
        <5>3. Parent(q) # p
          BY <5>2, <2>1 DEF Exists, IsDirectory
        <5>. QED  BY <4>1, <5>2, <5>3, <2>5 DEF IsDirectory
      <4>. QED  BY <4>2, <4>3
    <3>. QED  BY <3>1, <3>2 DEF TreeShape
  <2>8. \A j \in Inodes \ {i} : inodes[j] # NoPath => inodes[j] \in Paths /\ inodes[j] # p
    BY <2>1 DEF IInv, InodesOK, InodesNameEntries
  <2>9. InodesNameEntries'
    <3>1. ASSUME NEW j \in Inodes, inodes'[j] # NoPath PROVE repo'[inodes'[j]].kind # "none"
      <4>1. CASE j = i
        BY <4>1, <2>2, <2>3, <2>5 DEF IInv, InodesOK
      <4>2. CASE j # i
        <5>1. inodes'[j] = inodes[j]
          BY <4>2, <2>2 DEF IInv, InodesOK
        <5>2. Exists(inodes[j])
          BY <3>1, <5>1 DEF IInv, InodesNameEntries
        <5>. QED  BY <3>1, <4>2, <5>1, <5>2, <2>5, <2>8 DEF Exists
      <4>. QED  BY <4>1, <4>2
    <3>. QED  BY <3>1 DEF InodesNameEntries, Exists
  <2>10. InodesInjective'
    BY <2>2, <2>3, <2>8 DEF IInv, InodesOK, InodesInjective
  <2>. QED  BY <2>6, <2>7, <2>9, <2>10 DEF IInv
<1>. QED  BY <1>1, <1>2

(***************************************************************************)
(* unlink and rmdir: FileRepo::remove only removes an entry without        *)
(* children, and InodeTable::remove frees the one inode naming it.         *)
(***************************************************************************)
LEMMA RemoveKeeps ==
    ASSUME IInv, NEW p \in Paths, p # Root, NEW site, RemoveEntry(p, site)
    PROVE  IInv'
<1>1. CASE RemoveError(p) # "ok"
  BY <1>1, ReplyFrame, PanicFrame, FrameKeeps DEF RemoveEntry
<1>2. CASE RemoveError(p) = "ok" /\ InodeOf(p) = 0
  BY <1>2, PanicFrame, FrameKeeps DEF RemoveEntry
<1>3. CASE RemoveError(p) = "ok" /\ InodeOf(p) # 0
  <2>1. Exists(p) /\ Children(p) = {}
    BY <1>3 DEF RemoveError
  <2>2. /\ repo' = [repo EXCEPT ![p] = NoEntry]
        /\ inodes' = [inodes EXCEPT ![InodeOf(p)] = NoPath]
    BY <1>3 DEF RemoveEntry
  <2>3. InodeOf(p) \in Inodes /\ inodes[InodeOf(p)] = p
    BY <1>3 DEF InodeOf
  <2>4. \A j \in Inodes : inodes[j] = p => j = InodeOf(p)
    BY <2>3, NoPathNotPath DEF IInv, InodesInjective
  <2>5. /\ \A x \in Paths \ {p} : repo'[x] = repo[x]
        /\ repo'[p].kind = "none"
    BY <2>2 DEF IInv, RepoOK, NoEntry
  <2>6. RepoOK' /\ InodesOK'
    BY <2>2, <2>3 DEF IInv, RepoOK, InodesOK
  <2>7. TreeShape'
    <3>1. IsDirectory(Root)'
      BY <2>5, RootPath DEF IInv, TreeShape, IsDirectory
    <3>2. ASSUME NEW q \in Paths \ {Root}, Exists(q)' PROVE IsDirectory(Parent(q))'
      <4>1. q # p
        BY <3>2, <2>5 DEF Exists
      <4>2. Exists(q)
        BY <3>2, <4>1, <2>5 DEF Exists
      <4>3. IsDirectory(Parent(q))
        BY <4>2 DEF IInv, TreeShape
      <4>4. Parent(q) \in Paths /\ Len(Parent(q)) = Len(q) - 1
        BY ParentPath
      <4>5. Parent(q) # p
        <5>1. SUFFICES ASSUME Parent(q) = p PROVE FALSE
          OBVIOUS
        <5>2. Len(q) = Len(p) + 1
          BY <4>4, <5>1, PathsAreSeqs, LenProperties
        <5>3. q \in Children(p)
          BY <4>2, <5>1, <5>2 DEF Children
        <5>. QED  BY <5>3, <2>1
      <4>. QED  BY <4>3, <4>4, <4>5, <2>5 DEF IsDirectory
    <3>. QED  BY <3>1, <3>2 DEF TreeShape
  <2>8. InodesNameEntries'
    <3>1. ASSUME NEW j \in Inodes, inodes'[j] # NoPath PROVE repo'[inodes'[j]].kind # "none"
      <4>1. j # InodeOf(p) /\ inodes'[j] = inodes[j]
        BY <3>1, <2>2, <2>3 DEF IInv, InodesOK
      <4>2. inodes[j] \in Paths /\ inodes[j] # p /\ Exists(inodes[j])
        BY <3>1, <4>1, <2>4 DEF IInv, InodesOK, InodesNameEntries
      <4>. QED  BY <4>1, <4>2, <2>5 DEF Exists
    <3>. QED  BY <3>1 DEF InodesNameEntries, Exists
  <2>9. InodesInjective'
    BY <2>2, <2>3 DEF IInv, InodesOK, InodesInjective
  <2>. QED  BY <2>6, <2>7, <2>8, <2>9 DEF IInv
<1>. QED  BY <1>1, <1>2, <1>3

(* What rename's checks establish when they let the copy through. *)
LEMMA RenameChecksOk ==
    ASSUME NEW s, NEW d, RenameChecks(s, d, TRUE) = "ok"
    PROVE  /\ s # NoPath /\ d # NoPath
           /\ Exists(s)
           /\ IsDirectory(Parent(d))
           /\ RemoveError(d) # "ENOTEMPTY"
BY DEF RenameChecks

(***************************************************************************)
(* rename: FileRepo::copy puts the source's kind at the destination.  The  *)
(* destination's parent is a directory, and the destination has no        *)
(* children: a missing one has none in a tree, and a directory with       *)
(* children was refused with ENOTEMPTY.                                    *)
(***************************************************************************)
LEMMA RenameKeeps ==
    ASSUME IInv, NEW s \in Paths, NEW d \in Paths, d # Root,
           Exists(s), IsDirectory(Parent(d)), RemoveError(d) # "ENOTEMPTY",
           RenameCopy(s, d)
    PROVE  IInv'
<1>1. repo' = [repo EXCEPT ![d] = [kind |-> repo[s].kind, id |-> nextId]] /\ inodes' = inodes
  BY DEF RenameCopy
<1>2. /\ \A x \in Paths \ {d} : repo'[x] = repo[x]
      /\ repo'[d].kind = repo[s].kind
  BY <1>1 DEF IInv, RepoOK
<1>3. RepoOK' /\ InodesOK' /\ InodesInjective'
  BY <1>1 DEF IInv, RepoOK, InodesOK, InodesInjective
<1>4. Parent(d) \in Paths /\ Parent(d) # d
  BY ParentPath
<1>5. ~Exists(d) \/ Children(d) = {}
  BY DEF RemoveError
<1>6. TreeShape'
  <2>1. IsDirectory(Root)'
    BY <1>2, RootPath DEF IInv, TreeShape, IsDirectory
  <2>2. ASSUME NEW q \in Paths \ {Root}, Exists(q)' PROVE IsDirectory(Parent(q))'
    <3>1. Parent(q) \in Paths /\ Len(Parent(q)) = Len(q) - 1
      BY ParentPath
    <3>2. CASE q = d
      BY <3>2, <1>2, <1>4 DEF IsDirectory
    <3>3. CASE q # d
      <4>1. Exists(q)
        BY <2>2, <3>3, <1>2 DEF Exists
      <4>2. IsDirectory(Parent(q))
        BY <4>1 DEF IInv, TreeShape
      <4>3. Parent(q) # d
        <5>1. SUFFICES ASSUME Parent(q) = d PROVE FALSE
          OBVIOUS
        <5>2. Exists(d)
          BY <4>2, <5>1 DEF Exists, IsDirectory
        <5>3. Len(q) = Len(d) + 1
          BY <3>1, <5>1, PathsAreSeqs, LenProperties
        <5>4. q \in Children(d)
          BY <4>1, <5>1, <5>3 DEF Children
        <5>. QED  BY <1>5, <5>2, <5>4
      <4>. QED  BY <3>1, <4>2, <4>3, <1>2 DEF IsDirectory
    <3>. QED  BY <3>2, <3>3
  <2>. QED  BY <2>1, <2>2 DEF TreeShape
<1>7. InodesNameEntries'
  <2>1. ASSUME NEW j \in Inodes, inodes'[j] # NoPath PROVE repo'[inodes'[j]].kind # "none"
    <3>1. inodes'[j] = inodes[j] /\ inodes[j] \in Paths /\ Exists(inodes[j])
      BY <2>1, <1>1 DEF IInv, InodesOK, InodesNameEntries
    <3>. QED  BY <3>1, <1>2 DEF Exists
  <2>. QED  BY <2>1 DEF InodesNameEntries, Exists
<1>. QED  BY <1>3, <1>6, <1>7 DEF IInv

-----------------------------------------------------------------------------
(***************************************************************************)
(* Every handler keeps IInv: the three that change the FileRepo or the     *)
(* inode table by the lemmas above, and all others because they change     *)
(* neither.                                                                *)
(***************************************************************************)
LEMMA NextKeeps ==
    ASSUME IInv, [Next]_vars
    PROVE  IInv'
<1>1. CASE UNCHANGED vars
  BY <1>1, FrameKeeps DEF vars, Frame
<1>2. ASSUME NEW i \in Inodes, NEW n \in Names, Lookup(i, n) PROVE IInv'
  <2>. Frame
    BY <1>2, ReplyFrame, PanicFrame, CachedFrame DEF Lookup
  <2>. QED  BY FrameKeeps
<1>3. ASSUME NEW i \in Inodes, GetAttr(i) \/ SetAttr(i) PROVE IInv'
  <2>. Frame
    BY <1>3, ReplyFrame, CachedFrame DEF GetAttr, SetAttr
  <2>. QED  BY FrameKeeps
<1>4. ASSUME NEW i \in Inodes, NEW n \in Names, NEW m \in MknodModes,
             Mknod(i, n, m[1], m[2])
      PROVE  IInv'
  <2>. DEFINE cp == ChildPath(i, n)
              t == MknodType(m[1], m[2])
  <2>1. CASE cp = NoPath
    BY <1>4, <2>1, ReplyFrame, FrameKeeps DEF Mknod
  <2>2. CASE cp # NoPath /\ t \in {"EPERM", "EINVAL"}
    BY <1>4, <2>2, ReplyFrame, FrameKeeps DEF Mknod
  <2>3. CASE cp # NoPath /\ t \notin {"EPERM", "EINVAL"}
    <3>1. cp \in Paths /\ cp # Root
      BY <1>4, <2>3, ChildPathPath DEF Mknod, IInv
    <3>2. CreateEntry(cp, IF t = "file" THEN "file" ELSE "special")
      BY <1>4, <2>3 DEF Mknod
    <3>3. (IF t = "file" THEN "file" ELSE "special") \in Kinds
      BY DEF Kinds
    <3>. QED  BY <3>1, <3>2, <3>3, CreateKeeps
  <2>. QED  BY <2>1, <2>2, <2>3
<1>5. ASSUME NEW i \in Inodes, NEW n \in Names, Mkdir(i, n) \/ Symlink(i, n)
      PROVE  IInv'
  <2>. DEFINE cp == ChildPath(i, n)
  <2>1. CASE cp = NoPath
    BY <1>5, <2>1, ReplyFrame, FrameKeeps DEF Mkdir, Symlink
  <2>2. CASE cp # NoPath
    <3>1. cp \in Paths /\ cp # Root
      BY <1>5, <2>2, ChildPathPath DEF Mkdir, Symlink, IInv
    <3>2. CreateEntry(cp, "dir") \/ CreateEntry(cp, "special")
      BY <1>5, <2>2 DEF Mkdir, Symlink
    <3>. QED  BY <3>1, <3>2, CreateKeeps DEF Kinds
  <2>. QED  BY <2>1, <2>2
<1>6. ASSUME NEW i \in Inodes, NEW n \in Names, Unlink(i, n) \/ Rmdir(i, n)
      PROVE  IInv'
  <2>. DEFINE cp == ChildPath(i, n)
  <2>1. CASE cp = NoPath
    BY <1>6, <2>1, ReplyFrame, FrameKeeps DEF Unlink, Rmdir
  <2>2. CASE cp # NoPath
    <3>1. cp \in Paths /\ cp # Root
      BY <1>6, <2>2, ChildPathPath DEF Unlink, Rmdir, IInv
    <3>2. Reply \/ RemoveEntry(cp, "unlink") \/ RemoveEntry(cp, "rmdir")
      BY <1>6, <2>2 DEF Unlink, Rmdir
    <3>. QED  BY <3>1, <3>2, ReplyFrame, FrameKeeps, RemoveKeeps
  <2>. QED  BY <2>1, <2>2
<1>7. ASSUME NEW i \in Inodes, NEW j \in Inodes, NEW n \in Names, NEW m \in Names,
             Rename(i, n, j, m)
      PROVE  IInv'
  <2>. DEFINE sp == ChildPath(i, n)
              dp == ChildPath(j, m)
  <2>1. CASE RenameChecks(sp, dp, TRUE) # "ok"
    BY <1>7, <2>1, ReplyFrame, FrameKeeps DEF Rename
  <2>2. CASE RenameChecks(sp, dp, TRUE) = "ok"
    <3>1. /\ sp # NoPath /\ dp # NoPath
          /\ Exists(sp)
          /\ IsDirectory(Parent(dp))
          /\ RemoveError(dp) # "ENOTEMPTY"
      BY <2>2, RenameChecksOk
    <3>2. sp \in Paths /\ dp \in Paths /\ dp # Root
      BY <1>7, <3>1, ChildPathPath DEF Rename, IInv
    <3>3. RenameCopy(sp, dp)
      BY <1>7, <2>2 DEF Rename
    <3>. QED  BY <3>1, <3>2, <3>3, RenameKeeps
  <2>. QED  BY <2>1, <2>2
<1>8. ASSUME NEW i \in Inodes, NEW u \in BOOLEAN, Open(i, u) PROVE IInv'
  <2>. Frame
    BY <1>8, ReplyFrame DEF Open, Frame
  <2>. QED  BY FrameKeeps
<1>9. ASSUME NEW f \in KernelFiles, NEW z \in ReadSizes, Read(f[1], f[2], z)
      PROVE  IInv'
  <2>. Frame
    BY <1>9, ReplyFrame, PanicFrame, CachedFrame, CloseHandleFrame DEF Read
  <2>. QED  BY FrameKeeps
<1>13. ASSUME NEW f \in KernelFiles, Write(f[1], f[2]) PROVE IInv'
  <2>. Frame
    BY <1>13, ReplyFrame, PanicFrame, CachedFrame, CloseHandleFrame DEF Write
  <2>. QED  BY FrameKeeps
<1>10. ASSUME NEW f \in KernelFiles,
              Release(f[1], f[2]) \/ Releasedir(f[1], f[2]) \/ Readdir(f[1], f[2])
       PROVE  IInv'
  <2>. Frame
    BY <1>10, PanicFrame DEF Release, Releasedir, Readdir, Frame
  <2>. QED  BY FrameKeeps
<1>11. ASSUME NEW i \in Inodes, Opendir(i) PROVE IInv'
  <2>. Frame
    BY <1>11, ReplyFrame, PanicFrame DEF Opendir, OpenDirHandle, Frame
  <2>. QED  BY FrameKeeps
<1>12. ASSUME NEW i \in Inodes, Flush(i) \/ Fsync(i) PROVE IInv'
  BY <1>12, ReplyFrame, FrameKeeps DEF Flush, Fsync
<1>14. ASSUME NEW h \in Handles, Fsyncdir(h) PROVE IInv'
  BY <1>14, ReplyFrame, FrameKeeps DEF Fsyncdir
<1>. QED
  <2>1. CASE \E f \in KernelFiles : Readdir(f[1], f[2]) \/ Releasedir(f[1], f[2])
        \/ Release(f[1], f[2])
    BY <2>1, <1>10
  <2>2. CASE \E f \in KernelFiles, z \in ReadSizes : Read(f[1], f[2], z)
    BY <2>2, <1>9
  <2>3. CASE \E f \in KernelFiles : Write(f[1], f[2])
    BY <2>3, <1>13
  <2>. QED
    BY <1>1, <1>2, <1>3, <1>4, <1>5, <1>6, <1>7, <1>8, <1>11, <1>12, <1>14,
       <2>1, <2>2, <2>3 DEF Next

-----------------------------------------------------------------------------
(***************************************************************************)
(* Through every sequence of FUSE calls, the FileRepo stays a tree: the    *)
(* root is a directory and every other entry's parent is a directory       *)
(* (TreeShape, checked by the run fuse_safety).                            *)
(***************************************************************************)
THEOREM TreeAlwaysShaped == Spec => []TreeShape
<1>1. Init => IInv
  BY InitIInv
<1>2. IInv /\ [Next]_vars => IInv'
  BY NextKeeps
<1>3. IInv => TreeShape
  BY DEF IInv
<1>. QED  BY <1>1, <1>2, <1>3, PTL DEF Spec

(***************************************************************************)
(* Every inode the adapter holds names an existing entry: unlink and rmdir *)
(* free the only inode of what they remove (InodesNameEntries, checked by  *)
(* the run fuse_safety).                                                   *)
(***************************************************************************)
THEOREM InodesAlwaysNameEntries == Spec => []InodesNameEntries
<1>1. Init => IInv
  BY InitIInv
<1>2. IInv /\ [Next]_vars => IInv'
  BY NextKeeps
<1>3. IInv => InodesNameEntries
  BY DEF IInv
<1>. QED  BY <1>1, <1>2, <1>3, PTL DEF Spec

(***************************************************************************)
(* The inode table never gives two inodes the same path, so the inode     *)
(* InodeTable::inode(path) returns, and the one unlink and rmdir free, is  *)
(* the only one naming that path.                                          *)
(***************************************************************************)
THEOREM InodesStayInjective == Spec => []InodesInjective
<1>1. Init => IInv
  BY InitIInv
<1>2. IInv /\ [Next]_vars => IInv'
  BY NextKeeps
<1>3. IInv => InodesInjective
  BY DEF IInv
<1>. QED  BY <1>1, <1>2, <1>3, PTL DEF Spec

=============================================================================
