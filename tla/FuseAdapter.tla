----------------------------- MODULE FuseAdapter -----------------------------
(***************************************************************************)
(* The FUSE adapter of src/src/repo/file/fuse/fs.rs: the FuseAdapter's     *)
(* inode table, handle table, cache of open objects (objects) and          *)
(* directory listings (directories), driven by the kernel's calls of the   *)
(* Filesystem methods.  The FileRepo below it is a tree of entries.        *)
(*                                                                         *)
(* Data abstraction.  A path is a sequence of names of at most MaxDepth    *)
(* components; the root is <<>>.  An entry is a kind and an identity: the  *)
(* identity stands for the entry's data (its object handle), so a cached   *)
(* Object is the identity it was opened on.  File contents, metadata,      *)
(* times and attributes are left out: no property reads them, and the     *)
(* handlers that only change them (setattr, the atime and mtime updates of *)
(* read and write) keep their control and their cache effects.             *)
(*                                                                         *)
(* The InodeTable, HandleTable and FileRepo are not under src/; they are   *)
(* modelled from the way fs.rs calls them: path(ino) and inode(path)       *)
(* return an Option, insert hands out an unused inode, open hands out an   *)
(* unused handle, and create, remove and copy fail on a missing parent, an *)
(* existing or missing entry, or a non-empty directory.  Which free inode  *)
(* or handle is handed out is left open, so reuse of numbers is covered.   *)
(*                                                                         *)
(* The kernel is modelled only as far as fs.rs relies on it: it calls the  *)
(* handlers with any inode, and with the handles it holds; it keeps for    *)
(* each open directory the offset to pass to the next readdir.  A panic    *)
(* (an unwrap of None, a slice out of range) kills the file system: it is  *)
(* recorded in panicked and no call follows.                               *)
(***************************************************************************)
EXTENDS Naturals, Sequences, FiniteSets

CONSTANTS
    Names,       \* the file names used in paths
    MaxDepth,    \* bound on the components of a path
    Inodes,      \* the inode numbers the InodeTable hands out
    Handles,     \* the handle numbers the HandleTable hands out
    InitRepo,    \* the FileRepo when it is mounted
    InitInodes,  \* the inode table FuseAdapter::new builds from the walk
    MaxEntries,  \* bound on the entry identities ever created
    ReplyCap,    \* directory entries that fit in one ReplyDirectory
    MaxListed,   \* bound on the entries the kernel collects from one handle
    ReadSizes,   \* sizes passed to read
    MknodModes   \* the modes passed to mknod: <<file type, permission bits set>>

Paths == UNION {[1..n -> Names] : n \in 0..MaxDepth}

Root == <<>>

NoPath == <<"/">>          \* None for InodeTable::path

Kinds == {"file", "dir", "special"}

NoEntry == [kind |-> "none", id |-> 0]

Entry == [kind : Kinds, id : 1..MaxEntries] \cup {NoEntry}

ASSUME FuseAssumption ==
    /\ "/" \notin Names
    /\ MaxDepth \in Nat \ {0}
    /\ Inodes \subseteq Nat \ {0}
    /\ Handles \subseteq Nat \ {0}
    /\ InitRepo \in [Paths -> Entry]
    /\ InitInodes \in [Inodes -> Paths \cup {NoPath}]
    /\ MaxEntries \in Nat
    /\ ReplyCap \in Nat \ {0}
    /\ MaxListed \in Nat
    /\ ReadSizes \subseteq Nat
    /\ MknodModes \subseteq {"REG", "CHR", "DIR", "BLK", "FIFO", "LNK", "SOCK"} \X BOOLEAN
    /\ IsFiniteSet(Names)
    \* MaxEntries leaves room for the entries of the mounted FileRepo.
    /\ Cardinality({p \in Paths : InitRepo[p] # NoEntry}) <= MaxEntries
    \* The FileRepo mounted is a tree, and the walk of FuseAdapter::new gives
    \* each of its paths at most one inode.
    /\ InitRepo[<<>>].kind = "dir"
    /\ \A p \in Paths \ {<<>>} :
          InitRepo[p].kind # "none" => InitRepo[SubSeq(p, 1, Len(p) - 1)].kind = "dir"
    /\ \A i \in Inodes : InitInodes[i] # NoPath => InitRepo[InitInodes[i]].kind # "none"
    /\ \A i, j \in Inodes : InitInodes[i] = InitInodes[j] /\ InitInodes[i] # NoPath => i = j

VARIABLES
    repo,         \* the FileRepo: path -> entry
    nextId,       \* the identity of the next entry created
    inodes,       \* InodeTable: inode -> path, or NoPath
    objects,      \* FuseAdapter.objects: inode -> identity opened, or 0
    handles,      \* HandleTable: handle -> [type, ino], or the closed record
    directories,  \* FuseAdapter.directories: handle -> listing
    kernel,       \* handle -> the inodes of the kernel's open files using it
    cursor,       \* handle -> the offset the kernel passes to readdir
    listed,       \* handle -> the paths readdir has returned
    eof,          \* handle -> readdir has returned an empty reply
    panicked      \* "none", or the handler whose panic killed the process

vars == <<repo, nextId, inodes, objects, handles, directories, kernel, cursor,
          listed, eof, panicked>>

Closed == [type |-> "none", ino |-> 0]

\* Bound on the kernel's open files holding the same handle number: one
\* more than the HandleTable means to allow, so that a reuse shows.
MaxShare == 2

-----------------------------------------------------------------------------
(* FileRepo, as fs.rs uses it. *)
Exists(p) == repo[p].kind # "none"

IsDirectory(p) == repo[p].kind = "dir"

IsFile(p) == repo[p].kind = "file"

Parent(p) == SubSeq(p, 1, Len(p) - 1)

Children(p) == {c \in Paths : Len(c) = Len(p) + 1 /\ Parent(c) = p /\ Exists(c)}

\* RelativePath::starts_with: d begins with the components of s.
StartsWith(d, s) == Len(s) <= Len(d) /\ SubSeq(d, 1, Len(s)) = s

\* The error of FileRepo::create(p), or "ok".
CreateError(p) ==
    CASE Exists(p)                -> "EEXIST"
      [] ~IsDirectory(Parent(p))  -> "ENOENT"
      [] OTHER                    -> "ok"

\* The error of FileRepo::remove(p), or "ok".
RemoveError(p) ==
    CASE ~Exists(p)               -> "ENOENT"
      [] Children(p) # {}         -> "ENOTEMPTY"
      [] OTHER                    -> "ok"

(* InodeTable: inode(path), with 0 for None. *)
InodeOf(p) == IF \E i \in Inodes : inodes[i] = p
              THEN CHOOSE i \in Inodes : inodes[i] = p
              ELSE 0

FreeInodes == {i \in Inodes : inodes[i] = NoPath}

FreeHandles == {h \in Handles : handles[h] = Closed}

\* FuseAdapter::child_path: None when the parent inode has no path.
ChildPath(parent, name) ==
    IF inodes[parent] = NoPath THEN NoPath ELSE Append(inodes[parent], name)

\* The bound MaxDepth on the paths child_path builds.
InDepth(parent) == inodes[parent] = NoPath \/ Len(inodes[parent]) < MaxDepth

\* entry_attr: a file's Object is opened and cached when the inode has none;
\* a cached Object is committed and kept, whatever entry it was opened on.
AttrObjects(p, ino) ==
    IF IsFile(p) /\ objects[ino] = 0
    THEN [objects EXCEPT ![ino] = repo[p].id]
    ELSE objects

Live == panicked = "none"

Panic(site) == /\ panicked' = site
               /\ UNCHANGED <<repo, nextId, inodes, objects, handles, directories,
                              kernel, cursor, listed, eof>>

\* A handler that replies without changing the adapter or the FileRepo.
Reply == UNCHANGED <<repo, nextId, inodes, objects, handles, directories,
                     kernel, cursor, listed, eof, panicked>>

Cached(o) == /\ objects' = o
             /\ UNCHANGED <<repo, nextId, inodes, handles, directories, kernel,
                            cursor, listed, eof, panicked>>

-----------------------------------------------------------------------------
Init ==
    /\ repo = InitRepo
    /\ nextId = Cardinality({p \in Paths : InitRepo[p] # NoEntry}) + 1
    /\ inodes = InitInodes
    /\ objects = [i \in Inodes |-> 0]
    /\ handles = [h \in Handles |-> Closed]
    /\ directories = [h \in Handles |-> <<>>]
    /\ kernel = [h \in Handles |-> <<>>]
    /\ cursor = [h \in Handles |-> 0]
    /\ listed = [h \in Handles |-> <<>>]
    /\ eof = [h \in Handles |-> FALSE]
    /\ panicked = "none"

\* lookup: inode(&entry_path).unwrap() comes before repo.entry.
Lookup(parent, name) ==
    LET p == ChildPath(parent, name) IN
    /\ Live
    /\ InDepth(parent)
    /\ CASE p = NoPath        -> Reply
         [] InodeOf(p) = 0    -> Panic("lookup")
         [] ~Exists(p)        -> Reply
         [] OTHER             -> Cached(AttrObjects(p, InodeOf(p)))

\* getattr, and setattr (its metadata changes are not modelled).
GetAttr(ino) ==
    /\ Live
    /\ IF inodes[ino] = NoPath \/ ~Exists(inodes[ino])
       THEN Reply
       ELSE Cached(AttrObjects(inodes[ino], ino))

SetAttr(ino) == GetAttr(ino)

(***************************************************************************)
(* mknod, mkdir and symlink: FileRepo::create, then InodeTable::insert,    *)
(* then entry_attr on the new inode.  When the inode handed out still has  *)
(* a cached Object, entry_attr keeps it.                                   *)
(***************************************************************************)
CreateEntry(p, kind) ==
    IF CreateError(p) # "ok"
    THEN Reply
    ELSE /\ nextId <= MaxEntries
         /\ \E i \in FreeInodes :
               /\ repo' = [repo EXCEPT ![p] = [kind |-> kind, id |-> nextId]]
               /\ nextId' = nextId + 1
               /\ inodes' = [inodes EXCEPT ![i] = p]
               /\ objects' = IF kind = "file" /\ objects[i] = 0
                             THEN [objects EXCEPT ![i] = nextId]
                             ELSE objects
               /\ UNCHANGED <<handles, directories, kernel, cursor, listed, eof,
                              panicked>>

(***************************************************************************)
(* mknod's mode: the file type bits (bits 12 to 15 of S_IFMT) of each      *)
(* type, and whether permission bits are set too.  SFlag::from_bits is    *)
(* None when any bit outside the S_IF* flags is set, and                   *)
(* s_flag.contains(f) holds when every bit of f is set in the mode.        *)
(***************************************************************************)
ModeBits == [REG |-> {15}, CHR |-> {13}, DIR |-> {14}, BLK |-> {13, 14},
             FIFO |-> {12}, LNK |-> {13, 15}, SOCK |-> {14, 15}]

FileTypes == DOMAIN ModeBits

ModeContains(type, flag) == ModeBits[flag] \subseteq ModeBits[type]

\* The file type mknod's match makes of the mode, or the error it replies.
MknodType(type, perm) ==
    CASE perm                          -> "EINVAL"
      [] ModeContains(type, "REG")     -> "file"
      [] ModeContains(type, "CHR")     -> "chr"
      [] ModeContains(type, "BLK")     -> "blk"
      [] ModeContains(type, "FIFO")    -> "fifo"
      [] ModeContains(type, "SOCK")    -> "EPERM"
      [] OTHER                         -> "EINVAL"

Mknod(parent, name, type, perm) ==
    LET p == ChildPath(parent, name)
        t == MknodType(type, perm)
    IN  /\ Live
        /\ InDepth(parent)
        /\ IF p = NoPath
           THEN Reply
           ELSE IF t \in {"EPERM", "EINVAL"} THEN Reply
                ELSE CreateEntry(p, IF t = "file" THEN "file" ELSE "special")

Mkdir(parent, name) ==
    LET p == ChildPath(parent, name) IN
    /\ Live
    /\ InDepth(parent)
    /\ IF p = NoPath THEN Reply ELSE CreateEntry(p, "dir")

Symlink(parent, name) ==
    LET p == ChildPath(parent, name) IN
    /\ Live
    /\ InDepth(parent)
    /\ IF p = NoPath THEN Reply ELSE CreateEntry(p, "special")

(***************************************************************************)
(* unlink and rmdir: FileRepo::remove, then inode(&entry_path).unwrap()   *)
(* and InodeTable::remove.  The Object cached for the inode stays.         *)
(***************************************************************************)
RemoveEntry(p, site) ==
    CASE RemoveError(p) # "ok"  -> Reply
      [] InodeOf(p) = 0         -> Panic(site)
      [] OTHER -> /\ repo' = [repo EXCEPT ![p] = NoEntry]
                  /\ inodes' = [inodes EXCEPT ![InodeOf(p)] = NoPath]
                  /\ UNCHANGED <<nextId, objects, handles, directories, kernel,
                                 cursor, listed, eof, panicked>>

\* An unlink that forgets InodeTable::remove.
UnlinkKeepsInode(parent, name) ==
    LET p == ChildPath(parent, name) IN
    /\ Live
    /\ InDepth(parent)
    /\ CASE p = NoPath          -> Reply
         [] IsDirectory(p)      -> Reply
         [] RemoveError(p) # "ok" -> Reply
         [] OTHER -> /\ repo' = [repo EXCEPT ![p] = NoEntry]
                     /\ UNCHANGED <<nextId, inodes, objects, handles, directories,
                                    kernel, cursor, listed, eof, panicked>>

Unlink(parent, name) ==
    LET p == ChildPath(parent, name) IN
    /\ Live
    /\ InDepth(parent)
    /\ CASE p = NoPath          -> Reply
         [] IsDirectory(p)      -> Reply
         [] OTHER               -> RemoveEntry(p, "unlink")

Rmdir(parent, name) ==
    LET p == ChildPath(parent, name) IN
    /\ Live
    /\ InDepth(parent)
    /\ CASE p = NoPath          -> Reply
         [] ~IsDirectory(p)     -> Reply
         [] OTHER               -> RemoveEntry(p, "rmdir")

(***************************************************************************)
(* rename: after its checks, FileRepo::remove of the destination (only     *)
(* NotEmpty is reported) and FileRepo::copy of the source, whose error is  *)
(* discarded.  The inode table is not touched.                             *)
(***************************************************************************)
RenameChecks(s, d, parentCheck) ==
    CASE s = NoPath \/ d = NoPath          -> "ENOENT"
      [] ~Exists(s)                        -> "ENOENT"
      [] StartsWith(d, s)                  -> "EINVAL"
      [] parentCheck /\ ~IsDirectory(Parent(d)) -> "ENOTDIR"
      [] RemoveError(d) = "ENOTEMPTY"      -> "ENOTEMPTY"
      [] OTHER                             -> "ok"

RenameCopy(s, d) ==
    /\ nextId <= MaxEntries
    /\ repo' = [repo EXCEPT ![d] = [kind |-> repo[s].kind, id |-> nextId]]
    /\ nextId' = nextId + 1
    /\ UNCHANGED <<inodes, objects, handles, directories, kernel, cursor, listed,
                   eof, panicked>>

\* A rename that forgets to check that the destination's parent is a directory.
RenameNoParentCheck(parent, name, newparent, newname) ==
    LET s == ChildPath(parent, name)
        d == ChildPath(newparent, newname)
    IN  /\ Live
        /\ InDepth(parent) /\ InDepth(newparent)
        /\ IF RenameChecks(s, d, FALSE) # "ok" THEN Reply ELSE RenameCopy(s, d)

Rename(parent, name, newparent, newname) ==
    LET s == ChildPath(parent, name)
        d == ChildPath(newparent, newname)
    IN  /\ Live
        /\ InDepth(parent) /\ InDepth(newparent)
        /\ IF RenameChecks(s, d, TRUE) # "ok" THEN Reply ELSE RenameCopy(s, d)

\* open: O_DIRECT or O_TMPFILE is ENOTSUP; so is an entry that is not a file.
Open(ino, unsupported) ==
    /\ Live
    /\ IF unsupported \/ inodes[ino] = NoPath \/ ~IsFile(inodes[ino])
       THEN Reply
       ELSE \E h \in FreeHandles :
              /\ Len(kernel[h]) < MaxShare
              /\ handles' = [handles EXCEPT ![h] = [type |-> "file", ino |-> ino]]
              /\ kernel' = [kernel EXCEPT ![h] = Append(@, [ino |-> ino, dir |-> FALSE])]
              /\ UNCHANGED <<repo, nextId, inodes, objects, directories, cursor,
                             listed, eof, panicked>>

(***************************************************************************)
(* read and write, called by the kernel with the handle of one of its open *)
(* files.  A handle the table does not know is EBADF and a directory       *)
(* handle EISDIR.  An inode unlinked since the open closes the handle and  *)
(* is EBADF.  Otherwise the inode's Object is taken from the cache or      *)
(* opened with repo.open(..).unwrap().  read then slices                   *)
(* buffer[0..size] of a Vec created with capacity, not length, size.       *)
(***************************************************************************)
KernelFile(h, k) == kernel[h][k]

\* The kernel forgets the k-th of its open files using a handle.
Forget(s, k) == SubSeq(s, 1, k - 1) \o SubSeq(s, k + 1, Len(s))

IoPrologue(h, ino) ==
    CASE handles[h] = Closed \/ handles[h].type = "dir" -> "reply"
      [] inodes[ino] = NoPath                          -> "close"
      [] objects[ino] = 0 /\ ~IsFile(inodes[ino])      -> "panic"
      [] OTHER                                         -> "io"

CloseHandle(h) ==
    /\ handles' = [handles EXCEPT ![h] = Closed]
    /\ UNCHANGED <<repo, nextId, inodes, objects, directories, kernel, cursor,
                   listed, eof, panicked>>

OpenedObjects(ino) ==
    IF objects[ino] = 0 THEN [objects EXCEPT ![ino] = repo[inodes[ino]].id]
    ELSE objects

Read(h, k, size) ==
    LET ino == KernelFile(h, k).ino IN
    /\ Live
    /\ ~KernelFile(h, k).dir
    /\ CASE IoPrologue(h, ino) = "reply"  -> Reply
         [] IoPrologue(h, ino) = "close"  -> CloseHandle(h)
         [] IoPrologue(h, ino) = "panic"  -> Panic("read")
         [] size > 0                      -> Panic("read")
         [] OTHER                         -> Cached(OpenedObjects(ino))

Write(h, k) ==
    LET ino == KernelFile(h, k).ino IN
    /\ Live
    /\ ~KernelFile(h, k).dir
    /\ CASE IoPrologue(h, ino) = "reply"  -> Reply
         [] IoPrologue(h, ino) = "close"  -> CloseHandle(h)
         [] IoPrologue(h, ino) = "panic"  -> Panic("write")
         [] OTHER                         -> Cached(OpenedObjects(ino))

\* flush, fsync and fsyncdir commit the cached Object and the repository;
\* durability is the subject of ArchiveHeader, so here they only reply.
Flush(ino) == Live /\ Reply

Fsync(ino) == Live /\ Reply

Fsyncdir(h) == Live /\ Reply

\* release and releasedir: HandleTable::close; directories keeps the listing.
Release(h, k) ==
    /\ Live
    /\ ~KernelFile(h, k).dir
    /\ handles' = [handles EXCEPT ![h] = Closed]
    /\ kernel' = [kernel EXCEPT ![h] = Forget(@, k)]
    /\ UNCHANGED <<repo, nextId, inodes, objects, directories, cursor, listed, eof,
                   panicked>>

Releasedir(h, k) ==
    /\ Live
    /\ KernelFile(h, k).dir
    /\ handles' = [handles EXCEPT ![h] = Closed]
    /\ kernel' = [kernel EXCEPT ![h] = Forget(@, k)]
    /\ UNCHANGED <<repo, nextId, inodes, objects, directories, cursor, listed, eof,
                   panicked>>

(***************************************************************************)
(* opendir: the listing is taken once, with each child's inode from        *)
(* inode(&child_path).unwrap(), and kept under the new handle.  The kernel *)
(* starts reading it at offset 0.                                          *)
(***************************************************************************)
\* The order FileRepo::list returns the children in: some order, each once.
ListOrder(S) ==
    CHOOSE f \in [1..Cardinality(S) -> S] : \A i, j \in DOMAIN f : f[i] = f[j] => i = j

Listing(p) ==
    LET cs == ListOrder(Children(p))
    IN  [j \in 1..Len(cs) |-> [path |-> cs[j], ino |-> InodeOf(cs[j])]]

OpenDirHandle(ino, p) ==
    \E h \in FreeHandles :
        /\ Len(kernel[h]) < MaxShare
        /\ handles' = [handles EXCEPT ![h] = [type |-> "dir", ino |-> ino]]
        /\ directories' = [directories EXCEPT ![h] = Listing(p)]
        /\ kernel' = [kernel EXCEPT ![h] = Append(@, [ino |-> ino, dir |-> TRUE])]
        /\ cursor' = [cursor EXCEPT ![h] = 0]
        /\ listed' = [listed EXCEPT ![h] = <<>>]
        /\ eof' = [eof EXCEPT ![h] = FALSE]
        /\ UNCHANGED <<repo, nextId, inodes, objects, panicked>>

\* An opendir that takes a missing inode as 0 instead of unwrapping it.
OpendirNoUnwrap(ino) ==
    /\ Live
    /\ IF inodes[ino] = NoPath \/ ~IsDirectory(inodes[ino])
       THEN Reply
       ELSE OpenDirHandle(ino, inodes[ino])

Opendir(ino) ==
    LET p == inodes[ino] IN
    /\ Live
    /\ CASE p = NoPath \/ ~IsDirectory(p)              -> Reply
         [] \E c \in Children(p) : InodeOf(c) = 0      -> Panic("opendir")
         [] OTHER                                      -> OpenDirHandle(ino, p)

(***************************************************************************)
(* readdir(fh, offset): the entries children[offset..] are added until the *)
(* reply is full, the i-th of them with offset i + 1.  The kernel passes   *)
(* the offset of the last entry it received to the next call, and stops   *)
(* at an empty reply or an error.                                          *)
(***************************************************************************)
Batch(h) ==
    LET cs == directories[h]
        off == cursor[h]
        n == IF Len(cs) - off < ReplyCap THEN Len(cs) - off ELSE ReplyCap
    IN  SubSeq(cs, off + 1, off + n)

Readdir(h, k) ==
    LET b == Batch(h) IN
    /\ Live
    /\ KernelFile(h, k).dir
    /\ ~eof[h]
    /\ Len(listed[h]) < MaxListed
    /\ CASE handles[h] = Closed \/ handles[h].type = "file" ->
              /\ eof' = [eof EXCEPT ![h] = TRUE]
              /\ UNCHANGED <<repo, nextId, inodes, objects, handles, directories,
                             kernel, cursor, listed, panicked>>
         [] cursor[h] > Len(directories[h]) -> Panic("readdir")
         [] OTHER ->
              /\ listed' = [listed EXCEPT ![h] = @ \o [j \in 1..Len(b) |-> b[j].path]]
              /\ cursor' = [cursor EXCEPT ![h] = IF b = <<>> THEN @ ELSE Len(b)]
              /\ eof' = [eof EXCEPT ![h] = (b = <<>>)]
              /\ UNCHANGED <<repo, nextId, inodes, objects, handles, directories,
                             kernel, panicked>>

-----------------------------------------------------------------------------
KernelFiles == {f \in Handles \X (1..MaxShare) : f[2] <= Len(kernel[f[1]])}

\* The renames the kernel sends: the VFS answers ENOTDIR or EISDIR itself,
\* before calling the file system, when a directory would replace a
\* non-directory or a non-directory a directory.
KernelRename(parent, name, newparent, newname) ==
    LET s == ChildPath(parent, name)
        d == ChildPath(newparent, newname)
    IN  \/ s = NoPath \/ d = NoPath
        \/ ~Exists(d)
        \/ IsDirectory(s) = IsDirectory(d)

Next ==
    \/ \E i \in Inodes, n \in Names : Lookup(i, n)
    \/ \E i \in Inodes : GetAttr(i) \/ SetAttr(i)
    \/ \E i \in Inodes, n \in Names, m \in MknodModes : Mknod(i, n, m[1], m[2])
    \/ \E i \in Inodes, n \in Names : Mkdir(i, n)
    \/ \E i \in Inodes, n \in Names : Symlink(i, n)
    \/ \E i \in Inodes, n \in Names : Unlink(i, n)
    \/ \E i \in Inodes, n \in Names : Rmdir(i, n)
    \/ \E i, j \in Inodes, n, m \in Names : Rename(i, n, j, m) /\ KernelRename(i, n, j, m)
    \/ \E i \in Inodes, u \in BOOLEAN : Open(i, u)
    \/ \E f \in KernelFiles, s \in ReadSizes : Read(f[1], f[2], s)
    \/ \E f \in KernelFiles : Write(f[1], f[2])
    \/ \E i \in Inodes : Flush(i) \/ Fsync(i)
    \/ \E f \in KernelFiles : Release(f[1], f[2])
    \/ \E i \in Inodes : Opendir(i)
    \/ \E f \in KernelFiles : Readdir(f[1], f[2])
    \/ \E f \in KernelFiles : Releasedir(f[1], f[2])
    \/ \E h \in Handles : Fsyncdir(h)

Spec == Init /\ [][Next]_vars

-----------------------------------------------------------------------------
TypeOK ==
    /\ repo \in [Paths -> Entry]
    /\ nextId \in 1..(MaxEntries + 1)
    /\ inodes \in [Inodes -> Paths \cup {NoPath}]
    /\ objects \in [Inodes -> 0..MaxEntries]
    /\ handles \in [Handles -> [type : {"file", "dir"}, ino : Inodes] \cup {Closed}]
    /\ directories \in [Handles -> Seq([path : Paths, ino : Inodes])]
    /\ kernel \in [Handles -> Seq([ino : Inodes, dir : BOOLEAN])]
    /\ cursor \in [Handles -> Nat]
    /\ listed \in [Handles -> Seq(Paths)]
    /\ eof \in [Handles -> BOOLEAN]
    /\ panicked \in {"none", "lookup", "unlink", "rmdir", "read", "write",
                     "opendir", "readdir"}

(***************************************************************************)
(* The FileRepo stays a tree through every sequence of FUSE calls: the     *)
(* root is a directory and every other entry's parent is a directory.      *)
(* mknod, mkdir and symlink rely on FileRepo::create for this; rename      *)
(* relies on its own parent check, since FileRepo::copy is called blindly. *)
(***************************************************************************)
TreeShape ==
    /\ IsDirectory(Root)
    /\ \A p \in Paths \ {Root} : Exists(p) => IsDirectory(Parent(p))

(***************************************************************************)
(* Every inode the adapter has handed to the kernel and not forgotten      *)
(* names an entry that exists: unlink and rmdir drop the inode of what     *)
(* they remove, and rename only replaces an entry by another.              *)
(***************************************************************************)
InodesNameEntries == \A i \in Inodes : inodes[i] # NoPath => Exists(inodes[i])

(***************************************************************************)
(* Reading a directory with successive readdir calls returns its listing   *)
(* in order, each entry once: what the kernel has collected from a handle  *)
(* is a prefix of the listing opendir took.                                *)
(***************************************************************************)
ListingExact ==
    \A h \in Handles :
        LET names == [j \in 1..Len(directories[h]) |-> directories[h][j].path]
        IN  Len(listed[h]) <= Len(names) /\ SubSeq(names, 1, Len(listed[h])) = listed[h]

(***************************************************************************)
(* The Object cached for an inode is the data of the entry that inode      *)
(* names now, so read, write and getattr through the inode reach that      *)
(* entry and not one that was removed or replaced.                         *)
(***************************************************************************)
CacheCoherent ==
    \A i \in Inodes :
        objects[i] # 0 /\ inodes[i] # NoPath => objects[i] = repo[inodes[i]].id

(***************************************************************************)
(* A handle number is held by at most one open file of the kernel: the     *)
(* HandleTable never hands out a number the kernel has not released.       *)
(***************************************************************************)
HandleNotShared == \A h \in Handles : Len(kernel[h]) <= 1

=============================================================================
