# Formal models of acid-store

This directory holds TLA+ models of parts of the acid-store Rust code under
`src/src/`:
- TLC configurations that model-check them on small instances;
- TLAPS proofs of their main invariants for every value of the constants.

`PROJECT.json` lists each component, run, mutant, finding and hazard, and
maps each definition to the source lines it translates.

## The system and its parts

acid-store is a transactional object store. Its parts, and the file that holds each one under `src/src/`:

| Part | Source | What it does |
|---|---|---|
| Object | `object/object.rs` | Random-access `Read`/`Write`/`Seek` view of one key. The bytes are cut into content-defined chunks; each chunk is stored once under its BLAKE2 hash. `ObjectHandle` is the ordered chunk list and the size. |
| Archive header | `header.rs` | The archive file starts with an 8-byte pointer to the current header. `Header::write` appends a new header and then repoints the pointer. `Header::read` follows it. |
| FUSE adapter | `repo/file/fuse/fs.rs` | Serves a `FileRepo` as a POSIX file system. It keeps an inode table, a handle table, a cache of open objects per inode, and directory listings per handle. |
| File metadata | `repo/file/metadata.rs` | `UnixMetadata`, and the time conversions between `stat` times, `SystemTime` and the FUSE `Timespec`. |
| S3 store | `store/s3.rs` | A `DataStore` that keeps blocks as bucket objects. |
| Savepoint | `repo/common/savepoint.rs` | A header snapshot with a weak transaction tag. |
| Metadata, iterators, entries | `object/metadata.rs`, `repo/common/key.rs`, `repo/file/iter.rs`, `file/entry.rs` | Data types and iterator adaptors. |

The parts interact in two ways:
- An Object writes chunks into the repository and rewrites its own `ObjectHandle`.
- Committing a repository serialises the header, and `Header::write` puts it in the archive.

Everything is single-threaded: a repository has one owner, and an Object holds an exclusive borrow of it (spec §5). The models therefore have no concurrent threads. The hard behaviours are these:
- long sequences of legal calls;
- a step failing midway;
- a crash between two steps;
- the operating system writing the page cache back to disk in any order.

## Modules

### `ObjectEngine` (object.rs)

**State.** The model keeps this state:
- `ObjectHandle.chunks` and `.size`;
- the chunk store `stored`;
- whether an Object is open;
- `position`;
- the chunker's buffered bytes;
- `new_chunks`;
- the index of `start_location`;
- `panicked`.

**Data abstraction.**
- A chunk is identified with its content: the hash is collision-free, and `Chunk.size` is the content's length.
- The ZPAQ chunker is abstracted to cut after each byte of `BoundaryBytes`. Boundaries therefore depend on content only, as in the real chunker.
- `ChunkLocation` is computed by `Loc`/`Rel`. `Loc` counts the chunks ending before the position, which is `current_chunk`'s loop: the first chunk whose `[start, end]` contains the position.

**Actions.**
- One action per public operation: `OpenObject` (`Object::new`), `Write`, `Flush`, `Seek`, `Truncate`, `Read` and `DropObject` (`Drop`).
- Each models the whole method, including the calls it makes. `seek`, `truncate` and `drop` begin with a full `flush`, and each action includes that flush.
- A panic is a terminal state recording where it happened: `current_chunk`'s `panic!`, `copy_from_slice` with unequal lengths, or `Vec::splice` with a reversed range.

**Abstract specification.** `ObjectStream` is the contract of spec §4.5: a byte stream with a seek position.
- `ObjectEngine` maps onto it through `Stream`: the bytes of the chunks, with pending writes overlaid.
- `StreamRefinement` checks that every step is a stream step.

### `ArchiveHeader` (header.rs)

**State.**
- The file as the process sees it (`file`, the page cache) and the file on the disk (`disk`).
- Where `Header::write` is: `pc` ∈ idle, padded, len, body, pointed.
- Its local `offset`.
- The header being written, and the repository's header `committed`.

**Data abstraction.** The file is a sequence of u64-sized cells. A serialised header `h` takes `HLen[h]` cells. Padding and sparse holes read as zero.

**Actions.**
- `Begin` is `seek(End(0))` then `pad_to_block_size`.
- `WriteLen` and `WriteBody` are the two `write_all`s.
- `WritePointer` is the seek to 0 and the overwrite of the pointer (header.rs:102-104).
- `Finish` is `archive.metadata()` succeeding: `write` returns `Ok`, and the repository holds the new header.
- `Fail` is a `?` returning an error at any step, including `archive.metadata()` after the pointer is already overwritten. The repository keeps the old header then.
- `Writeback(i)` is the kernel writing one cell to the disk.
- `ProcessCrash` and `PowerFailure` reopen the archive (`Header::read`) from the page cache or from the disk.

`pad_to_block_size` lives in `crate::block`, which is not under `src/`. `PadCount`/`Pad` are therefore modelled from spec §4.6 step 3 and marked `spec_modelled`.

### `FuseAdapter` (repo/file/fuse/fs.rs)

**State.**
- `repo`: the FileRepo as a map from paths to entries. An entry is a kind (file, dir, special) and an identity that stands for its data.
- `nextId`: the next fresh identity.
- `inodes`: the InodeTable, from inode number to path or `NoPath`.
- `objects`: the cache of open Objects, one per inode. Each Object is the identity it was opened on.
- `handles`: the HandleTable, from handle number to `Closed` or to a file or directory and its inode.
- `directories`: the listing each directory handle took at opendir.
- `kernel[h]`: the kernel's open files on handle `h`. `cursor` is the readdir offset each one holds next, `listed` the names it has collected, and `eof` whether it has seen the end.
- `panicked`: where the file system panicked, if it did.

**Actions.**
- One action per `Filesystem` handler that changes state: `Lookup`, `GetAttr`, `SetAttr`, `Mknod`, `Mkdir`, `Symlink`, `Unlink`, `Rmdir`, `Rename`, `Open`, `Read`, `Write`, `Flush`, `Fsync`, `Release`, `Opendir`, `Readdir`, `Releasedir` and `Fsyncdir`.
- Each handler's early returns (ENOENT, ENOTDIR, EEXIST, EBADF, ...) are branches of its action. Its `unwrap()`s and slice bounds are `Panic(site)` branches.
- `Mknod` parses the mode as the code does. `SFlag::from_bits` fails on any permission bit, and `contains` is tested in the code's order, over the bit sets of `ModeBits`.
- `Readdir` replies at most `ReplyCap` entries from the handle's listing. It numbers them as the code does, relative to the offset it was given.
- The order in which `FileRepo::list` returns children is one fixed order of the set (`ListOrder`). File data is not modelled.

**Spec-modelled parts.** The InodeTable, HandleTable and FileRepo are not under `src/`. They are modelled from the way `fs.rs` calls them: lookups return an Option, insert and open hand out any unused number, and create, remove and copy fail on a missing parent, an existing or missing entry, or a non-empty directory. These definitions are marked `spec_modelled`. Leaving the choice of number open covers the reuse of freed numbers.

### `S3Store` and `DataStore` (store/s3.rs)

`DataStore` is the abstract contract a block store backend promises the repository (spec §4.1, §6, §7). `open` checks the format: CREATE_NEW on an existing store is AlreadyExists, and opening a missing store without a create option is UnsupportedFormat. TRUNCATE empties the store. `write_block` is durable when it returns Ok. `read_block` returns the block or None. `remove_block` is idempotent, and `list_blocks` names the blocks. A call that returns an Io error may or may not have taken effect.

`S3Store` translates `s3.rs`. Each method is one or more bucket requests.

**State.** Both modules have the same variables:
- `format`: the bucket's "version" object, "none" or "current".
- `blocks`: the `block/` objects, from block id to contents or `Absent`.
- `opened`: whether the caller holds an S3Store.
- `call`: the last call made.
- `reply`: what that call returned.

`call` records the call, so a failed call that leaves the bucket unchanged is still a step of the contract and not a stutter.

**Replies.** Each request gets one of three replies:
- `"ok"`: success. A 404 on a get is how the bucket says absent.
- `"status"`: the bucket answered with another error code. The Bucket calls return this as `Ok((body, code))`.
- `"transport"`: the call returned Err. The request may or may not have reached the bucket.

`Faults` selects the failed replies the bucket and the network produce.

**Actions.**
- `Open` covers the version get, the version put, and with TRUNCATE the `list_all` of `block/` and the delete of each block, each with its own reply. `OpenReplies(opts, r1, r2, r3, r4)` is what `open` does given those replies. It is an IF/ELSE chain in the order of the code's `?`s and `return Err`s, so exactly one branch applies to each set of replies. A delete whose reply is a status code leaves its block and the loop goes on. A transport error ends the loop with Err, leaving any prefix of the deletes applied (`Truncated`).
- `WriteBlock`, `ReadBlock`, `RemoveBlock` and `ListBlocks` are one request each. Only `read_block` looks at the status code, and only for 404.

**Refinement.** `DataStoreContract` is `DataStore!Spec` under the identity mapping. The run `s3_contract` checks it as a PROPERTY.

### `TimeConversion` (repo/file/metadata.rs, fuse/fs.rs)

**Data abstraction.**
- A time is a count of ticks, and `NS` ticks make a second.
- Seconds are integers of `W` bits: a cast `as u64`/`as i64` is `AsU64`/`AsI64`, modulo `2^W`.
- A SystemTime holds the ticks of an i64 of seconds (`Times`). `checked_add(..).expect` and `Duration::new` panic when the result leaves that range.
- `abs` and unary minus of the least i64 panic in a debug build and wrap in a release build (`DebugBuild`).

**Operators.** `UnixFileTime`, `ToSystemTime` and `ToTimespec` translate `unix_file_time`, `to_system_time` and `to_timespec` line by line.

**State and actions.** One entry's time (`time`), the last Timespec getattr replied (`reply`), the last Timespec setattr passed (`setTo`), and `panicked`. The actions are:
- `FromFile`: `UnixMetadata::from_file` on any stat time;
- `SetAttr`: setattr of the atime with any kernel Timespec;
- `GetAttr`: `entry_attr`'s `to_timespec`.

## Runs

| Run | Config | Expect | What it shows |
|---|---|---|---|
| object_safety | `MCObjectEngine.cfg` | pass | `TypeOK`: the handle, the position and `start_location` stay well formed after any sequence of operations. |
| object_stream | `MCObjectEngineStream.cfg` | violation | `StreamRefinement` fails: open, write 0, write 0 at the start of `010`. `write` takes `new_chunks.is_empty()` to mean the first write since a flush, but `new_chunks` stays empty until the chunker finds a boundary. The second write re-feeds the chunk prefix, and the chunker holds 0,0,0 where the stream holds 0,0. |
| object_flush_stale | `MCObjectEngineFlush.cfg` | violation | `StreamRefinement` fails with no write at all (`WriteInputs` is empty): open then flush turns `010` (chunks `01`,`0`) into `01`,`01`,`0`. `flush` re-feeds the tail of the current chunk and splices at the default `start_location`. `Drop` and `seek` call `flush`, so opening and dropping an object is enough. |
| header_commit | `MCArchiveHeader.cfg` | pass | `ReadChangesOnlyAtPointer`: with two-cell blocks, so that padding happens, the header `Header::read` finds in the file changes only at the pointer overwrite or at a reopen from the disk, through every interleaving of commits, failed steps, writeback and crashes. |
| header_power_loss | `MCArchiveHeaderPower.cfg` | violation | `DiskRecoverable` fails: nothing syncs the header before the pointer, so the disk can hold a pointer to a header that is not yet there. |
| fuse_safety | `MCFuseAdapter.cfg` | pass | `TypeOK`, `TreeShape` and `InodesNameEntries`. Under any sequence of FUSE calls, the FileRepo stays a tree and every inode the adapter keeps names an existing entry. |
| fuse_readdir | `MCFuseAdapterListing.cfg` | violation | `ListingExact` fails. `readdir` numbers entries from 1 instead of from the offset, so a directory larger than one reply is listed with repeats. |
| fuse_cache | `MCFuseAdapterCache.cfg` | violation | `CacheCoherent` fails: lookup of the file b, mknod of the file a/b, rename of a/b over b. The inode of b keeps the Object of the replaced file. `KernelRename` keeps to the renames the VFS passes on: it refuses a directory over a file and a file over a directory before the file system sees them. |
| fuse_handle_reuse | `MCFuseAdapterHandle.cfg` | violation | `HandleNotShared` fails: open, unlink, then read. The read closes the handle the kernel still holds, and opendir hands the same number out again. |
| time_reply | `MCTimeConversion.cfg` | pass | `TypeOK` and `ReplyExact`: in a debug build, every Timespec getattr replies stands for exactly the entry's time, on both sides of the epoch and at the least i64. |
| s3_contract | `MCS3Store.cfg` | pass | `TypeOK` and `DataStoreContract`: when requests either succeed or fail in transit, every S3Store call is a step the `DataStore` contract allows. This includes a put or delete that reached the bucket but returned Err, and a TRUNCATE cut short. |
| s3_status | `MCS3StoreStatus.cfg` | violation | `DataStoreContract` fails once the bucket may answer with an error status (403, 500, 503). `open` of an existing store, without create options, reports UnsupportedFormat, because the error body is not a uuid. A write, a remove or a delete in TRUNCATE would also report Ok for an error status. |

**Bugs the models contain but no run checks.** Each of these is a single call, which a unit test reaches as easily as TLC:
- `write` to a new, empty Object panics in `current_chunk`.
- FUSE `lookup` of a missing name panics on `inode(..).unwrap()`. `read` of a non-empty size slices an empty buffer and panics.
- `rename` copies and never removes the source, and the destination gets no inode.
- `mknod` replies EINVAL to any mode with permission bits, makes a socket a regular file and a block device a character device.
- `unix_file_time` panics for any file time before 1970.
They are listed as hazards in `PROJECT.json`.

Each property of a passing run has a mutant in `PROJECT.json`: a plausible bug in the mapped code under which the run fails. For example, `WriteLenPublishes` publishes the pointer together with the size, before the body, so the next read finds a header without its body. `UnlinkKeepsInode` is an unlink that forgets to remove the inode. `ToTimespecPositiveNsec` is a `to_timespec` that keeps the sub-second part positive before the epoch. `WriteBlockSwallowsError` is a `write_block` that reports Ok when the put failed, and `ListBlocksNoPrefix` lists the whole bucket instead of `block/`.

### Bounds

**ObjectEngine.**
- Bytes `{0,1}`, and the chunker cuts after `1`.
- Initial contents: empty, or `010`, which is two chunks.
- Writes of one byte; reads of 1 or 2 bytes.
- At most 5 bytes held. Seek offsets range over `-5..5` for `End`/`Current` and `0..5` for `Start`.

These bounds cover the following:
- chunk boundaries inside a write and across writes;
- positions at a chunk start, at a chunk end and past the end;
- every seek mode with its error path;
- a truncate below, at and above the size.

**ArchiveHeader.**
- Two headers, of one and two cells, and at most 9 cells.
- These bounds allow two complete commits after the initial header, with failures, crashes and writeback at every point.
- The block is one cell. With a larger block, the pointer is taken before padding (hazard at `header.rs:94`); that depends on `crate::block`, which is not under `src/`.

**FuseAdapter.**
- Names `a`, `b`, paths of at most two components, and four inodes.
- A root holding directory `a` and file `b`, and room for one more entry.
- One handle number, so every open after a close reuses it. At most `MaxShare = 2` kernel files share a handle.
- Replies of one directory entry, and reads of size 0 and 1.
- Mknod modes of all seven file types, with and without permission bits.

These bounds cover the following:
- a rename of a file over a file;
- rename into a subdirectory, and the rejected rename of a directory into itself;
- a listing that needs two replies;
- reuse of a freed inode and of a closed handle;
- every mknod branch.

**S3Store.**
- Three block ids and two contents, and every combination of the three open options.
- Initial buckets: no version object and no blocks, or a current store holding any blocks.
- `Faults = {"transport"}` in the passing run; the violation run adds `"status"`.

These bounds cover the following:
- a write over a block, and a remove of a present and of an absent block;
- a TRUNCATE that deletes some blocks before a failed delete ends the loop;
- CREATE_NEW on an existing store, and open without create options on a missing one;
- the version put failing in transit after it reached the bucket.

Three block ids are needed: with fewer, the interleavings of partial truncation stay under a hundred states.

**TimeConversion.**
- `W = 4`: seconds from -8 to 7, which makes the least i64 reachable.
- `NS = 2`: ticks at and below one second.
- The passing run is a debug build, where the overflow panics, and each violation run is a release build.

### Fairness

None. Every property checked is a safety property. `MCFuseAdapter.cfg` and the time runs do not check deadlock, because a panic kills the process and no call follows it. The code has no background activity whose progress could be assumed: every step is a call by the single owner.

## Proofs (`ObjectEngineProofs`)

TLAPS checks the following for every value of the constants, under `ConstantsAssumption`:
- `TypeCorrect`: `Spec => []TypeOK`.

**The argument.**
- `TypeOK` is not inductive alone: the chunks that `write_chunks` stores and `read_chunk` reads back must be in the repository for the reads to be typed. The inductive invariant is `IInv == TypeOK /\ ChunksStored`, where `ChunksStored` says every chunk the handle or `new_chunks` refers to is in the repository.
- Each action preserves it by a lemma:
  - `OpenKeeps`, `WriteKeeps`, `FlushKeeps` (flush and drop), `SeekKeeps`, `TruncateKeeps`, `ReadKeeps`;
  - `PanicKeeps` for the panic branches.
- These rest on facts about the chunker and the location operators:
  - `ChunkerType`: chunker output is a sequence of chunks whose contents come from the fed bytes.
  - `SliceAt` and `LocBounds`: `Loc` lies in `1..Len+1`, and `HeadAt`/`TailAt` are sub-sequences of the chunk.
  - `RangeConcatChunks`.
- `Upto` is defined as the cardinality of a finite set rather than by recursion, so the module has no RECURSIVE operator and the SMT backend stays available. The lemmas `UptoStep`/`UptoMono` give it the properties of a prefix sum.

**Only model-checked.** The refinement to `ObjectStream` is violated (run `object_stream`), so there is nothing to prove.

## Proofs (`TimeConversionProofs`)

TLAPS checks the following for every width `W`, every `NS` and both builds, under `TimeAssumption`:
- `ReplyAlwaysExact`: `Spec => []ReplyExact`.
- `TypeCorrect`: `Spec => []TypeOK`.

**The argument.**
- `ReplyExact` needs the type of `time` and `reply`, so the inductive invariant is `IInv == TypeOK /\ ReplyExact`.
- `FromFile` and `SetAttr` reset the reply and leave a time or a panic (`ConversionResults`).
- For `GetAttr`, the lemma `ToTimespecExact` carries the proof: a `to_timespec` that does not panic returns a Timespec of the reply type that stands for exactly the time it was given.
  - From the epoch on, `Split` gives the quotient and remainder, and `AsI64Small` shows the cast keeps the quotient.
  - Before the epoch, the distance is at most `2^(W-1)` seconds. Its cast is the least i64 exactly at that bound, where negating it either panics (debug) or gives back the least i64 (release). `NegatedDistance` shows the negated split is the time.

## Proofs (`FuseAdapterProofs`)

TLAPS checks the following for every set of names, depth bound, inode and handle sets and mounted tree, under `FuseAssumption`:
- `TreeAlwaysShaped`: `Spec => []TreeShape`.
- `InodesAlwaysNameEntries`: `Spec => []InodesNameEntries`.
- `InodesStayInjective`: `Spec => []InodesInjective`. No two inodes name the same path.

`FuseAssumption` states what `FuseAdapter::new` is given: a FileRepo that is a tree, and a walk that gives each existing path at most one inode. It also says that the names are finitely many and that `MaxEntries` leaves room for the mounted entries; only the type proof uses these two conjuncts. TLC evaluates the assumption on every FUSE run.

**The argument.**
- Neither property is inductive alone, so the inductive invariant is `IInv == RepoOK /\ InodesOK /\ TreeShape /\ InodesNameEntries /\ InodesInjective`. TLC checked `IInv` as an invariant of the `fuse_safety` instance before it was proved.
- `InodesInjective` is needed because `unlink` and `rmdir` free the inode `InodeTable::inode(path)` returns. Only if that inode is the only one naming the path does no other inode keep naming the removed entry.
- `TreeShape` is needed for rename: a missing destination has no children only because every entry's parent exists.
- Only three steps change the FileRepo or the inode table, and each has a lemma:
  - `CreateKeeps` (mknod, mkdir, symlink): `FileRepo::create` adds an entry only under a directory and only where none exists, and the new inode was free.
  - `RemoveKeeps` (unlink, rmdir): the removed entry has no children, and its only inode is freed.
  - `RenameKeeps`: the destination's parent is a directory, and the destination has no children. `RenameChecksOk` extracts these facts from the checks.
- Every other handler is a reply, a panic, a cache update or a handle change. `FrameKeeps` covers them.
- The path lemmas rest on `SequenceTheorems`:
  - `PathsAreSeqs`: paths are the sequences of names of at most `MaxDepth` components.
  - `ParentPath`: the parent of a non-root path is a path one component shorter.
  - `ChildPathPath`: `child_path` under the depth bound is a non-root path.
  - `NoPathNotPath`: `NoPath` is no path, since no name is "/".
- A CASE whose guards overlap means, in TLA+, any of the true arms, where TLC takes the first. The proofs cover every true arm, for example both the reply and the panic of `RemoveEntry`.

**Only model-checked.** `ListingExact`, `CacheCoherent` and `HandleNotShared` are violated, so there is nothing to prove.

## Proofs (`FuseAdapterTypes`)

TLAPS checks `TypeCorrect`: `Spec => []TypeOK` for the FUSE adapter, under `FuseAssumption`.

**The argument.**
- `TypeOK` is inductive alone. `TypeStep` has one case per handler, and each case has a lemma (`LookupType`, `CreateType`, `RemoveType`, `RenameType`, `ReadWriteType`, `OpendirType`, `ReaddirType`, ...).
- The cases that need more than the frame:
  - An identity cached by `entry_attr` or by read/write's `repo.open` comes from a file entry, so it lies in `1..MaxEntries` (`FileId`). For read and write, the checks that come first (`IoPrologueFacts`) guarantee that an uncached inode names a file.
  - opendir's listing is a sequence of paths with their inodes (`ListingType`). `ListOrder` chooses an injective enumeration of the children. It exists because the children are finitely many: `PathsFinite` shows `Paths` is finite when `Names` is. The proof maps each `[1..n -> Names]` injectively into `SUBSET ((1..n) \X Names)` (`FunctionSetFinite`). It uses no induction, which the provers cannot do.
  - readdir slices the listing only when the kernel's offset is inside it (`BatchType`), and release removes one of the kernel's files (`ForgetType`).
- A handler's CASE arms that overlap are each shown to keep the types.

## Proofs (`ArchiveHeaderProofs`)

TLAPS checks the following under `HeaderAssumption`, for every block size, set of headers, file bound and power-loss setting:
- `TypeCorrect`: `Spec => []TypeOK`.
- `HeaderChangesOnlyAtPointer`: `Spec => ReadChangesOnlyAtPointer`. The header `Header::read` finds in the page cache changes only at `WritePointer`, or when a reopen replaces the file by the disk.

`HeaderAssumption` adds that no header is the value `"error"` a failed read returns.

**The argument.**
- The type proof needs a stronger invariant `TInv`: the superblock of the file and of the disk points past itself (`Pointed`), and a write in progress has its offset past the superblock.
- The action property follows from the invariant `AInv == TInv /\ WriteProgress /\ KeptAnchor`. TLC checked it on the `header_commit` instance before it was proved.
  - `KeptAnchor`: once a header is committed, the pointer names a size cell whose body fits in the file (`Anchored`).
  - `WriteProgress`: where `Header::write` is, in terms of the file. After the padding the offset is a zero cell or the end of the file. After the size the offset holds zero or, at the end, the size. After the body the offset is anchored.
- The lemmas:
  - `PadFacts`: `Pad` appends zero cells and keeps the prefix.
  - `WriteLen`, `WriteBody` and `Pad` only append (`AppendStep`, `ExtendKeeps`, `SubSeqKept`). An anchored pointer reads the same cells, so `ReadHeader` is unchanged (`ReadAnchored`).
  - `Writeback` changes only the disk. `Fail`, `Finish` and `ProcessCrash` leave the file as it is.
  - `WritePointer` is the step the property allows. `PowerFailure` sets the file to the disk, the other allowed case.
- `CommitReadable` is not proved: it is false (see below). Where the pointer lands after padding is not proved either. The offset is taken before `pad_to_block_size`, and that operator is modelled from the spec.
- `DiskRecoverable` is violated (`header_power_loss`), so there is nothing to prove.

## Proofs (`S3StoreProofs`)

TLAPS checks the following under `S3Assumption`:
- `TypeCorrect`: `Spec => []TypeOK`, for every set of faults.
- `ContractKept`: `NoStatus => (Spec => DataStoreContract)`, where `NoStatus == "status" \notin Faults`.

`NoStatus` is the hypothesis under which the contract holds. With error codes, `s3_status` finds it violated.

**The argument.** This is the refinement proof of the usual form:
- the initial states are the contract's;
- `StepRefines` shows every step of `S3Store` is a step of `DataStore`, or a stutter of both, from a state that satisfies `TypeOK`;
- `TypeOK` is needed because the contract's failed open allows any store in `MaybeErased`, a set of maps from the block ids.

The core is `OpenRefines`:
- When no request answers a status code, a get that did not fail means the version is current exactly when the store exists.
- A put that did not fail makes it current.
- `OpenTail` covers the TRUNCATE loop once the version is current:
  - a failed list leaves the store unchanged;
  - a delete failing in transit leaves any subset erased (`Truncated(TRUE)` is `MaybeErased`);
  - a loop that runs through empties the store (`Truncated(FALSE)` is `{Empty}`).

## What is only model-checked, and why

- **Violated properties.** `StreamRefinement`, `DiskRecoverable`, `ListingExact`, `CacheCoherent`, `HandleNotShared` and `DataStoreContract` with error codes are shown false by the runs. There is nothing to prove.
- **Two more properties, stated but kept out of the runs.** Their hazards in `PROJECT.json` record them.
  - `CommitReadable` (`MCArchiveHeaderCommitErr.cfg`, one-cell blocks, no power loss). TLC finds it violated by begin, size, body, pointer, then `archive.metadata()` returning Err (header.rs:106). `write` reports a failed commit and the repository keeps the old header, while `Header::read` already finds the new one. Spec §7 says the commit succeeds once the pointer update does.
  - `SetAttrRoundTrip` (`MCTimeConversionRoundTrip.cfg`). TLC finds it violated. `to_system_time` takes the sign from `sec` alone, so setattr (-7 s, 1 tick) reads back as (-7 s, -1 tick).
- **Liveness.** No property is a liveness property (see Fairness). TLAPS could not prove one in any case: its provers do not handle ENABLED or fairness reasoning.
- **Recursion.** No proof module reaches a RECURSIVE operator. What a recursive definition computes for every input would need induction with an operator parameter, which the installed provers cannot instantiate.

## What is not modelled, and why

- **Repository I/O errors inside Object.** `read_chunk` and `write_chunk` always succeed in `ObjectEngine`. The hazards they raise (`write_chunks` failing midway, `Drop` swallowing a flush error) are listed in `PROJECT.json` without a property.
- **FUSE data and attributes.** File contents, metadata and attribute replies are left out. `read`'s empty-buffer slice and the ENOENT paths keep their control.
- **FUSE leaks and I/O errors.** The adapter keeps `directories` entries after `releasedir` (a leak with no property), and FileRepo I/O errors are not modelled.
- **Time conversions of other fields.** Only the atime path is modelled; mtime and ctime go through the same operators.
- **S3 keys outside the model.** `list_blocks` parses every key under `block/` as a uuid and fails on any other object there; keys are block ids only in `S3Store`. Retries and timeouts of the HTTP client are inside the `s3` crate; the model gives each request one final reply.
- **Savepoints.** A savepoint only reads a weak reference, and the transaction code that invalidates it is not under `src/`.
- **Metadata structs, key/path iterators and archive entries.** Data definitions and std adaptors with no control to model.
