# BSFS in TLA+

BSFS is a deniable file system in one disk file: several *levels* are hidden in
the same random-looking bytes, each opened by a password, and FUSE serves the
files of the levels that were opened. This directory holds TLA+ models of the
code in `src/`, the TLC runs that check them and the theorems TLAPS proves about
them. `PROJECT.json` lists, for each definition, the lines it stands for.

Contents: [the system](#the-system) · [modules](#modules) · [Level](#level-one-level-and-its-threads) ·
[LevelCrash](#levelcrash-a-level-that-loses-its-process) · [FileData](#filedata-the-bytes-of-a-file) ·
[OpenFileTable](#openfiletable-reference-counts) · [ClusterStore](#clusterstore-from-a-cluster-to-the-disk) ·
[StegoKeys](#stegokeys-levels-in-the-same-bytes) · [Mount](#mount-opening-levels-fsync-crash) ·
[runs](#runs) · [fairness](#fairness) · [proofs](#proofs) · [findings](#what-the-runs-found) ·
[not modelled](#not-modelled) · [plan](#plan)

## The system

| Component | Code | State | Operations | What makes it correct |
|---|---|---|---|---|
| Disk | `disk.c` | the mapped file, its size, a reader/writer lock | create, free, lock/unlock for reading and writing | exclusive writers, shared readers |
| Stego access | `stego.c` | none of its own | read or write bytes of a level, generate keys | an access touches only its level's bytes, whole |
| Linear algebra | `matrix.c`, `vector.c`, `bit_util.c` | none | products, inversion over GF(2) | the inverse is one; levels do not disturb each other |
| Encryption | `enc.c` | none | AES with and without authentication, key derivation | what is read back is what was written there |
| Key table | `keytab.c` | the slots at the start of the disk | store, look up | a password opens its slot and no other |
| Clusters, bitmap | `cluster.c` | layout of a level; bits; next links | count, read, write, alloc, dealloc | regions fit and do not overlap |
| BFT | `bft.c` | the table of entries of a level | find, find free, read, write, remove, iterate | an entry is read as written |
| Open file table | `oft.c` | hash table of reference-counted `bs_file_impl` | get, has, release | one object per index; freed when, and only when, unused |
| Level operations | `bsfs.c` | per level: BFT, bitmap, open files, `metadata_lock`; per file: `lock` | mknod, unlink, open, release, read, write, ftruncate, fallocate, rename, getattr, chmod, utimens, readdir, fsync | chains, bitmap, BFT and handles agree at every interleaving |
| Level cache | `bsfs.c` (`bs_level_get`) | the levels that were opened, `level_lock` | get, open | one level object per level |
| FUSE front end | `fuse/` | one `bs_bsfs_t` | forwards callbacks | — |

**How they interact.** A FUSE thread calls an operation of `bsfs.c`. A path
operation gets its level from the cache, takes `metadata_lock`, finds the entry
in the BFT, and asks the open file table whether the file is open; a handle
operation takes the file's own lock and then `metadata_lock` a few times, briefly:
once for the size and the first cluster, once per allocation or deallocation,
and once to commit the size. Between those sections it reads and writes clusters,
each access through `cluster.c` to `stego.c`, which takes the disk's lock for one
region, loops over the cover files and encrypts or decrypts. BFT and bitmap live
in memory and reach the disk in `bsfs_fsync` and when the file system is
destroyed.

**What is hard.** Sizes and chains read under a lock and used after it; frees
after the entry is gone; a reference count decremented outside its mutex; error
paths in the middle of allocations and link updates; locks kept by an early
return; remainders and rounding at cluster boundaries; a layout with two kinds
of padding; accesses that span cover files. `PROJECT.json` lists these hazards,
each at its line.

## Modules

| Module | What it is |
|---|---|
| `OftSpec` | abstract open file table: which indices have an object, how many handles each |
| `OpenFileTable` | `oft.c` with its unlocked decrement; implements `OftSpec` |
| `OftBuckets` | the buckets, chains and rehash under `OpenFileTable`'s steps |
| `DirectorySpec` | abstract level: names, files with a size, handles, operations that are atomic |
| `Level` | one level and its threads; implements `DirectorySpec`, uses `OftSpec` for its open files |
| `LevelProps` | chains, cluster ownership and the properties of a level |
| `MCLevel` | symmetry for TLC |
| `LevelCrash`, `MCLevelCrash` | `Level` with the disk's copy of its metadata, the flush and a crash |
| `FileSpec` | abstract file: an array of bytes |
| `FileData` | the bytes of a file in its clusters; implements `FileSpec` |
| `RegionSpec` | abstract storage: each region of a level is an atomic register |
| `ClusterStore` | layout, cover files, disk lock; implements `RegionSpec` |
| `MCClusterStore` | symmetry for TLC |
| `StegoKeys` | the key matrix over GF(2), and levels as sums of cover files |
| `Mount` | the key table, the array of open levels, `level_lock`, fsync, unmounting, crash |
| `OpenFileTable_proofs`, `Level_proofs`, `LevelChains_proofs`, `LevelCrash_proofs`, `FileData_proofs`, `ClusterStore_proofs`, `Mount_proofs`, `StegoKeys_proofs` | the theorems |

`OftSpec` and `RegionSpec` are what one layer takes of the layer below:
`Level` composes with the table by `INSTANCE OftSpec` (its actions `Open`,
`Release` and `Reap` are `Acquire`, `Drop` and `Reap` there), and takes a cluster
to be one register, which `RegionSpec` says and `ClusterStore` shows. In the same
way `FileData` takes the chain and the size of a file to stay put while
`file->lock` is held (`Level`: `ChainsIntact`, `SnapshotCurrent`), and `Mount` takes
a level's metadata to be one value that changes under `metadata_lock`.

### Level: one level and its threads

State: `bft` (name, first cluster and size of each entry), `bitmap` (the clusters
whose bit is set), `next` (the link in each cluster's last bytes, `Random` where
nobody wrote), `metaOwner` (who *left* `metadata_lock` locked: a section that
unlocks is one action), `present`/`refs` (the open file table), `readers`/`writer`
(each file's rwlock), and per thread `pc`, `handle` and `job`, the locals of its
operation: `size` and `cur` as they were read, `list` the clusters it allocated
or collected, `at` and `hops` its place in a chain.

| Code | Actions |
|---|---|
| `bsfs_mknod` | `Mknod` (the cluster is written under the lock) |
| `bsfs_unlink` | `Unlink`, `Collect`*, `FreeChain` |
| `bsfs_rename` | `Rename` = `RenameExchange`, `RenameMove` or `RenameOver`; the last then `Collect`*, `FreeChain` |
| `bsfs_open`, `bsfs_release` | `Open`; `Release`, `Reap` |
| `bsfs_read` | `BeginRead`, `GetSize`, `Walk`*, `Arrive` |
| `bsfs_write` | `BeginWrite`, `GetSize`, `Walk`*, `Arrive`, and to extend `AllocClusters`, `Fill`, `Hook` (or `Undo`), at last `Commit` |
| `bsfs_fallocate` | as a write that only extends |
| `bsfs_ftruncate` | as fallocate to grow; to shrink `Collect`*, `FreeChain`, `Cut`, `Commit` |
| getattr, chmod, utimens, readdir | `Attributes` (a section that changes nothing modelled) |

One action is what the code does under `metadata_lock` from lock to unlock, or
one access to one cluster. `Fill` writes all new clusters in one step because no
other thread can reach them; a failure in the middle leaves any prefix written.
`Section` models the error-checking of the lock that the code leaves unused: a
thread that kept the lock gets `EDEADLK` from its next `wrlock`, ignores it, and
its next unlock releases the lock.

Faults are named: `"mknod"`, `"read"`, `"fill"`, `"hook"`, `"cut"` are the cluster
accesses that may fail. `UnlinkOpen` says whether callers unlink open files
(libfuse renames such a file instead unless told not to) and `RenameSame` whether
they rename a file to itself (the kernel answers that).

The properties speak of *owners*: a cluster belongs to a file whose chain of the
right length contains it, to an operation that has allocated and not yet hooked
it, or to one that has unlinked and not yet freed it. `ChainsIntact`, `NoCrossLink`
and `NoLeak` together say that chains, bits and owners agree;
`SnapshotCurrent`, `WalksInside`, `OpenFileStays`, `ReadersIsolated` and
`NoClusterRace` that what an operation read under one lock still holds where it
uses it; `NamesUnique` (a part of `TrustedChains`) that lookups are unambiguous;
`OpsFinish` that operations return once no new ones begin.

`ImplementsDirectory` says what all this is for. `DirectorySpec` has no table, no
clusters and no locks: a function from names to files, a size for each file, and for
each thread the file it has open and the operation it is inside. `Create`, `Remove`,
`Exchange`, `Move` and `Replace` are one step each, and end no file that is open; a write or
fallocate up to an offset makes the file at least that long, whatever happened since it began
(`Resized`), and nobody else is inside an operation on a file that one writes. `SeenDir`,
`SeenSize`, `SeenOpen` and `SeenOp` are the mapping: the file of a name is what a scan of
the table finds, a handle is closed when its release begins, and an operation lasts from the
lock of `file->lock` to its unlock (`InFile`). `Commit` and the sections of path
operations are steps of `DirectorySpec`; walking, allocating, linking and freeing are not seen.
An operation that fails may return without effect (`Return`): the error codes are not in the models.

### LevelCrash: a level that loses its process

`LevelCrash` extends `LevelProps` with `diskBft` and `diskBitmap`, what a mount would
read. Every action of `Level` is a `LevelStep`; those that change BFT or bitmap wait
while a flush holds the read lock. `FlushBitmap` and `FlushBft` are
`level_flush_metadata`, the bitmap first; `Crash` is the death of the process and
`level_init` of the next one: memory is lost, links are not, since clusters are
written at once. `Crash` with nothing unwritten is an orderly unmount.

`FsyncedFilesSurvive` is what an fsync is worth: a file that was in the table
when a flush returned, and was not removed or shortened since, has its entry and
its whole chain on the disk, marked as used and shared with no other such file,
and no other entry has its name, between any two writes. It needs the order of the flush:
with the BFT first, a crash between the two writes leaves a file whose clusters the
bitmap calls free. History variables say which files (`safe`) and whether anything was
lost (`trusted`).

What a mount finds after a crash that lost something is therefore good; what the code
then does with it need not be. Entries of removed files are back and share clusters
with new ones. So does a file that was being shortened: `bsfs_ftruncate` gives its
clusters back (`bsfs.c:1093`) long before the smaller size reaches the disk, another
thread may take one for a new file and fsync that, and after the crash the first file is
back with its old size and a chain into the second. Removing or cutting it then marks
clusters of the fsynced file as free. Links may even run in a circle, around which
`get_cluster_chain` goes for ever (`bsfs.c:450`; `MaxChain` cuts the walk off). Hence
the claim holds in every state up to a lossy crash and until the first change of BFT,
bitmap or links after it, which ends it for all files (`Spoils`). The model has one such crash.

### FileData: the bytes of a file

One file and one operation at a time, in as many steps as it accesses
clusters: `Begin`, `GetSize` (the size, the fitted range and the walk),
`RwChunk` per cluster of the overlapping part, then `AllocClusters`, `FillCluster`
per new cluster, `Hook`, or for a truncation `Shrink`, and `Commit`. Any access may
fail. Offsets, lengths and paddings are the code's expressions; `Junk` marks the
bytes of a buffer that the code does not set. `FileSpec` says what the caller
sees: a write changes the bytes that exist already a few at a time and the
rest when it reports success; holes and growth read as zero; an error leaves the
size. The mapping reads the file through its clusters (`Content`). A
truncation that cuts its chain takes effect there, before it commits the size.

### OpenFileTable: reference counts

`bs_oft_get` is one action (it holds the mutex throughout). `bs_oft_release` is
three: the atomic decrement without the mutex (`ReleaseDec`), the recheck and
removal under it (`ReleaseRecheck`), and the free after it (`Destroy`). Objects are
addresses and `calloc` may return a freed one again, so that a stale pointer can
meet a new object (the ABA case). Reading the count of a freed object gives any
value. Indices and refinement: `present` is the set of indices of chained objects
and `refs` their counts; the decrement is `Drop`, the removal `Reap`, the rest
stutters.

`OftBuckets` has the hash table itself: `buckets`, `bucketCount` and `size` change
with the steps of `OpenFileTable` that chain or unchain an object, as
`oft_insert` (doubling and rehashing when there would be more objects than
buckets) and `oft_remove` do. The two loops of `oft_rehash` are recursive functions
(`Rehashed` over the buckets, `Moved` along a chain), and an object is taken out of
its chain with `RemoveFirst`. `Find` is the walk of `oft_find` along one chain, and
`ChainsAreTable` says that it finds the object which `OpenFileTable` finds in the set,
that the chains hold just that set, and that `size` counts it.

### ClusterStore: from a cluster to the disk

`LevelSize`, `CountClusters`, `BitmapSize`, `Offset` and `CheckParameters` are
the arithmetic of `stego.c` and `cluster.c`, the 32-bit product included (`Word`
is 2^32). An access is `StartRead`/`StartWrite` (take the disk's lock, compute the
first cover file and offset), one `ReadChunk`/`WriteChunk` per cover file and
`Return`; an access that `check_parameters` rejects is `Refuse`. A byte holds a
tag: the write that put it there and its region, since the initialisation vector
is derived from the offset. Under the refinement a write takes effect when its
last byte is written, a read when it returns.

### StegoKeys: levels in the same bytes

A row of a matrix is the set of its columns that hold 1 and a sum is a symmetric
difference. `GenColumn` is one round of `matrix_gen_nonsing` for any random
vectors, `InvertColumn` one of the elimination in `matrix_invert`, `UseKeys` the transposition;
then `WriteLevel` adds the difference between old and new data to the cover files
of the level's write key. All bytes are treated alike, so one bit of each cover file is the
disk. `NeverSingular` says the elimination always finds a pivot. `LevelsApart`
compares, for every level, what a read gives with what was last written.

### Mount: opening levels, fsync, crash

State: the table of passwords (`keytab`), the array `levels` with the password and
the slot of each open level, `levelLock` and its holder's locals, and for each
level the *version* of bitmap and BFT in memory and on the disk. `Change` makes
a new version of both.

| Code | Actions |
|---|---|
| `bsfs_init`, `keytab_store` | `BsfsInit`, `KeytabStore` (before a level is open) |
| `bs_level_get` | `LevelGet` (search under `level_lock`), `LevelOpen` (`keytab_lookup`), `ReadBft`, `ReadBitmap` (`level_init`; the place is taken by the last) |
| `bsfs_fsync` | `FsyncBitmap`, `FsyncBft` |
| `bsfs_destroy` | `Destroy`, per level `DestroyBitmap`, `DestroyBft`, then `DestroyEnd` |
| the process dies | `Crash` |

Two slots may hold the same password, and a slot none: `Init` has every table. The
faults are `"derive"` (a key derivation or a decryption), `"read"` and `"write"` of
metadata. `FullMeansUnknown` is the comment at `bsfs.c:160` as an invariant.

## Runs

| Run | Result | What it shows |
|---|---|---|
| `oft` | pass | all safety properties of the table and of its chains, that it implements `OftSpec`, and that unused objects go |
| `level_api` | pass | two files, two threads, all operations, no faults: chains, clusters and locks agree, and callers see a `DirectorySpec` |
| `level_faults` | pass | one file of up to three clusters, failing accesses and full disks: chains and ownership survive, operations return once calls stop |
| `level_crash` | pass | two files, a thread of operations, one that flushes, crashes: what an fsync keeps |
| `data` | pass | every read, write, truncation and allocation on up to three clusters: a file is an array of bytes |
| `store` | pass | six disk sizes, two threads: layout, bounds and atomicity of regions |
| `stego_keys` | pass | every key matrix of four cover files: invertible, and levels do not disturb each other |
| `mount` | pass | two threads open, change, fsync and unmount levels that share two slots |
| `oft_recheck`, `level_unlink_lock`, `level_enospc`, `store_last_cluster` | violation | [findings](#what-the-runs-found) |

**Bounds, and why they are enough.**

- `oft`: three threads are the least for which two releases overlap while a third
  gets the index; three indices fill a table of one bucket to four, through two
  rehashes, and share a bucket again; three addresses let every thread hold a distinct
  object and force reuse.
- `level_api`: two names, two entries and three clusters, so files compete for
  clusters and one of them can have two; `DataSize` = 1 makes each size a different
  number of clusters. An operation here never asks for two clusters when one is
  free, and so `NoLeak` holds; `level_enospc` has the sizes at which it
  does not.
- `level_faults`: `DataSize` = 2 and sizes up to 5 give partly filled last clusters,
  boundaries, and chains of three; all of "read", "fill" and "hook" may fail at any
  time. The "cut" fault is not enabled: when the write that ends a truncated chain
  fails, the file stays linked to clusters already freed (hazard at `bsfs.c:1093`).
- `store`: cover files of 0, 5, 12, 16, 20 and 25 bytes, with a 48-byte BFT and 16-byte
  clusters: no room for a BFT, for a cluster, exactly one cluster, and two clusters; sizes that
  are and are not multiples of a block, and regions over one to four cover files.
- `level_crash`: two entries and two clusters, so that after a crash a removed file can be
  back while its cluster has another owner; one thread of operations, which meets the flush and
  the crash at each of its steps. The writes of the BFT, of new clusters and of links
  may fail. A second thread of operations takes TLC beyond five minutes, and is what the
  truncation above needs; the theorem is for any number.
- `data`: two bytes to a cluster and three clusters, offsets up to 7: ranges start
  and end inside, at and past every boundary, gaps span whole clusters, and the disk is full at
  6. `SizeWord` is above every size, as 2^32 is on a disk of less than 4 GiB.
- `stego_keys`: dimension 4 has every case of the algorithms (pivots on and off the
  diagonal, several rows to add); the code's 256 changes their
  number only. Every row is a level (the code uses 64 of 256 rows, four for each
  password).
- `mount`: two slots are the least for a full array and for one password in two slots;
  a third password is then always unknown. Two changes to a level let a flush
  overtake another.
- `MaxSize`, `ClusterCount`, `MaxEntries` and the sets bound everything else; no
  counter of the models grows without them.

Threads, and names or values, are interchangeable in the code (compared for
equality only), so `level_api`, `level_crash` and `store` use symmetry; runs with liveness do not.

Every property of a passing run has a *mutant*: a definition changed as a
programming mistake would change it (a dropped check, a shared instead of an
exclusive lock, a lost special case), under which TLC finds the property
violated. The mutants stand before the definitions they change.

## Fairness

`Fairness` of `OpenFileTable`, which `BucketSpec` of `OftBuckets` includes, is weak fairness of `ReleaseRecheck` and `Destroy`
of each thread: inside `bs_oft_release` a thread waits only for the mutex, and
its holder never blocks. `FairSpec` of `Level` assumes far less than weak fairness of each
thread, since a thread inside an operation waits for `metadata_lock` and the disk's lock,
for writing too (`bsfs.c:428`, `bsfs.c:700`, `bsfs.c:821`, `stego.c:226`). Both are default
reader/writer locks (`bsfs.c:63`, `disk.c:84`), which may prefer readers, so a stream of readers
may keep a writer out for ever. It assumes only that once calls have stopped (`CallsStop`)
the operations under way, taken together, do not stand still (`WF_vars(Underway)`): each lock is held
for one bounded section, and when it is free one of those that wait for it gets it.
Which one is left open, so no thread is assumed to be served before others.
`OpsFinish` says that then all of them return; it begins when `file->lock` was got. While
calls go on nothing is claimed, and that a writer may then wait for ever is a hazard no
property covers (`disk.c:84`). `FairSpec` of `Mount` has weak fairness of `Continue`, the steps of
`bs_level_get` after it has `level_lock`: its holder waits for the disk's lock only.
Nothing is assumed of callers, who may stop calling at any time, nor of
getting `file->lock`.

## Proofs

The theorems hold for every value of the constants that the modules' assumptions
allow (`OftAssumption`, `LevelAssumption`, `FileAssumption`, `StoreAssumption`, `MountAssumption`,
`KeyAssumption`): any number of threads, files, clusters, addresses, slots, passwords
and cover files, any sizes and faults.

- **`OpenFileTable_proofs`.** None of the safety properties is inductive alone: that a
  handle is safe needs the exact count, the exact count needs one object per
  index, and the removal needs `FreedOnce` and `ZeroIsPending`. `IInv` is their
  conjunction with `TypeOK` and two facts about memory: chained objects are live
  (`ChainedIsLive`), and so is an object that a thread is about to free
  (`DestroyIsLive`). `RecheckSafe` is not among them, and need not be.
  The counts use `FiniteSetTheorems`: a step adds a thread to `Holders`, removes
  one, or leaves it. `Refinement` shows each step to be a step of `OftSpec` or a
  stutter; `ReleaseRecheck` needs `OneObjectPerIndex` there, since otherwise
  removing an object would not remove its index.
  `BucketsAreTable` shows the same of `OftBuckets` and `OpenFileTable`, so that all this holds of the
  hash table too. For the chains themselves `BInv` is inductive on top of `IInv`:
  `Holds` says of an array of chains that it links the objects of a set, each once, each in
  the bucket of its index. `InsertedHolds` and `RemovedHolds` keep it (`RemovedHolds` with
  `RemoveFirstAt`, what the library's operator does to a sequence without repetitions). The loops of
  `oft_rehash` need induction: a round keeps that what was moved so far is what the new
  chains hold (`MovedHolds` along a chain, `RehashedHolds` over the buckets). `UpTo`
  is that induction, as a search for the first round that breaks it, and
  `RoundsExist` shows from it that a function with the equations of the
  recursive one exists. `FindIsFound` then needs `OneObjectPerIndex`: the first
  object with the index is the only one.
- **`Level_proofs`.** What an operation read stays true because of a chain of facts
  about locks and handles, and `IInv` is that chain: the abstract counts are the
  number of handles (`RefsExact`), so an index with a handle is `present`
  (`OpenPresent`) and unlink and rename leave its entry alone (`OpenNamed`); a
  thread inside an operation on a file has that file's lock in the mode of the
  operation (`Locked`), nobody else has it (`LockHeld`, `Exclusive`), and so the
  size it read is current (`Snapshots`). One lemma per action shows the step.
  `OpenFileStays` is an action property on top of `IInv`. `NamesUnique` has its own
  induction: `Mknod` and `RenameMove` look the new name up in the section that
  writes it. `CallersSeeDirectory` puts these together, with one lemma for each action that says which
  step of `DirectorySpec` it is: a scan finds the only entry of a name (`SeenDirIs`, from
  `NamesUnique`), so that changed entries are a changed function (`SeenDirFrom`); an entry that goes is nobody's
  (`ClosedSeen`, from `OpenPresent`); whoever is inside an operation has the lock that the next
  one needs (`BeginSeen`, from `Locked`); and the size that is committed comes from one read long before, which is
  still the file's (`CommitSeen`, from `Snapshots`). fallocate stores the size asked for, and
  `AllGrow`, one more invariant, says that it gets there only when that is more. The theorem
  assumes `~RenameSame`, as a rename of a file to its own name would make it empty.
- **`LevelChains_proofs`.** What is true of chains is hard to keep by induction, because
  a chain is what following links gives and each step writes or frees some of them. `Shape`
  does not follow links. It says that there are two functions which the code keeps
  nowhere: an owner of each cluster (a file, an operation, nobody) and its place in
  what the owner has. The clusters of a file have the places below `Extent`, each linked to
  the next (`FileShape`); those of an operation are its list in order, or the rest
  of an unlinked chain (`GrowShape`, `UnlinkShape`); truncate's list is the end of its
  file (`TailShape`); a walk is at the place its remaining hops say (`CurShape`);
  an owned cluster is marked (`Marked`) and places are distinct (`Injective`). `Owned`, that
  such functions exist, is inductive on top of `IInv`: the lemma of each action gives
  the functions after the step (`Goes`), and by `StepShape` only what the thread owns, or the
  files it has locked (`WriterAlone`), needs another look. Linking hands clusters from operation to
  file (`HookGoes`), unlinking from file to operation (`DetachGoes`), freeing to nobody
  (`FreeChainGoes`). The properties follow from `FileClustersAre` and `JobClustersAre`, the clusters reached
  are the clusters owned, where the induction along a chain is a search for the
  least link at which it would fail (`LeastNat`, `FollowInto`).
  All its theorems assume `Sound`, that is, `"mknod"` and `"cut"` are no faults and nobody renames a
  file to its own name; with any of them the properties are false (see
  [below](#what-the-runs-found)). `NothingLeaks` also assumes that clusters can be read, since
  what cannot be collected is not freed, and `[]Enough`, that no allocation of two clusters or more
  runs out of space, which `level_enospc` shows to leak.
- **`LevelCrash_proofs`.** `FsyncedFilesSurvive` and `TrustedChains`, for any number of threads,
  files and clusters, also where TLC cannot go. A file on the disk is found by its entry
  of then and the links of now, which every operation writes without asking when the
  file was flushed. `Kept` says that its clusters of then are the first of its clusters
  of now: the same first cluster, no fewer clusters than the flushed size needs, all of them
  marked on the disk. It is kept because no step changes a link between two clusters of a
  file (`LinksStay`: new clusters are filled before a file has them, and extending or cutting writes
  the last link only), so that the way along them ends in the same place (`SamePath`),
  and because the chain of a file gets shorter only in the step that ends the claim (`ExtentStays`). A
  flush starts the claim: the size in the table is one that the chain is long enough for, unless
  the file is being shortened (`FlushedExtent`), and the bitmap on the disk is
  the one in memory (`FlushInv`). A crash ends every operation (`ResetIInv`); with
  nothing under way and nothing unwritten the owners stay as they were (`ResetOwned`),
  and otherwise what `KeptSurvive` shows of the disk is all that is left (`LossInv`).
  `CInv` is the conjunction, on top of `IInv` and `Owned`, and assumes `Sound` too.
- **`FileData_proofs`.** `FileIsArray`: every step of `FileData` is a step of `FileSpec` or
  a stutter. `IInv` says how far the operation under way has come: the round of
  `do_rw_op` is at the cluster and byte that hold `off + done`, a read has the bytes before it in
  its buffer, a write has stored its bytes there (`RwInv`); growing has the
  clusters it lacks, each filled with zeros or with the bytes that belong there
  (`FreshInv`, `ExtendInv`), and before the size is committed the chain is
  as long as the new size needs, with the appended bytes in place (`CommitInv`,
  `LengthInv`). Three lemmas say which bytes of the file an access reads or
  writes (`ReadCells`, `WriteCells`, `RoundCells`), by the uniqueness of quotient and remainder;
  `FilledCells`, `HookedCells` and `HookedChain` do the same for new clusters. An operation takes
  effect at its commit (`ResultWrite`, `ResultResize`), a round of a write at
  once for the bytes of its cluster (`WriteChunkStep`), a truncation that cuts its chain at the cut. The
  assumption that a size of all clusters fits in `SizeWord` is used by `SizeFits`: below 4 GiB the
  entry stores the size that was computed.
- **`ClusterStore_proofs`.** `LayoutFits` is arithmetic with a division inside a
  division; it is split into bounds of each (`CountFits`, `BitmapFits`) and a
  step that adds them. `RegionsNeverMeet` has the hypothesis that the product does
  not wrap, which the code does not ensure (see below). `AccessInside` rests on the
  loop invariant `AtNextByte`: an unfinished access is at the byte
  `LevelSize * level + cur = Offset + processed`.
  `ImplementsRegions` has the same hypothesis. `RInv` adds to that
  invariant what the bytes hold: but for those that a write has passed
  (`BegunInv`), all bytes of a region hold the same (`WholeInv`), and an unfinished
  read has seen just that (`SeenInv`), since `LockInv` leaves a writer alone. `InChunk` says which bytes
  of the level a chunk is, by the uniqueness of quotient and remainder. A write maps to
  the abstract write at its last byte (`WriteChunkRefines`), a read at its return.
- **`Mount_proofs`.** `IInv` has three parts. `Control` says who may be where: at most one thread is
  inside `bs_level_get` and it has `level_lock`, a thread that unmounts is alone, and
  nobody is anywhere on a disk that is not mounted. `Places` says what the array holds: the place that
  an opening thread was given is still free (`PlacedInv`) and its password not open
  meanwhile (`OnePerPass`), since every other opening waits for the mutex; with `RightLevel`, one object
  per password gives `OneLevelPerKey`. `Ages` orders the versions: memory is never older than the
  disk (`AgeInv`), what an opening thread has read is still on the disk (`ReadInv`), and
  between the two writes of a flush the bitmap on the disk is the one in memory
  (`FlushInv`, `CloseInv`), because the read lock keeps changes out. `FullMeansUnknown`
  follows by counting: the slots of the open levels are distinct, so when every
  place is taken every slot is, and the password of each is open (`FS_Injection` of
  `FiniteSetTheorems`).
- **`StegoKeys_proofs`.** The rounds of the two loops are steps of the specification, so
  that linear algebra becomes an inductive invariant, one part for each phase. While the matrix is generated
  (`GenInv`), a cover set that every pivot row meets evenly is met evenly by
  all rows, and none but the empty one lies within the columns done: at the end
  the kernel is empty. During the elimination (`InvertInv`) the kernel of `tmp` stays empty, hence a
  pivot exists (`PivotExists`), the columns done are those of the identity, and some
  matrix `F` takes `tmp` back to the read keys and `writeKeys` to the identity; when
  `tmp` is the identity, `F` is the matrix of the read keys. From then on (`KeysApart`) a
  write key meets its own read key oddly and the others evenly, so a write flips
  one level and no other. All of it rests on `ParityOfSum`: a symmetric difference is odd when
  just one of its operands is, by `FiniteSetTheorems`.

Model-checked only: liveness (`OpsFinish`, `ZeroRefReclaimed`, `LockReturned`) and `ENABLED`, which the
prover cannot treat. Every invariant and action property of the passing runs is stated by a theorem.
Where a proof needs an induction over the rounds of a loop or the links of a chain it searches for
the least counterexample; no module uses a `RECURSIVE` operator.

## What the runs found

Each is a run that must fail, with the line it contradicts in `PROJECT.json`.

1. `oft_recheck` — the second load in `bs_oft_release` (`oft.c:211`) can read freed
   memory. What follows is harmless in the model: whatever it reads, the
   object is freed once and no holder is affected (`oft`).
2. `level_unlink_lock` — `bsfs_unlink` returns `-EBUSY` with `metadata_lock` held.
3. `level_enospc` — `alloc_clusters` returns one cluster too few when space runs out.
4. `store_last_cluster` — `check_parameters` rejects an access that ends at the end of the
   level, where `fs_count_clusters` may have put the last cluster.

Five more were read from the code and have no run; the models have the step, the
runs do not go there:

- `bsfs_mknod` (`bsfs.c:391`) goes on after a failed write of the first cluster, with the cluster
  that it has just freed: the new file owns a cluster marked free (`Level`'s `"mknod"`
  fault; `FreeMeansFree` fails with it).
- `bsfs_ftruncate` (`bsfs.c:1093`) frees the end of a chain before the write that ends it; when that write
  fails the file leads to clusters marked free (the `"cut"` fault).
- `bsfs_rename` of a file to its own name (`bsfs.c:1276`) frees the clusters of the file it keeps
  (`RenameSame`; the kernel answers such a rename itself). With any of these three, `level_api` violates
  `ChainsIntact`, `NoCrossLink`, `NoLeak`, `WalksInside` and `NoClusterRace`.
- `bsfs_ftruncate` (`bsfs.c:1093`) frees clusters before the size that says so is on the disk, or even in memory: after
  a crash the file is back with its old size, and another file, fsynced meanwhile, may have them. Removing the first
  then frees clusters of the second ([LevelCrash](#levelcrash-a-level-that-loses-its-process)).
- The offset of a cluster (`cluster.c:37`) is a 32-bit product, so that on a level with more than 2^32
  bytes of clusters a high number addresses the bytes of a low one (`ClusterStore` with a
  `Word` below the size of the level; `RegionsApart` fails).

## Not modelled

- Mode and times of files: `chmod`, `utimens` and `getattr` have no effect on the state of
  `Level`. They are single sections that read or write one entry.
- The encoding of a BFT entry beyond the width of its size, and its limits on names.
- Running out of memory, and with it the undo of `bs_oft_get`; `bs_oft_destroy`.
- Encryption (`enc.c`): pure calls of OpenSSL. The models assume that a password decrypts
  exactly the slots stored with it, and that a unit is only read back as written.
- FUSE's callbacks, which forward to `bsfs.c`; parsing of paths and of the command line.
- Loss of power: fsync calls no `msync` and a datasync does nothing
  (`bsfs.c:934`), so nothing that the code does could be stated about it.
- A write torn by the death of the process. A BFT, a bitmap and a cluster are copied into the
  mapping by a loop over the cover files (`stego_write_level`), and every crash of the models falls between
  two such copies. A process that is killed inside one leaves some cover files changed and others
  not: part of a region is new, and since levels share the cover files, another level
  may read a change at the same offsets. No crash property says anything of that.
- The order in which locks are nested. A section of `metadata_lock` with the disk accesses inside it is
  one action of `Level`, and the disk's lock is a variable of `ClusterStore` only, so no run could show a
  deadlock between the two (the code takes `file->lock`, `metadata_lock` and the disk's lock in this order).
- What becomes of files that share clusters once a level that lost a flush is changed: `LevelCrash` has the
  steps and states no property of them but that names stay unique and sizes current.
- Process resources (mmap, flock, file descriptors): operating system. `bsfs_init` keeps the
  disk open when it is too small (`bsfs.c:294`).

## Plan

The order was: the table of open files first, since every other guarantee rests on
`bs_oft_has`; then the level, where the operations meet; then the storage under it;
then what surrounds them: the hash table, the levels of a mount, crashes, file
contents, keys. What is left, in the order of its worth:

1. Attributes in `DirectorySpec` and `Level`: chmod, utimens and readdir, the order of checks and
   the error codes.
2. What of a level can be saved after a crash: which files a check of the chains and the bitmap
   (a program this repository does not have) could tell apart.
3. The undo paths of `oft.c` when memory runs out.
