----------------------------- MODULE LevelProps -----------------------------
(***************************************************************************)
(* What bsfs.c must keep true of a level whatever its threads do.  Chains  *)
(* are followed through the disk's links; a cluster has an owner: a file,  *)
(* or the operation that just took it or is about to free it.              *)
(***************************************************************************)
EXTENDS Level

Files == {i \in Indices : bft[i].name # NoName}

\* What following k links from cluster c gives; EOF and Random stay.
Follow(c, k) ==
  LET to[j \in 0 .. k] == IF j = 0 THEN c
                          ELSE IF to[j - 1] \in Clusters THEN next[to[j - 1]]
                          ELSE to[j - 1]
  IN to[k]

\* All the clusters the links lead to from c.
Reach(c) == {Follow(c, k) : k \in 0 .. ClusterCount} \cap Clusters

\* The size a file's chain is for: an operation that has relinked the chain,
\* or freed its end, has already given it the clusters of the new size.
ChainSize(i) ==
  IF \E t \in Threads : writer[i] = t /\ pc[t] \in {"cut", "commit"}
    THEN NewSize(writer[i])
    ELSE bft[i].size

Cutting(i) == \E t \in Threads : writer[i] = t /\ pc[t] = "cut"

\* mknod gives a file a cluster before it has a byte.
Extent(i) == Greater(1, Required(ChainSize(i)))

FileClusters(i) == {Follow(bft[i].first, k) : k \in 0 .. Extent(i) - 1}

\* The clusters of an operation: allocated and not yet hooked, or unlinked and
\* not yet freed.
JobClusters(t) ==
  IF pc[t] \in {"fill", "hook", "undo"} THEN Elements(job[t].list)
  ELSE IF pc[t] \in {"collect", "free"} /\ job[t].kind = "unlink"
    THEN Elements(job[t].list) \cup Reach(job[t].at)
  ELSE {}

----------------------------------------------------------------------------
\* A file of n bytes has the clusters of n bytes, each once, and its chain
\* ends there: read, write and truncate find every byte and fsck nothing more.
ChainsIntact ==
  \A i \in Files :
    /\ FileClusters(i) \subseteq Clusters
    /\ Cardinality(FileClusters(i)) = Extent(i)
    /\ ~Cutting(i) => Follow(bft[i].first, Extent(i)) = EOF

\* A cluster whose bit is "0, meaning it is free" (SPEC.md:324) has no owner:
\* none that has one can be allocated again.
FreeMeansFree ==
  /\ \A i \in Files : FileClusters(i) \subseteq bitmap
  /\ \A t \in Threads : JobClusters(t) \subseteq bitmap

\* No cluster belongs to two files, or to a file and to an operation, or to
\* two operations.
NoCrossLink ==
  /\ FreeMeansFree
  /\ \A i \in Files :
       /\ \A j \in Files \ {i} : FileClusters(i) \cap FileClusters(j) = {}
       /\ \A t \in Threads : FileClusters(i) \cap JobClusters(t) = {}
  /\ \A t \in Threads : \A u \in Threads \ {t} :
       JobClusters(t) \cap JobClusters(u) = {}

\* A cluster whose bit is "1, meaning it is in use" (SPEC.md:318) has an owner,
\* so every cluster comes back.  Only while no allocation of two or more
\* clusters runs out of space: see level_enospc.
NoLeak ==
  bitmap \subseteq (UNION {FileClusters(i) : i \in Files})
                     \cup (UNION {JobClusters(t) : t \in Threads})

\* An operation that goes to the cluster of an offset never falls off the
\* chain (-EIO), and a chain that is being freed is readable to its end:
\* the size was read under metadata_lock and is used long after it.
WalksInside ==
  \A t \in Threads :
    /\ pc[t] = "walk" /\ job[t].hops > 0 => next[job[t].cur] \in Clusters
    /\ pc[t] = "collect" => job[t].at # Random

\* The size that an operation read is still the file's until it commits:
\* concurrent renames, truncates by path and writes of other threads do not
\* make it stale.
AfterGetSize == {"walk", "alloc", "fill", "hook", "undo", "commit", "cut"}
SnapshotCurrent ==
  \A t \in Threads :
    \/ pc[t] \in AfterGetSize
    \/ pc[t] \in {"collect", "free"} /\ job[t].kind = "ftruncate"
    => /\ bft[handle[t]].name # NoName
       /\ bft[handle[t]].size = job[t].size

\* bft_find_table_entry finds the only file with the name.
NamesUnique == \A i, j \in Files : bft[i].name = bft[j].name => i = j

\* The clusters a thread is about to write, and those it is about to read.
WritesTo(t) == CASE pc[t] = "fill" -> Elements(job[t].list)
                 [] pc[t] \in {"hook", "cut"} -> {job[t].cur}
                 [] pc[t] = "walk" /\ job[t].kind = "write" -> {job[t].cur}
                 [] OTHER -> {}
ReadsFrom(t) == CASE pc[t] = "walk" -> {job[t].cur}
                  [] pc[t] = "collect" -> {job[t].at} \cap Clusters
                  [] OTHER -> {}

\* Nobody reads or writes a cluster that another thread is writing: a read,
\* modify and write of a cluster in do_rw_op or bs_do_write_extend loses no
\* update, although the disk's lock is dropped in between.
NoClusterRace ==
  \A t \in Threads : \A u \in Threads \ {t} :
    WritesTo(t) \cap (WritesTo(u) \cup ReadsFrom(u)) = {}

\* While a handle is open its entry stays the same file: it is not removed,
\* not given to another file, and its chain keeps its first cluster.
OpenFileStays ==
  [][\A t \in Threads, i \in Indices :
       Using(t, i) /\ Using(t, i)' =>
         /\ bft[i].name # NoName /\ bft'[i].name # NoName
         /\ bft'[i].first = bft[i].first]_vars

\* A reader works on one version of the file: from its lock to its unlock
\* neither the size nor the chain changes.
ReadersIsolated ==
  [][\A i \in Files : readers[i] \cap readers'[i] # {} =>
       /\ bft'[i].size = bft[i].size
       /\ FileClusters(i)' = FileClusters(i)]_vars

\* A thread is inside a file operation from the lock of file->lock to its
\* unlock; bsfs_unlink and bsfs_rename, which collect a chain with no lock at
\* all, are not.
InFile(t) == \/ pc[t] \in AfterGetSize \cup {"size"}
             \/ pc[t] \in {"collect", "free"} /\ job[t].kind = "ftruncate"

\* What callers see of a level: the file that a scan of the table finds for a
\* name, its size, their handles and the operations they are inside.
SeenDir == [n \in Names |-> IF Exists(n) THEN CHOOSE i \in Find(n) : TRUE ELSE None]
SeenSize == [i \in Indices |-> bft[i].size]
SeenOpen == [t \in Threads |-> IF pc[t] = "reap" THEN None ELSE handle[t]]
SeenOp == [t \in Threads |-> IF InFile(t) THEN [kind |-> job[t].kind, arg |-> job[t].arg]
                             ELSE [kind |-> "none", arg |-> 0]]

Directory == INSTANCE DirectorySpec
               WITH Sizes <- 0 .. MaxSize,
                    dir <- SeenDir, size <- SeenSize, open <- SeenOpen, op <- SeenOp

\* Each operation is atomic for its callers: one on a path, which is a section
\* under metadata_lock, and one on a handle, which is many, with operations of
\* other threads in between.  A write never shrinks a file by a size it read
\* before others changed it, and no file that is open ends.
ImplementsDirectory == Directory!Spec

\* Once calls stop, every operation under way returns, whatever failed: no way
\* out of a section keeps metadata_lock from another operation, and no operation
\* follows a chain for ever.
OpsFinish == CallsStop => <>[](\A t \in Threads : pc[t] = "idle")

\* A thread that has returned holds no lock: "Note: on success, the level
\* remains locked!" (bsfs.c:266) makes unlocking the duty of every caller of
\* get_locked_level_and_index.  bsfs_unlink does not: see level_unlink_lock.
MetadataUnlocked == \A t \in Threads : pc[t] = "idle" => metaOwner # t
=============================================================================
