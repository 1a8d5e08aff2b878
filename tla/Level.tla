------------------------------- MODULE Level -------------------------------
(***************************************************************************)
(* One open level of the file system (src/src/bsfs.c): its block file      *)
(* table, its cluster bitmap, the cluster chains on the disk, its open     *)
(* file table, and the threads of the FUSE process that run the operations *)
(* on it.                                                                  *)
(*                                                                         *)
(* What the code does under level->metadata_lock, from lock to unlock, is  *)
(* one action; between two such sections, and between two accesses to a    *)
(* cluster, other threads run.  So find_cluster, do_rw_op and              *)
(* get_cluster_chain take a step per cluster, and an operation that reads  *)
(* the size of a file, walks its chain, allocates, writes, relinks and     *)
(* commits is as many actions as that.                                     *)
(*                                                                         *)
(* Data is abstracted: a cluster is the number of the next one (the last   *)
(* four of its bytes), a file's bytes are counted and not stored, a BFT    *)
(* entry is its name, first cluster and size.                              *)
(***************************************************************************)
EXTENDS Integers, Sequences, FiniteSets

CONSTANTS Threads,        \* threads of the FUSE process
          MaxEntries,     \* BFT_MAX_ENTRIES
          ClusterCount,   \* fs_count_clusters of the disk
          DataSize,       \* CLUSTER_DATA_SIZE, in the unit of file sizes
          MaxSize,        \* bound on file sizes
          Names,          \* file names
          NoName,         \* the empty name, that of a free entry
          EOF,            \* CLUSTER_OFFSET_EOF
          Random,         \* the next field of a cluster nobody wrote yet
          None,           \* no thread, or no handle
          Faults,         \* the cluster accesses that may fail
          UnlinkOpen,     \* may a caller unlink a file that is open?
          RenameSame      \* may a caller rename a file to its own name?

Indices == 0 .. MaxEntries - 1
Clusters == 0 .. ClusterCount - 1
FaultKinds == {"mknod", "read", "fill", "hook", "cut", "flush"}

ASSUME LevelAssumption ==
  /\ IsFiniteSet(Threads)
  /\ MaxEntries \in Nat \ {0} /\ ClusterCount \in Nat \ {0}
  /\ DataSize \in Nat \ {0} /\ MaxSize \in Nat
  /\ NoName \notin Names
  /\ EOF \notin Nat /\ Random \notin Nat /\ EOF # Random
  /\ None \notin Threads /\ None \notin Nat
  /\ Faults \subseteq FaultKinds
  /\ UnlinkOpen \in BOOLEAN /\ RenameSame \in BOOLEAN

VARIABLES bft,            \* level->bft
          bitmap,         \* the clusters whose bit is set in level->bitmap
          next,           \* fs_next_cluster of each cluster on the disk
          metaOwner,      \* the thread that left metadata_lock write-locked
          present, refs,  \* level->open_files, see OftSpec
          readers, writer,\* file->lock of the file open at each index
          pc,             \* where each thread is
          handle,         \* the BFT index of the bs_file_t each thread has
          job             \* the locals of the operation each thread is in

Oft == INSTANCE OftSpec

table == <<bft, bitmap, next>>
oft == <<present, refs>>
locks == <<readers, writer>>
vars == <<table, metaOwner, oft, locks, pc, handle, job>>

----------------------------------------------------------------------------
\* A free BFT entry is all zero bytes.
Zeroed == [name |-> NoName, first |-> 0, size |-> 0]

\* No operation in progress.
NoJob == [kind |-> "none", arg |-> 0, size |-> 0, cur |-> 0, hops |-> 0,
          at |-> 0, list |-> <<>>]

Kinds == {"read", "write", "fallocate", "ftruncate"}
Links == Clusters \cup {EOF, Random}
Entries == [name : Names \cup {NoName}, first : Clusters, size : 0 .. MaxSize]
Jobs == [kind : Kinds \cup {"none", "unlink"}, arg : 0 .. MaxSize, size : 0 .. MaxSize,
         cur : Clusters, hops : Nat, at : Links, list : Seq(Clusters)]
PCs == {"idle", "size", "walk", "alloc", "fill", "hook", "undo", "commit",
        "collect", "free", "cut", "reap"}

TypeOK ==
  /\ bft \in [Indices -> Entries]
  /\ bitmap \subseteq Clusters
  /\ next \in [Clusters -> Links]
  /\ metaOwner \in Threads \cup {None}
  /\ Oft!TypeOK
  /\ readers \in [Indices -> SUBSET Threads]
  /\ writer \in [Indices -> Threads \cup {None}]
  /\ pc \in [Threads -> PCs]
  /\ handle \in [Threads -> Indices \cup {None}]
  /\ job \in [Threads -> Jobs]

\* A level whose BFT and bitmap were written empty and whose clusters hold
\* what stego reads from a disk of random bytes.
Init ==
  /\ bft = [i \in Indices |-> Zeroed]
  /\ bitmap = {}
  /\ next = [c \in Clusters |-> Random]
  /\ metaOwner = None
  /\ Oft!Init
  /\ readers = [i \in Indices |-> {}]
  /\ writer = [i \in Indices |-> None]
  /\ pc = [t \in Threads |-> "idle"]
  /\ handle = [t \in Threads |-> None]
  /\ job = [t \in Threads |-> NoJob]

----------------------------------------------------------------------------
\* A scan from the low end stops at the only element of First(S), if any.
First(S) == {x \in S : \A y \in S : x <= y}
Last(S) == {x \in S : \A y \in S : x >= y}
Lesser(a, b) == IF a < b THEN a ELSE b
Greater(a, b) == IF a > b THEN a ELSE b
Elements(s) == {s[k] : k \in DOMAIN s}

\* bft_find_table_entry, and bft_find_free_table_entry when n is NoName.
Find(n) == First({i \in Indices : bft[i].name = n})
Exists(n) == Find(n) # {}

\* The clusters whose bit is clear; fs_alloc_cluster returns the first.
FreeClusters == Clusters \ bitmap

\* list is what n calls of fs_alloc_cluster return.
Allocation(list, n) ==
  /\ \A j, k \in 1 .. n : j < k => list[j] < list[k]
  /\ \A c \in FreeClusters : (\E k \in 1 .. n : c < list[k]) => c \in Elements(list)

\* get_required_cluster_count
Required(size) == (size + DataSize - 1) \div DataSize

\* Mutant of EofHops: the cluster of the byte after the last.
EofHopsPast(size) == size \div DataSize

\* Mutant of EofHops: the special case of the empty file is missing.
EofHopsPlain(size) == (size - 1) \div DataSize

\* The links find_eof_cluster follows: none for an empty file, which has a
\* cluster all the same, else up to the cluster of the last byte.
EofHops(size) == IF size = 0 THEN 0 ELSE (size - 1) \div DataSize

\* Mutant of LocalEof: an unsigned remainder, never 0.
LocalEofUnsigned(size) == IF size = 0 THEN DataSize ELSE ((size - 1) % DataSize) + 1

\* get_local_eof_off: C's remainder makes it 0 for an empty file.
LocalEof(size) == IF size = 0 THEN 0 ELSE ((size - 1) % DataSize) + 1

\* new_cluster_count in bs_do_write_extend, to grow from size to upto.
NewClusters(size, upto) ==
  ((upto - size) - (DataSize - LocalEof(size)) + DataSize - 1) \div DataSize

----------------------------------------------------------------------------
\* Mutant of Section: the unlock is missing.
SectionKept(t) == metaOwner \in {None, t} /\ metaOwner' = t

\* A section under metadata_lock that is unlocked at its end.  A thread that
\* left the lock write-locked gets EDEADLK from its next attempt, which no
\* caller looks at, and the unlock at the end of that section releases it.
Section(t) == /\ metaOwner \in {None, t}
              /\ metaOwner' = None

\* Thread t has the handle of index i and has not begun to release it.
Using(t, i) == handle[t] = i /\ pc[t] # "reap"

\* The operation returns: file->lock is released and the locals are gone.
Finish(t) ==
  /\ readers' = [i \in Indices |-> readers[i] \ {t}]
  /\ writer' = [i \in Indices |-> IF writer[i] = t THEN None ELSE writer[i]]
  /\ pc' = [pc EXCEPT ![t] = "idle"]
  /\ job' = [job EXCEPT ![t] = NoJob]

GoTo(t, label) == pc' = [pc EXCEPT ![t] = label]

\* Mutant of StartCollect: truncate frees from the last cluster it keeps.
StartCollectEarly(t, kind, first) ==
  /\ GoTo(t, "collect")
  /\ job' = [job EXCEPT ![t].kind = kind, ![t].list = <<>>,
                        ![t].at = IF kind = "unlink" THEN first ELSE job[t].cur]

\* Dealloc of a chain starts: get_cluster_chain from a cluster.
StartCollect(t, kind, first) ==
  /\ GoTo(t, "collect")
  /\ job' = [job EXCEPT ![t].kind = kind, ![t].at = first, ![t].list = <<>>]

----------------------------------------------------------------------------
(* Operations on paths *)

\* bsfs_mknod.  When writing the first cluster fails the cluster is freed, but
\* the entry is created all the same.
Mknod(t, n) ==
  /\ pc[t] = "idle"
  /\ Section(t)
  /\ IF Exists(n) \/ ~Exists(NoName) \/ FreeClusters = {}
       THEN UNCHANGED table
       ELSE \E i \in Find(NoName), c \in First(FreeClusters) :
              /\ bft' = [bft EXCEPT ![i] = [name |-> n, first |-> c, size |-> 0]]
              /\ \/ bitmap' = bitmap \cup {c} /\ next' = [next EXCEPT ![c] = EOF]
                 \/ "mknod" \in Faults /\ UNCHANGED <<bitmap, next>>
  /\ UNCHANGED <<oft, locks, pc, handle, job>>

\* bsfs_unlink: get_locked_level_and_index, then do_unlink_metadata.  On
\* -EBUSY it returns without unlocking.
Unlink(t, n) ==
  /\ pc[t] = "idle"
  /\ metaOwner \in {None, t}
  /\ \E i \in Find(n) :
       \/ /\ i \in present
          /\ UnlinkOpen
          /\ metaOwner' = t
          /\ UNCHANGED <<bft, pc, job>>
       \/ /\ i \notin present
          /\ metaOwner' = None
          /\ bft' = [bft EXCEPT ![i] = Zeroed]
          /\ StartCollect(t, "unlink", bft[i].first)
  /\ UNCHANGED <<bitmap, next, oft, locks, handle>>

\* bsfs_rename with RENAME_EXCHANGE: do_exchange swaps the names.
RenameExchange(t, old, new) ==
  /\ \E i \in Find(old), j \in Find(new) :
       bft' = [bft EXCEPT ![i].name = bft[j].name, ![j].name = bft[i].name]
  /\ UNCHANGED <<pc, job>>

\* Mutant of RenameMove: the new name is not looked up.
RenameMoveBlind(t, old, new) ==
  /\ \E i \in Find(old) : bft' = [bft EXCEPT ![i].name = new]
  /\ UNCHANGED <<pc, job>>

\* bsfs_rename to a name that no file has.
RenameMove(t, old, new) ==
  /\ ~Exists(new)
  /\ \E i \in Find(old) : bft' = [bft EXCEPT ![i].name = new]
  /\ UNCHANGED <<pc, job>>

\* Mutant of RenameOver: bs_oft_has is not asked.
RenameOverOpen(t, old, new) ==
  /\ old = new => RenameSame
  /\ \E i \in Find(old), j \in Find(new) :
       /\ bft' = [[bft EXCEPT ![j] = Zeroed] EXCEPT ![i].name = new]
       /\ StartCollect(t, "unlink", bft[j].first)

\* bsfs_rename over a file: do_unlink_metadata of that file (-EBUSY when it is
\* open, properly unlocked here), do_rename, and the dealloc after the unlock.
RenameOver(t, old, new) ==
  /\ old = new => RenameSame
  /\ \E i \in Find(old), j \in Find(new) :
       \/ /\ j \in present
          /\ UnlinkOpen
          /\ UNCHANGED <<bft, pc, job>>
       \/ /\ j \notin present
          /\ bft' = [[bft EXCEPT ![j] = Zeroed] EXCEPT ![i].name = new]
          /\ StartCollect(t, "unlink", bft[j].first)

Rename(t, old, new) ==
  /\ pc[t] = "idle"
  /\ Section(t)
  /\ \/ RenameExchange(t, old, new)
     \/ RenameMove(t, old, new)
     \/ RenameOver(t, old, new)
  /\ UNCHANGED <<bitmap, next, oft, locks, handle>>

\* bsfs_open
Open(t, n) ==
  /\ pc[t] = "idle" /\ handle[t] = None
  /\ Section(t)
  /\ \E i \in Find(n) : Oft!Acquire(i) /\ handle' = [handle EXCEPT ![t] = i]
  /\ UNCHANGED <<table, locks, pc, job>>

\* A section that changes nothing modelled here: bsfs_getattr, bsfs_chmod,
\* bsfs_utimens, bsfs_readdir, level_flush_metadata, and -ENOENT.
Attributes(t) ==
  /\ pc[t] = "idle"
  /\ Section(t)
  /\ UNCHANGED <<table, oft, locks, pc, handle, job>>

----------------------------------------------------------------------------
(* Release: see OpenFileTable, which implements Drop and Reap. *)

Release(t) ==
  /\ pc[t] = "idle" /\ handle[t] # None
  /\ Oft!Drop(handle[t])
  /\ IF refs[handle[t]] = 1
       THEN GoTo(t, "reap") /\ UNCHANGED handle
       ELSE UNCHANGED pc /\ handle' = [handle EXCEPT ![t] = None]
  /\ UNCHANGED <<table, metaOwner, locks, job>>

\* The recheck of bs_oft_release: the object is removed, or is in use again, or
\* is not the one this thread released and its own release will come.
Reap(t) ==
  /\ pc[t] = "reap"
  /\ LET i == handle[t] IN
       \/ Oft!Reap(i)
       \/ /\ \/ i \notin present \/ refs[i] # 0
             \/ \E u \in Threads \ {t} : pc[u] = "reap" /\ handle[u] = i
          /\ UNCHANGED oft
  /\ GoTo(t, "idle")
  /\ handle' = [handle EXCEPT ![t] = None]
  /\ UNCHANGED <<table, metaOwner, locks, job>>

----------------------------------------------------------------------------
(* Operations on handles: bsfs_read, bsfs_write, bsfs_ftruncate and         *)
(* bsfs_fallocate.  arg is off + size, off + len, or the new size.          *)

Begin(t, kind, arg) ==
  /\ pc[t] = "idle" /\ handle[t] # None
  /\ GoTo(t, "size")
  /\ job' = [job EXCEPT ![t].kind = kind, ![t].arg = arg]
  /\ UNCHANGED <<table, metaOwner, oft, handle>>

\* pthread_rwlock_rdlock(&file->lock)
BeginRead(t, upto) ==
  /\ Begin(t, "read", upto)
  /\ writer[handle[t]] = None
  /\ readers' = [readers EXCEPT ![handle[t]] = @ \cup {t}]
  /\ UNCHANGED writer

\* Mutant of BeginWrite: a read lock, as BeginRead takes.
BeginWriteShared(t, kind, arg) ==
  /\ Begin(t, kind, arg)
  /\ writer[handle[t]] = None
  /\ readers' = [readers EXCEPT ![handle[t]] = @ \cup {t}]
  /\ UNCHANGED writer

\* pthread_rwlock_wrlock(&file->lock)
BeginWrite(t, kind, arg) ==
  /\ Begin(t, kind, arg)
  /\ writer[handle[t]] = None /\ readers[handle[t]] = {}
  /\ writer' = [writer EXCEPT ![handle[t]] = t]
  /\ UNCHANGED readers

\* What an operation does with the size it read: return, commit at once, or
\* walk the chain to the last cluster it is about.
NothingToDo(kind, arg, size) ==
  \/ kind = "read" /\ size = 0
  \/ kind = "fallocate" /\ arg <= size
  \/ kind = "ftruncate" /\ arg = size

\* A read past the end may also start there.
PastTheEnd(kind, arg, size) == kind = "read" /\ arg > size

SameClusters(kind, arg, size) ==
  kind = "ftruncate" /\ arg < size /\ Required(arg) = Required(size)

\* get_size_and_initial_cluster, the only use of the BFT before the commit.
GetSize(t) ==
  /\ pc[t] = "size"
  /\ Section(t)
  /\ LET kind == job[t].kind
         arg == job[t].arg
         size == bft[handle[t]].size
     IN \/ /\ NothingToDo(kind, arg, size) \/ PastTheEnd(kind, arg, size)
           /\ Finish(t)
        \/ /\ ~NothingToDo(kind, arg, size)
           /\ job' = [job EXCEPT ![t].size = size,
                                 ![t].cur = bft[handle[t]].first,
                                 ![t].hops = EofHops(Lesser(arg, size))]
           /\ GoTo(t, IF SameClusters(kind, arg, size) THEN "commit" ELSE "walk")
           /\ UNCHANGED locks
  /\ UNCHANGED <<table, oft, handle>>

\* One cluster of find_cluster or do_rw_op: -EIO at the end of the chain.
Walk(t) ==
  /\ pc[t] = "walk" /\ job[t].hops > 0
  /\ LET link == next[job[t].cur] IN
       \/ /\ link \in Clusters
          /\ job' = [job EXCEPT ![t].cur = link, ![t].hops = @ - 1]
          /\ UNCHANGED <<locks, pc>>
       \/ /\ link \notin Clusters \/ "read" \in Faults
          /\ Finish(t)
  /\ UNCHANGED <<table, metaOwner, oft, handle>>

\* The walk has reached its last cluster; a read, a write and a truncation that
\* frees access it there.
Arrive(t) ==
  /\ pc[t] = "walk" /\ job[t].hops = 0
  /\ LET kind == job[t].kind
         arg == job[t].arg
         size == job[t].size
     IN \/ kind = "read" /\ Finish(t)
        \/ /\ "read" \in Faults
           /\ kind = "write" \/ (kind = "ftruncate" /\ arg < size)
           /\ Finish(t)
        \/ kind = "write" /\ arg <= size /\ GoTo(t, "commit") /\ UNCHANGED <<locks, job>>
        \/ kind # "read" /\ arg > size /\ GoTo(t, "alloc") /\ UNCHANGED <<locks, job>>
        \/ /\ kind = "ftruncate" /\ arg < size
           /\ StartCollect(t, kind, next[job[t].cur])
           /\ UNCHANGED locks
  /\ UNCHANGED <<table, metaOwner, oft, handle>>

----------------------------------------------------------------------------
(* bs_do_write_extend *)

\* alloc_clusters.  When a cluster is missing the ones already taken are given
\* back, but for the last of them.
AllocClusters(t) ==
  /\ pc[t] = "alloc"
  /\ Section(t)
  /\ LET n == NewClusters(job[t].size, job[t].arg) IN
       IF n <= Cardinality(FreeClusters)
         THEN /\ \E list \in [1 .. n -> FreeClusters] :
                   /\ Allocation(list, n)
                   /\ bitmap' = bitmap \cup Elements(list)
                   /\ job' = [job EXCEPT ![t].list = list]
              /\ GoTo(t, "fill")
              /\ UNCHANGED locks
         ELSE bitmap' = bitmap \cup Last(FreeClusters) /\ Finish(t)
  /\ UNCHANGED <<bft, next, oft, handle>>

\* The first k new clusters are written, each with the number of the next.
Linked(list, k) ==
  [c \in Clusters |->
     IF \E j \in 1 .. k : list[j] = c
       THEN LET j == CHOOSE j \in 1 .. k : list[j] = c
            IN IF j < Len(list) THEN list[j + 1] ELSE EOF
       ELSE next[c]]

\* The loop that writes the new clusters, which no other thread can reach yet.
Fill(t) ==
  /\ pc[t] = "fill"
  /\ LET list == job[t].list IN
       \/ next' = Linked(list, Len(list)) /\ GoTo(t, "hook")
       \/ /\ "fill" \in Faults
          /\ \E k \in 0 .. Len(list) - 1 : next' = Linked(list, k)
          /\ GoTo(t, "undo")
  /\ UNCHANGED <<bft, bitmap, metaOwner, oft, locks, handle, job>>

\* Mutant of Hook: undone although the link was written.
HookTorn(t) ==
  /\ pc[t] = "hook"
  /\ next' = [next EXCEPT ![job[t].cur] =
                 IF job[t].list = <<>> THEN EOF ELSE Head(job[t].list)]
  /\ GoTo(t, "commit") \/ ("hook" \in Faults /\ GoTo(t, "undo"))
  /\ UNCHANGED <<bft, bitmap, metaOwner, oft, locks, handle, job>>

\* The last cluster of the file is read and written back with the link.
Hook(t) ==
  /\ pc[t] = "hook"
  /\ \/ /\ next' = [next EXCEPT ![job[t].cur] =
                      IF job[t].list = <<>> THEN EOF ELSE Head(job[t].list)]
        /\ GoTo(t, "commit")
     \/ "hook" \in Faults /\ GoTo(t, "undo") /\ UNCHANGED next
  /\ UNCHANGED <<bft, bitmap, metaOwner, oft, locks, handle, job>>

\* fail: the new clusters are freed.
Undo(t) ==
  /\ pc[t] = "undo"
  /\ Section(t)
  /\ bitmap' = bitmap \ Elements(job[t].list)
  /\ Finish(t)
  /\ UNCHANGED <<bft, next, oft, handle>>

\* The size an operation commits.
NewSize(t) == IF job[t].kind = "write" THEN Greater(job[t].size, job[t].arg)
              ELSE job[t].arg

\* commit_write_to_bft: the entry is read again and written with the new size.
Commit(t) ==
  /\ pc[t] = "commit"
  /\ Section(t)
  /\ bft' = [bft EXCEPT ![handle[t]].size = NewSize(t)]
  /\ Finish(t)
  /\ UNCHANGED <<bitmap, next, oft, handle>>

----------------------------------------------------------------------------
(* dealloc_cluster_chain *)

\* One cluster of get_cluster_chain; when it cannot be read nothing is freed.
Collect(t) ==
  /\ pc[t] = "collect"
  /\ LET at == job[t].at IN
       \/ at = EOF /\ GoTo(t, "free") /\ UNCHANGED <<locks, job>>
       \/ /\ at \in Clusters
          /\ job' = [job EXCEPT ![t].at = next[at], ![t].list = Append(@, at)]
          /\ UNCHANGED <<locks, pc>>
       \/ /\ at # EOF
          /\ at \notin Clusters \/ "read" \in Faults
          /\ Finish(t)
  /\ UNCHANGED <<table, metaOwner, oft, handle>>

\* Mutant of FreeChain: the last cluster is missed.
FreeChainButLast(t) ==
  /\ pc[t] = "free"
  /\ Section(t)
  /\ bitmap' = bitmap \ {job[t].list[k] : k \in 1 .. Len(job[t].list) - 1}
  /\ IF job[t].kind = "unlink" THEN Finish(t)
     ELSE GoTo(t, "cut") /\ UNCHANGED <<locks, job>>
  /\ UNCHANGED <<bft, next, oft, handle>>

\* dealloc_clusters; bsfs_unlink and bsfs_rename return after it.
FreeChain(t) ==
  /\ pc[t] = "free"
  /\ Section(t)
  /\ bitmap' = bitmap \ Elements(job[t].list)
  /\ IF job[t].kind = "unlink" THEN Finish(t)
     ELSE GoTo(t, "cut") /\ UNCHANGED <<locks, job>>
  /\ UNCHANGED <<bft, next, oft, handle>>

\* bsfs_ftruncate ends the chain only now, after the rest of it was freed.
Cut(t) ==
  /\ pc[t] = "cut"
  /\ \/ /\ next' = [next EXCEPT ![job[t].cur] = EOF]
        /\ GoTo(t, "commit")
        /\ UNCHANGED <<locks, job>>
     \/ "cut" \in Faults /\ Finish(t) /\ UNCHANGED next
  /\ UNCHANGED <<bft, bitmap, metaOwner, oft, handle>>

----------------------------------------------------------------------------
\* The steps of an operation that has begun.
Continue(t) ==
  \/ GetSize(t) \/ Walk(t) \/ Arrive(t)
  \/ AllocClusters(t) \/ Fill(t) \/ Hook(t) \/ Undo(t) \/ Commit(t)
  \/ Collect(t) \/ FreeChain(t) \/ Cut(t)
  \/ Reap(t)

Next == \E t \in Threads :
  \/ \E n \in Names : Mknod(t, n) \/ Unlink(t, n) \/ Open(t, n)
  \/ \E old, new \in Names : Rename(t, old, new)
  \/ Attributes(t)
  \/ Release(t)
  \/ \E arg \in 1 .. MaxSize : BeginRead(t, arg)
  \/ \E arg \in 1 .. MaxSize, kind \in {"write", "fallocate"} : BeginWrite(t, kind, arg)
  \/ \E arg \in 0 .. MaxSize : BeginWrite(t, "ftruncate", arg)
  \/ Continue(t)

Spec == Init /\ [][Next]_vars

\* The steps of all the operations under way.
Underway == \E t \in Threads : Continue(t)

\* From some time on nothing is called: each step is one of an operation that
\* began before.
CallsStop == <>[][Underway]_vars

\* While nothing is called, the operations under way do not all stand still:
\* of the threads that wait for a lock that is free, one gets it.  Which one is
\* open, since the reader/writer locks are default ones and may prefer readers;
\* and while calls go on nothing is assumed, as they may keep a writer of
\* metadata_lock or of the disk's lock waiting for ever.
FairSpec == Spec /\ (CallsStop => WF_vars(Underway))
=============================================================================
