----------------------------- MODULE LevelCrash -----------------------------
(***************************************************************************)
(* A level whose process may crash (level_flush_metadata and level_init in *)
(* src/src/bsfs.c).  BFT and bitmap live in memory and are copied to the   *)
(* disk by fsync and on unmounting, the bitmap first; the links of the     *)
(* clusters are written to the disk directly, by every operation and       *)
(* whether or not the metadata that goes with them ever follows.           *)
(*                                                                         *)
(* The operations are those of Level.  The thread that flushes is one more *)
(* thread of the process; two flushes at once write the same bytes.        *)
(***************************************************************************)
EXTENDS LevelProps

VARIABLES diskBft,        \* what bft_read_table would read
          diskBitmap,     \* what fs_read_bitmap would read
          flushing,       \* level_flush_metadata has written the bitmap
          safe,           \* history: files that the last flush wrote and that
                          \* were not removed or cut since
          trusted         \* history: no crash lost anything

crashVars == <<vars, diskBft, diskBitmap, flushing, safe, trusted>>

CrashInit ==
  /\ Init
  /\ diskBft = bft
  /\ diskBitmap = bitmap
  /\ flushing = FALSE
  /\ safe = {}
  /\ trusted = TRUE

----------------------------------------------------------------------------
\* The clusters of entry i as a mount would find them.
DiskExtent(i) == Greater(1, Required(diskBft[i].size))
DiskClusters(i) == {Follow(diskBft[i].first, k) : k \in 0 .. DiskExtent(i) - 1}

\* Thread t of Level has given back clusters of file i and the size says
\* nothing of it yet.
Shrinking(t, i) ==
  handle[t] = i /\ job[t].kind = "ftruncate" /\ job[t].arg < job[t].size
  /\ \/ pc[t] = "cut"
     \/ pc[t] = "commit" /\ Required(job[t].arg) < Required(job[t].size)

\* A step of Level that ends the claim on entry i: the file is removed, or its
\* last clusters are.  After a crash that lost something any change ends it: a
\* file that was being cut is back with its old size, and its links may lead to
\* clusters that others got meanwhile, so that removing it frees those too.
Spoils(i) ==
  \/ bft'[i].name = NoName
  \/ \E t \in Threads : pc[t] = "free" /\ pc'[t] = "cut" /\ handle[t] = i
  \/ ~trusted /\ table' # table

\* Bound: get_cluster_chain does not end when a lossy crash left links that run
\* in a circle; the model follows a chain for that many clusters.
MaxChain == ClusterCount

\* The sections that change BFT or bitmap take metadata_lock for writing, and
\* so wait for a flush.
LevelStep ==
  /\ Next
  /\ \A t \in Threads : Len(job'[t].list) <= MaxChain
  /\ flushing => bft' = bft /\ bitmap' = bitmap
  /\ safe' = {i \in safe : ~Spoils(i)}
  /\ UNCHANGED <<diskBft, diskBitmap, flushing, trusted>>

\* Mutant of FlushBitmap: the BFT is written first.
FlushBftFirst ==
  /\ ~flushing /\ metaOwner = None
  /\ diskBft' = bft
  /\ flushing' = TRUE
  /\ UNCHANGED <<vars, diskBitmap, safe, trusted>>

\* level_flush_metadata under the read lock: fs_write_bitmap.  When it fails
\* nothing more is written.
FlushBitmap ==
  /\ ~flushing /\ metaOwner = None
  /\ diskBitmap' = bitmap
  /\ flushing' = TRUE
  /\ UNCHANGED <<vars, diskBft, safe, trusted>>

\* bft_write_table and the unlock.
FlushBft ==
  /\ flushing
  /\ flushing' = FALSE
  /\ \/ /\ diskBft' = bft
        /\ safe' = IF trusted THEN {i \in Files : \A t \in Threads : ~Shrinking(t, i)}
                     ELSE safe
     \/ "flush" \in Faults /\ UNCHANGED <<diskBft, safe>>
  /\ UNCHANGED <<vars, diskBitmap, trusted>>

\* Nothing is lost: the disk has the metadata and no operation is under way.
Clean ==
  /\ diskBft = bft /\ diskBitmap = bitmap
  /\ \A t \in Threads : pc[t] = "idle"

\* Mutant of Crash: level_init allocates a bitmap and does not read it.
CrashForgetful ==
  /\ trusted
  /\ bft' = diskBft
  /\ bitmap' = {}
  /\ metaOwner' = None
  /\ present' = {} /\ refs' = [i \in Indices |-> 0]
  /\ readers' = [i \in Indices |-> {}]
  /\ writer' = [i \in Indices |-> None]
  /\ pc' = [t \in Threads |-> "idle"]
  /\ handle' = [t \in Threads |-> None]
  /\ job' = [t \in Threads |-> NoJob]
  /\ flushing' = FALSE
  /\ trusted' = (trusted /\ Clean)
  /\ UNCHANGED <<next, diskBft, diskBitmap, safe>>

\* The process dies between two writes, of a cluster or of a table, and the
\* level is opened again: level_init.  After a flush with nothing under way this
\* is unmounting and mounting.  Bound: one crash that loses something.
Crash ==
  /\ trusted
  /\ bft' = diskBft
  /\ bitmap' = diskBitmap
  /\ metaOwner' = None
  /\ present' = {} /\ refs' = [i \in Indices |-> 0]
  /\ readers' = [i \in Indices |-> {}]
  /\ writer' = [i \in Indices |-> None]
  /\ pc' = [t \in Threads |-> "idle"]
  /\ handle' = [t \in Threads |-> None]
  /\ job' = [t \in Threads |-> NoJob]
  /\ flushing' = FALSE
  /\ trusted' = (trusted /\ Clean)
  /\ UNCHANGED <<next, diskBft, diskBitmap, safe>>

CrashNext == LevelStep \/ FlushBitmap \/ FlushBft \/ Crash

CrashSpec == CrashInit /\ [][CrashNext]_crashVars

----------------------------------------------------------------------------
\* A file that was on the disk when an fsync returned, and was not removed or
\* shortened since, survives a crash between any two writes, in the middle of
\* other operations and of the next flush: its entry is there and no other has
\* its name, its clusters are readable and marked as used, and no other such
\* file has one of them.
FsyncedFilesSurvive ==
  \A i \in safe :
    /\ diskBft[i].name # NoName
    /\ \A j \in Indices \ {i} : diskBft[j].name # diskBft[i].name
    /\ DiskClusters(i) \subseteq diskBitmap
    /\ Cardinality(DiskClusters(i)) = DiskExtent(i)
    /\ \A j \in safe \ {i} : DiskClusters(i) \cap DiskClusters(j) = {}

\* As long as no crash lost anything the chains are whole, over any number of
\* unmounts: what level_flush_metadata writes is what level_init needs.  After
\* one that did, names are still unique and the sizes that operations read are
\* still current.
TrustedChains ==
  /\ NamesUnique /\ SnapshotCurrent
  /\ trusted => ChainsIntact /\ NoCrossLink
=============================================================================
