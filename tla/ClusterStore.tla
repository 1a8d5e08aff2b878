---------------------------- MODULE ClusterStore ----------------------------
(***************************************************************************)
(* From a cluster to the bytes of the disk: the layout of a level          *)
(* (src/src/cluster.c), the cover files its bytes are spread over          *)
(* (src/src/stego.c) and the lock of the disk (src/src/disk.c), for the    *)
(* threads that access one level.                                          *)
(*                                                                         *)
(* The loop over the cover files takes a step per cover file.  What is     *)
(* stored is abstracted to which write of which region put it there: the   *)
(* encryption is per access, so what was written as a unit can only be     *)
(* read as that unit.  The linear combinations that keep levels apart are  *)
(* not modelled: one level's delta replaces that level's bytes.            *)
(***************************************************************************)
EXTENDS Integers, FiniteSets

CONSTANTS Threads,
          KeytabSize,        \* KEYTAB_SIZE
          CoverFiles,        \* STEGO_COVER_FILE_COUNT
          LevelsPerPassword, \* STEGO_LEVELS_PER_PASSWORD
          BftSize,           \* BFT_SIZE
          ClusterSize,       \* CLUSTER_SIZE
          Word,              \* 2^32: CLUSTER_SIZE * cluster is a uint32_t
          DiskSizes,         \* sizes of the disk file
          Values,            \* what is written
          None, Unwritten    \* no thread; random bytes

CharBit == 8
Block == 16                  \* ENC_BLOCK_SIZE, and the 16 of cluster.c

ASSUME StoreAssumption ==
  /\ KeytabSize \in Nat /\ DiskSizes \subseteq Nat
  /\ CoverFiles \in Nat \ {0} /\ LevelsPerPassword \in Nat \ {0} /\ Word \in Nat \ {0}
  /\ BftSize \in Nat \ {0} /\ BftSize % Block = 0
  /\ ClusterSize \in Nat \ {0} /\ ClusterSize % Block = 0
  /\ None \notin Threads

VARIABLES diskSize,   \* disk->data_size
          store,      \* the level's bytes: by cover file of the level and offset
          readers, writer,  \* disk->lock
          op,         \* the locals of the access each thread is in
          out         \* the bytes the last read of each thread returned

vars == <<diskSize, store, readers, writer, op, out>>

----------------------------------------------------------------------------
(* Layout *)

Lesser(a, b) == IF a < b THEN a ELSE b

\* compute_level_size: the bytes of one cover file.
LevelSize == IF diskSize < KeytabSize THEN 0
             ELSE (diskSize - KeytabSize) \div CoverFiles

\* stego_compute_user_level_size
UserLevelSize == LevelsPerPassword * LevelSize

BitsPerBlock == Block * CharBit

\* Mutant of CountClusters: no room for the padding of the bitmap.
CountClustersTight(size) ==
  IF size <= BftSize THEN 0
  ELSE (CharBit * (size - BftSize)) \div (CharBit * ClusterSize + 1)

\* fs_count_clusters: a cluster takes its bytes and one bit of the bitmap, which
\* is padded to whole blocks.
CountClusters(size) ==
  IF size <= BftSize \/ CharBit * (size - BftSize) < BitsPerBlock - 1 THEN 0
  ELSE (CharBit * (size - BftSize) - BitsPerBlock + 1) \div (CharBit * ClusterSize + 1)

\* fs_compute_bitmap_size, with round_to_bytes
BitmapSize(clusters) ==
  Block * (((clusters + CharBit - 1) \div CharBit + Block - 1) \div Block)

ClusterCount == CountClusters(UserLevelSize)

Bft == <<"bft", 0>>
Bitmap == <<"bitmap", 0>>
Cluster(c) == <<"cluster", c>>
Regions == {Bft, Bitmap} \cup {Cluster(c) : c \in 0 .. ClusterCount - 1}

\* Mutant of Offset: the bitmap is forgotten.
OffsetNoBitmap(r) ==
  CASE r = Bft -> 0
    [] r = Bitmap -> BftSize
    [] OTHER -> BftSize + ((ClusterSize * r[2]) % Word)

\* Where bft_read_table, fs_read_bitmap and fs_read_cluster read.
Offset(r) ==
  CASE r = Bft -> 0
    [] r = Bitmap -> BftSize
    [] OTHER -> BftSize + BitmapSize(ClusterCount) + ((ClusterSize * r[2]) % Word)

Length(r) ==
  CASE r = Bft -> BftSize
    [] r = Bitmap -> BitmapSize(ClusterCount)
    [] OTHER -> ClusterSize

\* Mutant of CheckParameters: the end is not checked.
CheckParametersStart(off, size) ==
  /\ off < UserLevelSize
  /\ size % Block = 0 /\ off % Block = 0

\* check_parameters: an access that ends where the level ends is refused.
CheckParameters(off, size) ==
  /\ off < UserLevelSize /\ size < UserLevelSize - off
  /\ size % Block = 0 /\ off % Block = 0

\* A byte of the level is at an offset of one of the level's cover files.
CoverBytes == (0 .. LevelsPerPassword - 1) \X (0 .. LevelSize - 1)
Place(k) == <<k \div LevelSize, k % LevelSize>>

----------------------------------------------------------------------------
Idle == [mode |-> "idle", region |-> Bft, value |-> Unwritten, level |-> 0,
         cur |-> 0, processed |-> 0, seen |-> {}]

\* Mutant of Tag: the IV is that of the kind of region, one for all clusters.
TagOfKind(r, v) == [region |-> r[1], value |-> v]

\* What the encryption makes of a buffer: its IV is get_iv of the offset, so only
\* a read of the same region gives it back.
Tag(r, v) == [region |-> r, value |-> v]
Tags == [region : Regions, value : Values] \cup {Unwritten}

Ops == [mode : {"idle", "read", "write"}, region : Regions, value : Values \cup {Unwritten},
        level : Nat, cur : Nat, processed : Nat, seen : SUBSET Tags]

TypeOK == /\ diskSize \in DiskSizes
          /\ store \in [CoverBytes -> Tags]
          /\ readers \subseteq Threads /\ writer \in Threads \cup {None}
          /\ op \in [Threads -> Ops]
          /\ out \in [Threads -> SUBSET Tags]

Init == /\ diskSize \in DiskSizes
        /\ store = [b \in CoverBytes |-> Unwritten]
        /\ readers = {} /\ writer = None
        /\ op = [t \in Threads |-> Idle]
        /\ out = [t \in Threads |-> {}]

----------------------------------------------------------------------------
\* The access starts at its first byte: merged_cover_file_op up to its loop.
Begin(t, mode, r, v) ==
  op' = [op EXCEPT ![t] = [mode |-> mode, region |-> r, value |-> v,
                           level |-> Offset(r) \div LevelSize,
                           cur |-> Offset(r) % LevelSize,
                           processed |-> 0, seen |-> {}]]

\* stego_read_level or stego_write_level returns -EINVAL.
Refuse(t, r) ==
  /\ op[t].mode = "idle"
  /\ ~CheckParameters(Offset(r), Length(r))
  /\ out' = [out EXCEPT ![t] = {}]
  /\ UNCHANGED <<diskSize, store, readers, writer, op>>

\* stego_read_level, to disk_lock_read
StartRead(t, r) ==
  /\ op[t].mode = "idle"
  /\ CheckParameters(Offset(r), Length(r))
  /\ writer = None
  /\ readers' = readers \cup {t}
  /\ Begin(t, "read", r, Unwritten)
  /\ out' = [out EXCEPT ![t] = {}]
  /\ UNCHANGED <<diskSize, store, writer>>

\* Mutant of StartWrite: disk_lock_read.
StartWriteShared(t, r, v) ==
  /\ op[t].mode = "idle"
  /\ CheckParameters(Offset(r), Length(r))
  /\ writer = None
  /\ readers' = readers \cup {t}
  /\ Begin(t, "write", r, v)
  /\ out' = [out EXCEPT ![t] = {}]
  /\ UNCHANGED <<diskSize, store, writer>>

\* stego_write_level, to disk_lock_write
StartWrite(t, r, v) ==
  /\ op[t].mode = "idle"
  /\ CheckParameters(Offset(r), Length(r))
  /\ writer = None /\ readers = {}
  /\ writer' = t
  /\ Begin(t, "write", r, v)
  /\ out' = [out EXCEPT ![t] = {}]
  /\ UNCHANGED <<diskSize, store, readers>>

\* What is left to do in the cover file the access is at.
ChunkSize(t) == Lesser(Length(op[t].region) - op[t].processed, LevelSize - op[t].cur)
Chunk(t) == {<<op[t].level, k>> : k \in op[t].cur .. op[t].cur + ChunkSize(t) - 1}

\* The end of the loop body of merged_cover_file_op.
Advance(t, seen) ==
  op' = [op EXCEPT ![t].processed = @ + ChunkSize(t), ![t].cur = 0,
                   ![t].level = @ + 1, ![t].seen = seen]

Unfinished(t) == op[t].processed < Length(op[t].region)

\* read_cover_file_delta
ReadChunk(t) ==
  /\ op[t].mode = "read" /\ Unfinished(t)
  /\ Advance(t, op[t].seen \cup {store[b] : b \in Chunk(t)})
  /\ UNCHANGED <<diskSize, store, readers, writer, out>>

\* write_cover_file_delta: with the delta to what is there, the bytes become
\* those of the buffer.
WriteChunk(t) ==
  /\ op[t].mode = "write" /\ Unfinished(t)
  /\ store' = [b \in CoverBytes |->
                 IF b \in Chunk(t) THEN Tag(op[t].region, op[t].value) ELSE store[b]]
  /\ Advance(t, {})
  /\ UNCHANGED <<diskSize, readers, writer, out>>

\* disk_unlock_read or disk_unlock_write, and return.
Return(t) ==
  /\ op[t].mode # "idle" /\ ~Unfinished(t)
  /\ readers' = readers \ {t}
  /\ writer' = IF writer = t THEN None ELSE writer
  /\ out' = [out EXCEPT ![t] = op[t].seen]
  /\ op' = [op EXCEPT ![t] = Idle]
  /\ UNCHANGED <<diskSize, store>>

Next == \E t \in Threads :
  \/ \E r \in Regions : \/ Refuse(t, r) \/ StartRead(t, r)
                        \/ \E v \in Values : StartWrite(t, r, v)
  \/ ReadChunk(t) \/ WriteChunk(t) \/ Return(t)

Spec == Init /\ [][Next]_vars

----------------------------------------------------------------------------
\* The BFT, the bitmap and the clusters that fs_count_clusters promises fit in
\* the level, and the bitmap has a bit for each (test_cluster.c:17-36).
LayoutFits ==
  ClusterCount > 0 =>
    /\ BftSize + BitmapSize(ClusterCount) + ClusterCount * ClusterSize <= UserLevelSize
    /\ ClusterCount <= CharBit * BitmapSize(ClusterCount)

\* merged_cover_file_op stays inside the keys of the level and, in each cover
\* file, inside that file's bytes.
AccessInside ==
  \A t \in Threads : op[t].mode # "idle" /\ Unfinished(t) =>
    op[t].level < LevelsPerPassword /\ op[t].cur < LevelSize

\* No two regions share a byte: "Write the contents of `buf` to the cluster
\* specified by `cluster`" (SPEC.md:289), and to no other.
RegionsApart ==
  \A r, s \in Regions : r # s =>
    \/ Offset(r) + Length(r) <= Offset(s)
    \/ Offset(s) + Length(s) <= Offset(r)

\* Every cluster that fs_count_clusters counts as one that "would fit into a
\* level" (SPEC.md:271) can be written.
ClustersUsable ==
  \A c \in 0 .. ClusterCount - 1 : CheckParameters(Offset(Cluster(c)), ClusterSize)

\* An access takes effect when its last byte is written; each region is then an
\* atomic register, whatever cover files it is spread over.
Stored == {r \in Regions : Length(r) > 0 /\ CheckParameters(Offset(r), Length(r))}
Held(r) == store[Place(Offset(r) + Length(r) - 1)]
Abs == INSTANCE RegionSpec WITH val <- [r \in Stored |-> Held(r)]
ImplementsRegions == Abs!Spec
=============================================================================
