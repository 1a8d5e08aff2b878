------------------------- MODULE ClusterStore_proofs -------------------------
(***************************************************************************)
(* Proofs about the layout of a level and the accesses to it, for disks of *)
(* any size, any sizes of the BFT and of a cluster (in whole blocks), any  *)
(* number of cover files, and any number of threads.                       *)
(***************************************************************************)
EXTENDS ClusterStore, TLAPS

----------------------------------------------------------------------------
(* Arithmetic *)

LEMMA DivMod ==
  ASSUME NEW a \in Nat, NEW b \in Nat \ {0}
  PROVE  /\ a \div b \in Nat /\ a % b \in 0 .. b - 1
         /\ a = (a \div b) * b + (a % b)
OBVIOUS

LEMMA DivLower ==
  ASSUME NEW a \in Nat, NEW b \in Nat \ {0}
  PROVE  (a \div b) * b <= a
BY DivMod

LEMMA Monotone ==
  ASSUME NEW a \in Nat, NEW b \in Nat, NEW c \in Nat, a <= b
  PROVE  a * c <= b * c
OBVIOUS

LEMMA ProductType ==
  ASSUME NEW a \in Nat, NEW b \in Nat
  PROVE  a * b \in Nat
OBVIOUS

----------------------------------------------------------------------------
(* Layout *)

\* The bitmap has a bit for every cluster and less than a block too many.
LEMMA BitmapFits ==
  ASSUME NEW n \in Nat
  PROVE  /\ BitmapSize(n) \in Nat
         /\ n <= CharBit * BitmapSize(n)
         /\ CharBit * BitmapSize(n) <= n + BitsPerBlock - 1
BY DEF BitmapSize, CharBit, Block, BitsPerBlock

LEMMA CountFits ==
  ASSUME NEW size \in Nat, NEW n \in Nat \ {0}, n = CountClusters(size)
  PROVE  /\ size > BftSize
         /\ n * (CharBit * ClusterSize + 1) <= CharBit * (size - BftSize) - BitsPerBlock + 1
<1>1. /\ size > BftSize
      /\ CharBit * (size - BftSize) - BitsPerBlock + 1 \in Nat
      /\ n = (CharBit * (size - BftSize) - BitsPerBlock + 1) \div (CharBit * ClusterSize + 1)
  BY StoreAssumption DEF CountClusters, CharBit, BitsPerBlock, Block
<1>2. CharBit * ClusterSize + 1 \in Nat \ {0}
  BY StoreAssumption DEF CharBit
<1> QED
  BY <1>1, <1>2, DivLower

LEMMA LayoutOfSize ==
  ASSUME NEW size \in Nat, NEW n \in Nat \ {0}, n = CountClusters(size)
  PROVE  BftSize + BitmapSize(n) + n * ClusterSize <= size
<1>1. PICK d : d = n * ClusterSize
  OBVIOUS
<1>2. d \in Nat
  BY <1>1, StoreAssumption
<1>3. n * (CharBit * ClusterSize + 1) = CharBit * d + n
  BY <1>1, StoreAssumption DEF CharBit
<1>4. CharBit * d + n <= CharBit * (size - BftSize) - BitsPerBlock + 1
  BY <1>3, CountFits
<1>5. BitmapSize(n) \in Nat /\ CharBit * BitmapSize(n) <= n + BitsPerBlock - 1
  BY BitmapFits
<1> QED
  BY <1>1, <1>2, <1>4, <1>5, StoreAssumption DEF CharBit, BitsPerBlock, Block

LEMMA CountType ==
  ASSUME NEW size \in Nat
  PROVE  CountClusters(size) \in Nat
<1>1. CharBit * ClusterSize + 1 \in Nat \ {0}
  BY StoreAssumption DEF CharBit
<1>2. CASE size <= BftSize \/ CharBit * (size - BftSize) < BitsPerBlock - 1
  BY <1>2 DEF CountClusters
<1>3. CASE ~(size <= BftSize \/ CharBit * (size - BftSize) < BitsPerBlock - 1)
  <2>1. CharBit * (size - BftSize) - BitsPerBlock + 1 \in Nat
    BY <1>3, StoreAssumption DEF CharBit, BitsPerBlock, Block
  <2> QED
    BY <1>1, <1>3, <2>1, DivMod DEF CountClusters
<1> QED
  BY <1>2, <1>3

\* The sizes of a disk and of its levels.
DiskOK == diskSize \in Nat

LEMMA Sizes ==
  ASSUME DiskOK
  PROVE  /\ LevelSize \in Nat /\ UserLevelSize \in Nat /\ ClusterCount \in Nat
         /\ UserLevelSize = LevelsPerPassword * LevelSize
<1>1. LevelSize \in Nat
  <2>1. CASE diskSize < KeytabSize
    BY <2>1 DEF LevelSize
  <2>2. CASE ~(diskSize < KeytabSize)
    <3>1. diskSize - KeytabSize \in Nat
      BY <2>2, StoreAssumption DEF DiskOK
    <3> QED
      BY <2>2, <3>1, DivMod, StoreAssumption DEF LevelSize
  <2> QED
    BY <2>1, <2>2
<1>2. UserLevelSize \in Nat
  BY <1>1, StoreAssumption, ProductType DEF UserLevelSize
<1> QED
  BY <1>1, <1>2, CountType DEF ClusterCount, UserLevelSize

THEOREM DiskIsKnown == Spec => []DiskOK
<1>1. Init => DiskOK
  BY StoreAssumption DEF Init, DiskOK
<1>2. DiskOK /\ [Next]_vars => DiskOK'
  BY DEF DiskOK, Next, vars, Refuse, StartRead, StartWrite, ReadChunk, WriteChunk, Return
<1> QED
  BY <1>1, <1>2, PTL DEF Spec

\* On a disk of any size the clusters fs_count_clusters counts fit behind the BFT
\* and a bitmap with a bit for each of them.
THEOREM LayoutAlwaysFits == Spec => []LayoutFits
<1>1. DiskOK => LayoutFits
  BY Sizes, LayoutOfSize, BitmapFits DEF LayoutFits, ClusterCount
<1> QED
  BY DiskIsKnown, <1>1, PTL

----------------------------------------------------------------------------
(* Regions *)

LEMMA ClustersApart ==
  ASSUME NEW c \in Nat, NEW d \in Nat, c < d
  PROVE  ClusterSize * c + ClusterSize <= ClusterSize * d
<1>1. (c + 1) * ClusterSize <= d * ClusterSize
  BY Monotone, StoreAssumption
<1> QED
  BY <1>1, StoreAssumption

LEMMA NoWrap ==
  ASSUME DiskOK, ClusterCount * ClusterSize <= Word, NEW c \in 0 .. ClusterCount - 1
  PROVE  /\ (ClusterSize * c) % Word = ClusterSize * c
         /\ ClusterSize * c \in Nat
<1>1. ClusterSize * c \in Nat /\ ClusterSize * c + ClusterSize <= ClusterCount * ClusterSize
  <2>1. ClusterCount \in Nat /\ c \in Nat /\ c < ClusterCount
    BY Sizes
  <2>2. ClusterSize * c + ClusterSize <= ClusterSize * ClusterCount
    BY <2>1, ClustersApart
  <2> QED
    BY <2>1, <2>2, StoreAssumption, ProductType
<1>2. PICK p \in Nat : p = ClusterSize * c
  BY <1>1
<1>3. p < Word
  BY <1>1, <1>2, Sizes, StoreAssumption, ProductType
<1>4. p % Word = p
  BY <1>3, StoreAssumption
<1> QED
  BY <1>2, <1>4

\* Where a region that is neither the BFT nor the bitmap is.
LEMMA ClusterPlace ==
  ASSUME NEW c
  PROVE  /\ Cluster(c) # Bft /\ Cluster(c) # Bitmap /\ Bft # Bitmap
         /\ Offset(Cluster(c)) = BftSize + BitmapSize(ClusterCount) + ((ClusterSize * c) % Word)
         /\ Length(Cluster(c)) = ClusterSize
         /\ Offset(Bft) = 0 /\ Length(Bft) = BftSize
         /\ Offset(Bitmap) = BftSize /\ Length(Bitmap) = BitmapSize(ClusterCount)
BY DEF Cluster, Bft, Bitmap, Offset, Length

\* While the clusters take no more than 2^32 bytes, no two regions of a level
\* share a byte, and accesses to different regions never meet.
THEOREM RegionsNeverMeet ==
  Spec => [](ClusterCount * ClusterSize <= Word => RegionsApart)
<1>1. ASSUME DiskOK, ClusterCount * ClusterSize <= Word PROVE RegionsApart
  <2>1. ClusterCount \in Nat /\ BitmapSize(ClusterCount) \in Nat
    BY <1>1, Sizes, BitmapFits
  <2>2. PICK start \in Nat : start = BftSize + BitmapSize(ClusterCount)
    BY <2>1, StoreAssumption
  <2>3. \A c \in 0 .. ClusterCount - 1 :
          /\ Offset(Cluster(c)) = start + ClusterSize * c
          /\ Length(Cluster(c)) = ClusterSize
          /\ ClusterSize * c \in Nat
    BY <1>1, <2>1, <2>2, NoWrap, ClusterPlace
  <2>4. /\ Offset(Bft) = 0 /\ Length(Bft) = BftSize
        /\ Offset(Bitmap) = BftSize /\ Offset(Bitmap) + Length(Bitmap) = start
    BY <2>2, ClusterPlace
  <2> SUFFICES ASSUME NEW r \in Regions, NEW s \in Regions, r # s
               PROVE  \/ Offset(r) + Length(r) <= Offset(s)
                      \/ Offset(s) + Length(s) <= Offset(r)
    BY DEF RegionsApart
  <2>5. ASSUME NEW c \in 0 .. ClusterCount - 1, NEW d \in 0 .. ClusterCount - 1, c < d
        PROVE  Offset(Cluster(c)) + Length(Cluster(c)) <= Offset(Cluster(d))
    <3>1. c \in Nat /\ d \in Nat
      BY <2>1
    <3>2. ClusterSize * c + ClusterSize <= ClusterSize * d
      BY <2>5, <3>1, ClustersApart
    <3> QED
      BY <2>3, <3>2, StoreAssumption
  <2>6. ASSUME NEW c \in 0 .. ClusterCount - 1
        PROVE  /\ Offset(Bft) + Length(Bft) <= Offset(Cluster(c))
               /\ Offset(Bitmap) + Length(Bitmap) <= Offset(Cluster(c))
    BY <2>1, <2>2, <2>3, <2>4, StoreAssumption
  <2>7. Offset(Bft) + Length(Bft) <= Offset(Bitmap)
    BY <2>4, StoreAssumption
  <2>8. ASSUME NEW c \in 0 .. ClusterCount - 1, NEW d \in 0 .. ClusterCount - 1, c # d
        PROVE  \/ Offset(Cluster(c)) + Length(Cluster(c)) <= Offset(Cluster(d))
               \/ Offset(Cluster(d)) + Length(Cluster(d)) <= Offset(Cluster(c))
    <3>1. c < d \/ d < c
      BY <2>8, <2>1
    <3> QED
      BY <3>1, <2>5
  <2> QED
    BY <2>6, <2>7, <2>8 DEF Regions
<1> QED
  BY DiskIsKnown, <1>1, PTL

----------------------------------------------------------------------------
(* Accesses *)

\* The loop invariant of merged_cover_file_op: the next byte of the access is
\* at offset cur of cover file `level`.
AtNextByte(o) ==
  /\ o.mode = "write" => o.value \in Values
  /\ CheckParameters(Offset(o.region), Length(o.region))
  /\ o.processed < Length(o.region) =>
       /\ o.cur < LevelSize
       /\ o.level * LevelSize + o.cur = Offset(o.region) + o.processed

Looping == \A t \in Threads : op[t].mode # "idle" => AtNextByte(op[t])

IInv == DiskOK /\ TypeOK /\ Looping

LEMMA RegionType ==
  ASSUME DiskOK, NEW r \in Regions
  PROVE  Offset(r) \in Nat /\ Length(r) \in Nat
<1>1. ClusterCount \in Nat /\ BitmapSize(ClusterCount) \in Nat
  BY Sizes, BitmapFits
<1>2. ASSUME NEW c \in 0 .. ClusterCount - 1
      PROVE  (ClusterSize * c) % Word \in Nat
  <2>1. ClusterSize * c \in Nat
    BY <1>1, ProductType, StoreAssumption
  <2> QED
    BY <2>1, DivMod, StoreAssumption
<1> QED
  BY <1>1, <1>2, ClusterPlace, StoreAssumption DEF Regions

LEMMA OpFields ==
  ASSUME NEW o \in Ops
  PROVE  /\ o.mode \in {"idle", "read", "write"} /\ o.region \in Regions
         /\ o.value \in Values \cup {Unwritten} /\ o.seen \subseteq Tags
         /\ o.level \in Nat /\ o.cur \in Nat /\ o.processed \in Nat
BY DEF Ops

\* An access that has bytes left is at a byte of a cover file of the level.
LEMMA NextByteInside ==
  ASSUME DiskOK, NEW o \in Ops, AtNextByte(o), o.processed < Length(o.region)
  PROVE  o.level < LevelsPerPassword /\ o.cur < LevelSize
<1>1. PICK off, len, ls : off = Offset(o.region) /\ len = Length(o.region) /\ ls = LevelSize
  OBVIOUS
<1>2. off \in Nat /\ len \in Nat /\ ls \in Nat /\ o.level \in Nat /\ o.cur \in Nat /\ o.processed \in Nat
  BY <1>1, OpFields, RegionType, Sizes
<1>3. /\ off + len < LevelsPerPassword * ls
      /\ o.cur < ls /\ o.level * ls + o.cur = off + o.processed /\ o.processed < len
  BY <1>1, <1>2, Sizes, StoreAssumption, ProductType DEF AtNextByte, CheckParameters
<1>4. ~(LevelsPerPassword <= o.level)
  <2> SUFFICES ASSUME LevelsPerPassword <= o.level PROVE FALSE
    OBVIOUS
  <2>1. LevelsPerPassword * ls <= o.level * ls
    BY <1>2, Monotone, StoreAssumption
  <2>2. o.level * ls \in Nat /\ LevelsPerPassword * ls \in Nat
    BY <1>2, ProductType, StoreAssumption
  <2> QED
    BY <1>2, <1>3, <2>1, <2>2
<1> QED
  BY <1>1, <1>2, <1>3, <1>4, StoreAssumption

\* The chunk of an access is some of the level's bytes.
LEMMA ChunkInside ==
  ASSUME IInv, NEW t \in Threads, op[t].mode # "idle", Unfinished(t)
  PROVE  /\ Chunk(t) \subseteq CoverBytes
         /\ ChunkSize(t) \in Nat
         /\ \/ ChunkSize(t) = Length(op[t].region) - op[t].processed
            \/ ChunkSize(t) = LevelSize - op[t].cur
<1>1. PICK o \in Ops : o = op[t]
  BY DEF IInv, TypeOK
<1>2. AtNextByte(o) /\ o.processed < Length(o.region)
  BY <1>1 DEF IInv, Looping, Unfinished
<1>3. o.level < LevelsPerPassword /\ o.cur < LevelSize
  BY <1>2, NextByteInside DEF IInv
<1>4. /\ LevelSize \in Nat /\ Length(o.region) \in Nat
      /\ o.level \in Nat /\ o.cur \in Nat /\ o.processed \in Nat
  BY OpFields, RegionType, Sizes DEF IInv
<1>5. PICK chunk : chunk = ChunkSize(t)
  OBVIOUS
<1>6. /\ chunk \in Nat /\ chunk <= LevelSize - o.cur
      /\ \/ chunk = Length(o.region) - o.processed
         \/ chunk = LevelSize - o.cur
  BY <1>1, <1>2, <1>3, <1>4, <1>5 DEF ChunkSize, Lesser
<1>7. Chunk(t) = {<<o.level, k>> : k \in o.cur .. o.cur + chunk - 1}
  BY <1>1, <1>5 DEF Chunk
<1>8. Chunk(t) \subseteq CoverBytes
  BY <1>3, <1>4, <1>6, <1>7, StoreAssumption DEF CoverBytes
<1> QED
  BY <1>1, <1>5, <1>6, <1>8

\* All that depends on the size of the disk stays as it is.
LEMMA LayoutStays ==
  ASSUME diskSize' = diskSize
  PROVE  /\ DiskOK' <=> DiskOK
         /\ Regions' = Regions /\ Tags' = Tags /\ Ops' = Ops /\ CoverBytes' = CoverBytes
         /\ \A o : AtNextByte(o)' <=> AtNextByte(o)
BY DEF DiskOK, Regions, Tags, Ops, CoverBytes, AtNextByte, CheckParameters, ClusterCount,
       UserLevelSize, LevelSize, Offset, Length

LEMMA IdleType == Idle \in Ops /\ Idle.mode = "idle" /\ Unwritten \in Tags
BY DEF Idle, Ops, Regions, Tags

\* Thread t's access becomes q.
LEMMA OpPreserves ==
  ASSUME IInv, NEW t \in Threads, NEW q \in Ops, op' = [op EXCEPT ![t] = q],
         q.mode # "idle" => AtNextByte(q), diskSize' = diskSize,
         store' \in [CoverBytes -> Tags],
         readers' \subseteq Threads, writer' \in Threads \cup {None},
         out' \in [Threads -> SUBSET Tags]
  PROVE  IInv'
<1>1. DiskOK'
  BY LayoutStays DEF IInv
<1>2. TypeOK'
  BY LayoutStays DEF IInv, TypeOK
<1>3. Looping'
  BY LayoutStays DEF IInv, TypeOK, Looping
<1> QED
  BY <1>1, <1>2, <1>3 DEF IInv

LEMMA BeginStep ==
  ASSUME IInv, NEW t \in Threads, NEW r \in Regions, NEW mode \in {"read", "write"},
         NEW v \in Values \cup {Unwritten}, mode = "write" => v \in Values,
         CheckParameters(Offset(r), Length(r)), Begin(t, mode, r, v),
         UNCHANGED <<diskSize, store>>, out' = [out EXCEPT ![t] = {}],
         readers' \subseteq Threads, writer' \in Threads \cup {None}
  PROVE  IInv'
<1>1. PICK q : q = [mode |-> mode, region |-> r, value |-> v,
                    level |-> Offset(r) \div LevelSize, cur |-> Offset(r) % LevelSize,
                    processed |-> 0, seen |-> {}]
  OBVIOUS
<1>2. op' = [op EXCEPT ![t] = q]
  BY <1>1 DEF Begin
<1>3. LevelSize \in Nat \ {0}
  BY Sizes, RegionType, StoreAssumption DEF CheckParameters, IInv
<1>4. /\ Offset(r) \in Nat /\ Length(r) \in Nat
      /\ Offset(r) \div LevelSize \in Nat /\ Offset(r) % LevelSize \in 0 .. LevelSize - 1
      /\ Offset(r) = (Offset(r) \div LevelSize) * LevelSize + (Offset(r) % LevelSize)
  BY <1>3, RegionType, DivMod DEF IInv
<1>5. /\ q \in Ops /\ q.region = r /\ q.processed = 0 /\ q.mode = mode /\ q.value = v
      /\ q.level = Offset(r) \div LevelSize /\ q.cur = Offset(r) % LevelSize
  BY <1>1, <1>4 DEF Ops
<1>6. AtNextByte(q)
  <2>1. PICK a \in Nat, b \in 0 .. LevelSize - 1 :
          /\ a = Offset(r) \div LevelSize /\ b = Offset(r) % LevelSize
          /\ Offset(r) = a * LevelSize + b
    BY <1>4
  <2>2. q.level = a /\ q.cur = b
    BY <1>5, <2>1
  <2>3. q.cur < LevelSize
    <3>1. b < LevelSize
      BY <1>3
    <3> QED
      BY <2>2, <3>1, Zenon
  <2>4. q.level * LevelSize + q.cur = Offset(r)
    BY <2>1, <2>2
  <2>5. Offset(r) + 0 = Offset(r)
    BY <1>4
  <2>6. q.level * LevelSize + q.cur = Offset(q.region) + q.processed
    BY <1>5, <2>4, <2>5, Zenon
  <2>7. CheckParameters(Offset(q.region), Length(q.region))
    BY <1>5
  <2> QED
    BY <1>5, <2>3, <2>6, <2>7, Zenon DEF AtNextByte
<1>7. out' \in [Threads -> SUBSET Tags]
  BY DEF IInv, TypeOK
<1> QED
  BY <1>2, <1>5, <1>6, <1>7, OpPreserves DEF IInv, TypeOK

LEMMA AdvanceStep ==
  ASSUME IInv, NEW t \in Threads, NEW seen \in SUBSET Tags,
         op[t].mode # "idle", Unfinished(t), Advance(t, seen),
         store' \in [CoverBytes -> Tags], UNCHANGED <<diskSize, readers, writer, out>>
  PROVE  IInv'
<1>1. PICK o \in Ops : o = op[t]
  BY DEF IInv, TypeOK
<1>2. AtNextByte(o) /\ o.processed < Length(o.region)
  BY <1>1 DEF IInv, Looping, Unfinished
<1>3. PICK chunk \in Nat : chunk = ChunkSize(t)
  BY ChunkInside
<1>4. PICK q : q = [o EXCEPT !.processed = o.processed + chunk, !.cur = 0,
                             !.level = o.level + 1, !.seen = seen]
  OBVIOUS
<1>5. op' = [op EXCEPT ![t] = q]
  BY <1>1, <1>3, <1>4 DEF Advance, IInv, TypeOK
<1>6. /\ LevelSize \in Nat /\ Length(o.region) \in Nat /\ Offset(o.region) \in Nat
      /\ o.level \in Nat /\ o.cur \in Nat /\ o.processed \in Nat
  BY OpFields, RegionType, Sizes DEF IInv
<1>7. /\ q \in Ops /\ q.region = o.region /\ q.cur = 0
      /\ q.processed = o.processed + chunk /\ q.level = o.level + 1
      /\ q.mode = o.mode /\ q.value = o.value
  <2>1. o.processed + chunk \in Nat /\ o.level + 1 \in Nat /\ 0 \in Nat
    BY <1>6
  <2>2. PICK a, b : a = o.processed + chunk /\ b = o.level + 1
    OBVIOUS
  <2>3. q = [o EXCEPT !.processed = a, !.cur = 0, !.level = b, !.seen = seen]
    BY <1>4, <2>2
  <2>4. a \in Nat /\ b \in Nat /\ 0 \in Nat
    BY <2>1, <2>2
  <2>5. /\ q \in Ops /\ q.region = o.region /\ q.cur = 0 /\ q.processed = a /\ q.level = b
        /\ q.mode = o.mode /\ q.value = o.value
    BY <2>3, <2>4, Zenon DEF Ops
  <2> QED
    BY <2>2, <2>5
<1>8. AtNextByte(q)
  <2>1. CASE chunk = Length(o.region) - o.processed
    BY <2>1, <1>2, <1>6, <1>7 DEF AtNextByte
  <2>2. CASE chunk = LevelSize - o.cur
    <3>1. PICK p \in Nat : p = o.level * LevelSize
      BY <1>6, ProductType
    <3>2. q.level * LevelSize = p + LevelSize
      BY <1>6, <1>7, <3>1
    <3>3. p + o.cur = Offset(o.region) + o.processed /\ o.cur < LevelSize
      BY <1>2, <3>1 DEF AtNextByte
    <3>4. q.level * LevelSize + q.cur = Offset(q.region) + q.processed /\ q.cur < LevelSize
      BY <2>2, <1>6, <1>7, <3>2, <3>3
    <3> QED
      BY <1>2, <1>7, <3>4 DEF AtNextByte
  <2> QED
    BY <2>1, <2>2, <1>1, <1>3, ChunkInside
<1> QED
  BY <1>5, <1>7, <1>8, OpPreserves DEF IInv, TypeOK

LEMMA ReadChunkStep ==
  ASSUME IInv, NEW t \in Threads, ReadChunk(t)
  PROVE  IInv'
<1>1. op[t].seen \cup {store[b] : b \in Chunk(t)} \in SUBSET Tags
  <2>1. op[t].seen \subseteq Tags
    BY OpFields DEF IInv, TypeOK
  <2>2. Chunk(t) \subseteq CoverBytes
    BY ChunkInside DEF ReadChunk
  <2> QED
    BY <2>1, <2>2 DEF IInv, TypeOK
<1> QED
  BY <1>1, AdvanceStep DEF ReadChunk, IInv, TypeOK

LEMMA WriteChunkStep ==
  ASSUME IInv, NEW t \in Threads, WriteChunk(t)
  PROVE  IInv'
<1>1. Tag(op[t].region, op[t].value) \in Tags
  <2>1. op[t].region \in Regions /\ op[t].value \in Values
    BY OpFields DEF IInv, TypeOK, Looping, AtNextByte, WriteChunk
  <2> QED
    BY <2>1 DEF Tags, Tag
<1>2. store' \in [CoverBytes -> Tags]
  BY <1>1 DEF WriteChunk, IInv, TypeOK
<1>3. {} \in SUBSET Tags
  OBVIOUS
<1> QED
  BY <1>2, <1>3, AdvanceStep DEF WriteChunk

LEMMA ReturnStep ==
  ASSUME IInv, NEW t \in Threads, Return(t)
  PROVE  IInv'
<1>1. op' = [op EXCEPT ![t] = Idle] /\ diskSize' = diskSize /\ store' = store
  BY DEF Return
<1>2. op[t].seen \subseteq Tags
  BY OpFields DEF IInv, TypeOK
<1>3. /\ readers' \subseteq Threads /\ writer' \in Threads \cup {None}
      /\ out' \in [Threads -> SUBSET Tags]
  BY <1>2 DEF Return, IInv, TypeOK
<1> QED
  BY <1>1, <1>3, IdleType, OpPreserves DEF IInv, TypeOK

LEMMA RefuseStep ==
  ASSUME IInv, NEW t \in Threads, NEW r \in Regions, Refuse(t, r)
  PROVE  IInv'
<1>1. UNCHANGED <<diskSize, store, readers, writer, op>> /\ out' = [out EXCEPT ![t] = {}]
  BY DEF Refuse
<1> QED
  BY <1>1, LayoutStays DEF IInv, TypeOK, Looping

THEOREM Inductive == Spec => []IInv
<1>1. Init => IInv
  <2> SUFFICES ASSUME Init PROVE IInv
    OBVIOUS
  <2>1. DiskOK /\ TypeOK
    BY StoreAssumption, IdleType DEF Init, DiskOK, TypeOK
  <2>2. Looping
    BY IdleType DEF Init, Looping
  <2> QED
    BY <2>1, <2>2 DEF IInv
<1>2. IInv /\ [Next]_vars => IInv'
  <2> SUFFICES ASSUME IInv, [Next]_vars PROVE IInv'
    OBVIOUS
  <2>1. ASSUME NEW t \in Threads, NEW r \in Regions, StartRead(t, r)
        PROVE  IInv'
    <3>1. readers' \subseteq Threads /\ writer' \in Threads \cup {None}
      BY <2>1 DEF StartRead, IInv, TypeOK
    <3> QED
      BY <2>1, <3>1, BeginStep DEF StartRead
  <2>2. ASSUME NEW t \in Threads, NEW r \in Regions, NEW v \in Values, StartWrite(t, r, v)
        PROVE  IInv'
    <3>1. readers' \subseteq Threads /\ writer' \in Threads \cup {None}
      BY <2>2 DEF StartWrite, IInv, TypeOK
    <3> QED
      BY <2>2, <3>1, BeginStep DEF StartWrite
  <2>3. CASE UNCHANGED vars
    BY <2>3, LayoutStays DEF IInv, TypeOK, Looping, vars
  <2> QED
    BY <2>1, <2>2, <2>3, RefuseStep, ReadChunkStep, WriteChunkStep, ReturnStep DEF Next
<1> QED
  BY <1>1, <1>2, PTL DEF Spec

\* What is stored and what is read are always whole writes of regions of the level.
THEOREM TypeCorrect == Spec => []TypeOK
<1>1. IInv => TypeOK
  BY DEF IInv
<1> QED
  BY Inductive, <1>1, PTL

\* merged_cover_file_op never uses a key past the last of the level, nor a byte of
\* the next cover file, wherever a region starts and however many files it spans.
THEOREM AccessStaysInside == Spec => []AccessInside
<1>1. IInv => AccessInside
  <2> SUFFICES ASSUME IInv, NEW t \in Threads, op[t].mode # "idle", Unfinished(t)
               PROVE  op[t].level < LevelsPerPassword /\ op[t].cur < LevelSize
    BY DEF AccessInside
  <2>1. op[t] \in Ops /\ AtNextByte(op[t]) /\ op[t].processed < Length(op[t].region)
    BY DEF IInv, TypeOK, Looping, Unfinished
  <2> QED
    BY <2>1, NextByteInside DEF IInv
<1> QED
  BY Inductive, <1>1, PTL

----------------------------------------------------------------------------
(***************************************************************************)
(* The loop over the cover files, under the lock of the disk, implements   *)
(* the registers of RegionSpec: for any layout, any number of cover files  *)
(* an access is spread over, and any number of threads.                    *)
(***************************************************************************)

(***************************************************************************)
(* Bytes of the level: their places in the cover files.                    *)
(***************************************************************************)
At(k) == store[Place(k)]
Last(r) == Offset(r) + Length(r) - 1
Bytes(r) == Offset(r) .. Last(r)
FirstLeft(t) == Offset(op[t].region) + op[t].processed

LEMMA DivBound ==
  ASSUME NEW a \in Nat, NEW b \in Nat \ {0}, NEW c \in Nat, a < c * b
  PROVE  a \div b < c
<1>1. PICK q \in Nat, m \in 0 .. b - 1 : q = a \div b /\ m = a % b /\ a = q * b + m
  BY DivMod
<1>2. ~(c <= q)
  <2> SUFFICES ASSUME c <= q PROVE FALSE
    OBVIOUS
  <2>1. c * b <= q * b
    BY Monotone
  <2>2. c * b \in Nat /\ q * b \in Nat
    BY ProductType
  <2> QED BY <1>1, <2>1, <2>2
<1> QED BY <1>1, <1>2

\* A number has only one quotient and one remainder.
LEMMA DivUnique ==
  ASSUME NEW q \in Nat, NEW b \in Nat \ {0}, NEW m \in 0 .. b - 1
  PROVE  (q * b + m) \div b = q /\ (q * b + m) % b = m
<1>1. PICK a \in Nat : a = q * b + m
  BY ProductType
<1>2. PICK p \in Nat, n \in 0 .. b - 1 : p = a \div b /\ n = a % b /\ a = p * b + n
  BY DivMod
<1>3. ~(p < q)
  <2> SUFFICES ASSUME p < q PROVE FALSE
    OBVIOUS
  <2>1. (p + 1) * b <= q * b /\ (p + 1) * b = p * b + b
    BY Monotone
  <2>2. p * b \in Nat /\ q * b \in Nat
    BY ProductType
  <2> QED BY <1>1, <1>2, <2>1, <2>2
<1>4. ~(q < p)
  <2> SUFFICES ASSUME q < p PROVE FALSE
    OBVIOUS
  <2>1. (q + 1) * b <= p * b /\ (q + 1) * b = q * b + b
    BY Monotone
  <2>2. p * b \in Nat /\ q * b \in Nat
    BY ProductType
  <2> QED BY <1>1, <1>2, <2>1, <2>2
<1>5. p = q
  BY <1>3, <1>4
<1>6. n = m
  <2>1. q * b \in Nat
    BY ProductType
  <2> QED BY <1>1, <1>2, <1>5, <2>1
<1> QED BY <1>1, <1>2, <1>5, <1>6

LEMMA PlaceInside ==
  ASSUME DiskOK, NEW k \in 0 .. UserLevelSize - 1
  PROVE  /\ LevelSize \in Nat \ {0}
         /\ Place(k) \in CoverBytes
         /\ k = (k \div LevelSize) * LevelSize + (k % LevelSize)
<1>1. /\ LevelSize \in Nat /\ UserLevelSize \in Nat /\ k \in Nat
      /\ k < LevelsPerPassword * LevelSize
  BY Sizes
<1>2. LevelSize # 0
  <2> SUFFICES ASSUME LevelSize = 0 PROVE FALSE
    OBVIOUS
  <2>1. LevelsPerPassword * 0 = 0
    BY StoreAssumption
  <2> QED BY <1>1, <2>1
<1>3. /\ k \div LevelSize \in Nat /\ k % LevelSize \in 0 .. LevelSize - 1
      /\ k = (k \div LevelSize) * LevelSize + (k % LevelSize)
  BY <1>1, <1>2, DivMod
<1>4. k \div LevelSize < LevelsPerPassword
  BY <1>1, <1>2, DivBound, StoreAssumption
<1>5. k \div LevelSize \in 0 .. LevelsPerPassword - 1
  BY <1>3, <1>4, StoreAssumption
<1>6. Place(k) \in CoverBytes
  BY <1>3, <1>5 DEF Place, CoverBytes
<1> QED BY <1>1, <1>2, <1>3, <1>6

\* Where an access that check_parameters lets through ends.
LEMMA InLevel ==
  ASSUME DiskOK, NEW r \in Regions, CheckParameters(Offset(r), Length(r))
  PROVE  /\ Offset(r) \in Nat /\ Length(r) \in Nat
         /\ Bytes(r) \subseteq 0 .. UserLevelSize - 1
         /\ Length(r) > 0 => Last(r) \in Bytes(r)
         /\ Held(r) = At(Last(r))
<1>1. Offset(r) \in Nat /\ Length(r) \in Nat /\ UserLevelSize \in Nat
  BY RegionType, Sizes
<1>2. Offset(r) + Length(r) < UserLevelSize
  BY <1>1 DEF CheckParameters
<1> QED BY <1>1, <1>2 DEF Bytes, Last, Held, At

\* The chunk of an access holds the bytes of the level from the next one on.
LEMMA InChunk ==
  ASSUME IInv, NEW t \in Threads, op[t].mode # "idle", Unfinished(t),
         NEW k \in 0 .. UserLevelSize - 1
  PROVE  Place(k) \in Chunk(t) <=> FirstLeft(t) <= k /\ k < FirstLeft(t) + ChunkSize(t)
<1>1. PICK o \in Ops : o = op[t]
  BY DEF IInv, TypeOK
<1>2. AtNextByte(o) /\ o.processed < Length(o.region) /\ DiskOK
  BY <1>1 DEF IInv, Looping, Unfinished
<1>3. PICK n \in Nat : n = ChunkSize(t)
  BY ChunkInside
<1>4. PICK ls \in Nat \ {0} : ls = LevelSize
  BY <1>2, PlaceInside
<1>5. /\ Offset(o.region) \in Nat /\ Length(o.region) \in Nat
      /\ o.level \in Nat /\ o.cur \in Nat /\ o.processed \in Nat
  BY <1>2, OpFields, RegionType
<1>6. PICK first \in Nat : first = Offset(o.region) + o.processed
  BY <1>5
<1>7. /\ first = FirstLeft(t)
      /\ o.cur < ls /\ o.level * ls + o.cur = first
      /\ n <= ls - o.cur
  <2>1. n <= LevelSize - o.cur
    BY <1>1, <1>2, <1>3, <1>4, <1>5 DEF ChunkSize, Lesser, AtNextByte
  <2> QED BY <1>1, <1>2, <1>4, <1>6, <2>1 DEF FirstLeft, AtNextByte
<1>8. Chunk(t) = {<<o.level, c>> : c \in o.cur .. o.cur + n - 1}
  BY <1>1, <1>3 DEF Chunk
<1>9. Place(k) = <<k \div ls, k % ls>> /\ k \in Nat
  BY <1>4 DEF Place
<1>10. PICK q \in Nat, m \in 0 .. ls - 1 : q = k \div ls /\ m = k % ls /\ k = q * ls + m
  BY <1>9, DivMod
<1>11. Place(k) \in Chunk(t) <=> q = o.level /\ o.cur <= m /\ m < o.cur + n
  <2>1. Place(k) = <<q, m>>
    BY <1>9, <1>10
  <2>2. <<q, m>> \in {<<o.level, c>> : c \in o.cur .. o.cur + n - 1}
          <=> q = o.level /\ m \in o.cur .. o.cur + n - 1
    OBVIOUS
  <2>3. m \in o.cur .. o.cur + n - 1 <=> o.cur <= m /\ m < o.cur + n
    BY <1>5, <1>10
  <2> QED BY <1>8, <2>1, <2>2, <2>3, Zenon
<1>12. PICK p \in Nat : p = o.level * ls
  BY <1>5, ProductType
<1>13. ASSUME q = o.level PROVE k = p + m
  BY <1>10, <1>12, <1>13
<1>14. ASSUME first <= k, k < first + n PROVE q = o.level /\ m = k - p
  <2>1. k - p \in 0 .. ls - 1 /\ k = o.level * ls + (k - p)
    BY <1>5, <1>7, <1>9, <1>12, <1>14
  <2>2. k \div ls = o.level /\ k % ls = k - p
    <3>1. PICK c \in 0 .. ls - 1 : c = k - p
      BY <2>1
    <3>2. (o.level * ls + c) \div ls = o.level /\ (o.level * ls + c) % ls = c
      BY <1>5, DivUnique
    <3> QED BY <2>1, <3>1, <3>2
  <2> QED BY <1>10, <2>2
<1>15. Place(k) \in Chunk(t) <=> first <= k /\ k < first + n
  <2>1. first = p + o.cur
    BY <1>7, <1>12
  <2> QED BY <1>5, <1>9, <1>11, <1>13, <1>14, <2>1
<1> QED BY <1>3, <1>7, <1>15

LEMMA ChunkRange ==
  ASSUME IInv, NEW t \in Threads, op[t].mode # "idle", Unfinished(t)
  PROVE  /\ op[t].region \in Stored /\ op[t].region \in Regions
         /\ Offset(op[t].region) \in Nat /\ Last(op[t].region) \in Nat
         /\ FirstLeft(t) \in Nat /\ ChunkSize(t) \in Nat \ {0}
         /\ Offset(op[t].region) <= FirstLeft(t)
         /\ FirstLeft(t) + ChunkSize(t) <= Last(op[t].region) + 1
<1>1. PICK o \in Ops : o = op[t]
  BY DEF IInv, TypeOK
<1>2. AtNextByte(o) /\ o.processed < Length(o.region) /\ DiskOK
  BY <1>1 DEF IInv, Looping, Unfinished
<1>3. /\ Offset(o.region) \in Nat /\ Length(o.region) \in Nat /\ LevelSize \in Nat
      /\ o.region \in Regions /\ o.cur \in Nat /\ o.processed \in Nat
  BY <1>2, OpFields, RegionType, Sizes
<1>4. /\ ChunkSize(t) \in Nat \ {0}
      /\ ChunkSize(t) <= Length(o.region) - o.processed
  BY <1>1, <1>2, <1>3 DEF ChunkSize, Lesser, AtNextByte
<1>5. o.region \in Stored
  BY <1>2, <1>3 DEF Stored, AtNextByte
<1> QED BY <1>1, <1>2, <1>3, <1>4, <1>5 DEF FirstLeft, Last

LEMMA Fixed ==
  ASSUME diskSize' = diskSize
  PROVE  /\ Stored' = Stored /\ Regions' = Regions /\ CoverBytes' = CoverBytes
         /\ \A r : /\ Offset(r)' = Offset(r) /\ Length(r)' = Length(r)
                   /\ Last(r)' = Last(r) /\ Bytes(r)' = Bytes(r)
BY DEF Stored, CheckParameters, Regions, CoverBytes, ClusterCount, UserLevelSize, LevelSize,
       Offset, Length, Last, Bytes

\* A step that writes nothing changes no byte.
LEMMA SameStore ==
  ASSUME diskSize' = diskSize, store' = store
  PROVE  /\ \A k : At(k)' = At(k)
         /\ \A r : Held(r)' = Held(r)
BY DEF At, Held, Place, LevelSize, Last, Offset, Length, ClusterCount, UserLevelSize

\* The bytes of its chunk, and no others, are what a write puts there.
LEMMA WriteAt ==
  ASSUME IInv, NEW t \in Threads, WriteChunk(t), NEW k \in 0 .. UserLevelSize - 1
  PROVE  At(k)' = IF FirstLeft(t) <= k /\ k < FirstLeft(t) + ChunkSize(t)
                  THEN Tag(op[t].region, op[t].value) ELSE At(k)
<1>1. Place(k) \in CoverBytes
  BY PlaceInside DEF IInv
<1>2. Place(k)' = Place(k)
  BY DEF WriteChunk, Place, LevelSize
<1>3. At(k)' = IF Place(k) \in Chunk(t) THEN Tag(op[t].region, op[t].value) ELSE At(k)
  BY <1>1, <1>2 DEF WriteChunk, At
<1>4. Place(k) \in Chunk(t) <=> FirstLeft(t) <= k /\ k < FirstLeft(t) + ChunkSize(t)
  BY InChunk DEF WriteChunk
<1> QED BY <1>3, <1>4

LEMMA WriteElsewhere ==
  ASSUME IInv, RegionsApart, NEW t \in Threads, WriteChunk(t), NEW s \in Stored,
         s # op[t].region, NEW k \in Bytes(s)
  PROVE  At(k)' = At(k)
<1>1. s \in Regions /\ CheckParameters(Offset(s), Length(s)) /\ DiskOK
  BY DEF Stored, IInv
<1>2. k \in 0 .. UserLevelSize - 1 /\ Offset(s) \in Nat /\ Length(s) \in Nat
  BY <1>1, InLevel
<1>3. PICK r : r = op[t].region
  OBVIOUS
<1>4. /\ r \in Regions /\ Offset(r) \in Nat /\ Length(r) \in Nat
      /\ FirstLeft(t) \in Nat /\ ChunkSize(t) \in Nat
      /\ Offset(r) <= FirstLeft(t) /\ FirstLeft(t) + ChunkSize(t) <= Last(r) + 1
  BY <1>1, <1>3, ChunkRange, RegionType DEF WriteChunk
<1>5. Offset(r) + Length(r) <= Offset(s) \/ Offset(s) + Length(s) <= Offset(r)
  BY <1>1, <1>3, <1>4 DEF RegionsApart
<1>6. k >= Offset(s) /\ k <= Offset(s) + Length(s) - 1
  BY <1>2 DEF Bytes, Last
<1>7. ~(FirstLeft(t) <= k /\ k < FirstLeft(t) + ChunkSize(t))
  BY <1>2, <1>4, <1>5, <1>6 DEF Last
<1> QED BY <1>2, <1>7, WriteAt

----------------------------------------------------------------------------
(***************************************************************************)
(* The invariant: outside a write that has passed over them, the bytes of  *)
(* a region all hold what the last of them holds.                          *)
(***************************************************************************)
Written(t, r, k) ==
  op[t].mode = "write" /\ op[t].region = r /\ k < Offset(r) + op[t].processed

LockInv ==
  /\ writer # None => readers = {}
  /\ \A t \in Threads : /\ op[t].mode = "read" => t \in readers
                        /\ op[t].mode = "write" => writer = t

WholeInv ==
  \A r \in Stored : \A k \in Bytes(r) : At(k) = Held(r) \/ \E t \in Threads : Written(t, r, k)

BegunInv ==
  \A t \in Threads : op[t].mode = "write" =>
    \A k \in Bytes(op[t].region) :
      k < FirstLeft(t) => At(k) = Tag(op[t].region, op[t].value)

SeenInv ==
  \A t \in Threads :
    /\ op[t].processed <= Length(op[t].region)
    /\ op[t].seen = IF op[t].mode = "read" /\ op[t].processed > 0
                    THEN {Held(op[t].region)} ELSE {}

RInv == LockInv /\ WholeInv /\ BegunInv /\ SeenInv

LEMMA NobodyWrites ==
  ASSUME LockInv, writer = None
  PROVE  /\ \A u \in Threads : op[u].mode # "write"
         /\ WholeInv => \A r \in Stored : \A k \in Bytes(r) : At(k) = Held(r)
<1>1. \A u \in Threads : op[u].mode # "write"
  BY StoreAssumption DEF LockInv
<1> QED BY <1>1 DEF WholeInv, Written

LEMMA WriterAlone ==
  ASSUME LockInv, NEW t \in Threads, op[t].mode = "write"
  PROVE  \A u \in Threads : op[u].mode # "read" /\ (op[u].mode = "write" => u = t)
<1>1. writer = t /\ writer # None
  BY StoreAssumption DEF LockInv
<1> QED BY <1>1 DEF LockInv

\* The fields of an access after the steps that change it.
LEMMA BeginFields ==
  ASSUME IInv, NEW t \in Threads, NEW mode, NEW r, NEW v, Begin(t, mode, r, v)
  PROVE  /\ op'[t].mode = mode /\ op'[t].region = r /\ op'[t].value = v
         /\ op'[t].processed = 0 /\ op'[t].seen = {}
         /\ \A u \in Threads \ {t} : op'[u] = op[u]
BY DEF IInv, TypeOK, Begin

LEMMA AdvanceFields ==
  ASSUME IInv, NEW t \in Threads, NEW seen, Advance(t, seen)
  PROVE  /\ op'[t].mode = op[t].mode /\ op'[t].region = op[t].region
         /\ op'[t].value = op[t].value
         /\ op'[t].processed = op[t].processed + ChunkSize(t)
         /\ op'[t].seen = seen
         /\ \A u \in Threads \ {t} : op'[u] = op[u]
<1>1. op \in [Threads -> Ops] /\ op[t] \in Ops
  BY DEF IInv, TypeOK
<1>2. PICK a, b : a = op[t].processed + ChunkSize(t) /\ b = op[t].level + 1
  OBVIOUS
<1>3. op' = [op EXCEPT ![t] = [op[t] EXCEPT !.processed = a, !.cur = 0, !.level = b, !.seen = seen]]
  BY <1>1, <1>2 DEF Advance
<1> QED BY <1>1, <1>2, <1>3 DEF Ops

LEMMA ReturnFields ==
  ASSUME IInv, NEW t \in Threads, Return(t)
  PROVE  /\ op'[t].mode = "idle" /\ op'[t].region = Bft /\ op'[t].processed = 0
         /\ op'[t].seen = {}
         /\ \A u \in Threads \ {t} : op'[u] = op[u]
BY DEF IInv, TypeOK, Return, Idle

\* The last two parts of the invariant after a step.
LEMMA BegunPrimed ==
  ASSUME diskSize' = diskSize,
         \A u \in Threads : op'[u].mode = "write" =>
           \A k \in Bytes(op'[u].region) :
             k < Offset(op'[u].region) + op'[u].processed =>
               At(k)' = Tag(op'[u].region, op'[u].value)
  PROVE  BegunInv'
BY Fixed DEF BegunInv, FirstLeft, Tag

LEMMA SeenPrimed ==
  ASSUME diskSize' = diskSize,
         \A u \in Threads :
           /\ op'[u].processed <= Length(op'[u].region)
           /\ op'[u].seen = IF op'[u].mode = "read" /\ op'[u].processed > 0
                            THEN {Held(op[u].region)'} ELSE {}
  PROVE  SeenInv'
BY Fixed DEF SeenInv

----------------------------------------------------------------------------
(***************************************************************************)
(* Each step keeps the invariant.                                          *)
(***************************************************************************)
LEMMA InitRInv ==
  ASSUME Init, DiskOK
  PROVE  RInv
<1>1. LockInv /\ BegunInv
  BY DEF Init, Idle, LockInv, BegunInv
<1>2. SeenInv
  <2>1. Bft \in Regions /\ Length(Bft) \in Nat
    BY RegionType DEF Regions
  <2> QED BY <2>1 DEF Init, Idle, SeenInv
<1>3. ASSUME NEW r \in Stored, NEW k \in Bytes(r) PROVE At(k) = Unwritten
  <2>1. k \in 0 .. UserLevelSize - 1
    BY <1>3, InLevel DEF Stored
  <2> QED BY <2>1, PlaceInside DEF Init, At
<1>4. \A r \in Stored : Held(r) = Unwritten
  BY <1>3, InLevel DEF Stored
<1> QED BY <1>1, <1>2, <1>3, <1>4 DEF RInv, WholeInv

\* An access begins when nobody writes.
LEMMA BeginKeeps ==
  ASSUME IInv, RInv, NEW t \in Threads, NEW mode \in {"read", "write"}, NEW r \in Regions,
         NEW v, Begin(t, mode, r, v), writer = None, diskSize' = diskSize, store' = store,
         op[t].mode = "idle",
         \/ mode = "read" /\ readers' = readers \cup {t} /\ writer' = writer
         \/ mode = "write" /\ readers' = readers /\ writer' = t /\ readers = {}
  PROVE  RInv'
<1>1. /\ op'[t].mode = mode /\ op'[t].region = r /\ op'[t].processed = 0 /\ op'[t].seen = {}
      /\ \A u \in Threads \ {t} : op'[u] = op[u]
  BY BeginFields
<1>2. /\ \A u \in Threads : op[u].mode # "write"
      /\ \A s \in Stored : \A k \in Bytes(s) : At(k) = Held(s)
  BY NobodyWrites DEF RInv
<1>3. LockInv'
  BY <1>1, <1>2 DEF RInv, LockInv
<1>4. WholeInv'
  BY <1>2, Fixed, SameStore DEF WholeInv
<1>5. BegunInv'
  <2> SUFFICES ASSUME NEW u \in Threads, op'[u].mode = "write",
                      NEW k \in Bytes(op'[u].region),
                      k < Offset(op'[u].region) + op'[u].processed
               PROVE  FALSE
    BY BegunPrimed
  <2>1. u = t
    BY <1>1, <1>2
  <2>2. Offset(r) \in Nat /\ Length(r) \in Nat
    BY RegionType DEF IInv
  <2>3. k \in Bytes(r) /\ k < Offset(r) + 0
    BY <1>1, <2>1
  <2> QED BY <2>2, <2>3 DEF Bytes, Last
<1>6. SeenInv'
  <2> SUFFICES ASSUME NEW u \in Threads
               PROVE  /\ op'[u].processed <= Length(op'[u].region)
                      /\ op'[u].seen = IF op'[u].mode = "read" /\ op'[u].processed > 0
                                       THEN {Held(op'[u].region)} ELSE {}
    BY SeenPrimed, SameStore DEF ReadChunk
  <2>1. CASE u = t
    <3>1. op'[u].processed = 0 /\ op'[u].region = r /\ op'[u].seen = {}
      BY <1>1, <2>1
    <3>2. Length(r) \in Nat
      BY RegionType DEF IInv
    <3> QED BY <3>1, <3>2
  <2>2. CASE u # t
    BY <1>1, <2>2 DEF RInv, SeenInv
  <2> QED BY <2>1, <2>2
<1> QED BY <1>3, <1>4, <1>5, <1>6 DEF RInv

LEMMA ReadChunkKeeps ==
  ASSUME IInv, RInv, NEW t \in Threads, ReadChunk(t)
  PROVE  RInv'
<1>1. /\ op'[t].mode = op[t].mode /\ op'[t].region = op[t].region
      /\ op'[t].processed = op[t].processed + ChunkSize(t)
      /\ op'[t].seen = op[t].seen \cup {store[b] : b \in Chunk(t)}
      /\ \A u \in Threads \ {t} : op'[u] = op[u]
  BY AdvanceFields DEF ReadChunk
<1>2. writer = None
  BY DEF RInv, LockInv, ReadChunk
<1>3. /\ \A u \in Threads : op[u].mode # "write"
      /\ \A s \in Stored : \A k \in Bytes(s) : At(k) = Held(s)
  BY <1>2, NobodyWrites DEF RInv
<1>4. LockInv'
  BY <1>1 DEF RInv, LockInv, ReadChunk
<1>5. WholeInv'
  BY <1>3, Fixed, SameStore DEF WholeInv, ReadChunk
<1>6. BegunInv'
  BY <1>1, <1>3 DEF BegunInv
<1>7. PICK r : r = op[t].region
  OBVIOUS
<1>8. /\ r \in Stored /\ Offset(r) \in Nat /\ Last(r) \in Nat
      /\ FirstLeft(t) \in Nat /\ ChunkSize(t) \in Nat \ {0}
      /\ Offset(r) <= FirstLeft(t) /\ FirstLeft(t) + ChunkSize(t) <= Last(r) + 1
      /\ op[t].processed \in Nat /\ Length(r) \in Nat
  BY <1>7, ChunkRange, OpFields, RegionType DEF ReadChunk, IInv, TypeOK
<1>9. Bytes(r) \subseteq 0 .. UserLevelSize - 1
  BY <1>8, InLevel DEF Stored, IInv
<1>10. {store[b] : b \in Chunk(t)} = {Held(r)}
  <2>1. ASSUME NEW b \in Chunk(t) PROVE store[b] = Held(r)
    <3>1. PICK k \in 0 .. UserLevelSize - 1 : b = Place(k)
      <4>1. Chunk(t) \subseteq CoverBytes
        BY ChunkInside DEF ReadChunk
      <4>2. PICK l \in 0 .. LevelsPerPassword - 1, c \in 0 .. LevelSize - 1 : b = <<l, c>>
        BY <4>1 DEF CoverBytes
      <4>3. LevelSize \in Nat \ {0} /\ l \in Nat
        BY Sizes DEF IInv
      <4>4. PICK k \in Nat : k = l * LevelSize + c
        BY <4>3, ProductType
      <4>5. k \div LevelSize = l /\ k % LevelSize = c
        BY <4>3, <4>4, DivUnique
      <4>6. k < UserLevelSize
        <5>1. (l + 1) * LevelSize <= LevelsPerPassword * LevelSize
          BY <4>3, Monotone, StoreAssumption
        <5>2. (l + 1) * LevelSize = l * LevelSize + LevelSize
          BY <4>3
        <5>3. l * LevelSize \in Nat /\ UserLevelSize \in Nat
              /\ UserLevelSize = LevelsPerPassword * LevelSize
          BY <4>3, ProductType, Sizes DEF IInv
        <5> QED BY <4>3, <4>4, <5>1, <5>2, <5>3
      <4>7. k \in 0 .. UserLevelSize - 1
        BY <4>6, Sizes DEF IInv
      <4> QED BY <4>2, <4>5, <4>7 DEF Place
    <3>2. FirstLeft(t) <= k /\ k < FirstLeft(t) + ChunkSize(t)
      BY <3>1, InChunk DEF ReadChunk
    <3>3. k \in Bytes(r)
      BY <1>8, <3>2 DEF Bytes
    <3> QED BY <1>3, <1>8, <3>1, <3>3 DEF At
  <2>2. Place(FirstLeft(t)) \in Chunk(t)
    <3>1. FirstLeft(t) \in Bytes(r)
      BY <1>8 DEF Bytes
    <3>2. FirstLeft(t) <= FirstLeft(t) /\ FirstLeft(t) < FirstLeft(t) + ChunkSize(t)
      BY <1>8
    <3> QED BY <1>9, <3>1, <3>2, InChunk DEF ReadChunk
  <2> QED BY <2>1, <2>2
<1>11. SeenInv'
  <2> SUFFICES ASSUME NEW u \in Threads
               PROVE  /\ op'[u].processed <= Length(op'[u].region)
                      /\ op'[u].seen = IF op'[u].mode = "read" /\ op'[u].processed > 0
                                       THEN {Held(op'[u].region)} ELSE {}
    BY SeenPrimed, SameStore DEF ReadChunk
  <2>1. CASE u = t
    <3>1. op'[t].processed <= Length(r) /\ op'[t].processed > 0
      BY <1>1, <1>7, <1>8 DEF FirstLeft, Last
    <3>2. op[t].seen \subseteq {Held(r)}
      BY <1>7 DEF RInv, SeenInv
    <3>3. op'[t].seen = {Held(r)} /\ op'[t].mode = "read" /\ op'[t].region = r
      BY <1>1, <1>7, <1>10, <3>2 DEF ReadChunk
    <3> QED BY <2>1, <3>1, <3>3
  <2>2. CASE u # t
    BY <1>1, <2>2 DEF RInv, SeenInv
  <2> QED BY <2>1, <2>2
<1> QED BY <1>4, <1>5, <1>6, <1>11 DEF RInv

LEMMA HeldPrimed ==
  ASSUME diskSize' = diskSize, NEW r, NEW k, k = Last(r)
  PROVE  Held(r)' = At(k)' /\ Held(r) = At(k)
BY DEF Held, At, Place, LevelSize, Last, Offset, Length, ClusterCount, UserLevelSize

LEMMA WriteChunkKeeps ==
  ASSUME IInv, RInv, RegionsApart, NEW t \in Threads, WriteChunk(t)
  PROVE  RInv'
<1>1. /\ op'[t].mode = op[t].mode /\ op'[t].region = op[t].region
      /\ op'[t].value = op[t].value
      /\ op'[t].processed = op[t].processed + ChunkSize(t) /\ op'[t].seen = {}
      /\ \A u \in Threads \ {t} : op'[u] = op[u]
  BY AdvanceFields DEF WriteChunk
<1>2. \A u \in Threads : op[u].mode # "read" /\ (op[u].mode = "write" => u = t)
  BY WriterAlone DEF RInv, WriteChunk
<1>3. LockInv'
  BY <1>1 DEF RInv, LockInv, WriteChunk
<1>4. PICK r : r = op[t].region
  OBVIOUS
<1>5. PICK first \in Nat, n \in Nat \ {0} : first = FirstLeft(t) /\ n = ChunkSize(t)
  BY ChunkRange DEF WriteChunk
<1>6. /\ r \in Stored /\ Offset(r) \in Nat /\ Last(r) \in Nat /\ Length(r) \in Nat
      /\ Offset(r) <= first /\ first + n <= Last(r) + 1
      /\ op[t].processed \in Nat /\ op'[t].processed \in Nat
      /\ first = Offset(r) + op[t].processed
      /\ first + n = Offset(r) + op'[t].processed
  <2>1. op[t].processed \in Nat
    BY OpFields DEF IInv, TypeOK
  <2> QED BY <1>1, <1>4, <1>5, <2>1, ChunkRange, RegionType DEF WriteChunk, IInv, FirstLeft
<1>7. ASSUME NEW s \in Stored, NEW k \in Bytes(s)
      PROVE  /\ k \in Nat /\ k \in 0 .. UserLevelSize - 1
             /\ Last(s) \in Bytes(s) /\ k <= Last(s) /\ Last(s) \in Nat
  BY InLevel DEF IInv, Stored, Bytes, Last
<1>8. ASSUME NEW k \in Bytes(r)
      PROVE  At(k)' = IF first <= k /\ k < first + n THEN Tag(r, op[t].value) ELSE At(k)
  BY <1>4, <1>5, <1>6, <1>7, WriteAt
<1>9. WholeInv'
  <2> SUFFICES ASSUME NEW s \in Stored, NEW k \in Bytes(s)
               PROVE  At(k)' = Held(s)' \/ \E u \in Threads : Written(u, s, k)'
    BY Fixed DEF WholeInv, WriteChunk
  <2>1. PICK last \in Bytes(s) : last = Last(s)
    BY <1>7
  <2>2. Held(s)' = At(last)' /\ Held(s) = At(last)
    BY <2>1, HeldPrimed DEF WriteChunk
  <2>3. At(k) = Held(s) \/ \E u \in Threads : Written(u, s, k)
    BY DEF RInv, WholeInv
  <2>4. CASE s # r
    <3>1. At(k)' = At(k) /\ At(last)' = At(last)
      BY <1>4, <2>4, WriteElsewhere
    <3>2. ~\E u \in Threads : Written(u, s, k)
      BY <1>2, <1>4, <2>4 DEF Written
    <3> QED BY <2>2, <2>3, <3>1, <3>2
  <2>5. CASE s = r /\ k < first + n
    <3>1. Written(t, s, k)'
      <4>1. op'[t].mode = "write" /\ op'[t].region = s /\ k < Offset(s) + op'[t].processed
        BY <1>1, <1>4, <1>6, <2>5 DEF WriteChunk
      <4>2. Offset(s)' = Offset(s)
        BY Fixed DEF WriteChunk
      <4> QED BY <4>1, <4>2 DEF Written
    <3> QED BY <3>1
  <2>6. CASE s = r /\ ~(k < first + n)
    <3>1. k <= last /\ k \in Nat /\ last \in Nat
      BY <1>7, <2>1
    <3>2. ~(last < first + n) /\ ~(k < first)
      BY <1>5, <2>6, <3>1
    <3>3. At(k)' = At(k) /\ At(last)' = At(last)
      BY <1>8, <2>6, <3>2
    <3>4. ~\E u \in Threads : Written(u, s, k)
      BY <1>2, <1>4, <1>6, <2>6, <3>2 DEF Written
    <3> QED BY <2>2, <2>3, <3>3, <3>4
  <2> QED BY <2>4, <2>5, <2>6
<1>10. BegunInv'
  <2> SUFFICES ASSUME NEW u \in Threads, op'[u].mode = "write",
                      NEW k \in Bytes(op'[u].region),
                      k < Offset(op'[u].region) + op'[u].processed
               PROVE  At(k)' = Tag(op'[u].region, op'[u].value)
    BY BegunPrimed DEF WriteChunk
  <2>1. u = t
    BY <1>1, <1>2
  <2>2. k \in Bytes(r) /\ k < first + n /\ k \in Nat
    BY <1>1, <1>4, <1>6, <1>7, <2>1
  <2>3. k < first => At(k) = Tag(r, op[t].value)
    BY <1>4, <1>5, <2>2 DEF RInv, BegunInv, WriteChunk
  <2>4. At(k)' = Tag(r, op[t].value)
    BY <1>5, <1>8, <2>2, <2>3
  <2> QED BY <1>1, <1>4, <2>1, <2>4
<1>11. SeenInv'
  <2> SUFFICES ASSUME NEW u \in Threads
               PROVE  /\ op'[u].processed <= Length(op'[u].region)
                      /\ op'[u].seen = {} /\ op'[u].mode # "read"
    BY SeenPrimed DEF WriteChunk
  <2>1. CASE u = t
    <3>1. op'[t].processed <= Length(r)
      BY <1>5, <1>6 DEF Last
    <3> QED BY <1>1, <1>2, <1>4, <2>1, <3>1
  <2>2. CASE u # t
    BY <1>1, <1>2, <2>2 DEF RInv, SeenInv
  <2> QED BY <2>1, <2>2
<1> QED BY <1>3, <1>9, <1>10, <1>11 DEF RInv

LEMMA ReturnKeeps ==
  ASSUME IInv, RInv, NEW t \in Threads, Return(t)
  PROVE  RInv'
<1>1. /\ op'[t].mode = "idle" /\ op'[t].region = Bft /\ op'[t].processed = 0
      /\ op'[t].seen = {}
      /\ \A u \in Threads \ {t} : op'[u] = op[u]
  BY ReturnFields
<1>2. diskSize' = diskSize /\ store' = store
  BY DEF Return
<1>3. LockInv'
  BY <1>1 DEF RInv, LockInv, Return
<1>4. WholeInv'
  <2> SUFFICES ASSUME NEW s \in Stored, NEW k \in Bytes(s)
               PROVE  At(k) = Held(s) \/ \E u \in Threads : Written(u, s, k)'
    BY <1>2, Fixed, SameStore DEF WholeInv
  <2>1. CASE At(k) = Held(s)
    BY <2>1
  <2>2. ASSUME NEW u \in Threads, Written(u, s, k), u # t
        PROVE  Written(u, s, k)'
    BY <1>1, <1>2, <2>2, Fixed DEF Written
  <2>3. CASE Written(t, s, k)
    <3>1. /\ op[t].mode = "write" /\ op[t].region = s
          /\ ~(op[t].processed < Length(s)) /\ op[t].processed \in Nat
      BY <2>3, OpFields DEF Written, Return, Unfinished, IInv, TypeOK
    <3>2. /\ Offset(s) \in Nat /\ Length(s) \in Nat
          /\ Last(s) \in Bytes(s) /\ Held(s) = At(Last(s))
      BY InLevel DEF Stored, IInv
    <3>3. k < FirstLeft(t) /\ Last(s) < FirstLeft(t)
      BY <3>1, <3>2 DEF FirstLeft, Bytes, Last
    <3>4. At(k) = Tag(s, op[t].value) /\ At(Last(s)) = Tag(s, op[t].value)
      BY <3>1, <3>2, <3>3 DEF RInv, BegunInv
    <3> QED BY <3>2, <3>4
  <2> QED BY <2>1, <2>2, <2>3 DEF RInv, WholeInv
<1>5. BegunInv'
  <2> SUFFICES ASSUME NEW u \in Threads, op'[u].mode = "write",
                      NEW k \in Bytes(op'[u].region),
                      k < Offset(op'[u].region) + op'[u].processed
               PROVE  At(k) = Tag(op'[u].region, op'[u].value)
    BY <1>2, BegunPrimed, SameStore
  <2>1. op'[u] = op[u]
    BY <1>1
  <2> QED BY <2>1 DEF RInv, BegunInv, FirstLeft
<1>6. SeenInv'
  <2> SUFFICES ASSUME NEW u \in Threads
               PROVE  /\ op'[u].processed <= Length(op'[u].region)
                      /\ op'[u].seen = IF op'[u].mode = "read" /\ op'[u].processed > 0
                                       THEN {Held(op'[u].region)} ELSE {}
    BY <1>2, SeenPrimed, SameStore
  <2>1. CASE u = t
    <3>1. Length(Bft) \in Nat
      BY RegionType DEF Regions, IInv
    <3>2. op'[u].mode = "idle" /\ op'[u].region = Bft /\ op'[u].processed = 0 /\ op'[u].seen = {}
      BY <1>1, <2>1
    <3> QED BY <3>1, <3>2
  <2>2. CASE u # t
    BY <1>1, <2>2 DEF RInv, SeenInv
  <2> QED BY <2>1, <2>2
<1> QED BY <1>3, <1>4, <1>5, <1>6 DEF RInv

LEMMA StillKeeps ==
  ASSUME RInv, UNCHANGED <<diskSize, store, readers, writer, op>>
  PROVE  RInv'
<1>1. LockInv'
  BY DEF RInv, LockInv
<1>2. WholeInv'
  BY Fixed, SameStore DEF RInv, WholeInv, Written
<1>3. BegunInv'
  BY Fixed, SameStore DEF RInv, BegunInv, FirstLeft, Tag
<1>4. SeenInv'
  BY Fixed, SameStore DEF RInv, SeenInv
<1> QED BY <1>1, <1>2, <1>3, <1>4 DEF RInv

THEOREM RegionsInvariance == Spec /\ []RegionsApart => []RInv
<1>1. Init /\ IInv => RInv
  BY InitRInv DEF IInv
<1>2. IInv /\ RegionsApart /\ RInv /\ [Next]_vars => RInv'
  <2> SUFFICES ASSUME IInv, RegionsApart, RInv, [Next]_vars PROVE RInv'
    OBVIOUS
  <2>1. ASSUME NEW t \in Threads, NEW r \in Regions, Refuse(t, r) PROVE RInv'
    BY <2>1, StillKeeps DEF Refuse
  <2>2. ASSUME NEW t \in Threads, NEW r \in Regions, StartRead(t, r) PROVE RInv'
    BY <2>2, BeginKeeps DEF StartRead
  <2>3. ASSUME NEW t \in Threads, NEW r \in Regions, NEW v \in Values, StartWrite(t, r, v)
        PROVE  RInv'
    BY <2>3, BeginKeeps DEF StartWrite
  <2>4. CASE UNCHANGED vars
    BY <2>4, StillKeeps DEF vars
  <2> QED
    BY <2>1, <2>2, <2>3, <2>4, ReadChunkKeeps, WriteChunkKeeps, ReturnKeeps DEF Next
<1> QED BY <1>1, <1>2, Inductive, PTL DEF Spec

----------------------------------------------------------------------------
(***************************************************************************)
(* The refinement: a write takes effect with its last byte, a read when it *)
(* returns; everything else changes nothing that can be seen from above.   *)
(***************************************************************************)
Val == [r \in Stored |-> Held(r)]

LEMMA ValStays ==
  ASSUME diskSize' = diskSize, store' = store
  PROVE  Val' = Val
BY Fixed, SameStore DEF Val

\* A step that only gives out a value.
LEMMA NothingRefines ==
  ASSUME NEW t \in Threads, diskSize' = diskSize, store' = store, out' = [out EXCEPT ![t] = {}]
  PROVE  Abs!Next
<1>1. Val' = Val
  BY ValStays
<1> QED BY <1>1 DEF Val, Abs!Next, Abs!Nothing

LEMMA WriteChunkRefines ==
  ASSUME IInv, RInv, RegionsApart, NEW t \in Threads, WriteChunk(t)
  PROVE  Abs!Next \/ UNCHANGED Abs!vars
<1>1. PICK r \in Stored, v \in Values : r = op[t].region /\ v = op[t].value
  BY ChunkRange DEF WriteChunk, IInv, Looping, AtNextByte
<1>2. diskSize' = diskSize /\ out' = out
  BY DEF WriteChunk
<1>3. ASSUME NEW s \in Stored
      PROVE  /\ Last(s) \in Bytes(s) /\ Last(s) \in 0 .. UserLevelSize - 1
             /\ Held(s)' = At(Last(s))' /\ Held(s) = At(Last(s))
  <2>1. Last(s) \in Bytes(s) /\ Last(s) \in 0 .. UserLevelSize - 1
    BY InLevel DEF Stored, IInv
  <2>2. Last(s)' = Last(s)
    BY <1>2, Fixed
  <2> QED BY <1>2, <2>1, <2>2, HeldPrimed
<1>4. ASSUME NEW s \in Stored, s # r PROVE Held(s)' = Held(s)
  <2>1. PICK k \in Bytes(s) : k = Last(s)
    BY <1>3
  <2> QED BY <1>1, <1>2, <1>4, <2>1, HeldPrimed, WriteElsewhere
<1>5. Held(r)' \in {Held(r), Tag(r, v)}
  <2>1. PICK k \in 0 .. UserLevelSize - 1 : k = Last(r)
    BY <1>3
  <2>2. At(k)' \in {At(k), Tag(r, v)}
    BY <1>1, WriteAt
  <2> QED BY <1>2, <2>1, <2>2, HeldPrimed
<1>6. CASE Held(r)' = Held(r)
  <2>1. Val' = Val
    BY <1>2, <1>4, <1>6, Fixed DEF Val
  <2> QED BY <1>2, <2>1 DEF Val, Abs!vars
<1>7. CASE Held(r)' = Tag(r, v)
  <2>1. Val' = [Val EXCEPT ![r] = [region |-> r, value |-> v]]
    BY <1>2, <1>4, <1>7, Fixed DEF Val, Tag
  <2>2. DOMAIN Val = Stored
    BY DEF Val
  <2> QED BY <1>1, <1>2, <2>1, <2>2 DEF Val, Abs!Next, Abs!Write
<1> QED BY <1>5, <1>6, <1>7

LEMMA ReturnRefines ==
  ASSUME IInv, RInv, NEW t \in Threads, Return(t)
  PROVE  Abs!Next
<1>1. PICK o \in Ops : o = op[t]
  BY DEF IInv, TypeOK
<1>2. PICK r \in Regions : r = o.region
  BY OpFields
<1>3. Val' = Val /\ out' = [out EXCEPT ![t] = o.seen]
  BY <1>1, ValStays DEF Return
<1>4. CASE o.mode = "read" /\ o.processed > 0
  <2>1. o.seen = {Held(r)}
    BY <1>1, <1>2, <1>4 DEF RInv, SeenInv
  <2>2. r \in Stored
    <3>1. CheckParameters(Offset(r), Length(r))
      BY <1>1, <1>2, <1>4 DEF IInv, Looping, AtNextByte
    <3>2. Length(r) > 0
      <4>1. o.processed <= Length(r) /\ o.processed \in Nat /\ Length(r) \in Nat
        BY <1>1, <1>2, OpFields, RegionType DEF RInv, SeenInv, IInv
      <4> QED BY <1>4, <4>1
    <3> QED BY <3>1, <3>2 DEF Stored
  <2>3. DOMAIN Val = Stored /\ Val[r] = Held(r)
    BY <2>2 DEF Val
  <2> QED BY <1>3, <2>1, <2>2, <2>3 DEF Val, Abs!Next, Abs!Read
<1>5. CASE ~(o.mode = "read" /\ o.processed > 0)
  <2>1. o.seen = {}
    BY <1>1, <1>5 DEF RInv, SeenInv
  <2> QED BY <1>3, <2>1 DEF Val, Abs!Next, Abs!Nothing
<1> QED BY <1>4, <1>5

\* While the clusters take no more than 2^32 bytes, so that no two regions share
\* a byte, every region of a level is an atomic register: however many cover
\* files an access is spread over, no other access is seen in the middle of it.
THEOREM RegionsAreRegisters ==
  Spec /\ [](ClusterCount * ClusterSize <= Word) => ImplementsRegions
<1>1. Init /\ RInv /\ IInv => Abs!Init
  <2> SUFFICES ASSUME Init, IInv PROVE Abs!Init
    OBVIOUS
  <2>1. \A r \in Stored : Held(r) = Unwritten
    <3> SUFFICES ASSUME NEW r \in Stored PROVE Held(r) = Unwritten
      OBVIOUS
    <3>1. PICK k \in 0 .. UserLevelSize - 1 : Held(r) = At(k)
      BY InLevel DEF Stored, IInv
    <3> QED BY <3>1, PlaceInside DEF Init, At, IInv
  <2> QED BY <2>1 DEF Init, Abs!Init
<1>2. IInv /\ RInv /\ RegionsApart /\ [Next]_vars => [Abs!Next]_(Abs!vars)
  <2> SUFFICES ASSUME IInv, RInv, RegionsApart, [Next]_vars PROVE [Abs!Next]_(Abs!vars)
    OBVIOUS
  <2>1. ASSUME NEW t \in Threads, NEW r \in Regions, Refuse(t, r) PROVE Abs!Next
    BY <2>1, NothingRefines DEF Refuse
  <2>2. ASSUME NEW t \in Threads, NEW r \in Regions, StartRead(t, r) PROVE Abs!Next
    BY <2>2, NothingRefines DEF StartRead
  <2>3. ASSUME NEW t \in Threads, NEW r \in Regions, NEW v \in Values, StartWrite(t, r, v)
        PROVE  Abs!Next
    BY <2>3, NothingRefines DEF StartWrite
  <2>4. ASSUME NEW t \in Threads, ReadChunk(t) PROVE UNCHANGED Abs!vars
    BY <2>4, ValStays DEF ReadChunk, Val, Abs!vars
  <2>5. CASE UNCHANGED vars
    BY <2>5, ValStays DEF vars, Val, Abs!vars
  <2> QED
    BY <2>1, <2>2, <2>3, <2>4, <2>5, WriteChunkRefines, ReturnRefines DEF Next
<1>3. Spec /\ [](ClusterCount * ClusterSize <= Word) => []RegionsApart
  BY RegionsNeverMeet, PTL
<1> QED
  BY <1>1, <1>2, <1>3, Inductive, RegionsInvariance, PTL DEF Spec, ImplementsRegions, Abs!Spec
=============================================================================
