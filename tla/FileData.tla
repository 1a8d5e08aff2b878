------------------------------ MODULE FileData ------------------------------
(***************************************************************************)
(* The bytes of a file in its clusters: the offsets, lengths and paddings  *)
(* of bsfs_read, bsfs_write, bsfs_ftruncate and bsfs_fallocate             *)
(* (src/src/bsfs.c).                                                       *)
(*                                                                         *)
(* file->lock lets one operation that changes a file run at a time, and    *)
(* Level shows that its chain and its size stay put meanwhile; so here one *)
(* operation runs after the other, in as many steps as it accesses         *)
(* clusters, each of which may fail.  The chain is the sequence of its     *)
(* clusters' data; of the other clusters only their number matters.        *)
(***************************************************************************)
EXTENDS Integers, Sequences

CONSTANTS DataSize,       \* CLUSTER_DATA_SIZE
          ClusterCount,   \* fs_count_clusters
          MaxEnd,         \* bound on off + size
          Junk,           \* what a buffer on the stack held before
          SizeWord        \* sizes are stored modulo this: 2^32

ASSUME FileAssumption ==
  /\ DataSize \in Nat \ {0} /\ ClusterCount \in Nat \ {0}
  /\ MaxEnd \in Nat /\ Junk \notin Nat
  /\ SizeWord \in Nat /\ SizeWord > DataSize * ClusterCount

Kinds == {"read", "write", "ftruncate", "fallocate"}

VARIABLES size,           \* ent.size
          blocks,         \* the data of the clusters of the chain
          free,           \* clusters whose bit is clear
          pc,             \* where the operation is
          job,            \* its arguments and locals
          fresh,          \* the data of the clusters it has allocated
          got,            \* the buffer of the last read
          ret             \* what the last operation returned

vars == <<size, blocks, free, pc, job, fresh, got, ret>>

NoJob == [kind |-> "none", off |-> 0, len |-> 0, overlap |-> 0,
          at |-> 0, local |-> 0, done |-> 0]

Byte(i) == 1 + (i % 2)
Bytes == {0, 1, 2, Junk}
Positions == 0 .. DataSize - 1
Block == [Positions -> Bytes]

TypeOK ==
  /\ size \in 0 .. MaxEnd
  /\ blocks \in Seq(Block)
  /\ free \in 0 .. ClusterCount
  /\ pc \in {"idle", "size", "rw", "extend", "fill", "hook", "shrink", "commit"}
  /\ job \in [kind : Kinds \cup {"none"}, off : 0 .. MaxEnd, len : 0 .. MaxEnd,
              overlap : 0 .. MaxEnd, at : Nat, local : Positions, done : 0 .. MaxEnd]
  /\ fresh \in Seq(Block)
  /\ got \in Seq(Bytes)
  /\ ret \in {"none", "ok", "error"}

\* bsfs_mknod gave the file a cluster of zeros.
Init ==
  /\ size = 0
  /\ blocks = <<[j \in Positions |-> 0]>>
  /\ free = ClusterCount - 1
  /\ pc = "idle" /\ job = NoJob /\ fresh = <<>> /\ got = <<>> /\ ret = "none"

----------------------------------------------------------------------------
Lesser(a, b) == IF a < b THEN a ELSE b
Greater(a, b) == IF a > b THEN a ELSE b

\* adjust_size_and_off
FittedOff(off) == Lesser(off, size)
FittedLen(off, len) == Lesser(len, size - FittedOff(off))

\* The byte find_eof_cluster looks for.
LastByte(n) == IF n = 0 THEN 0 ELSE n - 1

\* get_local_eof_off
LocalEof(n) == IF n = 0 THEN 0 ELSE ((n - 1) % DataSize) + 1

\* get_required_cluster_count
Required(n) == (n + DataSize - 1) \div DataSize

\* bs_do_write_extend: the zeros and the data it appends, and what of them the
\* last cluster takes.
Gap == IF job.kind = "write" THEN Greater(0, job.off - size)
       ELSE job.off + job.len - size
Data == IF job.kind = "write" THEN job.len - job.overlap ELSE 0
Room == DataSize - LocalEof(size)
NewCount == (Gap + Data - Room + DataSize - 1) \div DataSize

\* The size the operation commits.
NewSize == CASE job.kind = "write" -> Greater(size, job.off + job.len)
             [] job.kind = "ftruncate" -> job.off
             [] OTHER -> job.off + job.len

Return(result) ==
  /\ pc' = "idle" /\ job' = NoJob /\ fresh' = <<>>
  /\ ret' = result

\* An access to a cluster fails, or the chain is too short (-EIO).
Fail == Return("error") /\ got' = <<>> /\ UNCHANGED <<size, blocks>>

\* find_cluster from the first cluster of the chain.
FindCluster(byte) ==
  job' = [job EXCEPT !.at = byte \div DataSize, !.local = byte % DataSize]

----------------------------------------------------------------------------
\* A size given to ftruncate is in off.  write returns early when len is 0.
Begin(kind, off, len) ==
  /\ pc = "idle"
  /\ off + len <= MaxEnd
  /\ (kind = "ftruncate") <=> (len = 0)
  /\ pc' = "size"
  /\ job' = [NoJob EXCEPT !.kind = kind, !.off = off, !.len = len]
  /\ got' = <<>> /\ ret' = "none"
  /\ UNCHANGED <<size, blocks, free, fresh>>

\* bsfs_read and the overlapping part of bsfs_write.
BeginRw ==
  /\ job.kind \in {"read", "write"}
  /\ LET n == FittedLen(job.off, job.len)
         from == FittedOff(job.off)
     IN \/ /\ n > 0
           /\ job' = [job EXCEPT !.overlap = n, !.at = from \div DataSize,
                                 !.local = from % DataSize]
           /\ pc' = "rw"
           /\ UNCHANGED ret
        \/ /\ n = 0 /\ job.kind = "write"
           /\ FindCluster(LastByte(size))
           /\ pc' = "extend"
           /\ UNCHANGED ret
        \/ n = 0 /\ job.kind = "read" /\ Return("ok")
  /\ UNCHANGED fresh

\* bsfs_fallocate and bsfs_ftruncate.
BeginResize ==
  /\ job.kind \in {"fallocate", "ftruncate"}
  /\ \/ /\ job.off + job.len > size
        /\ FindCluster(LastByte(size))
        /\ pc' = "extend"
        /\ UNCHANGED <<fresh, ret>>
     \/ /\ \/ job.kind = "fallocate" /\ job.off + job.len <= size
           \/ job.kind = "ftruncate" /\ job.off = size
        /\ Return("ok")
     \/ /\ job.kind = "ftruncate" /\ job.off < size
        /\ Required(job.off) < Required(size)
        /\ FindCluster(LastByte(job.off))
        /\ pc' = "shrink"
        /\ UNCHANGED <<fresh, ret>>
     \/ /\ job.kind = "ftruncate" /\ job.off < size
        /\ Required(job.off) = Required(size)
        /\ pc' = "commit"
        /\ UNCHANGED <<job, fresh, ret>>

\* get_size_and_initial_cluster and what follows from the size; the walk to the
\* cluster it has found may fail.
GetSize ==
  /\ pc = "size"
  /\ \/ (BeginRw \/ BeginResize) /\ UNCHANGED <<size, blocks, got>>
     \/ Fail
  /\ UNCHANGED free

\* What one round of do_rw_op copies.
Chunk == Lesser(job.overlap - job.done, DataSize - job.local)

\* The round is over: local_off is 0 from the second cluster on.
NextChunk ==
  LET done == job.done + Chunk IN
    /\ job' = [job EXCEPT !.done = done,
                          !.at = IF done = job.overlap THEN @ ELSE @ + 1,
                          !.local = IF done = job.overlap THEN @ ELSE 0]
    /\ pc' = IF done < job.overlap THEN "rw"
             ELSE IF job.overlap = job.len THEN "commit" ELSE "extend"

\* do_rw_op on one cluster, reading.
ReadChunk ==
  /\ got' = got \o [j \in 1 .. Chunk |-> blocks[job.at + 1][job.local + j - 1]]
  /\ IF job.done + Chunk < job.overlap THEN NextChunk /\ UNCHANGED <<fresh, ret>>
     ELSE Return("ok")
  /\ UNCHANGED blocks

\* do_rw_op on one cluster, writing.
WriteChunk ==
  /\ blocks' = [blocks EXCEPT ![job.at + 1] =
       [j \in Positions |->
          IF job.local <= j /\ j < job.local + Chunk
            THEN Byte(job.done + j - job.local) ELSE @[j]]]
  /\ NextChunk
  /\ UNCHANGED <<got, fresh, ret>>

RwChunk ==
  /\ pc = "rw"
  /\ \/ /\ job.at < Len(blocks)
        /\ \/ job.kind = "read" /\ ReadChunk
           \/ job.kind = "write" /\ WriteChunk
        /\ UNCHANGED size
     \/ Fail
  /\ UNCHANGED free

----------------------------------------------------------------------------
(* bs_do_write_extend: job.at is the last cluster of the file.              *)

\* alloc_clusters; -ENOSPC loses one of the clusters that it had taken.
AllocClusters ==
  /\ pc = "extend"
  /\ IF NewCount <= free
       THEN /\ free' = free - NewCount
            /\ job' = [job EXCEPT !.done = 0]
            /\ pc' = IF NewCount = 0 THEN "hook" ELSE "fill"
            /\ UNCHANGED <<size, blocks, fresh, got, ret>>
       ELSE /\ free' = Greater(0, free - 1)
            /\ Fail

\* The next new cluster: zeros up to the gap's end, then data, and beyond the
\* end of the file what the buffer held before.
FilledBlock(processed) ==
  LET written == Lesser(Gap + Data - processed, DataSize)
      pad == IF Gap > processed THEN Lesser(written, Gap - processed) ELSE 0
  IN [j \in Positions |->
        IF j < pad THEN 0
        ELSE IF j < written THEN Byte(job.overlap + processed - Gap + j)
        ELSE Junk]

\* One round of the loop over the new clusters; done counts the rounds.
FillCluster ==
  /\ pc = "fill"
  /\ \/ /\ fresh' = Append(fresh, FilledBlock(Room + job.done * DataSize))
        /\ job' = [job EXCEPT !.done = @ + 1]
        /\ pc' = IF job.done + 1 = NewCount THEN "hook" ELSE "fill"
        /\ UNCHANGED <<size, blocks, free, got, ret>>
     \/ free' = free + NewCount /\ Fail

\* Mutant of HookedBlock: the rest of the last cluster is not zeroed.
HookedBlockStale(old) ==
  LET from == LocalEof(size) IN
    [j \in Positions |->
       IF from + Gap <= j /\ j < from + Gap + Lesser(Room - Gap, Data)
         THEN Byte(job.overlap + j - from - Gap)
       ELSE old[j]]

\* The last cluster of the file: zeros for the gap, then the start of the data.
HookedBlock(old) ==
  LET from == LocalEof(size) IN
    [j \in Positions |->
       IF from <= j /\ j < from + Lesser(Gap, Room) THEN 0
       ELSE IF /\ Gap < Room
               /\ from + Gap <= j /\ j < from + Gap + Lesser(Room - Gap, Data)
         THEN Byte(job.overlap + j - from - Gap)
       ELSE old[j]]

\* "Hook up to existing cluster chain"; on failure the new clusters are freed.
Hook ==
  /\ pc = "hook"
  /\ \/ /\ job.at < Len(blocks)
        /\ blocks' = [blocks EXCEPT ![job.at + 1] = HookedBlock(@)] \o fresh
        /\ fresh' = <<>>
        /\ pc' = "commit"
        /\ UNCHANGED <<size, free, job, got, ret>>
     \/ free' = free + NewCount /\ Fail

----------------------------------------------------------------------------
\* Mutant of Shrink: the link of the last cluster that stays is not rewritten.
ShrinkUncut ==
  /\ pc = "shrink"
  /\ \/ /\ job.at < Len(blocks)
        /\ free' = free + Len(blocks) - (job.at + 1)
        /\ pc' = "commit"
        /\ UNCHANGED <<size, blocks, job, fresh, got, ret>>
     \/ Fail /\ UNCHANGED free

\* bsfs_ftruncate: the clusters after the new end are freed and the chain ends
\* before them.  Level has the write that may fail in between.
Shrink ==
  /\ pc = "shrink"
  /\ \/ /\ job.at < Len(blocks)
        /\ blocks' = SubSeq(blocks, 1, job.at + 1)
        /\ free' = free + Len(blocks) - (job.at + 1)
        /\ pc' = "commit"
        /\ UNCHANGED <<size, job, fresh, got, ret>>
     \/ Fail /\ UNCHANGED free

\* commit_write_to_bft; do_write_entry stores 32 bits of the size.
Commit ==
  /\ pc = "commit"
  /\ size' = NewSize % SizeWord
  /\ Return("ok")
  /\ UNCHANGED <<blocks, free, got>>

Next ==
  \/ \E kind \in Kinds, off, len \in 0 .. MaxEnd : Begin(kind, off, len)
  \/ GetSize \/ RwChunk
  \/ AllocClusters \/ FillCluster \/ Hook
  \/ Shrink \/ Commit

Spec == Init /\ [][Next]_vars

----------------------------------------------------------------------------
\* A truncation that frees clusters takes effect when it has cut the chain.
Cutting == pc = "commit" /\ job.kind = "ftruncate" /\ job.off < size

\* The file as a reader sees it.
Content == [i \in 1 .. (IF Cutting THEN job.off ELSE size) |->
              blocks[1 + (i - 1) \div DataSize][(i - 1) % DataSize]]

AbsOp == IF pc = "idle" \/ Cutting
           THEN [kind |-> "none", off |-> 0, len |-> 0]
           ELSE [kind |-> job.kind, off |-> job.off, len |-> job.len]

File == INSTANCE FileSpec
          WITH content <- Content, op <- AbsOp,
               got <- IF pc = "idle" THEN got ELSE <<>>,
               ret <- IF Cutting THEN "ok" ELSE ret

\* A file is an array of bytes: every operation that reports success did all it
\* promises, over partial clusters, cluster boundaries, holes and the end of
\* the file; reads return what was written and zeros where nothing was, never
\* what a cluster held before; an operation that fails, of which a write may
\* have changed some bytes within the file, leaves the rest and the size alone.
ImplementsFile == File!Spec
=============================================================================
