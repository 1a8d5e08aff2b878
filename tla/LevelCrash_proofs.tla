------------------------- MODULE LevelCrash_proofs -------------------------
(***************************************************************************)
(* Proofs about a level whose process may crash: what a mount finds of the *)
(* files that were flushed, for any number of threads, files and clusters, *)
(* whatever they are doing when the process dies, between any two writes.  *)
(*                                                                         *)
(* The links of the clusters have one copy, on the disk, so a file that    *)
(* was flushed is found by the links of now with its entry of then.  The   *)
(* invariant says that its clusters of then are the first of its clusters  *)
(* of now: their owners (LevelChains_proofs) keep others off, and a file   *)
(* gets shorter in one step only, which ends the claim.                    *)
(***************************************************************************)
EXTENDS LevelCrash, LevelChains_proofs

----------------------------------------------------------------------------
(***************************************************************************)
(* A step of Level keeps the invariants of Level, and the first clusters   *)
(* of every file that it neither removes nor cuts.                         *)
(***************************************************************************)

\* The locks, handles and snapshots of a level.
LEMMA NextIInv ==
  ASSUME IInv, Next
  PROVE  IInv'
BY Steps, MknodStep, UnlinkStep, OpenStep, RenameStep, AttributesStep, ReleaseStep, BeginStep,
   ContinueStep

\* Which steps write links.
LEMMA LinkWriters ==
  ASSUME NEW t \in Threads, Continue(t)
  PROVE  UNCHANGED next \/ Fill(t) \/ Hook(t) \/ Cut(t)
BY DEF Continue, GetSize, Walk, Arrive, AllocClusters, Undo, Commit, Collect, FreeChain, Reap, table

\* New clusters are filled before any file has them.
LEMMA FillLinks ==
  ASSUME IInv, NEW own, NEW pos, Shape(own, pos), NEW t \in Threads, Fill(t),
         NEW i \in Indices, NEW c \in Clusters, own[c] = File(i)
  PROVE  next'[c] = next[c]
<1>0. Len(job[t].list) \in Nat
  BY JobAt
<1>1. PICK n, list : n \in Nat /\ list = job[t].list /\ n = Len(list)
  BY <1>0
<1>2. Growing(t)
  BY DEF Fill, Growing
<1>3. c \notin Elements(list) /\ \A j, k \in 1 .. n : list[j] = list[k] => j = k
  BY <1>1, <1>2, InList, OwnersDiffer
<1>4. PICK k \in 0 .. n : next' = Linked(list, k)
  BY <1>1, <1>2 DEF Fill
<1>5. \A j \in 1 .. k : list[j] # c
  <2>1. DOMAIN list = 1 .. n /\ 1 .. k \subseteq 1 .. n
    BY <1>1, JobAt
  <2> QED BY <1>3, <2>1 DEF Elements
<1>6. LinkedTo(list, k, Linked(list, k))
  BY <1>1, <1>2, <1>3, LinkedAt
<1> QED BY <1>4, <1>5, <1>6 DEF LinkedTo

\* bs_do_write_extend and bsfs_ftruncate write the link of the last cluster.
LEMMA LastLink ==
  ASSUME IInv, NEW own, NEW pos, Shape(own, pos), NEW t \in Threads, Hook(t) \/ Cut(t),
         NEW i \in Indices, NEW c \in Clusters, own[c] = File(i), pos[c] + 1 < Extent(i)
  PROVE  next'[c] = next[c]
<1>0. pos[c] + 1 # Extent(i)
  <2>1. pos[c] \in Nat /\ Extent(i) \in Nat
    BY ChainSizeType DEF Shape
  <2> QED BY <2>1
<1>1. pc[t] \in {"hook", "cut"} /\ CurShape(own, pos, t) /\ InFile(t)
  BY DEF Hook, Cut, Shape, InFile, AfterGetSize
<1>2. SUFFICES ASSUME c = job[t].cur PROVE FALSE
  <2>1. \A d \in Clusters : d # job[t].cur => next'[d] = next[d]
    BY DEF Hook, Cut, IInv, TypeOK
  <2> QED BY <1>2, <2>1
<1>3. handle[t] \in Indices /\ bft[handle[t]].size = job[t].size
  BY <1>1, InsideFile
<1>4. own[c] = File(handle[t]) /\ i = handle[t]
  BY <1>1, <1>2, OwnersDiffer DEF CurShape
<1>5. CASE pc[t] = "hook"
  <2>1. pos[c] + 1 = Ext(job[t].size)
    BY <1>1, <1>2, <1>5 DEF CurShape
  <2>2. Extent(i) = Ext(job[t].size)
    BY <1>1, <1>4, <1>5, InsideFile
  <2> QED BY <1>0, <2>1, <2>2
<1>6. CASE pc[t] = "cut"
  <2>1. pos[c] + 1 = Ext(job[t].arg) /\ job[t].kind = "ftruncate"
    BY <1>1, <1>2, <1>6 DEF CurShape
  <2>2. writer[i] = t
    BY <1>1, <1>4, <2>1, WriterAlone
  <2>3. ChainSize(i) = NewSize(t)
    BY <1>6, <2>2, ChainSizeIs, LevelAssumption
  <2>4. Extent(i) = Ext(job[t].arg)
    BY <2>1, <2>3, ChainSizeType DEF NewSize
  <2> QED BY <1>0, <2>1, <2>4
<1> QED BY <1>1, <1>5, <1>6

\* No step changes a link between two clusters of a file.
LEMMA LinksStay ==
  ASSUME IInv, NEW own, NEW pos, Shape(own, pos), Next, Sound,
         NEW i \in Indices, NEW c \in Clusters, own[c] = File(i), pos[c] + 1 < Extent(i)
  PROVE  next'[c] = next[c]
<1>1. c \in bitmap /\ next \in [Clusters -> Links]
  BY OwnersDiffer DEF Shape, Marked, IInv, TypeOK
<1>2. ASSUME NEW t \in Threads, NEW n \in Names, Mknod(t, n)
      PROVE  next'[c] = next[c]
  <2>1. UNCHANGED next \/ \E d \in First(FreeClusters) : next' = [next EXCEPT ![d] = EOF]
    BY <1>2 DEF Mknod, table
  <2>2. \A d \in First(FreeClusters) : d # c
    BY <1>1, FirstSubset DEF FreeClusters
  <2> QED BY <1>1, <2>1, <2>2
<1>3. ASSUME NEW t \in Threads, \E n \in Names : Unlink(t, n) \/ Open(t, n)
      PROVE  UNCHANGED next
  BY <1>3 DEF Unlink, Open, table
<1>4. ASSUME NEW t \in Threads, \E old, new \in Names : Rename(t, old, new)
      PROVE  UNCHANGED next
  BY <1>4 DEF Rename
<1>5. ASSUME NEW t \in Threads, Attributes(t) \/ Release(t)
      PROVE  UNCHANGED next
  BY <1>5 DEF Attributes, Release, table
<1>6. ASSUME NEW t \in Threads, NEW kind, NEW arg, BeginRead(t, arg) \/ BeginWrite(t, kind, arg)
      PROVE  UNCHANGED next
  BY <1>6 DEF BeginRead, BeginWrite, Begin, table
<1>7. ASSUME NEW t \in Threads, Continue(t)
      PROVE  next'[c] = next[c]
  BY <1>7, LinkWriters, FillLinks, LastLink
<1> QED BY Steps, <1>2, <1>3, <1>4, <1>5, <1>6, <1>7

\* The chain of a file that its writer has locked, before the commit.
LEMMA LockedSize ==
  ASSUME IInv, NEW t \in Threads, InFile(t), job[t].kind # "read", pc[t] # "size"
  PROVE  /\ handle[t] \in Indices /\ writer[handle[t]] = t
         /\ job[t].size \in Nat /\ job[t].arg \in Nat /\ NewSize(t) \in Nat
         /\ Extent(handle[t]) = IF pc[t] \in {"cut", "commit"} THEN Ext(NewSize(t)) ELSE Ext(job[t].size)
<1>1. handle[t] \in Indices /\ writer[handle[t]] = t
  BY WriterAlone
<1>2. job[t].size \in Nat /\ job[t].arg \in Nat /\ bft[handle[t]].size = job[t].size
  BY JobAt, InsideFile
<1>3. NewSize(t) \in Nat
  BY <1>2 DEF NewSize, Greater
<1>4. ChainSize(handle[t]) = IF pc[t] \in {"cut", "commit"} THEN NewSize(t) ELSE job[t].size
  BY <1>1, <1>2, ChainSizeIs, LevelAssumption
<1> QED BY <1>1, <1>2, <1>3, <1>4, ChainSizeType

\* The step that hands a longer or an equal chain to the commit.
LEMMA CommitNextExtent ==
  ASSUME IInv, IInv', NEW t \in Threads, InFile(t), job[t].kind # "read",
         pc[t] \notin {"size", "cut", "commit"}, pc'[t] = "commit",
         handle' = handle, job'[t].kind = job[t].kind, job'[t].arg = job[t].arg,
         job'[t].size = job[t].size,
         Ext(job[t].size) <= Ext(NewSize(t))
  PROVE  Extent(handle[t]) <= Extent(handle[t])'
<1>1. Extent(handle[t]) = Ext(job[t].size) /\ pc[t] # "size"
  BY LockedSize
<1>2. NewSize(t)' = NewSize(t)
  BY DEF NewSize
<1>3. InFile(t)' /\ job'[t].kind # "read" /\ pc'[t] = "commit"
  BY DEF InFile, AfterGetSize
<1>4. Extent(handle[t])' = Ext(NewSize(t))
  <2>1. writer'[handle[t]] = t
    BY <1>3 DEF IInv, Rest, Locked
  <2>2. ChainSize(handle[t])' = NewSize(t)'
    BY <1>3, <2>1 DEF ChainSize, NewSize
  <2> QED BY <1>2, <2>2 DEF Extent, Ext, Required
<1> QED BY <1>1, <1>4

\* A file that the thread of the step does not end an operation on.
LEMMA ExtentKept ==
  ASSUME IInv, IInv', NEW t \in Threads, NEW i \in Indices,
         \A u \in Threads \ {t} : pc'[u] = pc[u] /\ job'[u] = job[u],
         bft'[i].size = bft[i].size,
         \/ writer'[i] = writer[i]
         \/ {writer[i], writer'[i]} \subseteq {t, None},
         writer[i] = t => pc[t] \notin {"cut", "commit"},
         writer'[i] = t => pc'[t] \notin {"cut", "commit"}
  PROVE  Extent(i)' = Extent(i)
<1>1. ChainSize(i)' = ChainSize(i)
  BY KeepsChainSize
<1> QED BY <1>1 DEF Extent, Required

\* A step outside the operations on files that leaves an entry in use.
LEMMA OutsideExtent ==
  ASSUME IInv, IInv', NEW t \in Threads, NEW i \in Indices, pc[t] \in {"idle", "reap"},
         \A u \in Threads \ {t} : pc'[u] = pc[u] /\ job'[u] = job[u],
         pc'[t] \notin {"cut", "commit"}, bft'[i].size = bft[i].size,
         writer'[i] = writer[i] \/ (writer[i] = None /\ writer'[i] = t)
  PROVE  Extent(i)' = Extent(i)
BY ExtentKept

\* An operation on paths changes nothing but names in the entries that it leaves
\* in use.
LEMMA PathEntries ==
  ASSUME IInv, NEW t \in Threads, NEW i \in Indices, bft[i].name # NoName, bft'[i].name # NoName,
         ~RenameSame,
         \/ \E n \in Names : Mknod(t, n) \/ Unlink(t, n)
         \/ \E old, new \in Names : Rename(t, old, new)
  PROVE  bft'[i].size = bft[i].size /\ bft'[i].first = bft[i].first
<1>1. bft \in [Indices -> Entries]
  BY DEF IInv, TypeOK
<1>2. ASSUME NEW n \in Names, Mknod(t, n) PROVE bft'[i].size = bft[i].size /\ bft'[i].first = bft[i].first
  <2>1. \/ UNCHANGED bft
        \/ \E k \in Find(NoName), c \in First(FreeClusters) :
             bft' = [bft EXCEPT ![k] = [name |-> n, first |-> c, size |-> 0]]
    BY <1>2 DEF Mknod, table
  <2> QED BY <2>1, <1>1, FindType
<1>3. ASSUME NEW n \in Names, Unlink(t, n) PROVE bft'[i].size = bft[i].size /\ bft'[i].first = bft[i].first
  <2>1. PICK k \in Find(n) : UNCHANGED bft \/ bft' = [bft EXCEPT ![k] = Zeroed]
    BY <1>3 DEF Unlink
  <2>2. k \in Indices /\ (bft' = [bft EXCEPT ![k] = Zeroed] => i # k)
    BY <1>1, FindType DEF Zeroed
  <2> QED BY <2>1, <2>2, <1>1
<1>4. ASSUME NEW old \in Names, NEW new \in Names, Rename(t, old, new)
      PROVE  bft'[i].size = bft[i].size /\ bft'[i].first = bft[i].first
  <2>1. CASE RenameExchange(t, old, new)
    <3>1. PICK k \in Find(old), j \in Find(new) :
            bft' = [bft EXCEPT ![k].name = bft[j].name, ![j].name = bft[k].name]
      BY <2>1 DEF RenameExchange
    <3> QED BY <3>1, <1>1 DEF Entries
  <2>2. CASE RenameMove(t, old, new)
    <3>1. PICK k \in Find(old) : bft' = [bft EXCEPT ![k].name = new]
      BY <2>2 DEF RenameMove
    <3> QED BY <3>1, <1>1 DEF Entries
  <2>3. CASE RenameOver(t, old, new)
    <3>1. PICK k \in Find(old), j \in Find(new) :
            \/ UNCHANGED bft
            \/ /\ old # new
               /\ bft' = [[bft EXCEPT ![j] = Zeroed] EXCEPT ![k].name = new]
      BY <2>3 DEF RenameOver
    <3>2. CASE old # new /\ bft' = [[bft EXCEPT ![j] = Zeroed] EXCEPT ![k].name = new]
      <4>1. k \in Indices /\ j \in Indices /\ k # j
        BY <3>1, <3>2, FindType
      <4>2. PICK f : f = [bft EXCEPT ![j] = Zeroed]
        OBVIOUS
      <4>3. f \in [Indices -> Entries] /\ f[j] = Zeroed /\ bft' = [f EXCEPT ![k].name = new]
        BY <1>1, <3>2, <4>1, <4>2, ZeroIsCluster DEF Entries, Zeroed
      <4>4. i # j
        BY <4>1, <4>3 DEF Zeroed
      <4>5. f[i] = bft[i]
        BY <1>1, <4>2, <4>4
      <4> QED BY <4>3, <4>5 DEF Entries
    <3> QED BY <3>1, <3>2
  <2> QED BY <1>4, <2>1, <2>2, <2>3 DEF Rename
<1> QED BY <1>2, <1>3, <1>4

\* What the steps of an operation leave to others.
LEMMA ContinueFrame ==
  ASSUME IInv, NEW t \in Threads, Continue(t)
  PROVE  /\ \A u \in Threads \ {t} : pc'[u] = pc[u] /\ job'[u] = job[u]
         /\ \/ UNCHANGED writer
            \/ writer' = [k \in Indices |-> IF writer[k] = t THEN None ELSE writer[k]]
         /\ UNCHANGED bft \/ Commit(t)
<1>1. pc \in [Threads -> PCs] /\ job \in [Threads -> Jobs]
  BY DEF IInv, TypeOK
<1>2. UNCHANGED bft \/ Commit(t)
  BY DEF Continue, GetSize, Walk, Arrive, AllocClusters, Fill, Hook, Undo,
         Collect, FreeChain, Cut, Reap, table
<1>3. \/ UNCHANGED writer
      \/ writer' = [k \in Indices |-> IF writer[k] = t THEN None ELSE writer[k]]
  <2>1. GetSize(t) \/ Walk(t) \/ Arrive(t) \/ AllocClusters(t) => <1>3!1 \/ <1>3!2
    BY DEF GetSize, Walk, Arrive, AllocClusters, Finish, locks
  <2>2. Fill(t) \/ Hook(t) \/ Undo(t) \/ Commit(t) => <1>3!1 \/ <1>3!2
    BY DEF Fill, Hook, Undo, Commit, Finish, locks
  <2>3. Collect(t) \/ FreeChain(t) \/ Cut(t) \/ Reap(t) => <1>3!1 \/ <1>3!2
    BY DEF Collect, FreeChain, Cut, Reap, Finish, locks
  <2> QED BY <2>1, <2>2, <2>3 DEF Continue
<1>4. \A u \in Threads \ {t} : pc'[u] = pc[u] /\ job'[u] = job[u]
  <2>1. GetSize(t) \/ Walk(t) \/ Arrive(t) \/ AllocClusters(t) => <1>4!:
    BY <1>1 DEF GetSize, Walk, Arrive, AllocClusters, Finish, GoTo, StartCollect
  <2>2. Fill(t) \/ Hook(t) \/ Undo(t) \/ Commit(t) => <1>4!:
    BY <1>1 DEF Fill, Hook, Undo, Commit, Finish, GoTo
  <2>3. Collect(t) \/ FreeChain(t) \/ Cut(t) \/ Reap(t) => <1>4!:
    BY <1>1 DEF Collect, FreeChain, Cut, Reap, Finish, GoTo
  <2> QED BY <2>1, <2>2, <2>3 DEF Continue
<1> QED BY <1>2, <1>3, <1>4

\* An operation on a file leaves the chains of the others.
LEMMA OthersExtent ==
  ASSUME IInv, IInv', NEW t \in Threads, Continue(t), NEW i \in Indices, writer[i] # t
  PROVE  Extent(i)' = Extent(i)
<1>1. writer'[i] = writer[i]
  BY ContinueFrame
<1>2. bft'[i].size = bft[i].size
  <2>1. ASSUME Commit(t) PROVE bft'[i].size = bft[i].size
    <3>1. InFile(t) /\ job[t].kind # "read"
      BY <2>1 DEF Commit, InFile, AfterGetSize, IInv, Rest, KindOK, KindAt
    <3>2. handle[t] # i
      BY <3>1, WriterAlone
    <3> QED BY <2>1, <3>2 DEF Commit, IInv, TypeOK
  <2> QED BY <2>1, ContinueFrame
<1>3. \A u \in Threads \ {t} : pc'[u] = pc[u] /\ job'[u] = job[u]
  BY ContinueFrame
<1> QED BY <1>1, <1>2, <1>3, ExtentKept

\* An operation leaves its file as many clusters as it had, until bsfs_ftruncate
\* frees some.
LEMMA WriterExtent ==
  ASSUME IInv, IInv', NEW own, NEW pos, Shape(own, pos), NEW t \in Threads, Continue(t), Sound,
         NEW i \in Indices, writer[i] = t, ~(pc[t] = "free" /\ pc'[t] = "cut")
  PROVE  Extent(i) <= Extent(i)'
<1>0. Extent(i) \in Nat
  BY ChainSizeType
<1>1. InFile(t) /\ handle[t] = i /\ t # None
  BY LevelAssumption DEF IInv, Rest, LockHeld
<1>2. job[t].kind # "read"
  BY <1>1 DEF IInv, Rest, Locked, Exclusive
<1>3. /\ \A u \in Threads \ {t} : pc'[u] = pc[u] /\ job'[u] = job[u]
      /\ writer'[i] \in {t, None} /\ (UNCHANGED bft \/ Commit(t))
  BY ContinueFrame
<1>4. pc \in [Threads -> PCs] /\ job \in [Threads -> Jobs] /\ bft \in [Indices -> Entries]
  BY DEF IInv, TypeOK
<1>5. CASE pc[t] \notin {"cut", "commit"} /\ pc'[t] \notin {"cut", "commit"}
  <2>1. UNCHANGED bft
    BY <1>3, <1>5 DEF Commit
  <2>2. Extent(i)' = Extent(i)
    BY <1>3, <1>5, <2>1, ExtentKept
  <2> QED BY <1>0, <2>2
<1>6. CASE GetSize(t) /\ pc'[t] = "commit"
  <2>1. /\ job[t].kind = "ftruncate" /\ Required(job[t].arg) = Required(bft[i].size)
        /\ job'[t].kind = job[t].kind /\ job'[t].arg = job[t].arg /\ writer' = writer
    <3>1. PICK s, a, k, first, hops :
            /\ s = bft[i].size /\ a = job[t].arg /\ k = job[t].kind
            /\ first = bft[i].first /\ hops = EofHops(Lesser(a, s))
      OBVIOUS
    <3>2. /\ job' = [job EXCEPT ![t].size = s, ![t].cur = first, ![t].hops = hops]
          /\ SameClusters(k, a, s) /\ writer' = writer
      BY <1>1, <1>4, <1>6, <3>1 DEF GetSize, Finish, GoTo, locks
    <3>3. job'[t].kind = k /\ job'[t].arg = a
      <4>1. PICK j \in Jobs : j = job[t]
        BY <1>4
      <4>2. job'[t] = [j EXCEPT !.size = s, !.cur = first, !.hops = hops]
        BY <1>4, <3>2, <4>1
      <4> QED BY <3>1, <4>1, <4>2 DEF Jobs
    <3> QED BY <3>1, <3>2, <3>3 DEF SameClusters
  <2>2. ChainSize(i)' = job[t].arg
    BY <1>6, <2>1 DEF ChainSize, NewSize
  <2>3. ChainSize(i) = bft[i].size
    BY <1>1, <1>6, ChainSizeIs DEF GetSize
  <2>4. Extent(i)' = Extent(i)
    BY <2>1, <2>2, <2>3 DEF Extent
  <2> QED BY <1>0, <2>4
<1>7. ASSUME pc[t] \notin {"size", "cut", "commit"}, pc'[t] = "commit",
             handle' = handle, job' = job, Ext(job[t].size) <= Ext(NewSize(t))
      PROVE  Extent(i) <= Extent(i)'
  BY <1>1, <1>2, <1>7, CommitNextExtent
<1>8. CASE Arrive(t) /\ pc'[t] = "commit"
  <2>1. pc[t] = "walk" /\ handle' = handle /\ job' = job /\ NewSize(t) = job[t].size
    <3>1. pc[t] = "walk" /\ handle' = handle
      BY <1>8 DEF Arrive
    <3>2. job' = job /\ job[t].kind = "write" /\ job[t].arg <= job[t].size
      BY <1>4, <1>8 DEF Arrive, Finish, GoTo, StartCollect
    <3>3. job[t].arg \in Nat /\ job[t].size \in Nat
      BY JobAt
    <3> QED BY <3>1, <3>2, <3>3 DEF NewSize, Greater
  <2>2. Ext(job[t].size) \in Nat
    BY JobAt, ExtOf
  <2> QED BY <1>7, <1>8, <2>1, <2>2
<1>9. CASE Hook(t) /\ pc'[t] = "commit"
  <2>1. pc[t] = "hook" /\ handle' = handle /\ job' = job
    BY <1>9 DEF Hook
  <2>2. job[t].size < job[t].arg /\ job[t].size \in Nat /\ job[t].arg \in Nat
    BY <2>1, JobAt DEF Shape, CurShape
  <2>3. NewSize(t) \in Nat /\ job[t].size <= NewSize(t)
    BY <2>2 DEF NewSize, Greater
  <2>4. Ext(job[t].size) <= Ext(NewSize(t))
    BY <2>2, <2>3, ExtMonotone
  <2> QED BY <1>7, <1>9, <2>1, <2>4
<1>10. CASE Cut(t)
  <2>1. /\ pc[t] = "cut" /\ pc'[t] = "commit" /\ job' = job /\ UNCHANGED <<writer, bft>>
    BY <1>4, <1>10 DEF Cut, GoTo, Sound, locks
  <2>2. ChainSize(i)' = ChainSize(i)
    BY <2>1 DEF ChainSize, NewSize
  <2>3. Extent(i)' = Extent(i)
    BY <2>2 DEF Extent, Required
  <2> QED BY <1>0, <2>3
<1>11. CASE Commit(t)
  <2>1. bft'[i].size = NewSize(t) /\ writer'[i] = None /\ pc[t] = "commit"
    <3>1. NewSize(t) \in Nat /\ bft' = [bft EXCEPT ![i].size = NewSize(t)]
      BY <1>1, <1>11, <1>2, LockedSize DEF Commit
    <3> QED BY <1>4, <1>11, <3>1 DEF Commit, Finish, Entries
  <2>2. ChainSize(i)' = bft'[i].size
    BY <2>1, LevelAssumption DEF ChainSize
  <2>3. ChainSize(i) = NewSize(t)
    BY <1>1, <2>1, ChainSizeIs
  <2>4. Extent(i)' = Extent(i)
    BY <2>1, <2>2, <2>3 DEF Extent
  <2> QED BY <1>0, <2>4
<1>12. CASE FreeChain(t) \/ Collect(t) \/ AllocClusters(t) \/ Fill(t) \/ Undo(t) \/ Walk(t) \/ Reap(t)
  <2>1. pc[t] \notin {"cut", "commit"} /\ pc'[t] \notin {"commit"}
    <3>1. FreeChain(t) \/ Collect(t) \/ AllocClusters(t) => <2>1!:
      BY <1>4 DEF FreeChain, Collect, AllocClusters, Finish, GoTo
    <3>2. Fill(t) \/ Undo(t) \/ Walk(t) \/ Reap(t) => <2>1!:
      BY <1>4 DEF Fill, Undo, Walk, Reap, Finish, GoTo
    <3> QED BY <1>12, <3>1, <3>2
  <2>2. pc'[t] # "cut"
    <3>1. FreeChain(t) => pc[t] = "free"
      BY DEF FreeChain
    <3>2. Collect(t) \/ AllocClusters(t) => pc'[t] # "cut"
      BY <1>4 DEF Collect, AllocClusters, Finish, GoTo
    <3>3. Fill(t) \/ Undo(t) \/ Walk(t) \/ Reap(t) => pc'[t] # "cut"
      BY <1>4 DEF Fill, Undo, Walk, Reap, Finish, GoTo
    <3> QED BY <1>12, <3>1, <3>2, <3>3
  <2> QED BY <1>5, <2>1, <2>2
<1>13. CASE (GetSize(t) \/ Arrive(t) \/ Hook(t)) /\ pc'[t] # "commit"
  <2>1. pc[t] \notin {"cut", "commit"} /\ pc'[t] # "cut"
    BY <1>4, <1>13 DEF GetSize, Arrive, Hook, Finish, GoTo, StartCollect
  <2> QED BY <1>5, <1>13, <2>1
<1> QED BY <1>6, <1>8, <1>9, <1>10, <1>11, <1>12, <1>13 DEF Continue

\* So every step but that one.
LEMMA ExtentStays ==
  ASSUME IInv, IInv', NEW own, NEW pos, Shape(own, pos), Next, Sound,
         NEW i \in Indices, bft[i].name # NoName, bft'[i].name # NoName,
         ~\E t \in Threads : pc[t] = "free" /\ pc'[t] = "cut" /\ handle[t] = i
  PROVE  Extent(i) <= Extent(i)'
<1>0. Extent(i) \in Nat
  BY ChainSizeType
<1>1. pc \in [Threads -> PCs] /\ job \in [Threads -> Jobs]
  BY DEF IInv, TypeOK
<1>2. ASSUME NEW t \in Threads,
             \/ \E n \in Names : Mknod(t, n) \/ Unlink(t, n)
             \/ \E old, new \in Names : Rename(t, old, new)
      PROVE  Extent(i) <= Extent(i)'
  <2>1. bft'[i].size = bft[i].size
    BY <1>2, PathEntries DEF Sound
  <2>2. /\ pc[t] = "idle" /\ pc'[t] \in {"idle", "collect"} /\ writer' = writer
        /\ \A u \in Threads \ {t} : pc'[u] = pc[u] /\ job'[u] = job[u]
    <3>1. ASSUME NEW n \in Names, Mknod(t, n) PROVE <2>2!:
      BY <1>1, <3>1 DEF Mknod, locks
    <3>2. ASSUME NEW n \in Names, Unlink(t, n) PROVE <2>2!:
      BY <1>1, <3>2 DEF Unlink, StartCollect, GoTo, locks
    <3>3. ASSUME NEW old \in Names, NEW new \in Names, Rename(t, old, new) PROVE <2>2!:
      BY <1>1, <3>3 DEF Rename, RenameExchange, RenameMove, RenameOver, StartCollect, GoTo, locks
    <3> QED BY <1>2, <3>1, <3>2, <3>3
  <2> QED BY <1>0, <2>1, <2>2, OutsideExtent
<1>3. ASSUME NEW t \in Threads, Attributes(t) \/ Release(t) \/ \E n \in Names : Open(t, n)
      PROVE  Extent(i) <= Extent(i)'
  <2>1. /\ pc[t] = "idle" /\ pc'[t] \in {"idle", "reap"} /\ writer' = writer /\ bft' = bft
        /\ \A u \in Threads \ {t} : pc'[u] = pc[u] /\ job'[u] = job[u]
    BY <1>1, <1>3 DEF Attributes, Release, Open, GoTo, locks, table
  <2> QED BY <1>0, <2>1, OutsideExtent
<1>4. ASSUME NEW t \in Threads, NEW kind, NEW arg, BeginRead(t, arg) \/ BeginWrite(t, kind, arg)
      PROVE  Extent(i) <= Extent(i)'
  <2>1. /\ pc[t] = "idle" /\ pc'[t] = "size" /\ bft' = bft
        /\ \A u \in Threads \ {t} : pc'[u] = pc[u] /\ job'[u] = job[u]
    BY <1>1, <1>4 DEF BeginRead, BeginWrite, Begin, GoTo, table
  <2>2. writer'[i] = writer[i] \/ (writer[i] = None /\ writer'[i] = t)
    BY <1>4 DEF BeginRead, BeginWrite, IInv, TypeOK
  <2> QED BY <1>0, <2>1, <2>2, OutsideExtent
<1>5. ASSUME NEW t \in Threads, Continue(t)
      PROVE  Extent(i) <= Extent(i)'
  <2>1. CASE writer[i] # t
    BY <1>0, <1>5, <2>1, OthersExtent
  <2>2. CASE writer[i] = t
    <3>1. handle[t] = i
      BY <2>2 DEF IInv, Rest, LockHeld
    <3> QED BY <1>5, <2>2, <3>1, WriterExtent
  <2> QED BY <2>1, <2>2
<1> QED BY Steps, <1>2, <1>3, <1>4, <1>5

----------------------------------------------------------------------------
(***************************************************************************)
(* Following links in two states.                                          *)
(***************************************************************************)

\* f is the sequence of the first k links from c in the links l.
Along(f, c, k, l) ==
  f = [j \in 0 .. k |-> IF j = 0 THEN c ELSE IF f[j - 1] \in Clusters THEN l[f[j - 1]] ELSE f[j - 1]]

\* Two sequences of the same links end in the same place.
LEMMA SameLinks ==
  ASSUME NEW c, NEW k \in Nat, NEW f, NEW g, NEW l, Along(f, c, k, l), Along(g, c, k, l)
  PROVE  f[k] = g[k]
<1> DEFINE Bad == {n \in Nat : n <= k /\ f[n] # g[n]}
<1> SUFFICES ASSUME Bad # {} PROVE FALSE
  OBVIOUS
<1>1. PICK n \in Bad : \A m \in 0 .. n - 1 : m \notin Bad
  BY LeastNat
<1>2. CASE n = 0
  <2>1. f[0] = c /\ g[0] = c
    BY DEF Along
  <2> QED BY <1>1, <1>2, <2>1
<1>3. CASE n # 0
  <2>1. n - 1 \in 0 .. n - 1 /\ n - 1 \in Nat /\ n - 1 <= k /\ n \in 0 .. k
    BY <1>1, <1>3
  <2>2. f[n - 1] = g[n - 1]
    BY <1>1, <2>1
  <2>3. /\ f[n] = IF f[n - 1] \in Clusters THEN l[f[n - 1]] ELSE f[n - 1]
        /\ g[n] = IF g[n - 1] \in Clusters THEN l[g[n - 1]] ELSE g[n - 1]
    BY <1>3, <2>1 DEF Along
  <2> QED BY <1>1, <2>2, <2>3
<1> QED BY <1>2, <1>3

\* Where no link changes on the way, the end of the way is the same.
LEMMA SamePath ==
  ASSUME NEW c, NEW k \in Nat, NEW S, c \in S[0],
         \A j \in 0 .. k - 1 : \A x \in S[j] :
           x \in Clusters /\ next[x] \in S[j + 1] /\ next'[x] = next[x]
  PROVE  Follow(c, k)' = Follow(c, k)
<1>1. PICK f : LinksFrom(f, c, k) /\ Follow(c, k) = f[k]
  BY FollowLinks
<1>2. \A j \in 0 .. k : f[j] = IF j = 0 THEN c ELSE Link(f[j - 1])
  BY <1>1 DEF LinksFrom
<1>3. \A j \in 0 .. k : f[j] \in S[j]
  <2> DEFINE Bad == {n \in Nat : n <= k /\ f[n] \notin S[n]}
  <2> SUFFICES ASSUME Bad # {} PROVE FALSE
    OBVIOUS
  <2>1. PICK n \in Bad : \A m \in 0 .. n - 1 : m \notin Bad
    BY LeastNat
  <2>2. CASE n = 0
    BY <1>2, <2>1, <2>2
  <2>3. CASE n # 0
    <3>1. n - 1 \in 0 .. n - 1 /\ n - 1 \in Nat /\ n - 1 \in 0 .. k - 1 /\ n \in 0 .. k /\ n - 1 + 1 = n
      BY <2>1, <2>3
    <3>2. f[n - 1] \in S[n - 1]
      BY <2>1, <3>1
    <3>3. f[n] = next[f[n - 1]]
      BY <1>2, <2>3, <3>1, <3>2 DEF Link
    <3> QED BY <2>1, <3>1, <3>2, <3>3
  <2> QED BY <2>2, <2>3
<1>4. PICK l : l = next'
  OBVIOUS
<1>5. Along(f, c, k, l)
  <2>1. ASSUME NEW j \in 0 .. k, j # 0 PROVE f[j - 1] \in Clusters /\ f[j] = l[f[j - 1]]
    <3>1. j - 1 \in 0 .. k - 1 /\ j - 1 \in 0 .. k
      BY <2>1
    <3>2. f[j - 1] \in S[j - 1] /\ f[j] = Link(f[j - 1])
      BY <1>2, <1>3, <2>1, <3>1
    <3> QED BY <1>4, <3>1, <3>2 DEF Link
  <2>2. f = [j \in 0 .. k |-> f[j]]
    BY <1>1 DEF LinksFrom
  <2>3. f[0] = c
    BY <1>2
  <2> QED BY <2>1, <2>2, <2>3 DEF Along
<1>6. \E g : Along(g, c, k, l) /\ Follow(c, k)' = g[k]
  <2> DEFINE g == CHOOSE g : Along(g, c, k, l)
  <2>1. Along(g, c, k, l)
    BY <1>5
  <2>2. Follow(c, k)' = g[k]
    BY <1>4 DEF Follow, Along
  <2> QED BY <2>1, <2>2
<1> QED BY <1>1, <1>5, <1>6, SameLinks

----------------------------------------------------------------------------
(***************************************************************************)
(* The inductive invariant.                                                *)
(***************************************************************************)
DiskType ==
  /\ diskBft \in [Indices -> Entries] /\ diskBitmap \subseteq Clusters
  /\ flushing \in BOOLEAN /\ trusted \in BOOLEAN /\ safe \subseteq Indices

\* Names are unique on the disk as well.
DiskNames == \A i, j \in Indices :
               diskBft[i].name # NoName /\ diskBft[i].name = diskBft[j].name => i = j

\* Between the two writes of a flush the bitmap on the disk is that in memory.
FlushInv == flushing => diskBitmap = bitmap

\* The entry on the disk is that of a file whose first clusters are its own.
Kept(i) ==
  /\ bft[i].name # NoName /\ diskBft[i].name # NoName
  /\ diskBft[i].first = bft[i].first
  /\ DiskExtent(i) <= Extent(i)
  /\ DiskClusters(i) \subseteq diskBitmap

\* bsfs_fallocate commits only a size that is larger.
FallocGrows == \A t \in Threads : pc[t] = "commit" /\ job[t].kind = "fallocate" =>
                 job[t].size < job[t].arg

TrustInv == trusted => Owned /\ FallocGrows /\ \A i \in safe : Kept(i)

\* From a crash that lost something to the first change after it.
LossInv == ~trusted /\ safe # {} => /\ diskBft = bft /\ diskBitmap = bitmap
                                    /\ FsyncedFilesSurvive

CInv == IInv /\ NamesUnique /\ DiskType /\ DiskNames /\ FlushInv /\ TrustInv /\ LossInv

\* The entries on the disk have a size, and so an extent.
LEMMA DiskExtentType ==
  ASSUME DiskType, NEW i \in Indices
  PROVE  /\ diskBft[i].size \in Nat /\ DiskExtent(i) \in Nat \ {0}
         /\ DiskExtent(i) = Ext(diskBft[i].size)
<1>1. diskBft[i].size \in Nat
  BY DEF DiskType, Entries
<1>2. DiskExtent(i) = Ext(diskBft[i].size)
  BY DEF DiskExtent, Ext
<1> QED BY <1>1, <1>2, ExtOf

\* The clusters of then are the first ones of now.
LEMMA DiskClustersAre ==
  ASSUME IInv, DiskType, NEW own, NEW pos, Shape(own, pos), NEW i \in Indices, Kept(i),
         NEW k \in 0 .. DiskExtent(i) - 1
  PROVE  LET c == Follow(diskBft[i].first, k)
         IN  c \in Clusters /\ own[c] = File(i) /\ pos[c] = k /\ c \in bitmap
<1>1. k \in 0 .. Extent(i) - 1
  <2>1. DiskExtent(i) \in Nat /\ Extent(i) \in Nat /\ DiskExtent(i) <= Extent(i)
    BY DiskExtentType, ChainSizeType DEF Kept
  <2> QED BY <2>1
<1>2. PICK c : c = Follow(diskBft[i].first, k)
  OBVIOUS
<1>3. c \in Clusters /\ own[c] = File(i) /\ pos[c] = k
  BY <1>1, <1>2, ChainIs DEF Kept
<1>4. c \in bitmap
  BY <1>3, OwnersDiffer DEF Shape, Marked
<1> QED BY <1>2, <1>3, <1>4

\* So they are distinct, and so are those of two files.
LEMMA KeptSurvive ==
  ASSUME IInv, DiskType, DiskNames, Owned, \A i \in safe : Kept(i)
  PROVE  FsyncedFilesSurvive
<1>1. PICK own, pos : Shape(own, pos)
  BY DEF Owned
<1> SUFFICES ASSUME NEW i \in safe
             PROVE  /\ diskBft[i].name # NoName
                    /\ \A j \in Indices \ {i} : diskBft[j].name # diskBft[i].name
                    /\ DiskClusters(i) \subseteq diskBitmap
                    /\ Cardinality(DiskClusters(i)) = DiskExtent(i)
                    /\ \A j \in safe \ {i} : DiskClusters(i) \cap DiskClusters(j) = {}
  BY DEF FsyncedFilesSurvive
<1>2. i \in Indices /\ Kept(i)
  BY DEF DiskType
<1>3. \A j \in Indices \ {i} : diskBft[j].name # diskBft[i].name
  BY <1>2 DEF DiskNames, Kept
<1>4. Cardinality(DiskClusters(i)) = DiskExtent(i)
  <2>1. PICK n, f : n \in Nat /\ n = DiskExtent(i) /\ f = [k \in 1 .. n |-> Follow(diskBft[i].first, k - 1)]
    <3>1. DiskExtent(i) \in Nat
      BY <1>2, DiskExtentType
    <3> QED BY <3>1
  <2>2. ASSUME NEW k \in 1 .. n PROVE pos[f[k]] = k - 1 /\ f[k] \in DiskClusters(i)
    <3>1. k - 1 \in 0 .. DiskExtent(i) - 1
      BY <2>1
    <3> QED BY <1>1, <1>2, <2>1, <3>1, DiskClustersAre DEF DiskClusters
  <2>3. ASSUME NEW c \in DiskClusters(i) PROVE \E k \in 1 .. n : f[k] = c
    <3>1. PICK k \in 0 .. n - 1 : c = Follow(diskBft[i].first, k)
      BY <2>1 DEF DiskClusters
    <3>2. k + 1 \in 1 .. n /\ f[k + 1] = c
      BY <2>1, <3>1
    <3> QED BY <3>2
  <2>4. f \in Bijection(1 .. n, DiskClusters(i))
    <3>1. f \in [1 .. n -> DiskClusters(i)]
      BY <2>1, <2>2
    <3>2. \A k, l \in 1 .. n : f[k] = f[l] => k = l
      BY <2>2
    <3> QED BY <2>3, <3>1, <3>2 DEF Bijection, Injection, Surjection, IsInjective
  <2>5. Cardinality(DiskClusters(i)) = n
    <3>1. IsFiniteSet(1 .. n) /\ Cardinality(1 .. n) = n
      BY <2>1, FS_Interval
    <3> QED BY <2>4, <3>1, FS_Bijection DEF ExistsBijection
  <2> QED BY <2>1, <2>5
<1>5. ASSUME NEW j \in safe \ {i} PROVE DiskClusters(i) \cap DiskClusters(j) = {}
  <2>1. j \in Indices /\ Kept(j)
    BY DEF DiskType
  <2>2. \A c \in DiskClusters(i) : own[c] = File(i)
    BY <1>1, <1>2, DiskClustersAre DEF DiskClusters
  <2>3. \A c \in DiskClusters(j) : own[c] = File(j)
    BY <1>1, <2>1, DiskClustersAre DEF DiskClusters
  <2> QED BY <2>2, <2>3, OwnersDiffer
<1> QED BY <1>2, <1>3, <1>4, <1>5 DEF Kept

\* An operation on paths, or a write of the size, keeps the first cluster.
LEMMA FirstKept ==
  ASSUME IInv, Next, Sound, NEW i \in Indices, bft[i].name # NoName, bft'[i].name # NoName
  PROVE  bft'[i].first = bft[i].first
<1>1. bft \in [Indices -> Entries]
  BY DEF IInv, TypeOK
<1>2. ASSUME NEW t \in Threads,
             \/ \E n \in Names : Mknod(t, n) \/ Unlink(t, n)
             \/ \E old, new \in Names : Rename(t, old, new)
      PROVE  bft'[i].first = bft[i].first
  BY <1>2, PathEntries DEF Sound
<1>3. ASSUME NEW t \in Threads, Attributes(t) \/ Release(t) \/ \E n \in Names : Open(t, n)
      PROVE  UNCHANGED bft
  BY <1>3 DEF Attributes, Release, Open, table
<1>4. ASSUME NEW t \in Threads, NEW kind, NEW arg, BeginRead(t, arg) \/ BeginWrite(t, kind, arg)
      PROVE  UNCHANGED bft
  BY <1>4 DEF BeginRead, BeginWrite, Begin, table
<1>5. ASSUME NEW t \in Threads, Continue(t)
      PROVE  bft'[i].first = bft[i].first
  <2>1. ASSUME Commit(t) PROVE bft'[i].first = bft[i].first
    BY <1>1, <2>1 DEF Commit, Entries
  <2> QED BY <1>5, <2>1, ContinueFrame
<1> QED BY Steps, <1>2, <1>3, <1>4, <1>5

\* An extent is a number after a step as well.
LEMMA ExtentTypeNext ==
  ASSUME IInv', NEW i \in Indices
  PROVE  Extent(i)' \in Nat
<1>1. ChainSize(i)' \in Nat
  <2>1. bft'[i].size \in Nat
    BY DEF IInv, TypeOK, Entries
  <2>2. ASSUME NEW t \in Threads PROVE NewSize(t)' \in Nat
    <3>1. job'[t].size \in Nat /\ job'[t].arg \in Nat
      BY DEF IInv, TypeOK, Jobs
    <3> QED BY <3>1 DEF NewSize, Greater
  <2> QED BY <2>1, <2>2 DEF ChainSize
<1>2. Ext(ChainSize(i)') \in Nat
  BY <1>1, ExtOf
<1> QED BY <1>2 DEF Extent, Ext, Required

\* A step of Level leaves the files of the disk where they are.
LEMMA DiskClustersStay ==
  ASSUME IInv, DiskType, NEW own, NEW pos, Shape(own, pos), Next, Sound,
         UNCHANGED diskBft, NEW i \in Indices, Kept(i)
  PROVE  DiskClusters(i)' = DiskClusters(i) /\ DiskExtent(i)' = DiskExtent(i)
<1>1. PICK first, e : first = diskBft[i].first /\ e = DiskExtent(i)
  OBVIOUS
<1>2. DiskExtent(i)' = DiskExtent(i)
  BY DEF DiskExtent, Required
<1>3. e \in Nat /\ Extent(i) \in Nat /\ e <= Extent(i)
  BY <1>1, DiskExtentType, ChainSizeType DEF Kept
<1>4. ASSUME NEW k \in 0 .. e - 1 PROVE Follow(first, k)' = Follow(first, k)
  <2>1. PICK S : S = [j \in 0 .. k |-> {c \in Clusters : own[c] = File(i) /\ pos[c] = j}]
    OBVIOUS
  <2>2. first \in S[0]
    <3>1. FileShape(own, pos, i) /\ first \in Clusters
      BY <1>1 DEF Shape, DiskType, Entries
    <3>2. own[first] = File(i) /\ pos[first] = 0
      BY <1>1, <3>1 DEF FileShape, Kept
    <3> QED BY <1>3, <2>1, <3>1, <3>2
  <2>3. ASSUME NEW j \in 0 .. k - 1, NEW x \in S[j]
        PROVE  x \in Clusters /\ next[x] \in S[j + 1] /\ next'[x] = next[x]
    <3>1. x \in Clusters /\ own[x] = File(i) /\ pos[x] = j /\ j + 1 \in 0 .. k
      BY <2>1
    <3>2. pos[x] + 1 < Extent(i)
      BY <1>3, <3>1
    <3>3. next[x] \in Clusters /\ own[next[x]] = File(i) /\ pos[next[x]] = pos[x] + 1
      BY <3>1, <3>2 DEF Shape, FileShape, Kept
    <3>4. next'[x] = next[x]
      BY <3>1, <3>2, LinksStay
    <3> QED BY <2>1, <3>1, <3>3, <3>4
  <2>4. k \in Nat
    BY <1>3
  <2> QED BY <2>2, <2>3, <2>4, SamePath
<1>5. DiskClusters(i) = {Follow(first, k) : k \in 0 .. e - 1}
  BY <1>1 DEF DiskClusters
<1>6. DiskClusters(i)' = {Follow(first, k)' : k \in 0 .. e - 1}
  BY <1>1, <1>2 DEF DiskClusters
<1> QED BY <1>2, <1>4, <1>5, <1>6

\* Only bs_do_write_extend brings bsfs_fallocate to its commit.
LEMMA GrowsStep ==
  ASSUME IInv, NEW own, NEW pos, Shape(own, pos), FallocGrows, Next
  PROVE  FallocGrows'
<1>1. pc \in [Threads -> PCs] /\ job \in [Threads -> Jobs]
  BY DEF IInv, TypeOK
<1>2. SUFFICES ASSUME NEW t \in Threads, pc'[t] = "commit", job'[t].kind = "fallocate"
               PROVE  job'[t].size < job'[t].arg
  BY DEF FallocGrows
<1>3. CASE pc[t] = "commit" /\ job'[t] = job[t]
  BY <1>2, <1>3 DEF FallocGrows
<1>4. ASSUME NEW u \in Threads,
             \/ \E n \in Names : Mknod(u, n) \/ Unlink(u, n) \/ Open(u, n)
             \/ \E old, new \in Names : Rename(u, old, new)
             \/ Attributes(u) \/ Release(u)
      PROVE  pc[t] = "commit" /\ job'[t] = job[t]
  <2>1. ASSUME NEW n \in Names, Mknod(u, n) PROVE pc[t] = "commit" /\ job'[t] = job[t]
    BY <1>2, <2>1 DEF Mknod
  <2>2. ASSUME NEW n \in Names, Unlink(u, n) PROVE pc[t] = "commit" /\ job'[t] = job[t]
    BY <1>1, <1>2, <2>2 DEF Unlink, StartCollect, GoTo
  <2>3. ASSUME NEW old \in Names, NEW new \in Names, Rename(u, old, new) PROVE pc[t] = "commit" /\ job'[t] = job[t]
    BY <1>1, <1>2, <2>3 DEF Rename, RenameExchange, RenameMove, RenameOver, StartCollect, GoTo
  <2>4. ASSUME Attributes(u) \/ Release(u) \/ \E n \in Names : Open(u, n) PROVE pc[t] = "commit" /\ job'[t] = job[t]
    BY <1>1, <1>2, <2>4 DEF Attributes, Release, Open, GoTo
  <2> QED BY <1>4, <2>1, <2>2, <2>3, <2>4
<1>5. ASSUME NEW u \in Threads, NEW kind, NEW arg, BeginRead(u, arg) \/ BeginWrite(u, kind, arg)
      PROVE  pc[t] = "commit" /\ job'[t] = job[t]
  BY <1>1, <1>2, <1>5 DEF BeginRead, BeginWrite, Begin, GoTo
<1>6. ASSUME NEW u \in Threads \ {t}, Continue(u)
      PROVE  pc[t] = "commit" /\ job'[t] = job[t]
  BY <1>2, <1>6, ContinueFrame
<1>7. ASSUME Continue(t) PROVE job'[t].size < job'[t].arg
  <2>1. CASE GetSize(t)
    <3>1. PICK s, a, k, first, hops :
            /\ s = bft[handle[t]].size /\ a = job[t].arg /\ k = job[t].kind
            /\ first = bft[handle[t]].first /\ hops = EofHops(Lesser(a, s))
      OBVIOUS
    <3>2. /\ job' = [job EXCEPT ![t].size = s, ![t].cur = first, ![t].hops = hops]
          /\ k = "ftruncate"
      BY <1>1, <1>2, <2>1, <3>1 DEF GetSize, Finish, GoTo, SameClusters
    <3>3. job'[t].kind = k
      <4>1. PICK j \in Jobs : j = job[t]
        BY <1>1
      <4>2. job'[t] = [j EXCEPT !.size = s, !.cur = first, !.hops = hops]
        BY <1>1, <3>2, <4>1
      <4> QED BY <3>1, <4>1, <4>2 DEF Jobs
    <3> QED BY <1>2, <3>2, <3>3
  <2>2. CASE Arrive(t)
    <3>1. job' = job /\ job[t].kind = "write"
      BY <1>1, <1>2, <2>2 DEF Arrive, Finish, GoTo, StartCollect
    <3> QED BY <1>2, <3>1
  <2>3. CASE Hook(t)
    BY <2>3 DEF Hook, Shape, CurShape
  <2>4. CASE Cut(t)
    <3>1. pc[t] = "cut" /\ job' = job
      BY <1>1, <1>2, <2>4 DEF Cut, Finish
    <3>2. job[t].kind = "ftruncate"
      BY <3>1 DEF Shape, CurShape
    <3> QED BY <1>2, <3>1, <3>2
  <2>5. FreeChain(t) \/ Collect(t) \/ AllocClusters(t) => pc'[t] # "commit"
    BY <1>1 DEF FreeChain, Collect, AllocClusters, Finish, GoTo
  <2>6. Fill(t) \/ Undo(t) \/ Walk(t) \/ Reap(t) \/ Commit(t) => pc'[t] # "commit"
    BY <1>1 DEF Fill, Undo, Walk, Reap, Commit, Finish, GoTo
  <2> QED BY <1>2, <1>7, <2>1, <2>2, <2>3, <2>4, <2>5, <2>6 DEF Continue
<1> QED BY Steps, <1>3, <1>4, <1>5, <1>6, <1>7

\* The operations of the process, until it dies.
LEMMA LevelStepCInv ==
  ASSUME CInv, LevelStep, Sound
  PROVE  CInv'
<1>1. /\ IInv /\ NamesUnique /\ DiskType /\ DiskNames /\ FlushInv /\ TrustInv /\ LossInv
      /\ Next /\ (flushing => bft' = bft /\ bitmap' = bitmap)
      /\ UNCHANGED <<diskBft, diskBitmap, flushing, trusted>>
      /\ safe' = {i \in safe : ~Spoils(i)}
  BY DEF CInv, LevelStep
<1>2. IInv' /\ NamesUnique'
  BY <1>1, NextIInv, NamesStep DEF IInv
<1>3. DiskType' /\ DiskNames' /\ FlushInv'
  BY <1>1 DEF DiskType, DiskNames, FlushInv
<1>4. TrustInv'
  <2> SUFFICES ASSUME trusted PROVE Owned' /\ FallocGrows' /\ \A i \in safe' : Kept(i)'
    BY <1>1 DEF TrustInv
  <2>1. Owned /\ FallocGrows
    BY <1>1 DEF TrustInv
  <2>2. Owned' /\ FallocGrows'
    BY <1>1, <1>2, <2>1, OwnedStep, GrowsStep DEF Owned
  <2>3. ASSUME NEW i \in safe' PROVE Kept(i)'
    <3>1. i \in Indices /\ Kept(i) /\ ~Spoils(i)
      BY <1>1, <2>3 DEF TrustInv, DiskType
    <3>2. PICK own, pos : Shape(own, pos)
      BY <2>1 DEF Owned
    <3>3. /\ bft[i].name # NoName /\ bft'[i].name # NoName
          /\ ~\E t \in Threads : pc[t] = "free" /\ pc'[t] = "cut" /\ handle[t] = i
      BY <3>1 DEF Kept, Spoils
    <3>4. bft'[i].first = bft[i].first
      BY <1>1, <3>1, <3>3, FirstKept
    <3>5. Extent(i) <= Extent(i)'
      BY <1>1, <1>2, <3>1, <3>2, <3>3, ExtentStays
    <3>6. DiskClusters(i)' = DiskClusters(i) /\ DiskExtent(i)' = DiskExtent(i)
      BY <1>1, <3>1, <3>2, DiskClustersStay
    <3>7. DiskExtent(i)' <= Extent(i)'
      <4>1. DiskExtent(i) \in Nat /\ Extent(i) \in Nat /\ DiskExtent(i) <= Extent(i)
        BY <1>1, <3>1, DiskExtentType, ChainSizeType DEF Kept
      <4>2. Extent(i)' \in Nat
        BY <1>2, <3>1, ExtentTypeNext
      <4> QED BY <3>5, <3>6, <4>1, <4>2
    <3> QED BY <1>1, <3>1, <3>3, <3>4, <3>6, <3>7 DEF Kept
  <2> QED BY <2>2, <2>3
<1>5. LossInv'
  <2> SUFFICES ASSUME ~trusted, NEW k \in safe'
               PROVE  (diskBft = bft /\ diskBitmap = bitmap /\ FsyncedFilesSurvive)'
    BY <1>1 DEF LossInv
  <2>1. k \in safe /\ ~Spoils(k)
    BY <1>1
  <2>2. bft' = bft /\ bitmap' = bitmap /\ next' = next
    BY <2>1 DEF Spoils, table
  <2>3. diskBft = bft /\ diskBitmap = bitmap /\ FsyncedFilesSurvive
    BY <1>1, <2>1 DEF LossInv
  <2>4. \A i \in Indices : DiskExtent(i)' = DiskExtent(i) /\ DiskClusters(i)' = DiskClusters(i)
    BY <1>1, <2>2 DEF DiskExtent, DiskClusters, Required, Follow
  <2>5. safe' \subseteq safe /\ safe \subseteq Indices
    BY <1>1 DEF DiskType
  <2>6. FsyncedFilesSurvive'
    BY <1>1, <2>3, <2>4, <2>5 DEF FsyncedFilesSurvive
  <2> QED BY <1>1, <2>2, <2>3, <2>6
<1> QED BY <1>2, <1>3, <1>4, <1>5 DEF CInv

----------------------------------------------------------------------------
(***************************************************************************)
(* The flush and the crash.                                                *)
(***************************************************************************)

\* A step that leaves the level alone.
LEMMA LevelStays ==
  ASSUME IInv, NamesUnique, UNCHANGED vars
  PROVE  /\ IInv' /\ NamesUnique'
         /\ Owned => Owned'
         /\ FallocGrows => FallocGrows'
         /\ \A i \in Indices : Extent(i)' = Extent(i)
<1>1. UNCHANGED <<bft, bitmap, next, writer, pc, handle, job>>
  BY DEF vars, table, locks
<1>2. IInv' /\ NamesUnique'
  BY StutterStep, NamesStep DEF IInv
<1>3. ASSUME Owned PROVE Owned'
  <2>1. PICK own, pos : Shape(own, pos)
    BY <1>3 DEF Owned
  <2>2. Goes(own)
    BY <2>1, StutterGoes
  <2> QED BY <2>2 DEF Goes, Owned
<1>4. FallocGrows => FallocGrows'
  BY <1>1 DEF FallocGrows
<1>5. ASSUME NEW i \in Indices PROVE Extent(i)' = Extent(i)
  BY <1>1 DEF Extent, ChainSize, NewSize, Required
<1> QED BY <1>2, <1>3, <1>4, <1>5

\* fs_write_bitmap.
LEMMA FlushBitmapCInv ==
  ASSUME CInv, FlushBitmap
  PROVE  CInv'
<1>1. /\ IInv /\ NamesUnique /\ DiskType /\ DiskNames /\ TrustInv /\ LossInv
      /\ UNCHANGED vars /\ UNCHANGED <<diskBft, safe, trusted>>
      /\ diskBitmap' = bitmap /\ flushing' = TRUE
  BY DEF CInv, FlushBitmap
<1>2. UNCHANGED <<bft, bitmap, next>>
  BY <1>1 DEF vars, table
<1>3. /\ IInv' /\ NamesUnique' /\ (Owned => Owned') /\ (FallocGrows => FallocGrows')
      /\ \A i \in Indices : Extent(i)' = Extent(i)
  BY <1>1, LevelStays
<1>4. bitmap \subseteq Clusters
  BY <1>1 DEF IInv, TypeOK
<1>5. DiskType' /\ DiskNames' /\ FlushInv'
  BY <1>1, <1>2, <1>4 DEF DiskType, DiskNames, FlushInv
<1>6. \A i \in Indices : DiskExtent(i)' = DiskExtent(i) /\ DiskClusters(i)' = DiskClusters(i)
  BY <1>1, <1>2 DEF DiskExtent, DiskClusters, Required, Follow
<1>7. TrustInv'
  <2> SUFFICES ASSUME trusted, NEW i \in safe PROVE Kept(i)'
    BY <1>1, <1>3 DEF TrustInv
  <2>1. i \in Indices /\ Kept(i) /\ Owned
    BY <1>1 DEF TrustInv, DiskType
  <2>2. PICK own, pos : Shape(own, pos)
    BY <2>1 DEF Owned
  <2>3. DiskClusters(i) \subseteq bitmap
    BY <1>1, <2>1, <2>2, DiskClustersAre DEF DiskClusters
  <2> QED BY <1>1, <1>2, <1>3, <1>6, <2>1, <2>3 DEF Kept
<1>8. LossInv'
  <2> SUFFICES ASSUME ~trusted, safe # {}
               PROVE  (diskBft = bft /\ diskBitmap = bitmap /\ FsyncedFilesSurvive)'
    BY <1>1 DEF LossInv
  <2>1. diskBft = bft /\ diskBitmap = bitmap /\ FsyncedFilesSurvive
    BY <1>1 DEF LossInv
  <2>2. safe \subseteq Indices
    BY <1>1 DEF DiskType
  <2>3. FsyncedFilesSurvive'
    BY <1>1, <1>6, <2>1, <2>2 DEF FsyncedFilesSurvive
  <2> QED BY <1>1, <1>2, <2>1, <2>3
<1> QED BY <1>3, <1>5, <1>7, <1>8 DEF CInv

\* The size in the entry, unless its file is being shortened, is one that the
\* chain is long enough for.
LEMMA FlushedExtent ==
  ASSUME IInv, NEW own, NEW pos, Shape(own, pos), FallocGrows, NEW i \in Indices,
         \A t \in Threads : ~Shrinking(t, i)
  PROVE  Ext(bft[i].size) <= Extent(i)
<1>1. Extent(i) = Ext(ChainSize(i)) /\ Extent(i) \in Nat
  BY ChainSizeType
<1>2. CASE ~(writer[i] # None /\ pc[writer[i]] \in {"cut", "commit"})
  BY <1>1, <1>2, ChainSizeIs
<1>3. CASE writer[i] # None /\ pc[writer[i]] \in {"cut", "commit"}
  <2>1. PICK t \in Threads : writer[i] = t
    BY <1>3 DEF IInv, TypeOK
  <2>2. InFile(t) /\ handle[t] = i /\ pc[t] \in {"cut", "commit"}
    BY <1>3, <2>1 DEF IInv, Rest, LockHeld
  <2>3. job[t].kind \in Kinds \ {"read"}
    BY <2>2 DEF IInv, Rest, KindOK, KindAt
  <2>4. PICK s \in Nat, a \in Nat, n \in Nat : s = job[t].size /\ a = job[t].arg /\ n = NewSize(t)
    BY <2>2, <2>3, LockedSize
  <2>5. bft[i].size = s /\ Extent(i) = Ext(n)
    BY <2>2, <2>3, <2>4, InsideFile, LockedSize
  <2>6. CASE s <= n
    BY <2>5, <2>6, ExtMonotone
  <2>7. CASE n < s
    <3>1. n = a /\ job[t].kind # "write"
      BY <2>4, <2>7 DEF NewSize, Greater
    <3>2. job[t].kind # "fallocate"
      <4>1. pc[t] = "commit" => job[t].kind # "fallocate"
        BY <2>4, <2>7, <3>1 DEF FallocGrows
      <4>2. pc[t] = "cut" => job[t].kind = "ftruncate"
        BY DEF Shape, CurShape
      <4> QED BY <2>2, <4>1, <4>2
    <3>3. job[t].kind = "ftruncate"
      BY <2>3, <3>1, <3>2 DEF Kinds
    <3>4. pc[t] = "commit" /\ ~(Required(a) < Required(s))
      BY <2>2, <2>4, <2>7, <3>1, <3>3 DEF Shrinking
    <3>5. Required(a) \in Int /\ Required(s) \in Int
      BY LevelAssumption DEF Required
    <3> QED BY <2>5, <3>1, <3>4, <3>5 DEF Ext, Greater
  <2> QED BY <2>4, <2>6, <2>7
<1> QED BY <1>2, <1>3

\* bft_write_table, or its failure.
LEMMA FlushBftCInv ==
  ASSUME CInv, FlushBft
  PROVE  CInv'
<1>1. /\ IInv /\ NamesUnique /\ DiskType /\ DiskNames /\ TrustInv /\ LossInv
      /\ UNCHANGED vars /\ UNCHANGED <<diskBitmap, trusted>>
      /\ diskBitmap = bitmap /\ flushing' = FALSE
  BY DEF CInv, FlushBft, FlushInv
<1>2. UNCHANGED <<bft, bitmap, next>>
  BY <1>1 DEF vars, table
<1>3. /\ IInv' /\ NamesUnique' /\ (Owned => Owned') /\ (FallocGrows => FallocGrows')
      /\ \A i \in Indices : Extent(i)' = Extent(i)
  BY <1>1, LevelStays
<1>4. bft \in [Indices -> Entries] /\ Files \subseteq Indices
  BY <1>1 DEF IInv, TypeOK, Files
<1>5. CASE UNCHANGED <<diskBft, safe>>
  <2>1. DiskType' /\ DiskNames' /\ FlushInv'
    BY <1>1, <1>5 DEF DiskType, DiskNames, FlushInv
  <2>2. \A i \in Indices : DiskExtent(i)' = DiskExtent(i) /\ DiskClusters(i)' = DiskClusters(i)
    BY <1>2, <1>5 DEF DiskExtent, DiskClusters, Required, Follow
  <2>3. safe \subseteq Indices
    BY <1>1 DEF DiskType
  <2>4. TrustInv'
    BY <1>1, <1>2, <1>3, <1>5, <2>2, <2>3 DEF TrustInv, Kept
  <2>5. LossInv'
    BY <1>1, <1>2, <1>5, <2>2, <2>3 DEF LossInv, FsyncedFilesSurvive
  <2> QED BY <1>3, <2>1, <2>4, <2>5 DEF CInv
<1>6. CASE /\ diskBft' = bft
           /\ safe' = IF trusted THEN {i \in Files : \A t \in Threads : ~Shrinking(t, i)}
                        ELSE safe
  <2>1. DiskType' /\ DiskNames' /\ FlushInv'
    <3>1. safe' \subseteq Indices
      BY <1>1, <1>4, <1>6 DEF DiskType
    <3>2. \A i, j \in Indices : bft[i].name # NoName /\ bft[i].name = bft[j].name => i = j
      BY <1>1 DEF NamesUnique, Files
    <3> QED BY <1>1, <1>4, <1>6, <3>1, <3>2 DEF DiskType, DiskNames, FlushInv
  <2>2. TrustInv'
    <3> SUFFICES ASSUME trusted PROVE Owned' /\ FallocGrows' /\ \A i \in safe' : Kept(i)'
      BY <1>1 DEF TrustInv
    <3>1. Owned /\ FallocGrows
      BY <1>1 DEF TrustInv
    <3>2. PICK own, pos : Shape(own, pos)
      BY <3>1 DEF Owned
    <3>3. ASSUME NEW i \in safe' PROVE Kept(i)'
      <4>1. i \in Indices /\ bft[i].name # NoName /\ \A t \in Threads : ~Shrinking(t, i)
        BY <1>6, <3>3 DEF Files
      <4>2. PICK first, e : first = bft[i].first /\ e = Ext(bft[i].size)
        OBVIOUS
      <4>3. DiskExtent(i)' = e
        BY <1>6, <4>2 DEF DiskExtent, Ext, Required
      <4>4. e <= Extent(i) /\ e \in Nat /\ Extent(i) \in Nat
        <5>1. e <= Extent(i)
          BY <1>1, <3>1, <3>2, <4>1, <4>2, FlushedExtent
        <5>2. e \in Nat
          BY <1>4, <4>1, <4>2, ExtOf DEF Entries
        <5> QED BY <1>1, <4>1, <5>1, <5>2, ChainSizeType
      <4>5. DiskClusters(i)' = {Follow(first, k) : k \in 0 .. e - 1}
        BY <1>2, <1>6, <4>2, <4>3 DEF DiskClusters, Follow
      <4>6. ASSUME NEW k \in 0 .. e - 1 PROVE Follow(first, k) \in bitmap
        <5>1. k \in 0 .. Extent(i) - 1
          BY <4>4
        <5>2. PICK c : c = Follow(first, k)
          OBVIOUS
        <5>3. c \in Clusters /\ own[c] = File(i)
          BY <1>1, <3>2, <4>1, <4>2, <5>1, <5>2, ChainIs
        <5> QED BY <3>2, <5>2, <5>3, OwnersDiffer DEF Shape, Marked
      <4>7. diskBft'[i].first = bft'[i].first /\ diskBft'[i].name # NoName /\ bft'[i].name # NoName
        BY <1>2, <1>6, <4>1
      <4>8. DiskExtent(i)' <= Extent(i)'
        BY <1>3, <4>1, <4>3, <4>4
      <4>9. DiskClusters(i)' \subseteq diskBitmap'
        BY <1>1, <4>5, <4>6
      <4> QED BY <4>7, <4>8, <4>9 DEF Kept
    <3> QED BY <1>3, <3>1, <3>3
  <2>3. LossInv'
    <3> SUFFICES ASSUME ~trusted, safe # {}
                 PROVE  (diskBft = bft /\ diskBitmap = bitmap /\ FsyncedFilesSurvive)'
      BY <1>1, <1>6 DEF LossInv
    <3>1. diskBft = bft /\ FsyncedFilesSurvive
      BY <1>1 DEF LossInv
    <3>2. diskBft' = diskBft /\ safe' = safe /\ safe \subseteq Indices
      BY <1>1, <1>6, <3>1 DEF DiskType
    <3>3. \A i \in Indices : DiskExtent(i)' = DiskExtent(i) /\ DiskClusters(i)' = DiskClusters(i)
      BY <1>2, <3>2 DEF DiskExtent, DiskClusters, Required, Follow
    <3>4. FsyncedFilesSurvive'
      BY <1>1, <3>1, <3>2, <3>3 DEF FsyncedFilesSurvive
    <3> QED BY <1>1, <1>2, <1>6, <3>4
  <2> QED BY <1>3, <2>1, <2>2, <2>3 DEF CInv
<1> QED BY <1>5, <1>6 DEF FlushBft

\* An empty level, never flushed.
LEMMA CrashInitCInv == CrashInit => CInv
<1> SUFFICES ASSUME CrashInit PROVE CInv
  OBVIOUS
<1>1. IInv /\ Owned
  BY InitIInv, InitOwned DEF CrashInit, Owned, OwnedTight
<1>2. /\ \A i \in Indices : bft[i].name = NoName
      /\ \A t \in Threads : pc[t] = "idle"
  BY DEF CrashInit, Init, Zeroed
<1>3. NamesUnique /\ FallocGrows
  BY <1>2 DEF NamesUnique, Files, FallocGrows
<1>4. bft \in [Indices -> Entries] /\ bitmap \subseteq Clusters
  BY <1>1 DEF IInv, TypeOK
<1>5. DiskType /\ DiskNames
  BY <1>2, <1>4 DEF CrashInit, DiskType, DiskNames
<1>6. FlushInv /\ TrustInv /\ LossInv
  BY <1>1, <1>3 DEF CrashInit, FlushInv, TrustInv, LossInv
<1> QED BY <1>1, <1>3, <1>5, <1>6 DEF CInv

\* The process is gone, and with it every handle, lock and operation.
Reset ==
  /\ metaOwner' = None /\ present' = {} /\ refs' = [i \in Indices |-> 0]
  /\ readers' = [i \in Indices |-> {}] /\ writer' = [i \in Indices |-> None]
  /\ pc' = [t \in Threads |-> "idle"] /\ handle' = [t \in Threads |-> None]
  /\ job' = [t \in Threads |-> NoJob]

\* What level_init reads is a level with nothing open.
LEMMA ResetIInv ==
  ASSUME Reset, bft' \in [Indices -> Entries], bitmap' \subseteq Clusters,
         next' \in [Clusters -> Links]
  PROVE  IInv'
<1>1. TypeOK'
  <2>1. Oft!TypeOK'
    BY DEF Reset, Oft!TypeOK
  <2>2. job' \in [Threads -> Jobs] /\ pc' \in [Threads -> PCs]
    BY NoJobType DEF Reset, PCs
  <2>3. handle' \in [Threads -> Indices \cup {None}] /\ metaOwner' \in Threads \cup {None}
    BY DEF Reset
  <2>4. readers' \in [Indices -> SUBSET Threads] /\ writer' \in [Indices -> Threads \cup {None}]
    BY DEF Reset
  <2> QED BY <2>1, <2>2, <2>3, <2>4 DEF TypeOK
<1>2. \A t \in Threads : ~InFile(t)' /\ \A i \in Indices : ~Using(t, i)'
  BY LevelAssumption DEF Reset, InFile, AfterGetSize, Using, Indices
<1>3. RefsExact'
  <2> SUFFICES ASSUME NEW i \in Indices
               PROVE  refs'[i] = Cardinality({t \in Threads : Using(t, i)'})
    BY DEF RefsExact
  <2>1. {t \in Threads : Using(t, i)'} = {}
    BY <1>2
  <2>2. Cardinality({}) = 0
    BY FS_EmptySet
  <2>3. refs'[i] = 0
    BY DEF Reset
  <2> QED BY <2>1, <2>2, <2>3
<1>4. OpenPresent' /\ OpenNamed' /\ Locked'
  BY <1>2 DEF OpenPresent, OpenNamed, Locked
<1>5. LockHeld' /\ Exclusive'
  BY LevelAssumption DEF Reset, LockHeld, Exclusive
<1>6. KindOK' /\ Snapshots'
  BY DEF Reset, KindOK, KindAt, Snapshots, SnapshotAt, AfterGetSize
<1> QED BY <1>1, <1>3, <1>4, <1>5, <1>6 DEF IInv, Rest

\* When nothing is under way every cluster that has an owner has a file.
LEMMA ResetOwned ==
  ASSUME IInv, IInv', Owned, \A t \in Threads : pc[t] = "idle", Reset,
         UNCHANGED <<bft, bitmap, next>>
  PROVE  Owned' /\ \A i \in Indices : Extent(i)' = Extent(i)
<1>1. \A t \in Threads : pc'[t] = "idle"
  BY DEF Reset
<1>2. \A i \in Indices : /\ Extent(i)' = Extent(i) /\ ~Cutting(i) /\ ~Cutting(i)'
  <2>1. \A i \in Indices : ChainSize(i) = bft[i].size /\ ~Cutting(i)
    BY DEF ChainSize, Cutting
  <2>2. \A i \in Indices : ChainSize(i)' = bft'[i].size /\ ~Cutting(i)'
    BY <1>1 DEF ChainSize, Cutting
  <2> QED BY <2>1, <2>2 DEF Extent, Required
<1>3. PICK own, pos : Shape(own, pos)
  BY DEF Owned
<1>4. \A i \in Indices : FileShape(own, pos, i)'
  BY <1>2, <1>3 DEF Shape, FileShape
<1>5. ASSUME NEW t \in Threads PROVE JobShape(own, pos, t)'
  <2>1. ~Growing(t) /\ ~Unlinking(t) /\ ~Growing(t)' /\ ~Unlinking(t)'
    BY <1>1 DEF Growing, Unlinking
  <2>2. \A c \in Clusters : own[c] # Job(t)
    BY <1>3, <2>1 DEF Shape, JobShape
  <2> QED BY <2>1, <2>2 DEF JobShape
<1>6. \A t \in Threads : CurShape(own, pos, t)'
  BY <1>1 DEF CurShape, Truncating
<1>7. Marked(own)'
  BY <1>3 DEF Shape, Marked
<1>8. Shape(own, pos)'
  BY <1>3, <1>4, <1>5, <1>6, <1>7 DEF Shape
<1> QED BY <1>2, <1>8 DEF Owned

\* The crash, in any state.
LEMMA CrashCInv ==
  ASSUME CInv, Crash
  PROVE  CInv'
<1>1. /\ IInv /\ DiskType /\ DiskNames /\ TrustInv /\ trusted /\ Reset
      /\ bft' = diskBft /\ bitmap' = diskBitmap /\ flushing' = FALSE
      /\ trusted' = (trusted /\ Clean)
      /\ UNCHANGED <<next, diskBft, diskBitmap, safe>>
  BY DEF CInv, Crash, Reset
<1>2. IInv'
  <2>1. next' \in [Clusters -> Links] /\ bft' \in [Indices -> Entries] /\ bitmap' \subseteq Clusters
    BY <1>1 DEF IInv, TypeOK, DiskType
  <2> QED BY <1>1, <2>1, ResetIInv
<1>3. NamesUnique'
  BY <1>1 DEF DiskNames, NamesUnique, Files
<1>4. DiskType' /\ DiskNames' /\ FlushInv'
  <2>1. Clean \in BOOLEAN
    BY DEF Clean
  <2> QED BY <1>1, <2>1 DEF DiskType, DiskNames, FlushInv
<1>5. \A i \in Indices : DiskExtent(i)' = DiskExtent(i) /\ DiskClusters(i)' = DiskClusters(i)
  BY <1>1 DEF DiskExtent, DiskClusters, Required, Follow
<1>6. safe \subseteq Indices /\ Owned /\ \A i \in safe : Kept(i)
  BY <1>1 DEF DiskType, TrustInv
<1>7. TrustInv'
  <2> SUFFICES ASSUME Clean PROVE Owned' /\ FallocGrows' /\ \A i \in safe' : Kept(i)'
    BY <1>1 DEF TrustInv
  <2>1. UNCHANGED <<bft, bitmap, next>> /\ \A t \in Threads : pc[t] = "idle"
    BY <1>1 DEF Clean
  <2>2. Owned' /\ \A i \in Indices : Extent(i)' = Extent(i)
    BY <1>1, <1>2, <1>6, <2>1, ResetOwned
  <2>3. FallocGrows'
    BY <1>1 DEF Reset, FallocGrows
  <2>4. ASSUME NEW i \in safe' PROVE Kept(i)'
    <3>1. i \in Indices /\ Kept(i)
      BY <1>1, <1>6, <2>4
    <3> QED BY <1>1, <1>5, <2>1, <2>2, <3>1 DEF Kept
  <2> QED BY <2>2, <2>3, <2>4
<1>8. LossInv'
  <2>1. FsyncedFilesSurvive
    BY <1>1, <1>6, KeptSurvive
  <2>2. FsyncedFilesSurvive'
    BY <1>1, <1>5, <1>6, <2>1 DEF FsyncedFilesSurvive
  <2> QED BY <1>1, <2>2 DEF LossInv
<1> QED BY <1>2, <1>3, <1>4, <1>7, <1>8 DEF CInv

\* A stutter.
LEMMA CrashStutterCInv == CInv /\ UNCHANGED crashVars => CInv'
<1> SUFFICES ASSUME CInv, UNCHANGED crashVars PROVE CInv'
  OBVIOUS
<1>1. UNCHANGED vars /\ UNCHANGED <<diskBft, diskBitmap, flushing, safe, trusted>>
  BY DEF crashVars
<1>2. UNCHANGED <<bft, bitmap, next>>
  BY <1>1 DEF vars, table
<1>3. /\ IInv' /\ NamesUnique' /\ (Owned => Owned') /\ (FallocGrows => FallocGrows')
      /\ \A i \in Indices : Extent(i)' = Extent(i)
  BY LevelStays, <1>1 DEF CInv
<1>4. DiskType' /\ DiskNames' /\ FlushInv'
  BY <1>1, <1>2 DEF CInv, DiskType, DiskNames, FlushInv
<1>5. \A i \in Indices : DiskExtent(i)' = DiskExtent(i) /\ DiskClusters(i)' = DiskClusters(i)
  BY <1>1, <1>2 DEF DiskExtent, DiskClusters, Required, Follow
<1>6. safe \subseteq Indices /\ TrustInv /\ LossInv
  BY DEF CInv, DiskType
<1>7. TrustInv'
  BY <1>1, <1>2, <1>3, <1>5, <1>6 DEF TrustInv, Kept
<1>8. LossInv'
  BY <1>1, <1>2, <1>5, <1>6 DEF LossInv, FsyncedFilesSurvive
<1> QED BY <1>3, <1>4, <1>7, <1>8 DEF CInv

\* The invariant is kept by operations, flushes and crashes.
LEMMA CrashInductive == ASSUME Sound PROVE CrashSpec => []CInv
<1>1. CInv /\ [CrashNext]_crashVars => CInv'
  BY LevelStepCInv, FlushBitmapCInv, FlushBftCInv, CrashCInv, CrashStutterCInv DEF CrashNext
<1> QED
  BY CrashInitCInv, <1>1, PTL DEF CrashSpec

----------------------------------------------------------------------------
(* What it says of the properties. *)

\* Between whichever two writes the process dies, and however often the level was
\* unmounted before, a file that the last flush wrote and that was not removed
\* or shortened since is found with its name and all its clusters, in use and
\* its own.
THEOREM FsyncedFilesAreFound == ASSUME Sound PROVE CrashSpec => []FsyncedFilesSurvive
<1>1. CInv => FsyncedFilesSurvive
  <2> SUFFICES ASSUME CInv PROVE FsyncedFilesSurvive
    OBVIOUS
  <2>1. IInv /\ DiskType /\ DiskNames /\ TrustInv /\ LossInv
    BY DEF CInv
  <2>2. CASE trusted
    BY <2>1, <2>2, KeptSurvive DEF TrustInv
  <2>3. CASE ~trusted /\ safe # {}
    BY <2>1, <2>3 DEF LossInv
  <2>4. CASE safe = {}
    BY <2>4 DEF FsyncedFilesSurvive
  <2> QED BY <2>2, <2>3, <2>4
<1> QED
  BY CrashInductive, <1>1, PTL

\* A level that was only ever unmounted is as good as one that never was: its
\* chains are whole and its own.  After a crash, too, no name is there twice
\* and the sizes that operations read stay current.
THEOREM ChainsAreTrusted == ASSUME Sound PROVE CrashSpec => []TrustedChains
<1>1. CInv => TrustedChains
  <2> SUFFICES ASSUME CInv PROVE TrustedChains
    OBVIOUS
  <2>1. IInv /\ NamesUnique /\ (trusted => Owned)
    BY DEF CInv, TrustInv
  <2>2. SnapshotCurrent
    BY <2>1 DEF IInv, Rest, Snapshots, SnapshotAt, SnapshotCurrent
  <2>3. Owned => ChainsIntact /\ NoCrossLink
    BY <2>1, OwnedIntact, OwnedApart
  <2> QED BY <2>1, <2>2, <2>3 DEF TrustedChains
<1> QED
  BY CrashInductive, <1>1, PTL
=============================================================================
