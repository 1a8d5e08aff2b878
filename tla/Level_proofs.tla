---------------------------- MODULE Level_proofs ----------------------------
(***************************************************************************)
(* Proofs about a level, for any number of threads, entries, clusters and  *)
(* names, any file size, callers that unlink open files or do not, and any *)
(* set of cluster accesses that may fail.                                  *)
(***************************************************************************)
EXTENDS LevelProps, FiniteSetTheorems, WellFoundedInduction, TLAPS

----------------------------------------------------------------------------
(* Types *)

LEMMA EofHopsType == \A s \in Nat : EofHops(s) \in Nat
BY LevelAssumption DEF EofHops

LEMMA ZeroIsCluster == 0 \in Clusters /\ 0 \in 0 .. MaxSize
BY LevelAssumption DEF Clusters

LEMMA FirstSubset == \A S : First(S) \subseteq S /\ Last(S) \subseteq S
BY DEF First, Last

LEMMA FindType ==
  \A n : \A i \in Find(n) : i \in Indices /\ bft[i].name = n
BY FirstSubset DEF Find

LEMMA ElementsType == \A s \in Seq(Clusters) : Elements(s) \subseteq Clusters
BY DEF Elements

LEMMA JobFields ==
  ASSUME NEW j \in Jobs
  PROVE  /\ j.kind \in Kinds \cup {"none", "unlink"}
         /\ j.arg \in 0 .. MaxSize /\ j.size \in 0 .. MaxSize
         /\ j.cur \in Clusters /\ j.hops \in Nat
         /\ j.at \in Links /\ j.list \in Seq(Clusters)
BY DEF Jobs

LEMMA NoJobType == NoJob \in Jobs
BY ZeroIsCluster DEF NoJob, Jobs, Links

\* The part of TypeOK that Finish(t) is about.
OpType == /\ readers \in [Indices -> SUBSET Threads]
          /\ writer \in [Indices -> Threads \cup {None}]
          /\ pc \in [Threads -> PCs]
          /\ job \in [Threads -> Jobs]

LEMMA FinishType ==
  ASSUME OpType, NEW t \in Threads, Finish(t)
  PROVE  OpType'
BY NoJobType DEF OpType, Finish, PCs

LEMMA LinkedType ==
  ASSUME NEW list \in Seq(Clusters), NEW k \in 0 .. Len(list), next \in [Clusters -> Links]
  PROVE  Linked(list, k) \in [Clusters -> Links]
<1> SUFFICES ASSUME NEW c \in Clusters
             PROVE  (IF \E j \in 1 .. k : list[j] = c
                       THEN LET j == CHOOSE j \in 1 .. k : list[j] = c
                            IN IF j < Len(list) THEN list[j + 1] ELSE EOF
                       ELSE next[c]) \in Links
  BY DEF Linked
<1>1. CASE \E j \in 1 .. k : list[j] = c
  <2> DEFINE j == CHOOSE j \in 1 .. k : list[j] = c
  <2>1. j \in 1 .. k
    BY <1>1
  <2>2. j < Len(list) => list[j + 1] \in Clusters
    BY <2>1
  <2> QED
    BY <1>1, <2>2 DEF Links
<1>2. CASE ~ \E j \in 1 .. k : list[j] = c
  BY <1>2
<1> QED
  BY <1>1, <1>2

----------------------------------------------------------------------------
(***************************************************************************)
(* The inductive invariant.                                                *)
(***************************************************************************)
\* The kinds of operation that reach each label.
KindAt(t) == /\ pc[t] \in {"size", "walk"} => job[t].kind \in Kinds
             /\ pc[t] \in {"alloc", "fill", "hook", "undo", "commit", "cut"}
                  => job[t].kind \in Kinds \ {"read"}
             /\ pc[t] \in {"collect", "free"} => job[t].kind \in {"unlink", "ftruncate"}

\* What thread t relies on between its sections: the entry it read.
SnapshotAt(t) ==
  \/ pc[t] \in AfterGetSize
  \/ pc[t] \in {"collect", "free"} /\ job[t].kind = "ftruncate"
  => bft[handle[t]].name # NoName /\ bft[handle[t]].size = job[t].size

RefsExact == \A i \in Indices : refs[i] = Cardinality({t \in Threads : Using(t, i)})
OpenPresent == \A t \in Threads, i \in Indices : Using(t, i) => i \in present
OpenNamed == \A t \in Threads, i \in Indices : Using(t, i) => bft[i].name # NoName
Locked == \A t \in Threads : InFile(t) =>
            /\ handle[t] \in Indices
            /\ IF job[t].kind = "read" THEN t \in readers[handle[t]]
               ELSE writer[handle[t]] = t
LockHeld == \A t \in Threads, i \in Indices :
              t \in readers[i] \/ writer[i] = t => InFile(t) /\ handle[t] = i
Exclusive == \A i \in Indices : writer[i] # None => readers[i] = {}
KindOK == \A t \in Threads : KindAt(t)
Snapshots == \A t \in Threads : SnapshotAt(t)

Rest == RefsExact /\ OpenPresent /\ OpenNamed /\ Locked /\ LockHeld /\ Exclusive
          /\ KindOK /\ Snapshots
IInv == TypeOK /\ Rest

LEMMA InitIInv == Init => IInv
<1> SUFFICES ASSUME Init PROVE IInv
  OBVIOUS
<1>1. TypeOK
  BY ZeroIsCluster, NoJobType DEF Init, TypeOK, Oft!Init, Oft!TypeOK, Zeroed, Entries, Links, PCs
<1>2. \A t \in Threads : ~InFile(t) /\ \A i \in Indices : ~Using(t, i)
  BY LevelAssumption DEF Init, InFile, AfterGetSize, Using, Indices
<1>3. RefsExact
  <2> SUFFICES ASSUME NEW i \in Indices
               PROVE  refs[i] = Cardinality({t \in Threads : Using(t, i)})
    BY DEF RefsExact
  <2>1. {t \in Threads : Using(t, i)} = {}
    BY <1>2
  <2> QED
    BY <2>1, FS_EmptySet DEF Init, Oft!Init
<1>4. OpenPresent /\ OpenNamed /\ Locked
  BY <1>2 DEF OpenPresent, OpenNamed, Locked
<1>5. LockHeld /\ Exclusive
  BY LevelAssumption DEF Init, LockHeld, Exclusive
<1>6. KindOK /\ Snapshots
  BY DEF Init, KindOK, KindAt, Snapshots, SnapshotAt, AfterGetSize
<1> QED
  BY <1>1, <1>3, <1>4, <1>5, <1>6 DEF IInv, Rest

----------------------------------------------------------------------------
(* Steps that leave handles, references and locks alone.  `moved` is the   *)
(* thread that steps; an open file keeps its name and size.                *)

LEMMA MovePreserves ==
  ASSUME IInv, NEW moved \in Threads,
         UNCHANGED <<oft, locks, handle>>,
         \A u \in Threads \ {moved} : pc'[u] = pc[u] /\ job'[u] = job[u],
         pc[moved] # "reap", pc'[moved] # "reap",
         InFile(moved)' <=> InFile(moved),
         InFile(moved) => job'[moved].kind = job[moved].kind,
         KindAt(moved)', SnapshotAt(moved)',
         \A u \in Threads, i \in Indices : Using(u, i) =>
           bft'[i].name # NoName /\ bft'[i].size = bft[i].size
  PROVE  Rest'
<1>1. \A u \in Threads, i \in Indices : Using(u, i)' <=> Using(u, i)
  BY DEF Using
<1>2. \A u \in Threads : InFile(u)' <=> InFile(u)
  BY DEF InFile
<1>3. RefsExact'
  <2> SUFFICES ASSUME NEW i \in Indices
               PROVE  refs'[i] = Cardinality({u \in Threads : Using(u, i)})'
    BY DEF RefsExact
  <2>1. {u \in Threads : Using(u, i)}' = {u \in Threads : Using(u, i)}
    BY <1>1
  <2> QED
    BY <2>1 DEF IInv, Rest, RefsExact, oft
<1>4. OpenPresent' /\ OpenNamed'
  BY <1>1 DEF OpenPresent, OpenNamed, IInv, Rest, oft
<1>5. Locked' /\ LockHeld' /\ Exclusive'
  BY <1>2 DEF Locked, LockHeld, Exclusive, IInv, Rest, locks
<1>6. KindOK'
  BY DEF KindOK, KindAt, IInv, Rest
<1>7. Snapshots'
  <2> SUFFICES ASSUME NEW u \in Threads, u # moved PROVE SnapshotAt(u)'
    BY DEF Snapshots
  <2>1. InFile(u) => Using(u, handle[u]) /\ handle[u] \in Indices
    BY DEF InFile, Using, AfterGetSize, Locked, IInv, Rest
  <2>2. SnapshotAt(u)
    BY DEF IInv, Rest, Snapshots
  <2> QED
    BY <2>1, <2>2 DEF SnapshotAt, InFile
<1> QED
  BY <1>3, <1>4, <1>5, <1>6, <1>7 DEF Rest

----------------------------------------------------------------------------
(* The step in which an operation returns.  It may commit a size, but only *)
(* to the file whose lock it holds for writing.                            *)

LEMMA FinishPreserves ==
  ASSUME IInv, NEW t \in Threads, Finish(t), UNCHANGED <<oft, handle>>,
         pc[t] # "reap",
         \A i \in Indices : bft'[i].name = bft[i].name,
         \A i \in Indices : bft'[i].size = bft[i].size \/ writer[i] = t
  PROVE  Rest'
<1> USE DEF Finish
<1>0. /\ pc'[t] = "idle"
      /\ \A u \in Threads \ {t} : pc'[u] = pc[u] /\ job'[u] = job[u]
      /\ \A i \in Indices : /\ readers'[i] = readers[i] \ {t}
                            /\ writer'[i] = IF writer[i] = t THEN None ELSE writer[i]
  BY DEF IInv, TypeOK
<1>1. \A u \in Threads, i \in Indices : Using(u, i)' <=> Using(u, i)
  BY <1>0 DEF Using
<1>2. /\ \A u \in Threads \ {t} : InFile(u)' <=> InFile(u)
      /\ ~InFile(t)'
  BY <1>0 DEF InFile, AfterGetSize
<1>3. RefsExact'
  <2> SUFFICES ASSUME NEW i \in Indices
               PROVE  refs'[i] = Cardinality({u \in Threads : Using(u, i)})'
    BY DEF RefsExact
  <2>1. {u \in Threads : Using(u, i)}' = {u \in Threads : Using(u, i)}
    BY <1>1
  <2> QED
    BY <2>1 DEF IInv, Rest, RefsExact, oft
<1>4. OpenPresent' /\ OpenNamed'
  BY <1>1 DEF OpenPresent, OpenNamed, IInv, Rest, oft
<1>5. Locked'
  BY <1>0, <1>2 DEF Locked, IInv, Rest
<1>6. LockHeld'
  BY <1>0, <1>2, LevelAssumption DEF LockHeld, IInv, Rest
<1>7. Exclusive'
  BY <1>0 DEF Exclusive, IInv, Rest
<1>8. KindOK'
  BY <1>0 DEF KindOK, KindAt, IInv, Rest
<1>9. Snapshots'
  <2> SUFFICES ASSUME NEW u \in Threads PROVE SnapshotAt(u)'
    BY DEF Snapshots
  <2>1. CASE u = t
    BY <2>1, <1>0 DEF SnapshotAt, AfterGetSize
  <2>2. CASE u # t /\ InFile(u)
    <3>1. /\ handle[u] \in Indices
          /\ IF job[u].kind = "read" THEN u \in readers[handle[u]]
             ELSE writer[handle[u]] = u
      BY <2>2 DEF Locked, IInv, Rest
    <3>2. writer[handle[u]] # t
      BY <3>1, <2>2, LevelAssumption DEF Exclusive, IInv, Rest
    <3>3. bft'[handle[u]].size = bft[handle[u]].size /\ bft'[handle[u]].name = bft[handle[u]].name
      BY <3>1, <3>2
    <3> QED
      BY <3>3, <2>2, <1>0 DEF SnapshotAt, IInv, Rest, Snapshots
  <2>3. CASE u # t /\ ~InFile(u)
    BY <2>3, <1>0 DEF SnapshotAt, InFile
  <2> QED
    BY <2>1, <2>2, <2>3
<1> QED
  BY <1>3, <1>4, <1>5, <1>6, <1>7, <1>8, <1>9 DEF Rest

----------------------------------------------------------------------------
(* Operations on paths.  None of them touches an entry that is in use: a    *)
(* new file takes a free entry, and an entry is removed only when the open  *)
(* file table has no object for it.                                         *)

LEMMA IdleNotInFile ==
  ASSUME NEW t \in Threads
  PROVE  /\ pc[t] = "idle" => ~InFile(t)
         /\ pc'[t] = "idle" => ~InFile(t)' /\ KindAt(t)' /\ SnapshotAt(t)'
BY DEF InFile, AfterGetSize, KindAt, SnapshotAt

\* A thread that has started to free an unlinked chain.
LEMMA Detached ==
  ASSUME NEW t \in Threads, pc'[t] \in {"collect", "free"}, job'[t].kind = "unlink"
  PROVE  ~InFile(t)' /\ KindAt(t)' /\ SnapshotAt(t)'
BY DEF InFile, AfterGetSize, KindAt, SnapshotAt

LEMMA StartCollectStep ==
  ASSUME TypeOK, NEW t \in Threads, NEW kind \in {"unlink", "ftruncate"}, NEW first \in Links,
         StartCollect(t, kind, first)
  PROVE  /\ pc' \in [Threads -> PCs] /\ job' \in [Threads -> Jobs]
         /\ pc'[t] = "collect" /\ job'[t].kind = kind /\ job'[t].size = job[t].size
         /\ \A u \in Threads \ {t} : pc'[u] = pc[u] /\ job'[u] = job[u]
<1>1. pc' = [pc EXCEPT ![t] = "collect"] /\ pc' \in [Threads -> PCs]
  BY DEF StartCollect, GoTo, TypeOK, PCs
<1>2. job' = [job EXCEPT ![t] = [job[t] EXCEPT !.kind = kind, !.at = first, !.list = <<>>]]
  BY DEF StartCollect, TypeOK, Jobs
<1>3. [job[t] EXCEPT !.kind = kind, !.at = first, !.list = <<>>] \in Jobs
  <2>1. job[t] \in Jobs /\ kind \in Kinds \cup {"none", "unlink"} /\ <<>> \in Seq(Clusters)
    BY DEF TypeOK, Kinds
  <2> QED
    BY <2>1 DEF Jobs
<1> QED
  BY <1>1, <1>2, <1>3 DEF TypeOK, Jobs

LEMMA MknodStep ==
  ASSUME IInv, NEW t \in Threads, NEW n \in Names, Mknod(t, n)
  PROVE  IInv'
<1>1. /\ pc[t] = "idle" /\ metaOwner' = None
      /\ UNCHANGED <<oft, locks, pc, handle, job>>
  BY DEF Mknod, Section
<1>2. \/ UNCHANGED table
      \/ \E i \in Find(NoName), c \in First(FreeClusters) :
           /\ bft' = [bft EXCEPT ![i] = [name |-> n, first |-> c, size |-> 0]]
           /\ \/ bitmap' = bitmap \cup {c} /\ next' = [next EXCEPT ![c] = EOF]
              \/ UNCHANGED <<bitmap, next>>
  BY DEF Mknod
<1>3. TypeOK'
  <2>1. CASE UNCHANGED table
    BY <1>1, <2>1 DEF IInv, TypeOK, Oft!TypeOK, table, oft, locks
  <2>2. ASSUME NEW i \in Find(NoName), NEW c \in First(FreeClusters),
               bft' = [bft EXCEPT ![i] = [name |-> n, first |-> c, size |-> 0]],
               \/ bitmap' = bitmap \cup {c} /\ next' = [next EXCEPT ![c] = EOF]
               \/ UNCHANGED <<bitmap, next>>
        PROVE  TypeOK'
    <3>1. c \in Clusters /\ i \in Indices
      BY FindType, FirstSubset DEF FreeClusters
    <3>2. bft' \in [Indices -> Entries]
      BY <2>2, <3>1, ZeroIsCluster DEF IInv, TypeOK, Entries
    <3>3. bitmap' \subseteq Clusters /\ next' \in [Clusters -> Links]
      BY <2>2, <3>1 DEF IInv, TypeOK, Links
    <3> QED
      BY <1>1, <3>2, <3>3 DEF IInv, TypeOK, Oft!TypeOK, oft, locks
  <2> QED
    BY <1>2, <2>1, <2>2
<1>4. ASSUME NEW u \in Threads, NEW i \in Indices, Using(u, i)
      PROVE  bft'[i].name # NoName /\ bft'[i].size = bft[i].size
  <2>1. bft[i].name # NoName
    BY <1>4 DEF IInv, Rest, OpenNamed
  <2>2. bft'[i] = bft[i]
    BY <1>2, <2>1, FindType DEF IInv, TypeOK, table
  <2> QED
    BY <2>1, <2>2
<1>5. Rest'
  BY <1>1, <1>4, IdleNotInFile, MovePreserves
<1> QED
  BY <1>3, <1>5 DEF IInv

LEMMA UnlinkStep ==
  ASSUME IInv, NEW t \in Threads, NEW n \in Names, Unlink(t, n)
  PROVE  IInv'
<1>1. /\ pc[t] = "idle" /\ metaOwner' \in Threads \cup {None}
      /\ UNCHANGED <<bitmap, next, oft, locks, handle>>
  BY DEF Unlink
<1>2. PICK i \in Find(n) :
        \/ UNCHANGED <<bft, pc, job>>
        \/ /\ i \notin present
           /\ bft' = [bft EXCEPT ![i] = Zeroed]
           /\ StartCollect(t, "unlink", bft[i].first)
  BY DEF Unlink
<1>3. i \in Indices
  BY FindType
<1>4. CASE UNCHANGED <<bft, pc, job>>
  <2>1. TypeOK'
    BY <1>1, <1>4 DEF IInv, TypeOK, Oft!TypeOK, oft, locks
  <2>2. \A u \in Threads, j \in Indices : Using(u, j) =>
          bft'[j].name # NoName /\ bft'[j].size = bft[j].size
    BY <1>4 DEF IInv, Rest, OpenNamed
  <2> QED
    BY <2>1, <2>2, <1>1, <1>4, IdleNotInFile, MovePreserves DEF IInv
<1>5. CASE /\ i \notin present
           /\ bft' = [bft EXCEPT ![i] = Zeroed]
           /\ StartCollect(t, "unlink", bft[i].first)
  <2>1. bft[i].first \in Links
    BY <1>3 DEF IInv, TypeOK, Entries, Links
  <2>2. /\ pc' \in [Threads -> PCs] /\ job' \in [Threads -> Jobs]
        /\ pc'[t] = "collect" /\ job'[t].kind = "unlink"
        /\ \A u \in Threads \ {t} : pc'[u] = pc[u] /\ job'[u] = job[u]
    BY <1>5, <2>1, StartCollectStep DEF IInv
  <2>3. bft' \in [Indices -> Entries]
    BY <1>5, <1>3, ZeroIsCluster DEF IInv, TypeOK, Entries, Zeroed
  <2>4. TypeOK'
    BY <1>1, <2>2, <2>3 DEF IInv, TypeOK, Oft!TypeOK, oft, locks
  <2>5. ASSUME NEW u \in Threads, NEW j \in Indices, Using(u, j)
        PROVE  bft'[j].name # NoName /\ bft'[j].size = bft[j].size
    <3>1. j # i
      BY <2>5, <1>5 DEF IInv, Rest, OpenPresent
    <3> QED
      BY <2>5, <3>1, <1>5 DEF IInv, TypeOK, Rest, OpenNamed
  <2>6. Rest'
    BY <2>2, <2>5, <1>1, IdleNotInFile, Detached, MovePreserves
  <2> QED
    BY <2>4, <2>6 DEF IInv
<1> QED
  BY <1>2, <1>4, <1>5

LEMMA RenameStep ==
  ASSUME IInv, NEW t \in Threads, NEW old \in Names, NEW new \in Names, Rename(t, old, new)
  PROVE  IInv'
<1>1. /\ pc[t] = "idle" /\ metaOwner' = None
      /\ UNCHANGED <<bitmap, next, oft, locks, handle>>
  BY DEF Rename, Section
<1>2. old # NoName /\ new # NoName
  BY LevelAssumption
<1>3. ASSUME UNCHANGED <<pc, job>>, bft' \in [Indices -> Entries],
             \A j \in Indices : /\ bft'[j].size = bft[j].size
                                /\ bft[j].name # NoName => bft'[j].name # NoName
      PROVE  IInv'
  <2>1. TypeOK'
    BY <1>1, <1>3 DEF IInv, TypeOK, Oft!TypeOK, oft, locks
  <2>2. ASSUME NEW u \in Threads, NEW j \in Indices, Using(u, j)
        PROVE  bft'[j].name # NoName /\ bft'[j].size = bft[j].size
    <3>1. bft[j].name # NoName
      BY <2>2 DEF IInv, Rest, OpenNamed
    <3> QED
      BY <3>1, <1>3
  <2> QED
    BY <2>1, <2>2, <1>1, <1>3, IdleNotInFile, MovePreserves DEF IInv
<1>4. CASE RenameExchange(t, old, new)
  <2>1. PICK i \in Find(old), j \in Find(new) :
          bft' = [bft EXCEPT ![i].name = bft[j].name, ![j].name = bft[i].name]
    BY <1>4 DEF RenameExchange
  <2>2. i \in Indices /\ j \in Indices /\ bft[i].name = old /\ bft[j].name = new
    BY FindType
  <2>3. bft' \in [Indices -> Entries]
    <3>1. bft \in [Indices -> Entries]
      BY DEF IInv, TypeOK
    <3>2. \A e \in Entries, n \in Names : [e EXCEPT !.name = n] \in Entries
      BY DEF Entries
    <3>3. PICK mid : mid = [bft EXCEPT ![i].name = new]
      OBVIOUS
    <3>4. mid \in [Indices -> Entries]
      BY <2>2, <3>1, <3>2, <3>3
    <3>5. bft' = [mid EXCEPT ![j].name = old]
      BY <2>1, <2>2, <3>3
    <3> QED
      BY <2>2, <3>2, <3>4, <3>5
  <2>4. \A k \in Indices : /\ bft'[k].size = bft[k].size
                           /\ bft[k].name # NoName => bft'[k].name # NoName
    BY <2>1, <2>2, <1>2 DEF IInv, TypeOK, Entries
  <2> QED
    BY <1>3, <1>4, <2>3, <2>4 DEF RenameExchange
<1>5. CASE RenameMove(t, old, new)
  <2>1. PICK i \in Find(old) : bft' = [bft EXCEPT ![i].name = new]
    BY <1>5 DEF RenameMove
  <2>2. i \in Indices
    BY FindType
  <2>3. bft' \in [Indices -> Entries]
    BY <2>1, <2>2 DEF IInv, TypeOK, Entries
  <2>4. \A k \in Indices : /\ bft'[k].size = bft[k].size
                           /\ bft[k].name # NoName => bft'[k].name # NoName
    BY <2>1, <2>2, <1>2 DEF IInv, TypeOK, Entries
  <2> QED
    BY <1>3, <1>5, <2>3, <2>4 DEF RenameMove
<1>6. CASE RenameOver(t, old, new)
  <2>1. PICK i \in Find(old), j \in Find(new) :
          \/ UNCHANGED <<bft, pc, job>>
          \/ /\ j \notin present
             /\ bft' = [[bft EXCEPT ![j] = Zeroed] EXCEPT ![i].name = new]
             /\ StartCollect(t, "unlink", bft[j].first)
    BY <1>6 DEF RenameOver
  <2>2. i \in Indices /\ j \in Indices
    BY FindType
  <2>3. CASE UNCHANGED <<bft, pc, job>>
    BY <2>3, <1>3 DEF IInv, TypeOK
  <2>4. CASE /\ j \notin present
             /\ bft' = [[bft EXCEPT ![j] = Zeroed] EXCEPT ![i].name = new]
             /\ StartCollect(t, "unlink", bft[j].first)
    <3>1. bft[j].first \in Links
      BY <2>2 DEF IInv, TypeOK, Entries, Links
    <3>2. /\ pc' \in [Threads -> PCs] /\ job' \in [Threads -> Jobs]
          /\ pc'[t] = "collect" /\ job'[t].kind = "unlink"
          /\ \A u \in Threads \ {t} : pc'[u] = pc[u] /\ job'[u] = job[u]
      BY <2>4, <3>1, StartCollectStep DEF IInv
    <3>3. bft' \in [Indices -> Entries]
      <4>1. [bft EXCEPT ![j] = Zeroed] \in [Indices -> Entries]
        BY <2>2, ZeroIsCluster DEF IInv, TypeOK, Entries, Zeroed
      <4> QED
        BY <2>4, <2>2, <4>1 DEF Entries
    <3>4. TypeOK'
      BY <1>1, <3>2, <3>3 DEF IInv, TypeOK, Oft!TypeOK, oft, locks
    <3>5. ASSUME NEW u \in Threads, NEW k \in Indices, Using(u, k)
          PROVE  bft'[k].name # NoName /\ bft'[k].size = bft[k].size
      <4>1. k # j
        BY <3>5, <2>4 DEF IInv, Rest, OpenPresent
      <4>2. bft[k].name # NoName
        BY <3>5 DEF IInv, Rest, OpenNamed
      <4>3. [bft EXCEPT ![j] = Zeroed][k] = bft[k]
        BY <4>1 DEF IInv, TypeOK
      <4> QED
        BY <4>2, <4>3, <2>4, <2>2, <1>2 DEF IInv, TypeOK, Entries
    <3>6. Rest'
      BY <3>2, <3>5, <1>1, IdleNotInFile, Detached, MovePreserves
    <3> QED
      BY <3>4, <3>6 DEF IInv
  <2> QED
    BY <2>1, <2>3, <2>4
<1> QED
  BY <1>4, <1>5, <1>6 DEF Rename

LEMMA AttributesStep ==
  ASSUME IInv, NEW t \in Threads, Attributes(t)
  PROVE  IInv'
<1>1. pc[t] = "idle" /\ metaOwner' = None /\ UNCHANGED <<table, oft, locks, pc, handle, job>>
  BY DEF Attributes, Section
<1>2. TypeOK'
  BY <1>1 DEF IInv, TypeOK, Oft!TypeOK, table, oft, locks
<1>3. \A u \in Threads, j \in Indices : Using(u, j) =>
        bft'[j].name # NoName /\ bft'[j].size = bft[j].size
  BY <1>1 DEF IInv, Rest, OpenNamed, table
<1> QED
  BY <1>1, <1>2, <1>3, IdleNotInFile, MovePreserves DEF IInv

----------------------------------------------------------------------------
(* Handles: the steps that change who uses which index.                    *)

LEMMA UsersFinite == \A i : IsFiniteSet({t \in Threads : Using(t, i)})
<1>1. \A i : {t \in Threads : Using(t, i)} \subseteq Threads
  OBVIOUS
<1> QED
  BY <1>1, LevelAssumption, FS_Subset

\* What the steps of Open, Release and Reap have in common: the thread is in no
\* file operation, and the BFT, the locks and the jobs are left alone.
LEMMA HandlePreserves ==
  ASSUME IInv, NEW t \in Threads, UNCHANGED <<bft, locks, job>>,
         ~InFile(t), ~InFile(t)', KindAt(t)', SnapshotAt(t)',
         \A u \in Threads \ {t} : pc'[u] = pc[u] /\ handle'[u] = handle[u],
         \A u \in Threads, i \in Indices :
           Using(u, i)' => i \in present' /\ bft[i].name # NoName,
         RefsExact'
  PROVE  Rest'
<1>1. \A u \in Threads : InFile(u)' <=> InFile(u)
  BY DEF InFile
<1>2. OpenPresent' /\ OpenNamed'
  BY DEF OpenPresent, OpenNamed
<1>3. Locked' /\ LockHeld' /\ Exclusive'
  BY <1>1 DEF Locked, LockHeld, Exclusive, IInv, Rest, locks
<1>4. KindOK'
  BY DEF KindOK, KindAt, IInv, Rest
<1>5. Snapshots'
  BY DEF Snapshots, SnapshotAt, IInv, Rest
<1> QED
  BY <1>2, <1>3, <1>4, <1>5 DEF Rest

LEMMA OpenStep ==
  ASSUME IInv, NEW t \in Threads, NEW n \in Names, Open(t, n)
  PROVE  IInv'
<1>1. /\ pc[t] = "idle" /\ handle[t] = None /\ metaOwner' = None
      /\ UNCHANGED <<table, locks, pc, job>>
  BY DEF Open, Section
<1>2. PICK i \in Find(n) : Oft!Acquire(i) /\ handle' = [handle EXCEPT ![t] = i]
  BY DEF Open
<1>3. i \in Indices /\ bft[i].name # NoName
  BY FindType, LevelAssumption
<1>4. Oft!TypeOK'
  BY <1>2, <1>3 DEF Oft!Acquire, Oft!TypeOK, IInv, TypeOK
<1>5. TypeOK'
  BY <1>1, <1>2, <1>3, <1>4 DEF IInv, TypeOK, table, locks
<1>6. /\ \A u \in Threads \ {t} : handle'[u] = handle[u]
      /\ handle'[t] = i
  BY <1>2, <1>3 DEF IInv, TypeOK
<1>7. RefsExact'
  <2> SUFFICES ASSUME NEW k \in Indices
               PROVE  refs'[k] = Cardinality({u \in Threads : Using(u, k)})'
    BY DEF RefsExact
  <2>1. CASE k = i
    <3>1. /\ {u \in Threads : Using(u, i)}' = {u \in Threads : Using(u, i)} \cup {t}
          /\ t \notin {u \in Threads : Using(u, i)}
      BY <1>1, <1>3, <1>6, LevelAssumption DEF Using, Indices
    <3>2. Cardinality({u \in Threads : Using(u, i)})' = Cardinality({u \in Threads : Using(u, i)}) + 1
      BY <3>1, UsersFinite, FS_AddElement
    <3>3. refs'[i] = refs[i] + 1
      BY <1>2, <1>3 DEF Oft!Acquire, Oft!TypeOK, IInv, TypeOK
    <3> QED
      BY <2>1, <3>2, <3>3 DEF IInv, Rest, RefsExact
  <2>2. CASE k # i
    <3>1. {u \in Threads : Using(u, k)}' = {u \in Threads : Using(u, k)}
      BY <1>1, <1>6, <2>2, LevelAssumption DEF Using, Indices
    <3>2. refs'[k] = refs[k]
      BY <1>2, <2>2 DEF Oft!Acquire, Oft!TypeOK, IInv, TypeOK
    <3> QED
      BY <3>1, <3>2 DEF IInv, Rest, RefsExact
  <2> QED
    BY <2>1, <2>2
<1>8. ASSUME NEW u \in Threads, NEW k \in Indices, Using(u, k)'
      PROVE  k \in present' /\ bft[k].name # NoName
  <2>1. CASE u = t
    BY <2>1, <1>8, <1>2, <1>3, <1>6 DEF Using, Oft!Acquire
  <2>2. CASE u # t
    <3>1. Using(u, k)
      BY <2>2, <1>8, <1>1, <1>6 DEF Using
    <3> QED
      BY <3>1, <1>2 DEF IInv, Rest, OpenPresent, OpenNamed, Oft!Acquire
  <2> QED
    BY <2>1, <2>2
<1>9. Rest'
  BY <1>1, <1>6, <1>7, <1>8, IdleNotInFile, HandlePreserves DEF table
<1> QED
  BY <1>5, <1>9 DEF IInv

LEMMA ReleaseStep ==
  ASSUME IInv, NEW t \in Threads, Release(t)
  PROVE  IInv'
<1>0. PICK i \in Indices : i = handle[t]
  BY DEF Release, IInv, TypeOK
<1>1. /\ pc[t] = "idle" /\ handle[t] = i /\ Oft!Drop(i)
      /\ UNCHANGED <<table, metaOwner, locks, job>>
  BY <1>0 DEF Release
<1>2. \/ pc' = [pc EXCEPT ![t] = "reap"] /\ UNCHANGED handle
      \/ UNCHANGED pc /\ handle' = [handle EXCEPT ![t] = None]
  BY <1>0 DEF Release, GoTo
<1>3. Oft!TypeOK'
  BY <1>1 DEF Oft!Drop, Oft!TypeOK, IInv, TypeOK
<1>4. TypeOK'
  BY <1>1, <1>2, <1>3 DEF IInv, TypeOK, table, locks, PCs
<1>5. /\ \A u \in Threads \ {t} : handle'[u] = handle[u] /\ pc'[u] = pc[u]
      /\ \A k \in Indices : ~Using(t, k)'
      /\ pc'[t] \in {"idle", "reap"}
  BY <1>1, <1>2, LevelAssumption DEF IInv, TypeOK, Using, Indices
<1>6. Using(t, i) /\ \A k \in Indices \ {i} : ~Using(t, k)
  BY <1>1 DEF Using
<1>7. RefsExact'
  <2> SUFFICES ASSUME NEW k \in Indices
               PROVE  refs'[k] = Cardinality({u \in Threads : Using(u, k)})'
    BY DEF RefsExact
  <2>1. CASE k = i
    <3>0. PICK S : S = {u \in Threads : Using(u, i)}
      OBVIOUS
    <3>1. {u \in Threads : Using(u, i)}' = S \ {t} /\ t \in S /\ IsFiniteSet(S)
      BY <3>0, <1>5, <1>6, UsersFinite DEF Using
    <3>2. Cardinality(S \ {t}) = Cardinality(S) - 1
      BY <3>1, FS_RemoveElement
    <3>3. refs'[i] = refs[i] - 1
      BY <1>1 DEF Oft!Drop, Oft!TypeOK, IInv, TypeOK
    <3> QED
      BY <2>1, <3>0, <3>1, <3>2, <3>3 DEF IInv, Rest, RefsExact
  <2>2. CASE k # i
    <3>1. {u \in Threads : Using(u, k)}' = {u \in Threads : Using(u, k)}
      BY <1>5, <1>6, <2>2 DEF Using
    <3>2. refs'[k] = refs[k]
      BY <1>1, <2>2 DEF Oft!Drop, Oft!TypeOK, IInv, TypeOK
    <3> QED
      BY <3>1, <3>2 DEF IInv, Rest, RefsExact
  <2> QED
    BY <2>1, <2>2
<1>8. ASSUME NEW u \in Threads, NEW k \in Indices, Using(u, k)'
      PROVE  k \in present' /\ bft[k].name # NoName
  <2>1. Using(u, k)
    BY <1>8, <1>5 DEF Using
  <2> QED
    BY <2>1, <1>1 DEF IInv, Rest, OpenPresent, OpenNamed, Oft!Drop
<1>9. ~InFile(t) /\ ~InFile(t)' /\ KindAt(t)' /\ SnapshotAt(t)'
  BY <1>1, <1>5 DEF InFile, KindAt, SnapshotAt, AfterGetSize
<1>10. Rest'
  BY <1>1, <1>5, <1>7, <1>8, <1>9, HandlePreserves DEF table
<1> QED
  BY <1>4, <1>10 DEF IInv

LEMMA ReapStep ==
  ASSUME IInv, NEW t \in Threads, Reap(t)
  PROVE  IInv'
<1>1. /\ pc[t] = "reap"
      /\ pc' = [pc EXCEPT ![t] = "idle"]
      /\ handle' = [handle EXCEPT ![t] = None]
      /\ UNCHANGED <<table, metaOwner, locks, job>>
      /\ Oft!Reap(handle[t]) \/ UNCHANGED oft
  BY DEF Reap, GoTo
<1>2. Oft!TypeOK'
  BY <1>1 DEF Oft!Reap, oft, Oft!TypeOK, IInv, TypeOK
<1>3. TypeOK'
  BY <1>1, <1>2 DEF IInv, TypeOK, table, locks, PCs
<1>4. \A u \in Threads, k \in Indices : Using(u, k)' <=> Using(u, k)
  BY <1>1, LevelAssumption DEF Using, IInv, TypeOK, Indices
<1>5. RefsExact'
  <2> SUFFICES ASSUME NEW k \in Indices
               PROVE  refs'[k] = Cardinality({u \in Threads : Using(u, k)})'
    BY DEF RefsExact
  <2>1. {u \in Threads : Using(u, k)}' = {u \in Threads : Using(u, k)}
    BY <1>4
  <2> QED
    BY <2>1, <1>1 DEF IInv, Rest, RefsExact, Oft!Reap, oft
<1>6. ASSUME NEW u \in Threads, NEW k \in Indices, Using(u, k)'
      PROVE  k \in present' /\ bft[k].name # NoName
  <2>1. Using(u, k)
    BY <1>4, <1>6
  <2>2. u \in {v \in Threads : Using(v, k)}
    BY <2>1
  <2>3. refs[k] # 0
    BY <2>2, UsersFinite, FS_EmptySet DEF IInv, Rest, RefsExact
  <2> QED
    BY <2>1, <2>3, <1>1 DEF IInv, Rest, OpenPresent, OpenNamed, Oft!Reap, oft
<1>7. ~InFile(t) /\ ~InFile(t)' /\ KindAt(t)' /\ SnapshotAt(t)'
  BY <1>1 DEF InFile, KindAt, SnapshotAt, AfterGetSize, IInv, TypeOK
<1>8. \A u \in Threads \ {t} : pc'[u] = pc[u] /\ handle'[u] = handle[u]
  BY <1>1 DEF IInv, TypeOK
<1>9. Rest'
  BY <1>1, <1>5, <1>6, <1>7, <1>8, HandlePreserves DEF table
<1> QED
  BY <1>3, <1>9 DEF IInv

----------------------------------------------------------------------------
(* Operations on handles.                                                   *)

LEMMA BeginStep ==
  ASSUME IInv, NEW t \in Threads, NEW kind \in Kinds, NEW arg \in 0 .. MaxSize,
         \/ kind = "read" /\ BeginRead(t, arg)
         \/ kind # "read" /\ BeginWrite(t, kind, arg)
  PROVE  IInv'
<1>1. /\ pc[t] = "idle" /\ handle[t] # None
      /\ pc' = [pc EXCEPT ![t] = "size"]
      /\ job' = [job EXCEPT ![t] = [job[t] EXCEPT !.kind = kind, !.arg = arg]]
      /\ UNCHANGED <<table, metaOwner, oft, handle>>
  BY DEF BeginRead, BeginWrite, Begin, GoTo, IInv, TypeOK, Jobs
<1>2. PICK i \in Indices : i = handle[t]
  BY <1>1 DEF IInv, TypeOK
<1>3. /\ writer[i] = None
      /\ IF kind = "read" THEN readers' = [readers EXCEPT ![i] = @ \cup {t}] /\ writer' = writer
         ELSE /\ readers[i] = {} /\ readers' = readers
              /\ writer' = [writer EXCEPT ![i] = t]
  BY <1>2 DEF BeginRead, BeginWrite
<1>4. [job[t] EXCEPT !.kind = kind, !.arg = arg] \in Jobs
  BY DEF IInv, TypeOK, Jobs
<1>5. /\ job' \in [Threads -> Jobs] /\ pc' \in [Threads -> PCs]
      /\ pc'[t] = "size" /\ job'[t].kind = kind
      /\ \A u \in Threads \ {t} : pc'[u] = pc[u] /\ job'[u] = job[u]
  BY <1>1, <1>4 DEF IInv, TypeOK, PCs, Jobs
<1>6. TypeOK'
  <2>1. readers' \in [Indices -> SUBSET Threads] /\ writer' \in [Indices -> Threads \cup {None}]
    BY <1>3 DEF IInv, TypeOK
  <2> QED
    BY <1>1, <1>5, <2>1 DEF IInv, TypeOK, Oft!TypeOK, table, oft
<1>7. \A u \in Threads, k \in Indices : Using(u, k)' <=> Using(u, k)
  BY <1>1, <1>5 DEF Using
<1>8. RefsExact'
  <2> SUFFICES ASSUME NEW k \in Indices
               PROVE  refs'[k] = Cardinality({u \in Threads : Using(u, k)})'
    BY DEF RefsExact
  <2>1. {u \in Threads : Using(u, k)}' = {u \in Threads : Using(u, k)}
    BY <1>7
  <2> QED
    BY <2>1, <1>1 DEF IInv, Rest, RefsExact, oft
<1>9. OpenPresent' /\ OpenNamed'
  BY <1>1, <1>7 DEF OpenPresent, OpenNamed, IInv, Rest, table, oft
<1>10. /\ \A u \in Threads \ {t} : InFile(u)' <=> InFile(u)
       /\ ~InFile(t) /\ InFile(t)'
  BY <1>1, <1>5 DEF InFile, AfterGetSize
<1>11. Locked'
  <2> SUFFICES ASSUME NEW u \in Threads, InFile(u)'
               PROVE  /\ handle'[u] \in Indices
                      /\ IF job'[u].kind = "read" THEN u \in readers'[handle'[u]]
                         ELSE writer'[handle'[u]] = u
    BY DEF Locked
  <2>1. CASE u = t
    BY <2>1, <1>1, <1>2, <1>3, <1>5 DEF IInv, TypeOK
  <2>2. CASE u # t
    <3>1. /\ handle[u] \in Indices
          /\ IF job[u].kind = "read" THEN u \in readers[handle[u]]
             ELSE writer[handle[u]] = u
      BY <2>2, <1>10 DEF Locked, IInv, Rest
    <3>2. /\ u \in readers[handle[u]] => u \in readers'[handle[u]]
          /\ writer[handle[u]] = u => writer'[handle[u]] = u
      BY <3>1, <1>3, LevelAssumption DEF IInv, TypeOK
    <3> QED
      BY <2>2, <3>1, <3>2, <1>1, <1>5
  <2> QED
    BY <2>1, <2>2
<1>12. LockHeld'
  <2> SUFFICES ASSUME NEW u \in Threads, NEW k \in Indices,
                      u \in readers'[k] \/ writer'[k] = u
               PROVE  InFile(u)' /\ handle'[u] = k
    BY DEF LockHeld
  <2>1. \/ u \in readers[k] \/ writer[k] = u
        \/ u = t /\ k = i
    BY <1>3 DEF IInv, TypeOK
  <2> QED
    BY <2>1, <1>1, <1>2, <1>10 DEF LockHeld, IInv, Rest
<1>13. Exclusive'
  BY <1>3 DEF Exclusive, IInv, Rest, TypeOK
<1>14. KindOK'
  BY <1>5 DEF KindOK, KindAt, IInv, Rest
<1>15. Snapshots'
  <2> SUFFICES ASSUME NEW u \in Threads PROVE SnapshotAt(u)'
    BY DEF Snapshots
  <2>1. CASE u = t
    BY <2>1, <1>5 DEF SnapshotAt, AfterGetSize
  <2>2. CASE u # t
    BY <2>2, <1>1, <1>5 DEF SnapshotAt, IInv, Rest, Snapshots, table
  <2> QED
    BY <2>1, <2>2
<1> QED
  BY <1>6, <1>8, <1>9, <1>11, <1>12, <1>13, <1>14, <1>15 DEF IInv, Rest

\* What the steps inside an operation have in common: t goes from label to label.
LEMMA AdvanceStep ==
  ASSUME IInv, NEW t \in Threads,
         pc[t] \notin {"idle", "reap"}, pc'[t] \notin {"idle", "reap"},
         UNCHANGED <<bft, oft, locks, handle>>,
         bitmap' \subseteq Clusters, next' \in [Clusters -> Links],
         metaOwner' \in Threads \cup {None},
         pc' \in [Threads -> PCs], job' \in [Threads -> Jobs],
         \A u \in Threads \ {t} : pc'[u] = pc[u] /\ job'[u] = job[u],
         job'[t].kind = job[t].kind, KindAt(t)',
         \/ pc[t] # "size" /\ job'[t].size = job[t].size
         \/ pc[t] = "size" /\ job'[t].size = bft[handle[t]].size
  PROVE  IInv'
<1>1. TypeOK'
  BY DEF IInv, TypeOK, Oft!TypeOK, oft, locks
<1>2. KindAt(t)
  BY DEF IInv, Rest, KindOK
<1>3. /\ InFile(t) <=> job[t].kind # "unlink"
      /\ InFile(t)' <=> job[t].kind # "unlink"
  BY <1>1, <1>2 DEF InFile, KindAt, AfterGetSize, IInv, TypeOK, PCs, Kinds
<1>4. \A u \in Threads, i \in Indices : Using(u, i) =>
           bft'[i].name # NoName /\ bft'[i].size = bft[i].size
  BY DEF IInv, Rest, OpenNamed
<1>5. SnapshotAt(t)'
  <2>1. CASE job[t].kind = "unlink"
    BY <2>1, <1>2, <1>3 DEF SnapshotAt, InFile
  <2>2. CASE job[t].kind # "unlink"
    <3>1. handle[t] \in Indices /\ Using(t, handle[t])
      BY <2>2, <1>3 DEF IInv, Rest, Locked, Using
    <3>2. bft[handle[t]].name # NoName
      BY <3>1 DEF IInv, Rest, OpenNamed
    <3>3. bft[handle[t]].size = job'[t].size
      BY <2>2, <1>3 DEF IInv, Rest, Snapshots, SnapshotAt, InFile
    <3> QED
      BY <3>2, <3>3 DEF SnapshotAt
  <2> QED
    BY <2>1, <2>2
<1>6. Rest'
  BY <1>3, <1>4, <1>5, MovePreserves
<1> QED
  BY <1>1, <1>6 DEF IInv

\* ... and this is what the ones that return have in common.
LEMMA ReturnStep ==
  ASSUME IInv, NEW t \in Threads, pc[t] # "reap", Finish(t), UNCHANGED <<oft, handle>>,
         bft' \in [Indices -> Entries], bitmap' \subseteq Clusters,
         next' \in [Clusters -> Links], metaOwner' \in Threads \cup {None},
         \A i \in Indices : bft'[i].name = bft[i].name,
         \A i \in Indices : bft'[i].size = bft[i].size \/ writer[i] = t
  PROVE  IInv'
<1>1. OpType'
  BY FinishType DEF OpType, IInv, TypeOK
<1>2. TypeOK'
  BY <1>1 DEF OpType, IInv, TypeOK, Oft!TypeOK, oft
<1>3. Rest'
  BY FinishPreserves
<1> QED
  BY <1>2, <1>3 DEF IInv

LEMMA GetSizeStep ==
  ASSUME IInv, NEW t \in Threads, GetSize(t)
  PROVE  IInv'
<1>1. /\ pc[t] = "size" /\ metaOwner' = None
      /\ UNCHANGED <<table, oft, handle>>
  BY DEF GetSize, Section
<1>2. PICK i \in Indices : i = handle[t]
  BY <1>1 DEF IInv, Rest, Locked, InFile
<1>3. PICK kind, arg, size : kind = job[t].kind /\ arg = job[t].arg /\ size = bft[i].size
  OBVIOUS
<1>4. \/ Finish(t)
      \/ /\ job' = [job EXCEPT ![t].size = size, ![t].cur = bft[i].first,
                               ![t].hops = EofHops(Lesser(arg, size))]
         /\ GoTo(t, IF SameClusters(kind, arg, size) THEN "commit" ELSE "walk")
         /\ UNCHANGED locks
  BY <1>2, <1>3 DEF GetSize
<1>5. CASE Finish(t)
  BY <1>1, <1>5, ReturnStep DEF IInv, TypeOK, table
<1>6. CASE /\ job' = [job EXCEPT ![t].size = size, ![t].cur = bft[i].first,
                               ![t].hops = EofHops(Lesser(arg, size))]
           /\ GoTo(t, IF SameClusters(kind, arg, size) THEN "commit" ELSE "walk")
           /\ UNCHANGED locks
  <2>1. kind \in Kinds
    BY <1>1, <1>3 DEF IInv, Rest, KindOK, KindAt
  <2>2. SameClusters(kind, arg, size) => kind # "read"
    BY DEF SameClusters
  <2>3. PICK label \in {"commit", "walk"} :
          /\ label = "commit" => kind # "read"
          /\ pc' = [pc EXCEPT ![t] = label]
    BY <1>6, <2>2 DEF GoTo
  <2>4. PICK hops : hops = EofHops(Lesser(arg, size))
    OBVIOUS
  <2>5. job[t] \in Jobs
    BY DEF IInv, TypeOK
  <2>6. size \in 0 .. MaxSize /\ bft[i].first \in Clusters /\ arg \in 0 .. MaxSize
    BY <1>3, <2>5, JobFields DEF IInv, TypeOK, Entries
  <2>7. hops \in Nat
    BY <2>4, <2>6, EofHopsType DEF Lesser
  <2>8. PICK j : j = [job[t] EXCEPT !.size = size, !.cur = bft[i].first, !.hops = hops]
    OBVIOUS
  <2>9. j \in Jobs /\ j.kind = kind /\ j.size = size
    BY <2>5, <2>6, <2>7, <2>8, <1>3 DEF Jobs
  <2>10. job' = [job EXCEPT ![t] = j]
    BY <1>6, <2>4, <2>8 DEF IInv, TypeOK
  <2>11. /\ job' \in [Threads -> Jobs] /\ pc' \in [Threads -> PCs]
         /\ job'[t] = j /\ pc'[t] = label
         /\ \A u \in Threads \ {t} : pc'[u] = pc[u] /\ job'[u] = job[u]
    BY <2>3, <2>9, <2>10 DEF IInv, TypeOK, PCs
  <2>12. KindAt(t)'
    BY <2>1, <2>3, <2>9, <2>11 DEF KindAt
  <2> QED
    BY <1>1, <1>2, <1>3, <1>6, <2>3, <2>9, <2>11, <2>12, AdvanceStep DEF IInv, TypeOK, table
<1> QED
  BY <1>4, <1>5, <1>6

LEMMA WalkStep ==
  ASSUME IInv, NEW t \in Threads, Walk(t)
  PROVE  IInv'
<1>1. /\ pc[t] = "walk" /\ job[t].hops > 0
      /\ UNCHANGED <<table, metaOwner, oft, handle>>
  BY DEF Walk
<1>2. job[t] \in Jobs /\ job[t].kind \in Kinds
  BY <1>1 DEF IInv, TypeOK, Rest, KindOK, KindAt
<1>3. \/ Finish(t)
      \/ \E link \in Clusters :
           /\ job' = [job EXCEPT ![t].cur = link, ![t].hops = @ - 1]
           /\ UNCHANGED <<locks, pc>>
  BY DEF Walk
<1>4. CASE Finish(t)
  BY <1>1, <1>4, ReturnStep DEF IInv, TypeOK, table
<1>5. ASSUME NEW link \in Clusters,
             job' = [job EXCEPT ![t].cur = link, ![t].hops = @ - 1],
             UNCHANGED <<locks, pc>>
      PROVE  IInv'
  <2>1. PICK j : j = [job[t] EXCEPT !.cur = link, !.hops = job[t].hops - 1]
    OBVIOUS
  <2>2. job[t].hops - 1 \in Nat
    BY <1>1, <1>2, JobFields
  <2>3. j \in Jobs /\ j.kind = job[t].kind /\ j.size = job[t].size
    BY <1>2, <2>1, <2>2 DEF Jobs
  <2>4. job' = [job EXCEPT ![t] = j]
    BY <1>5, <2>1 DEF IInv, TypeOK
  <2>5. job' \in [Threads -> Jobs] /\ job'[t] = j /\ \A u \in Threads \ {t} : job'[u] = job[u]
    BY <2>3, <2>4 DEF IInv, TypeOK
  <2>6. KindAt(t)'
    BY <1>1, <1>2, <1>5, <2>3, <2>5 DEF KindAt
  <2> QED
    BY <1>1, <1>5, <2>3, <2>5, <2>6, AdvanceStep DEF IInv, TypeOK, table
<1> QED
  BY <1>3, <1>4, <1>5

\* A step that only moves the label, and may write the bitmap and the disk.
LEMMA LabelStep ==
  ASSUME IInv, NEW t \in Threads, NEW label \in PCs,
         pc[t] \notin {"idle", "size", "reap"}, label \notin {"idle", "reap"},
         GoTo(t, label), UNCHANGED <<bft, oft, locks, handle, job>>,
         bitmap' \subseteq Clusters, next' \in [Clusters -> Links],
         metaOwner' \in Threads \cup {None},
         /\ label \in {"size", "walk"} => job[t].kind \in Kinds
         /\ label \in {"alloc", "fill", "hook", "undo", "commit", "cut"}
              => job[t].kind \in Kinds \ {"read"}
         /\ label \in {"collect", "free"} => job[t].kind \in {"unlink", "ftruncate"}
  PROVE  IInv'
<1>1. /\ pc' \in [Threads -> PCs] /\ pc'[t] = label
      /\ \A u \in Threads \ {t} : pc'[u] = pc[u]
  BY DEF GoTo, IInv, TypeOK
<1>2. KindAt(t)'
  BY <1>1 DEF KindAt
<1> QED
  BY <1>1, <1>2, AdvanceStep DEF IInv, TypeOK

LEMMA ArriveStep ==
  ASSUME IInv, NEW t \in Threads, Arrive(t)
  PROVE  IInv'
<1>1. pc[t] = "walk" /\ UNCHANGED <<table, metaOwner, oft, handle>>
  BY DEF Arrive
<1>2. job[t] \in Jobs /\ job[t].kind \in Kinds
  BY <1>1 DEF IInv, TypeOK, Rest, KindOK, KindAt
<1>3. \/ Finish(t)
      \/ \E label \in {"commit", "alloc"} :
           job[t].kind # "read" /\ GoTo(t, label) /\ UNCHANGED <<locks, job>>
      \/ /\ job[t].kind = "ftruncate"
         /\ StartCollect(t, "ftruncate", next[job[t].cur])
         /\ UNCHANGED locks
  BY DEF Arrive
<1>4. CASE Finish(t)
  BY <1>1, <1>4, ReturnStep DEF IInv, TypeOK, table
<1>5. ASSUME NEW label \in {"commit", "alloc"},
             job[t].kind # "read" /\ GoTo(t, label) /\ UNCHANGED <<locks, job>>
      PROVE  IInv'
  <2>1. label \in PCs
    BY DEF PCs
  <2> QED
    BY <1>1, <1>2, <1>5, <2>1, LabelStep DEF IInv, TypeOK, table
<1>6. CASE /\ job[t].kind = "ftruncate"
           /\ StartCollect(t, "ftruncate", next[job[t].cur])
           /\ UNCHANGED locks
  <2>1. next[job[t].cur] \in Links
    BY <1>2, JobFields DEF IInv, TypeOK
  <2>2. /\ pc' \in [Threads -> PCs] /\ job' \in [Threads -> Jobs]
        /\ pc'[t] = "collect" /\ job'[t].kind = "ftruncate" /\ job'[t].size = job[t].size
        /\ \A u \in Threads \ {t} : pc'[u] = pc[u] /\ job'[u] = job[u]
    BY <1>6, <2>1, StartCollectStep DEF IInv
  <2>3. KindAt(t)'
    BY <2>2 DEF KindAt
  <2> QED
    BY <1>1, <1>6, <2>2, <2>3, AdvanceStep DEF IInv, TypeOK, table
<1> QED
  BY <1>3, <1>4, <1>5, <1>6

LEMMA AllocClustersStep ==
  ASSUME IInv, NEW t \in Threads, AllocClusters(t)
  PROVE  IInv'
<1>1. /\ pc[t] = "alloc" /\ metaOwner' = None /\ UNCHANGED <<bft, next, oft, handle>>
  BY DEF AllocClusters, Section
<1>2. PICK n : n = NewClusters(job[t].size, job[t].arg)
  OBVIOUS
<1>3. \/ /\ n <= Cardinality(FreeClusters)
         /\ \E list \in [1 .. n -> FreeClusters] :
              /\ bitmap' = bitmap \cup Elements(list)
              /\ job' = [job EXCEPT ![t].list = list]
         /\ GoTo(t, "fill")
         /\ UNCHANGED locks
      \/ bitmap' = bitmap \cup Last(FreeClusters) /\ Finish(t)
  BY <1>2 DEF AllocClusters
<1>4. CASE bitmap' = bitmap \cup Last(FreeClusters) /\ Finish(t)
  <2>1. bitmap' \subseteq Clusters
    BY <1>4, FirstSubset DEF FreeClusters, IInv, TypeOK
  <2> QED
    BY <1>1, <1>4, <2>1, ReturnStep DEF IInv, TypeOK
<1>5. ASSUME NEW list \in [1 .. n -> FreeClusters],
             bitmap' = bitmap \cup Elements(list),
             job' = [job EXCEPT ![t].list = list],
             GoTo(t, "fill"), UNCHANGED locks
      PROVE  IInv'
  <2>1. job[t] \in Jobs /\ job[t].kind \in Kinds \ {"read"}
    BY <1>1 DEF IInv, TypeOK, Rest, KindOK, KindAt
  <2>2. n \in Int
    <3>1. /\ job[t].size \in 0 .. MaxSize /\ job[t].arg \in 0 .. MaxSize
          /\ DataSize \in Nat \ {0} /\ MaxSize \in Nat
      BY <2>1, JobFields, LevelAssumption
    <3>2. LocalEof(job[t].size) \in Int
      BY <3>1 DEF LocalEof
    <3> QED
      BY <1>2, <3>1, <3>2 DEF NewClusters
  <2>3. list \in Seq(Clusters) /\ Elements(list) \subseteq Clusters
    <3>1. list \in [1 .. n -> Clusters]
      BY DEF FreeClusters
    <3>2. PICK m \in Nat : 1 .. n = 1 .. m
      <4>1. CASE n \in Nat
        BY <4>1
      <4>2. CASE n < 0
        <5>1. 1 .. n = 1 .. 0
          BY <2>2, <4>2
        <5> QED
          BY <5>1
      <4> QED
        BY <2>2, <4>1, <4>2
    <3>3. list \in [1 .. m -> Clusters]
      BY <3>1, <3>2
    <3>4. list \in Seq(Clusters)
      BY <3>3
    <3> QED
      BY <3>4, ElementsType
  <2>4. PICK j : j = [job[t] EXCEPT !.list = list]
    OBVIOUS
  <2>5. j \in Jobs /\ j.kind = job[t].kind /\ j.size = job[t].size
    BY <2>1, <2>3, <2>4 DEF Jobs
  <2>6. job' = [job EXCEPT ![t] = j]
    BY <1>5, <2>4 DEF IInv, TypeOK
  <2>7. job' \in [Threads -> Jobs] /\ job'[t] = j /\ \A u \in Threads \ {t} : job'[u] = job[u]
    BY <2>5, <2>6 DEF IInv, TypeOK
  <2>8. /\ pc' \in [Threads -> PCs] /\ pc'[t] = "fill"
        /\ \A u \in Threads \ {t} : pc'[u] = pc[u]
    BY <1>5 DEF GoTo, IInv, TypeOK, PCs
  <2>9. KindAt(t)'
    BY <2>1, <2>5, <2>7, <2>8 DEF KindAt
  <2>10. bitmap' \subseteq Clusters
    BY <1>5, <2>3 DEF IInv, TypeOK
  <2> QED
    BY <1>1, <1>5, <2>5, <2>7, <2>8, <2>9, <2>10, AdvanceStep DEF IInv, TypeOK
<1> QED
  BY <1>3, <1>4, <1>5

LEMMA FillStep ==
  ASSUME IInv, NEW t \in Threads, Fill(t)
  PROVE  IInv'
<1>1. pc[t] = "fill" /\ UNCHANGED <<bft, bitmap, metaOwner, oft, locks, handle, job>>
  BY DEF Fill
<1>2. /\ job[t].list \in Seq(Clusters) /\ Len(job[t].list) \in Nat
      /\ job[t].kind \in Kinds \ {"read"}
  BY <1>1, JobFields DEF IInv, TypeOK, Rest, KindOK, KindAt
<1>3. \E k \in 0 .. Len(job[t].list), label \in {"hook", "undo"} :
        next' = Linked(job[t].list, k) /\ GoTo(t, label)
  BY <1>2 DEF Fill
<1>4. PICK k \in 0 .. Len(job[t].list), label \in {"hook", "undo"} :
        next' = Linked(job[t].list, k) /\ GoTo(t, label)
  BY <1>3
<1>5. next' \in [Clusters -> Links]
  BY <1>2, <1>4, LinkedType DEF IInv, TypeOK
<1>6. label \in PCs
  BY DEF PCs
<1> QED
  BY <1>1, <1>2, <1>4, <1>5, <1>6, LabelStep DEF IInv, TypeOK

LEMMA HookStep ==
  ASSUME IInv, NEW t \in Threads, Hook(t)
  PROVE  IInv'
<1>1. pc[t] = "hook" /\ UNCHANGED <<bft, bitmap, metaOwner, oft, locks, handle, job>>
  BY DEF Hook
<1>2. /\ job[t].list \in Seq(Clusters)
      /\ job[t].kind \in Kinds \ {"read"}
  BY <1>1, JobFields DEF IInv, TypeOK, Rest, KindOK, KindAt
<1>3. PICK label \in {"commit", "undo"} :
        /\ GoTo(t, label)
        /\ \/ next' = [next EXCEPT ![job[t].cur] =
                        IF job[t].list = <<>> THEN EOF ELSE Head(job[t].list)]
           \/ UNCHANGED next
  BY DEF Hook
<1>4. (IF job[t].list = <<>> THEN EOF ELSE Head(job[t].list)) \in Links
  BY <1>2 DEF Links
<1>5. next' \in [Clusters -> Links]
  BY <1>3, <1>4 DEF IInv, TypeOK
<1>6. label \in PCs
  BY DEF PCs
<1> QED
  BY <1>1, <1>2, <1>3, <1>5, <1>6, LabelStep DEF IInv, TypeOK

LEMMA UndoStep ==
  ASSUME IInv, NEW t \in Threads, Undo(t)
  PROVE  IInv'
<1>1. /\ pc[t] = "undo" /\ metaOwner' = None /\ Finish(t)
      /\ bitmap' = bitmap \ Elements(job[t].list)
      /\ UNCHANGED <<bft, next, oft, handle>>
  BY DEF Undo, Section
<1> QED
  BY <1>1, ReturnStep DEF IInv, TypeOK

\* The write lock is what makes the commit safe: t holds it.
LEMMA CommitStep ==
  ASSUME IInv, NEW t \in Threads, Commit(t)
  PROVE  IInv'
<1>1. /\ pc[t] = "commit" /\ metaOwner' = None /\ Finish(t)
      /\ bft' = [bft EXCEPT ![handle[t]].size = NewSize(t)]
      /\ UNCHANGED <<bitmap, next, oft, handle>>
  BY DEF Commit, Section
<1>2. job[t] \in Jobs /\ job[t].kind # "read"
  BY <1>1 DEF IInv, TypeOK, Rest, KindOK, KindAt
<1>3. handle[t] \in Indices /\ writer[handle[t]] = t
  BY <1>1, <1>2 DEF IInv, Rest, Locked, InFile, AfterGetSize
<1>4. NewSize(t) \in 0 .. MaxSize
  BY <1>2, JobFields DEF NewSize, Greater
<1>5. /\ bft' \in [Indices -> Entries]
      /\ \A i \in Indices : bft'[i].name = bft[i].name
      /\ \A i \in Indices : bft'[i].size = bft[i].size \/ writer[i] = t
  BY <1>1, <1>3, <1>4 DEF IInv, TypeOK, Entries
<1> QED
  BY <1>1, <1>5, ReturnStep DEF IInv, TypeOK

LEMMA CollectStep ==
  ASSUME IInv, NEW t \in Threads, Collect(t)
  PROVE  IInv'
<1>1. pc[t] = "collect" /\ UNCHANGED <<table, metaOwner, oft, handle>>
  BY DEF Collect
<1>2. job[t] \in Jobs /\ job[t].kind \in {"unlink", "ftruncate"}
  BY <1>1 DEF IInv, TypeOK, Rest, KindOK, KindAt
<1>3. \/ GoTo(t, "free") /\ UNCHANGED <<locks, job>>
      \/ /\ job[t].at \in Clusters
         /\ job' = [job EXCEPT ![t].at = next[job[t].at], ![t].list = Append(@, job[t].at)]
         /\ UNCHANGED <<locks, pc>>
      \/ Finish(t)
  BY DEF Collect
<1>4. CASE Finish(t)
  BY <1>1, <1>4, ReturnStep DEF IInv, TypeOK, table
<1>5. CASE GoTo(t, "free") /\ UNCHANGED <<locks, job>>
  <2>1. "free" \in PCs
    BY DEF PCs
  <2> QED
    BY <1>1, <1>2, <1>5, <2>1, LabelStep DEF IInv, TypeOK, table
<1>6. CASE /\ job[t].at \in Clusters
           /\ job' = [job EXCEPT ![t].at = next[job[t].at], ![t].list = Append(@, job[t].at)]
           /\ UNCHANGED <<locks, pc>>
  <2>1. PICK j : j = [job[t] EXCEPT !.at = next[job[t].at],
                                    !.list = Append(job[t].list, job[t].at)]
    OBVIOUS
  <2>2. next[job[t].at] \in Links /\ Append(job[t].list, job[t].at) \in Seq(Clusters)
    BY <1>2, <1>6, JobFields DEF IInv, TypeOK
  <2>3. j \in Jobs /\ j.kind = job[t].kind /\ j.size = job[t].size
    BY <1>2, <2>1, <2>2 DEF Jobs
  <2>4. job' = [job EXCEPT ![t] = j]
    BY <1>6, <2>1 DEF IInv, TypeOK
  <2>5. job' \in [Threads -> Jobs] /\ job'[t] = j /\ \A u \in Threads \ {t} : job'[u] = job[u]
    BY <2>3, <2>4 DEF IInv, TypeOK
  <2>6. KindAt(t)'
    BY <1>1, <1>2, <1>6, <2>3, <2>5 DEF KindAt
  <2> QED
    BY <1>1, <1>6, <2>3, <2>5, <2>6, AdvanceStep DEF IInv, TypeOK, table
<1> QED
  BY <1>3, <1>4, <1>5, <1>6

LEMMA FreeChainStep ==
  ASSUME IInv, NEW t \in Threads, FreeChain(t)
  PROVE  IInv'
<1>1. /\ pc[t] = "free" /\ metaOwner' = None
      /\ bitmap' = bitmap \ Elements(job[t].list)
      /\ UNCHANGED <<bft, next, oft, handle>>
  BY DEF FreeChain, Section
<1>2. job[t].kind \in {"unlink", "ftruncate"}
  BY <1>1 DEF IInv, Rest, KindOK, KindAt
<1>3. CASE job[t].kind = "unlink"
  BY <1>1, <1>3, ReturnStep DEF FreeChain, IInv, TypeOK
<1>4. CASE job[t].kind = "ftruncate"
  <2>1. GoTo(t, "cut") /\ UNCHANGED <<locks, job>> /\ "cut" \in PCs
    BY <1>4 DEF FreeChain, PCs
  <2> QED
    BY <1>1, <1>4, <2>1, LabelStep DEF IInv, TypeOK, Kinds
<1> QED
  BY <1>2, <1>3, <1>4

LEMMA CutStep ==
  ASSUME IInv, NEW t \in Threads, Cut(t)
  PROVE  IInv'
<1>1. pc[t] = "cut" /\ UNCHANGED <<bft, bitmap, metaOwner, oft, handle>>
  BY DEF Cut
<1>2. \/ /\ next' = [next EXCEPT ![job[t].cur] = EOF]
         /\ GoTo(t, "commit") /\ UNCHANGED <<locks, job>>
      \/ Finish(t) /\ UNCHANGED next
  BY DEF Cut
<1>3. CASE Finish(t) /\ UNCHANGED next
  BY <1>1, <1>3, ReturnStep DEF IInv, TypeOK
<1>4. CASE /\ next' = [next EXCEPT ![job[t].cur] = EOF]
           /\ GoTo(t, "commit") /\ UNCHANGED <<locks, job>>
  <2>1. job[t].kind \in Kinds \ {"read"}
    BY <1>1 DEF IInv, Rest, KindOK, KindAt
  <2>2. next' \in [Clusters -> Links] /\ "commit" \in PCs
    BY <1>4 DEF IInv, TypeOK, Links, PCs
  <2> QED
    BY <1>1, <1>4, <2>1, <2>2, LabelStep DEF IInv, TypeOK
<1> QED
  BY <1>2, <1>3, <1>4

----------------------------------------------------------------------------
(* The invariant is inductive. *)

LEMMA StutterStep == IInv /\ UNCHANGED vars => IInv'
<1> SUFFICES ASSUME IInv, UNCHANGED vars PROVE IInv'
  OBVIOUS
<1>1. TypeOK'
  BY DEF IInv, TypeOK, Oft!TypeOK, vars, table, oft, locks
<1>2. RefsExact' /\ OpenPresent' /\ OpenNamed'
  BY DEF IInv, Rest, RefsExact, OpenPresent, OpenNamed, Using, vars, table, oft, locks
<1>3. Locked' /\ LockHeld' /\ Exclusive'
  BY DEF IInv, Rest, Locked, LockHeld, Exclusive, InFile, vars, table, oft, locks
<1>4. KindOK' /\ Snapshots'
  BY DEF IInv, Rest, KindOK, KindAt, Snapshots, SnapshotAt, vars, table, oft, locks
<1> QED
  BY <1>1, <1>2, <1>3, <1>4 DEF IInv, Rest

\* The alternatives of Next, as the proofs by cases use them.
LEMMA Steps ==
  ASSUME Next
  PROVE  \E t \in Threads :
           \/ \E n \in Names : Mknod(t, n)
           \/ \E n \in Names : Unlink(t, n)
           \/ \E n \in Names : Open(t, n)
           \/ \E old, new \in Names : Rename(t, old, new)
           \/ Attributes(t) \/ Release(t)
           \/ \E arg \in 0 .. MaxSize, kind \in Kinds :
                \/ kind = "read" /\ BeginRead(t, arg)
                \/ kind # "read" /\ BeginWrite(t, kind, arg)
           \/ Continue(t)
<1>1. 1 .. MaxSize \subseteq 0 .. MaxSize
  OBVIOUS
<1> QED
  BY <1>1 DEF Next, Kinds

LEMMA ContinueStep ==
  ASSUME IInv, NEW t \in Threads, Continue(t)
  PROVE  IInv'
<1> SUFFICES ASSUME ~ IInv' PROVE FALSE
  OBVIOUS
<1>1. ~GetSize(t) /\ ~Walk(t) /\ ~Arrive(t)
  BY GetSizeStep, WalkStep, ArriveStep
<1>2. ~AllocClusters(t) /\ ~Fill(t) /\ ~Hook(t) /\ ~Undo(t) /\ ~Commit(t)
  BY AllocClustersStep, FillStep, HookStep, UndoStep, CommitStep
<1>3. ~Collect(t) /\ ~FreeChain(t) /\ ~Cut(t) /\ ~Reap(t)
  BY CollectStep, FreeChainStep, CutStep, ReapStep
<1> QED
  BY <1>1, <1>2, <1>3 DEF Continue

\* What all the theorems below rest on: the operations of any number of threads
\* keep the handles, the locks and the table of open files of a level together.
THEOREM Inductive == Spec => []IInv
<1>1. IInv /\ [Next]_vars => IInv'
  <2> SUFFICES ASSUME IInv, Next PROVE IInv'
    BY StutterStep
  <2>1. PICK t \in Threads :
           \/ \E n \in Names : Mknod(t, n)
           \/ \E n \in Names : Unlink(t, n)
           \/ \E n \in Names : Open(t, n)
           \/ \E old, new \in Names : Rename(t, old, new)
           \/ Attributes(t) \/ Release(t)
           \/ \E arg \in 0 .. MaxSize, kind \in Kinds :
                \/ kind = "read" /\ BeginRead(t, arg)
                \/ kind # "read" /\ BeginWrite(t, kind, arg)
           \/ Continue(t)
    BY Steps
  <2> QED
    BY <2>1, MknodStep, UnlinkStep, OpenStep, RenameStep, AttributesStep,
       ReleaseStep, BeginStep, ContinueStep
<1> QED
  BY InitIInv, <1>1, PTL DEF Spec

\* Every variable of a level keeps its type.
THEOREM TypeCorrect == Spec => []TypeOK
<1>1. IInv => TypeOK
  BY DEF IInv
<1> QED
  BY Inductive, <1>1, PTL

\* The size an operation read under metadata_lock is still the file's when it
\* allocates, frees and commits, whatever the other threads did meanwhile.
THEOREM SnapshotIsCurrent == Spec => []SnapshotCurrent
<1>1. IInv => SnapshotCurrent
  BY DEF IInv, Rest, Snapshots, SnapshotAt, SnapshotCurrent
<1> QED
  BY Inductive, <1>1, PTL

----------------------------------------------------------------------------
(* Open files *)

LEMMA FirstStays ==
  ASSUME IInv, [Next]_vars, NEW u \in Threads, NEW k \in Indices, Using(u, k)
  PROVE  bft'[k].first = bft[k].first
<1>1. k \in present /\ bft[k].name # NoName /\ bft \in [Indices -> Entries]
  BY DEF IInv, TypeOK, Rest, OpenPresent, OpenNamed
<1>2. CASE UNCHANGED bft
  BY <1>2
<1>3. ASSUME NEW t \in Threads, NEW n \in Names, Mknod(t, n)
      PROVE  bft'[k].first = bft[k].first
  <2>1. \/ UNCHANGED bft
        \/ \E i \in Find(NoName), c \in First(FreeClusters) :
             bft' = [bft EXCEPT ![i] = [name |-> n, first |-> c, size |-> 0]]
    BY <1>3 DEF Mknod, table
  <2> QED
    BY <2>1, <1>1, FindType
<1>4. ASSUME NEW t \in Threads, NEW n \in Names, Unlink(t, n)
      PROVE  bft'[k].first = bft[k].first
  <2>1. PICK i \in Find(n) :
          \/ UNCHANGED bft
          \/ i \notin present /\ bft' = [bft EXCEPT ![i] = Zeroed]
    BY <1>4 DEF Unlink
  <2> QED
    BY <2>1, <1>1
<1>5. ASSUME NEW t \in Threads, NEW old \in Names, NEW new \in Names, Rename(t, old, new)
      PROVE  bft'[k].first = bft[k].first
  <2>1. CASE RenameExchange(t, old, new)
    <3>1. PICK i \in Find(old), j \in Find(new) :
            bft' = [bft EXCEPT ![i].name = bft[j].name, ![j].name = bft[i].name]
      BY <2>1 DEF RenameExchange
    <3> QED
      BY <3>1, <1>1 DEF Entries
  <2>2. CASE RenameMove(t, old, new)
    <3>1. PICK i \in Find(old) : bft' = [bft EXCEPT ![i].name = new]
      BY <2>2 DEF RenameMove
    <3> QED
      BY <3>1, <1>1 DEF Entries
  <2>3. CASE RenameOver(t, old, new)
    <3>1. PICK i \in Find(old), j \in Find(new) :
            \/ UNCHANGED bft
            \/ /\ j \notin present
               /\ bft' = [[bft EXCEPT ![j] = Zeroed] EXCEPT ![i].name = new]
      BY <2>3 DEF RenameOver
    <3>2. CASE j \notin present /\ bft' = [[bft EXCEPT ![j] = Zeroed] EXCEPT ![i].name = new]
      <4>1. PICK f : f = [bft EXCEPT ![j] = Zeroed]
        OBVIOUS
      <4>2. f \in [Indices -> Entries] /\ f[k] = bft[k]
        BY <4>1, <3>2, <1>1, ZeroIsCluster DEF Entries, Zeroed
      <4>3. bft' = [f EXCEPT ![i].name = new]
        BY <3>2, <4>1
      <4> QED
        BY <4>2, <4>3 DEF Entries
    <3> QED
      BY <3>1, <3>2
  <2> QED
    BY <1>5, <2>1, <2>2, <2>3 DEF Rename
<1>6. ASSUME NEW t \in Threads, Commit(t)
      PROVE  bft'[k].first = bft[k].first
  BY <1>6, <1>1 DEF Commit, Entries
<1>7. ASSUME NEW t \in Threads, Continue(t)
      PROVE  UNCHANGED bft \/ Commit(t)
  BY <1>7 DEF Continue, GetSize, Walk, Arrive, AllocClusters, Fill, Hook, Undo,
              Collect, FreeChain, Cut, Reap, table
<1>8. ASSUME NEW t \in Threads, Attributes(t) \/ Release(t) \/ \E n \in Names : Open(t, n)
      PROVE  UNCHANGED bft
  BY <1>8 DEF Attributes, Release, Open, table
<1>9. ASSUME NEW t \in Threads, NEW kind, NEW arg, BeginRead(t, arg) \/ BeginWrite(t, kind, arg)
      PROVE  UNCHANGED bft
  BY <1>9 DEF BeginRead, BeginWrite, Begin, table
<1>10. CASE Next
  BY <1>10, Steps, <1>2, <1>3, <1>4, <1>5, <1>6, <1>7, <1>8, <1>9
<1> QED
  BY <1>2, <1>10 DEF vars, table

\* A file that is open is not removed, not replaced and keeps its first cluster:
\* bsfs_unlink and bsfs_rename ask the open file table first, under the lock
\* that bsfs_open takes.
THEOREM OpenFilesStay == Spec => OpenFileStays
<1>1. IInv /\ IInv' /\ [Next]_vars =>
        [\A t \in Threads, i \in Indices :
           Using(t, i) /\ Using(t, i)' =>
             /\ bft[i].name # NoName /\ bft'[i].name # NoName
             /\ bft'[i].first = bft[i].first]_vars
  BY FirstStays DEF IInv, Rest, OpenNamed
<1> QED
  BY Inductive, <1>1, PTL DEF Spec, OpenFileStays

----------------------------------------------------------------------------
(* Names *)

\* A scan of a table that has an entry finds one.
LEMMA FirstExists == ASSUME NEW S \in SUBSET Nat, S # {} PROVE First(S) # {}
<1>1. \E x \in S : \A y \in S : ~ (<<y, x>> \in OpToRel(<, Nat))
  BY NatLessThanWellFounded, WFMin
<1>2. PICK x \in S : \A y \in S : ~ (<<y, x>> \in OpToRel(<, Nat))
  BY <1>1
<1>3. \A y \in S : ~ (y < x)
  BY <1>2 DEF OpToRel
<1>4. \A y \in S : x <= y
  BY <1>3
<1> QED
  BY <1>4 DEF First

LEMMA FindComplete == \A n : ~Exists(n) => \A i \in Indices : bft[i].name # n
<1> SUFFICES ASSUME NEW n, ~Exists(n), NEW i \in Indices, bft[i].name = n PROVE FALSE
  OBVIOUS
<1>1. {j \in Indices : bft[j].name = n} \in SUBSET Nat
  BY LevelAssumption DEF Indices
<1>2. i \in {j \in Indices : bft[j].name = n}
  OBVIOUS
<1> QED
  BY <1>1, <1>2, FirstExists DEF Exists, Find

LEMMA NamesStep ==
  ASSUME TypeOK, NamesUnique, [Next]_vars
  PROVE  NamesUnique'
<1>0. /\ bft \in [Indices -> Entries] /\ NoName \notin Names
      /\ \A i, j \in Indices : bft[i].name # NoName /\ bft[i].name = bft[j].name => i = j
  BY LevelAssumption DEF TypeOK, NamesUnique, Files
<1> SUFFICES ASSUME NEW k \in Indices, NEW l \in Indices,
                    bft'[k].name # NoName, bft'[k].name = bft'[l].name
             PROVE  k = l
  BY DEF NamesUnique, Files
<1>2. CASE \A i \in Indices : bft'[i].name = bft[i].name
  BY <1>0, <1>2
<1>3. ASSUME NEW t \in Threads, NEW n \in Names, Mknod(t, n)
      PROVE  k = l
  <2>1. \/ UNCHANGED bft
        \/ /\ ~Exists(n)
           /\ \E i \in Find(NoName), c \in First(FreeClusters) :
                bft' = [bft EXCEPT ![i] = [name |-> n, first |-> c, size |-> 0]]
    BY <1>3 DEF Mknod, table
  <2> QED
    BY <2>1, <1>0, FindType, FindComplete
<1>4. ASSUME NEW t \in Threads, NEW n \in Names, Unlink(t, n)
      PROVE  k = l
  <2>1. PICK i \in Find(n) : UNCHANGED bft \/ bft' = [bft EXCEPT ![i] = Zeroed]
    BY <1>4 DEF Unlink
  <2> QED
    BY <2>1, <1>0, FindType DEF Zeroed
<1>5. ASSUME NEW t \in Threads, NEW old \in Names, NEW new \in Names, Rename(t, old, new)
      PROVE  k = l
  <2>1. CASE RenameExchange(t, old, new)
    <3>1. PICK i \in Find(old), j \in Find(new) :
            bft' = [bft EXCEPT ![i].name = bft[j].name, ![j].name = bft[i].name]
      BY <2>1 DEF RenameExchange
    <3>2. /\ i \in Indices /\ j \in Indices /\ bft[i].name = old /\ bft[j].name = new
      BY FindType
    <3>3. \A m \in Indices : bft'[m].name = IF m = j THEN old ELSE IF m = i THEN new ELSE bft[m].name
      BY <3>1, <3>2, <1>0 DEF Entries
    <3> QED
      BY <3>2, <3>3, <1>0
  <2>2. CASE RenameMove(t, old, new)
    <3>1. PICK i \in Find(old) : ~Exists(new) /\ bft' = [bft EXCEPT ![i].name = new]
      BY <2>2 DEF RenameMove
    <3>2. \A m \in Indices : bft'[m].name = IF m = i THEN new ELSE bft[m].name
      BY <3>1, <1>0 DEF Entries
    <3> QED
      BY <3>1, <3>2, <1>0, FindComplete
  <2>3. CASE RenameOver(t, old, new)
    <3>1. PICK i \in Find(old), j \in Find(new) :
            \/ UNCHANGED bft
            \/ bft' = [[bft EXCEPT ![j] = Zeroed] EXCEPT ![i].name = new]
      BY <2>3 DEF RenameOver
    <3>2. /\ i \in Indices /\ j \in Indices /\ bft[i].name = old /\ bft[j].name = new
      BY FindType
    <3>3. CASE bft' = [[bft EXCEPT ![j] = Zeroed] EXCEPT ![i].name = new]
      <4>1. PICK f : f = [bft EXCEPT ![j] = Zeroed]
        OBVIOUS
      <4>2. /\ f \in [Indices -> Entries]
            /\ \A m \in Indices : f[m].name = IF m = j THEN NoName ELSE bft[m].name
        BY <4>1, <3>2, <1>0, ZeroIsCluster DEF Entries, Zeroed
      <4>3. bft' = [f EXCEPT ![i].name = new]
        BY <3>3, <4>1
      <4>4. \A m \in Indices : bft'[m].name = IF m = i THEN new ELSE IF m = j THEN NoName
                                             ELSE bft[m].name
        BY <4>2, <4>3, <3>2 DEF Entries
      <4> QED
        BY <4>4, <3>2, <1>0
    <3> QED
      BY <3>1, <3>3, <1>2
  <2> QED
    BY <1>5, <2>1, <2>2, <2>3 DEF Rename
<1>6. ASSUME NEW t \in Threads, Commit(t)
      PROVE  k = l
  <2>1. \A i \in Indices : bft'[i].name = bft[i].name
    BY <1>6, <1>0 DEF Commit, Entries
  <2> QED
    BY <2>1, <1>2
<1>7. ASSUME NEW t \in Threads, Continue(t)
      PROVE  UNCHANGED bft \/ Commit(t)
  BY <1>7 DEF Continue, GetSize, Walk, Arrive, AllocClusters, Fill, Hook, Undo,
              Collect, FreeChain, Cut, Reap, table
<1>8. ASSUME NEW t \in Threads, Attributes(t) \/ Release(t) \/ \E n \in Names : Open(t, n)
      PROVE  UNCHANGED bft
  BY <1>8 DEF Attributes, Release, Open, table
<1>9. ASSUME NEW t \in Threads, NEW kind, NEW arg, BeginRead(t, arg) \/ BeginWrite(t, kind, arg)
      PROVE  UNCHANGED bft
  BY <1>9 DEF BeginRead, BeginWrite, Begin, table
<1>10. CASE Next
  BY <1>10, Steps, <1>2, <1>3, <1>4, <1>5, <1>6, <1>7, <1>8, <1>9
<1>11. CASE UNCHANGED vars
  BY <1>11, <1>2 DEF vars, table
<1> QED
  BY <1>10, <1>11

\* No two files ever have the same name: bsfs_mknod and bsfs_rename look the new
\* name up in the section that writes it.
THEOREM NamesAreUnique == Spec => []NamesUnique
<1>1. Init => NamesUnique
  BY DEF Init, NamesUnique, Files, Zeroed
<1>2. TypeOK /\ NamesUnique /\ [Next]_vars => NamesUnique'
  BY NamesStep
<1> QED
  BY TypeCorrect, <1>1, <1>2, PTL DEF Spec

----------------------------------------------------------------------------
(***************************************************************************)
(* The level implements the directory its callers see.  One lemma for each *)
(* action says which step of DirectorySpec it is, or that nothing is seen. *)
(***************************************************************************)
\* What callers see of a level.
seen == <<SeenDir, SeenSize, SeenOpen, SeenOp>>

NamedOnce == TypeOK /\ NamesUnique

LEMMA IndexTypes == Indices \subseteq Nat /\ None \notin Indices /\ NoName \notin Names
BY LevelAssumption DEF Indices

\* A scan of the table finds the file that has the name.
SeenIsTable == \A n \in Names : /\ SeenDir[n] \in Indices \cup {None}
                                /\ \A i \in Indices : SeenDir[n] = i <=> bft[i].name = n

LEMMA SeenDirIs == NamedOnce => SeenIsTable
<1> SUFFICES ASSUME NamedOnce, NEW n \in Names
             PROVE  /\ SeenDir[n] \in Indices \cup {None}
                    /\ \A i \in Indices : SeenDir[n] = i <=> bft[i].name = n
  BY DEF SeenIsTable
<1>1. CASE Exists(n)
  <2>1. PICK c : c = CHOOSE i \in Find(n) : TRUE
    OBVIOUS
  <2>2. c \in Find(n) /\ SeenDir[n] = c
    BY <1>1, <2>1 DEF SeenDir, Exists
  <2>3. c \in Indices /\ bft[c].name = n
    BY <2>2, FindType
  <2> QED
    BY <2>2, <2>3, IndexTypes DEF NamedOnce, NamesUnique, Files
<1>2. CASE ~Exists(n)
  <2>1. SeenDir[n] = None
    BY <1>2 DEF SeenDir
  <2> QED
    BY <1>2, <2>1, FindComplete, IndexTypes
<1> QED
  BY <1>1, <1>2

LEMMA SeenDirType == NamedOnce => SeenDir \in [Names -> Indices \cup {None}]
<1> SUFFICES ASSUME NamedOnce PROVE SeenDir \in [Names -> Indices \cup {None}]
  OBVIOUS
<1>1. SeenDir = [n \in Names |-> SeenDir[n]]
  BY DEF SeenDir
<1> QED
  BY <1>1, SeenDirIs DEF SeenIsTable

LEMMA SeenDirIsNext == NamedOnce' => SeenIsTable'
BY SeenDirIs, PTL

\* A function that leads from names to files as the table does is what is seen.
LEMMA SeenDirFrom ==
  ASSUME NamedOnce', NEW f \in [Names -> Indices \cup {None}],
         \A n \in Names, i \in Indices : f[n] = i <=> bft'[i].name = n
  PROVE  SeenDir' = f
<1>1. ASSUME NEW n \in Names PROVE SeenDir'[n] = f[n]
  BY SeenDirIsNext DEF SeenIsTable
<1>2. SeenDir' = [n \in Names |-> SeenDir'[n]]
  BY DEF SeenDir
<1> QED
  BY <1>1, <1>2
\* No thread has a handle of a file that the table of open files does not have.
LEMMA ClosedSeen ==
  ASSUME IInv, NEW i \in Indices, i \notin present
  PROVE  \A t \in Threads : SeenOpen[t] # i
BY IndexTypes DEF SeenOpen, IInv, Rest, OpenPresent, Using

\* A thread that is not in a file operation before or after its step.
LEMMA PathSeen ==
  ASSUME NEW t \in Threads, UNCHANGED handle, ~InFile(t), ~InFile(t)',
         pc[t] # "reap", pc'[t] # "reap",
         \A u \in Threads \ {t} : pc'[u] = pc[u] /\ job'[u] = job[u]
  PROVE  UNCHANGED <<SeenOpen, SeenOp>>
<1>1. ASSUME NEW u \in Threads
      PROVE  (pc'[u] = "reap" <=> pc[u] = "reap") /\ (InFile(u)' <=> InFile(u))
             /\ (InFile(u) => job'[u] = job[u])
  BY DEF InFile
<1> QED
  BY <1>1 DEF SeenOpen, SeenOp

LEMMA TableSeen ==
  ASSUME UNCHANGED bft
  PROVE  UNCHANGED <<SeenDir, SeenSize>>
BY DEF SeenDir, SeenSize, Exists, Find, First

LEMMA MknodSeen ==
  ASSUME IInv, NamedOnce, NamedOnce', NEW t \in Threads, NEW n \in Names, Mknod(t, n)
  PROVE  UNCHANGED seen \/ Directory!Create(n)
<1>1. UNCHANGED <<SeenOpen, SeenOp>>
  BY DEF Mknod, SeenOpen, SeenOp, InFile
<1>2. CASE UNCHANGED bft
  BY <1>1, <1>2, TableSeen DEF seen
<1>3. CASE ~ UNCHANGED bft
  <2>1. PICK i \in Find(NoName), c \in Clusters :
          ~Exists(n) /\ bft' = [bft EXCEPT ![i] = [name |-> n, first |-> c, size |-> 0]]
    BY <1>3, FirstSubset DEF Mknod, table, FreeClusters
  <2>2. i \in Indices /\ bft[i].name = NoName /\ \A k \in Indices : bft[k].name # n
    BY <2>1, FindType, FindComplete
  <2>3. \A k \in Indices : /\ bft'[k].name = IF k = i THEN n ELSE bft[k].name
                           /\ bft'[k].size = IF k = i THEN 0 ELSE bft[k].size
    BY <2>1, <2>2 DEF IInv, TypeOK, Entries
  <2>4. \A m \in Names : SeenDir[m] # i
    BY <2>2, SeenDirIs, IndexTypes DEF SeenIsTable
  <2>5. SeenDir[n] = None
    BY <2>2, SeenDirIs DEF SeenIsTable
  <2>6. PICK f : f = [SeenDir EXCEPT ![n] = i]
    OBVIOUS
  <2>7. f \in [Names -> Indices \cup {None}] /\ \A m \in Names : f[m] = IF m = n THEN i ELSE SeenDir[m]
    BY <2>2, <2>6, SeenDirType
  <2>8. \A m \in Names, k \in Indices : f[m] = k <=> bft'[k].name = m
    BY <2>2, <2>3, <2>4, <2>7, SeenDirIs, IndexTypes DEF SeenIsTable
  <2>9. SeenDir' = [SeenDir EXCEPT ![n] = i]
    BY <2>6, <2>7, <2>8, SeenDirFrom
  <2>10. SeenSize' = [SeenSize EXCEPT ![i] = 0]
    BY <2>2, <2>3 DEF SeenSize
  <2> QED
    BY <1>1, <2>2, <2>4, <2>5, <2>9, <2>10 DEF Directory!Create
<1> QED
  BY <1>2, <1>3

LEMMA UnlinkSeen ==
  ASSUME IInv, NamedOnce, NamedOnce', NEW t \in Threads, NEW n \in Names, Unlink(t, n)
  PROVE  UNCHANGED seen \/ Directory!Remove(n)
<1>1. PICK i \in Find(n) :
        \/ UNCHANGED <<bft, pc, job>>
        \/ /\ i \notin present
           /\ bft' = [bft EXCEPT ![i] = Zeroed]
           /\ StartCollect(t, "unlink", bft[i].first)
  BY DEF Unlink
<1>2. pc[t] = "idle" /\ UNCHANGED handle
  BY DEF Unlink
<1>3. i \in Indices /\ bft[i].name = n
  BY FindType
<1>4. CASE UNCHANGED <<bft, pc, job>>
  BY <1>2, <1>4, TableSeen DEF seen, SeenOpen, SeenOp, InFile
<1>5. CASE /\ i \notin present
           /\ bft' = [bft EXCEPT ![i] = Zeroed]
           /\ StartCollect(t, "unlink", bft[i].first)
  <2>1. UNCHANGED <<SeenOpen, SeenOp>>
    <3>1. bft[i].first \in Links
      BY <1>3 DEF IInv, TypeOK, Entries, Links
    <3>2. /\ pc'[t] = "collect" /\ job'[t].kind = "unlink"
          /\ \A u \in Threads \ {t} : pc'[u] = pc[u] /\ job'[u] = job[u]
      BY <1>5, <3>1, StartCollectStep DEF IInv
    <3>3. ~InFile(t) /\ ~InFile(t)'
      BY <1>2, <3>2, IdleNotInFile, Detached
    <3> QED
      BY <1>2, <3>2, <3>3, PathSeen
  <2>2. \A k \in Indices : /\ bft'[k].name = IF k = i THEN NoName ELSE bft[k].name
                           /\ bft'[k].size = IF k = i THEN 0 ELSE bft[k].size
    BY <1>3, <1>5 DEF IInv, TypeOK, Entries, Zeroed
  <2>3. SeenDir[n] = i
    BY <1>3, SeenDirIs DEF SeenIsTable
  <2>4. PICK f : f = [SeenDir EXCEPT ![n] = None]
    OBVIOUS
  <2>5. f \in [Names -> Indices \cup {None}] /\ \A m \in Names : f[m] = IF m = n THEN None ELSE SeenDir[m]
    BY <2>4, SeenDirType
  <2>6. \A m \in Names, k \in Indices : f[m] = k <=> bft'[k].name = m
    BY <1>3, <2>2, <2>3, <2>5, SeenDirIs, IndexTypes DEF SeenIsTable
  <2>7. SeenDir' = [SeenDir EXCEPT ![n] = None]
    BY <2>4, <2>5, <2>6, SeenDirFrom
  <2>8. SeenSize' = [SeenSize EXCEPT ![i] = 0]
    BY <1>3, <2>2 DEF SeenSize
  <2>9. Directory!Closed(i)
    BY <1>3, <1>5, ClosedSeen DEF Directory!Closed
  <2> QED
    BY <1>3, <2>1, <2>3, <2>7, <2>8, <2>9, IndexTypes DEF Directory!Remove
<1> QED
  BY <1>1, <1>4, <1>5

LEMMA RenameSeen ==
  ASSUME ~RenameSame, IInv, NamedOnce, NamedOnce', NEW t \in Threads,
         NEW old \in Names, NEW new \in Names, Rename(t, old, new)
  PROVE  \/ UNCHANGED seen
         \/ Directory!Exchange(old, new) \/ Directory!Move(old, new) \/ Directory!Replace(old, new)
<1>1. pc[t] = "idle" /\ UNCHANGED handle
  BY DEF Rename
<1>2. ASSUME UNCHANGED <<pc, job>> PROVE UNCHANGED <<SeenOpen, SeenOp>>
  BY <1>1, <1>2 DEF SeenOpen, SeenOp, InFile
<1>3. CASE RenameExchange(t, old, new)
  <2>1. PICK i \in Find(old), j \in Find(new) :
          bft' = [bft EXCEPT ![i].name = bft[j].name, ![j].name = bft[i].name]
    BY <1>3 DEF RenameExchange
  <2>2. i \in Indices /\ j \in Indices /\ bft[i].name = old /\ bft[j].name = new
    BY FindType
  <2>3. \A k \in Indices :
          /\ bft'[k].name = IF k = j THEN old ELSE IF k = i THEN new ELSE bft[k].name
          /\ bft'[k].size = bft[k].size
    BY <2>1, <2>2 DEF IInv, TypeOK, Entries
  <2>4. SeenDir[old] = i /\ SeenDir[new] = j
    BY <2>2, SeenDirIs DEF SeenIsTable
  <2>5. PICK f : f = [SeenDir EXCEPT ![old] = j, ![new] = i]
    OBVIOUS
  <2>6. /\ f \in [Names -> Indices \cup {None}]
        /\ \A m \in Names : f[m] = IF m = new THEN i ELSE IF m = old THEN j ELSE SeenDir[m]
    BY <2>2, <2>5, SeenDirType
  <2>7. \A m \in Names, k \in Indices : f[m] = k <=> bft'[k].name = m
    BY <2>2, <2>3, <2>4, <2>6, SeenDirIs, IndexTypes DEF SeenIsTable
  <2>8. SeenDir' = [SeenDir EXCEPT ![old] = j, ![new] = i]
    BY <2>5, <2>6, <2>7, SeenDirFrom
  <2>9. SeenSize' = SeenSize
    BY <2>3 DEF SeenSize
  <2>10. UNCHANGED <<SeenOpen, SeenOp>>
    BY <1>2, <1>3 DEF RenameExchange
  <2> QED
    BY <2>2, <2>4, <2>8, <2>9, <2>10, IndexTypes DEF Directory!Exchange
<1>4. CASE RenameMove(t, old, new)
  <2>1. PICK i \in Find(old) : ~Exists(new) /\ bft' = [bft EXCEPT ![i].name = new]
    BY <1>4 DEF RenameMove
  <2>2. i \in Indices /\ bft[i].name = old /\ \A k \in Indices : bft[k].name # new
    BY <2>1, FindType, FindComplete
  <2>3. \A k \in Indices : /\ bft'[k].name = IF k = i THEN new ELSE bft[k].name
                           /\ bft'[k].size = bft[k].size
    BY <2>1, <2>2 DEF IInv, TypeOK, Entries
  <2>4. SeenDir[old] = i /\ SeenDir[new] = None
    BY <2>2, SeenDirIs DEF SeenIsTable
  <2>5. PICK f : f = [SeenDir EXCEPT ![old] = None, ![new] = i]
    OBVIOUS
  <2>6. /\ f \in [Names -> Indices \cup {None}]
        /\ \A m \in Names : f[m] = IF m = new THEN i ELSE IF m = old THEN None ELSE SeenDir[m]
    BY <2>2, <2>5, SeenDirType
  <2>7. \A m \in Names, k \in Indices : f[m] = k <=> bft'[k].name = m
    BY <2>2, <2>3, <2>4, <2>6, SeenDirIs, IndexTypes DEF SeenIsTable
  <2>8. SeenDir' = [SeenDir EXCEPT ![old] = None, ![new] = i]
    BY <2>5, <2>6, <2>7, SeenDirFrom
  <2>9. SeenSize' = SeenSize
    BY <2>3 DEF SeenSize
  <2>10. UNCHANGED <<SeenOpen, SeenOp>>
    BY <1>2, <1>4 DEF RenameMove
  <2> QED
    BY <2>2, <2>4, <2>8, <2>9, <2>10, IndexTypes DEF Directory!Move
<1>5. CASE RenameOver(t, old, new)
  <2>1. PICK i \in Find(old), j \in Find(new) :
          \/ UNCHANGED <<bft, pc, job>>
          \/ /\ j \notin present
             /\ bft' = [[bft EXCEPT ![j] = Zeroed] EXCEPT ![i].name = new]
             /\ StartCollect(t, "unlink", bft[j].first)
    BY <1>5 DEF RenameOver
  <2>2. /\ i \in Indices /\ j \in Indices /\ bft[i].name = old /\ bft[j].name = new
        /\ old # new /\ i # j
    BY <1>5, FindType DEF RenameOver
  <2>3. CASE UNCHANGED <<bft, pc, job>>
    BY <1>2, <2>3, TableSeen DEF seen
  <2>4. CASE /\ j \notin present
             /\ bft' = [[bft EXCEPT ![j] = Zeroed] EXCEPT ![i].name = new]
             /\ StartCollect(t, "unlink", bft[j].first)
    <3>1. UNCHANGED <<SeenOpen, SeenOp>>
      <4>1. bft[j].first \in Links
        BY <2>2 DEF IInv, TypeOK, Entries, Links
      <4>2. /\ pc'[t] = "collect" /\ job'[t].kind = "unlink"
            /\ \A u \in Threads \ {t} : pc'[u] = pc[u] /\ job'[u] = job[u]
        BY <2>4, <4>1, StartCollectStep DEF IInv
      <4>3. ~InFile(t) /\ ~InFile(t)'
        BY <1>1, <4>2, IdleNotInFile, Detached
      <4> QED
        BY <1>1, <4>2, <4>3, PathSeen
    <3>2. \A k \in Indices :
            /\ bft'[k].name = IF k = i THEN new ELSE IF k = j THEN NoName ELSE bft[k].name
            /\ bft'[k].size = IF k = j THEN 0 ELSE bft[k].size
      <4>1. PICK g : g = [bft EXCEPT ![j] = Zeroed]
        OBVIOUS
      <4>2. /\ g \in [Indices -> Entries]
            /\ \A k \in Indices : /\ g[k].name = IF k = j THEN NoName ELSE bft[k].name
                                  /\ g[k].size = IF k = j THEN 0 ELSE bft[k].size
        BY <2>2, <4>1, ZeroIsCluster DEF Entries, Zeroed, IInv, TypeOK
      <4>3. bft' = [g EXCEPT ![i].name = new]
        BY <2>4, <4>1
      <4> QED
        BY <2>2, <4>2, <4>3 DEF Entries
    <3>3. SeenDir[old] = i /\ SeenDir[new] = j
      BY <2>2, SeenDirIs DEF SeenIsTable
    <3>4. PICK f : f = [SeenDir EXCEPT ![old] = None, ![new] = i]
      OBVIOUS
    <3>5. /\ f \in [Names -> Indices \cup {None}]
          /\ \A m \in Names : f[m] = IF m = new THEN i ELSE IF m = old THEN None ELSE SeenDir[m]
      BY <2>2, <3>4, SeenDirType
    <3>6. \A m \in Names, k \in Indices : f[m] = k <=> bft'[k].name = m
      BY <2>2, <3>2, <3>3, <3>5, SeenDirIs, IndexTypes DEF SeenIsTable
    <3>7. SeenDir' = [SeenDir EXCEPT ![old] = None, ![new] = i]
      BY <3>4, <3>5, <3>6, SeenDirFrom
    <3>8. SeenSize' = [SeenSize EXCEPT ![j] = 0]
      BY <2>2, <3>2 DEF SeenSize
    <3>9. Directory!Closed(j)
      BY <2>2, <2>4, ClosedSeen DEF Directory!Closed
    <3> QED
      BY <2>2, <3>1, <3>3, <3>7, <3>8, <3>9, IndexTypes DEF Directory!Replace
  <2> QED
    BY <2>1, <2>3, <2>4
<1> QED
  BY <1>3, <1>4, <1>5 DEF Rename

----------------------------------------------------------------------------
LEMMA OpenSeen ==
  ASSUME IInv, NamedOnce, NEW t \in Threads, NEW n \in Names, Open(t, n)
  PROVE  Directory!Open(t, n)
<1>1. PICK i \in Find(n) : handle' = [handle EXCEPT ![t] = i]
  BY DEF Open
<1>2. pc[t] = "idle" /\ handle[t] = None /\ UNCHANGED <<bft, pc, job>>
  BY DEF Open, table
<1>3. i \in Indices /\ bft[i].name = n
  BY FindType
<1>4. SeenDir[n] = i
  BY <1>3, SeenDirIs DEF SeenIsTable
<1>5. SeenOpen[t] = None /\ SeenOpen' = [SeenOpen EXCEPT ![t] = i]
  BY <1>1, <1>2 DEF SeenOpen, IInv, TypeOK
<1>6. SeenOp' = SeenOp
  BY <1>2 DEF SeenOp, InFile
<1> QED
  BY <1>2, <1>3, <1>4, <1>5, <1>6, TableSeen, IndexTypes DEF Directory!Open

\* For its caller the handle is closed when the release begins.
LEMMA ReleaseSeen ==
  ASSUME IInv, NEW t \in Threads, Release(t)
  PROVE  Directory!Close(t)
<1>1. pc[t] = "idle" /\ handle[t] # None /\ UNCHANGED <<bft, job>>
  BY DEF Release, table
<1>2. \/ pc' = [pc EXCEPT ![t] = "reap"] /\ UNCHANGED handle
      \/ UNCHANGED pc /\ handle' = [handle EXCEPT ![t] = None]
  BY DEF Release, GoTo
<1>3. SeenOpen[t] # None /\ SeenOpen' = [SeenOpen EXCEPT ![t] = None]
  BY <1>1, <1>2 DEF SeenOpen, IInv, TypeOK
<1>4. ~InFile(t) /\ ~InFile(t)' /\ \A u \in Threads \ {t} : InFile(u)' <=> InFile(u)
  BY <1>1, <1>2 DEF InFile, AfterGetSize, IInv, TypeOK
<1>5. SeenOp' = SeenOp /\ SeenOp[t] = [kind |-> "none", arg |-> 0]
  BY <1>1, <1>4 DEF SeenOp
<1> QED
  BY <1>1, <1>3, <1>5, TableSeen DEF Directory!Close, Directory!NoOp

LEMMA ReapSeen ==
  ASSUME IInv, NEW t \in Threads, Reap(t)
  PROVE  UNCHANGED seen
<1>1. /\ pc[t] = "reap" /\ pc' = [pc EXCEPT ![t] = "idle"]
      /\ handle' = [handle EXCEPT ![t] = None] /\ UNCHANGED <<bft, job>>
  BY DEF Reap, GoTo, table
<1>2. SeenOpen' = SeenOpen
  BY <1>1 DEF SeenOpen, IInv, TypeOK
<1>3. ~InFile(t) /\ ~InFile(t)' /\ \A u \in Threads \ {t} : InFile(u)' <=> InFile(u)
  BY <1>1 DEF InFile, AfterGetSize, IInv, TypeOK
<1>4. SeenOp' = SeenOp
  BY <1>1, <1>3 DEF SeenOp
<1> QED
  BY <1>1, <1>2, <1>4, TableSeen DEF seen

\* Whoever is inside an operation on a file has its lock, so that nobody else
\* gets it in a mode that excludes this one.
LEMMA BeginSeen ==
  ASSUME IInv, NEW t \in Threads, NEW kind \in Kinds, NEW arg \in 0 .. MaxSize,
         \/ kind = "read" /\ BeginRead(t, arg)
         \/ kind # "read" /\ BeginWrite(t, kind, arg)
  PROVE  Directory!Begin(t, kind, arg)
<1>1. /\ pc[t] = "idle" /\ handle[t] # None /\ pc' = [pc EXCEPT ![t] = "size"]
      /\ job' = [job EXCEPT ![t].kind = kind, ![t].arg = arg]
      /\ UNCHANGED <<bft, handle>>
      /\ writer[handle[t]] = None /\ (kind # "read" => readers[handle[t]] = {})
  BY DEF BeginRead, BeginWrite, Begin, GoTo, table
<1>2. job[t] \in Jobs
  BY DEF IInv, TypeOK
<1>3. /\ job'[t].kind = kind /\ job'[t].arg = arg
      /\ \A u \in Threads \ {t} : job'[u] = job[u] /\ pc'[u] = pc[u]
  BY <1>1, <1>2 DEF IInv, TypeOK, Jobs
<1>4. pc'[t] = "size"
  BY <1>1 DEF IInv, TypeOK
<1>5. ~InFile(t) /\ InFile(t)' /\ \A u \in Threads \ {t} : InFile(u)' <=> InFile(u)
  BY <1>1, <1>3, <1>4 DEF InFile, AfterGetSize
<1>6. SeenOpen' = SeenOpen /\ SeenOpen[t] = handle[t]
  BY <1>1, <1>3, <1>4 DEF SeenOpen
<1>7. SeenOp' = [SeenOp EXCEPT ![t] = [kind |-> kind, arg |-> arg]]
  BY <1>3, <1>5 DEF SeenOp
<1>8. SeenOp[t] = [kind |-> "none", arg |-> 0]
  BY <1>5 DEF SeenOp
<1>9. ASSUME NEW u \in Threads, SeenOpen[u] = SeenOpen[t], SeenOp[u] # [kind |-> "none", arg |-> 0]
      PROVE  kind = "read" /\ SeenOp[u].kind = "read"
  <2>1. InFile(u)
    BY <1>9 DEF SeenOp
  <2>2. handle[u] = handle[t]
    BY <1>1, <1>6, <1>9 DEF SeenOpen
  <2>3. job[u].kind = "read" /\ u \in readers[handle[t]]
    BY <1>1, <2>1, <2>2, LevelAssumption DEF IInv, Rest, Locked
  <2> QED
    BY <1>1, <2>1, <2>3 DEF SeenOp
<1> QED
  BY <1>1, <1>6, <1>7, <1>8, <1>9, TableSeen DEF Directory!Begin, Directory!NoOp

\* In an operation on a handle, or in the freeing of an unlinked chain, which
\* nobody sees.
LEMMA InFileIs ==
  ASSUME IInv, NEW t \in Threads, pc[t] \notin {"idle", "reap"}
  PROVE  InFile(t) <=> job[t].kind # "unlink"
BY DEF InFile, KindAt, AfterGetSize, IInv, TypeOK, PCs, Kinds, Rest, KindOK

LEMMA InFileIsNext ==
  ASSUME IInv', NEW t \in Threads, pc'[t] \notin {"idle", "reap"}
  PROVE  InFile(t)' <=> job'[t].kind # "unlink"
BY DEF InFile, KindAt, AfterGetSize, IInv, TypeOK, PCs, Kinds, Rest, KindOK

\* t goes on with what it was asked.
Advances(t) ==
  /\ pc'[t] \notin {"idle", "reap"}
  /\ job'[t].kind = job[t].kind /\ job'[t].arg = job[t].arg
  /\ \A u \in Threads \ {t} : pc'[u] = pc[u] /\ job'[u] = job[u]

LEMMA AdvanceSeen ==
  ASSUME IInv, IInv', NEW t \in Threads, pc[t] \notin {"idle", "reap"}, Advances(t),
         UNCHANGED <<bft, handle>>
  PROVE  UNCHANGED seen
<1>1. ASSUME NEW u \in Threads
      PROVE  /\ InFile(u)' <=> InFile(u)
             /\ pc'[u] = "reap" <=> pc[u] = "reap"
             /\ job'[u].kind = job[u].kind /\ job'[u].arg = job[u].arg
  BY InFileIs, InFileIsNext DEF Advances, InFile
<1>2. SeenOpen' = SeenOpen /\ SeenOp' = SeenOp
  BY <1>1 DEF SeenOpen, SeenOp
<1> QED
  BY <1>2, TableSeen DEF seen

\* t returns.
LEMMA FinishOps ==
  ASSUME IInv, NEW t \in Threads, pc[t] # "reap", Finish(t), UNCHANGED handle
  PROVE  /\ SeenOpen' = SeenOpen
         /\ InFile(t) => SeenOp' = [SeenOp EXCEPT ![t] = [kind |-> "none", arg |-> 0]]
         /\ ~InFile(t) => SeenOp' = SeenOp
<1>1. /\ pc' = [pc EXCEPT ![t] = "idle"] /\ job' = [job EXCEPT ![t] = NoJob]
  BY DEF Finish
<1>2. ~InFile(t)' /\ \A u \in Threads \ {t} : (InFile(u)' <=> InFile(u)) /\ job'[u] = job[u]
  BY <1>1 DEF InFile, AfterGetSize, IInv, TypeOK
<1>3. SeenOpen' = SeenOpen
  BY <1>1 DEF SeenOpen, IInv, TypeOK
<1> QED
  BY <1>2, <1>3 DEF SeenOp

LEMMA FinishSeen ==
  ASSUME IInv, NEW t \in Threads, pc[t] \notin {"idle", "reap"}, Finish(t), UNCHANGED <<bft, handle>>
  PROVE  UNCHANGED seen \/ Directory!Return(t)
<1>1. CASE ~InFile(t)
  BY <1>1, FinishOps, TableSeen DEF seen
<1>2. CASE InFile(t)
  <2>1. job[t].kind \in Kinds
    BY <1>2, InFileIs DEF InFile, AfterGetSize, IInv, Rest, KindOK, KindAt, Kinds
  <2>2. SeenOp[t].kind = job[t].kind
    BY <1>2 DEF SeenOp
  <2>3. SeenOp[t] # [kind |-> "none", arg |-> 0]
    BY <2>1, <2>2 DEF Kinds
  <2> QED
    BY <1>2, <2>3, FinishOps, TableSeen DEF Directory!Return, Directory!NoOp
<1> QED
  BY <1>1, <1>2

\* A step of an operation that has begun, other than its commit: the operation
\* returns or goes on.
LEMMA ContinueMoves ==
  ASSUME IInv, NEW t \in Threads, Continue(t), ~Commit(t), ~Reap(t)
  PROVE  /\ pc[t] \notin {"idle", "reap"} /\ UNCHANGED <<bft, handle>>
         /\ \/ Finish(t)
            \/ /\ Advances(t) /\ pc'[t] # "size"
               /\ pc[t] # "size" => job'[t].size = job[t].size
               /\ pc[t] = "size" => ~NothingToDo(job[t].kind, job[t].arg, job'[t].size)
<1>0. /\ job[t] \in Jobs /\ job \in [Threads -> Jobs] /\ pc \in [Threads -> PCs]
  BY DEF IInv, TypeOK
<1>1. ASSUME GetSize(t)
      PROVE  /\ pc[t] \notin {"idle", "reap"} /\ UNCHANGED <<bft, handle>>
             /\ \/ Finish(t)
                \/ /\ Advances(t) /\ pc'[t] # "size" /\ pc[t] = "size"
                   /\ ~NothingToDo(job[t].kind, job[t].arg, job'[t].size)
  <2>1. pc[t] = "size" /\ UNCHANGED <<bft, handle>>
    BY <1>1 DEF GetSize, table
  <2>2. PICK size : size = bft[handle[t]].size
    OBVIOUS
  <2>3. CASE ~Finish(t)
    <3>0. PICK cur : cur = bft[handle[t]].first
      OBVIOUS
    <3> PICK hops : hops = EofHops(Lesser(job[t].arg, size))
      OBVIOUS
    <3> PICK label : label = IF SameClusters(job[t].kind, job[t].arg, size) THEN "commit" ELSE "walk"
      OBVIOUS
    <3>1. /\ ~NothingToDo(job[t].kind, job[t].arg, size) /\ label \in {"commit", "walk"}
          /\ job' = [job EXCEPT ![t].size = size, ![t].cur = cur, ![t].hops = hops]
          /\ pc' = [pc EXCEPT ![t] = label]
      BY <1>1, <2>2, <2>3, <3>0 DEF GetSize, GoTo
    <3>2. /\ job'[t].kind = job[t].kind /\ job'[t].arg = job[t].arg /\ job'[t].size = size
          /\ pc'[t] = label /\ \A u \in Threads \ {t} : pc'[u] = pc[u] /\ job'[u] = job[u]
      BY <1>0, <3>1 DEF Jobs
    <3> QED
      BY <2>1, <3>1, <3>2 DEF Advances
  <2> QED
    BY <2>1, <2>3
<1>2. ASSUME Walk(t) \/ Arrive(t) \/ AllocClusters(t) \/ Fill(t) \/ Hook(t) \/ Undo(t)
               \/ Collect(t) \/ FreeChain(t) \/ Cut(t)
      PROVE  /\ pc[t] \notin {"idle", "reap", "size"} /\ UNCHANGED <<bft, handle>>
  BY <1>2 DEF Walk, Arrive, AllocClusters, Fill, Hook, Undo, Collect, FreeChain, Cut, table
<1>3. ASSUME NEW label \in PCs \ {"idle", "reap", "size"}, GoTo(t, label), UNCHANGED job
      PROVE  Advances(t) /\ pc'[t] # "size" /\ job'[t].size = job[t].size
  BY <1>0, <1>3 DEF GoTo, Advances
<1>4. ASSUME Walk(t), ~Finish(t)
      PROVE  Advances(t) /\ pc'[t] # "size" /\ job'[t].size = job[t].size
  <2>1. PICK link : job' = [job EXCEPT ![t].cur = link, ![t].hops = @ - 1] /\ UNCHANGED pc
    BY <1>4 DEF Walk
  <2> QED
    BY <1>0, <1>2, <1>4, <2>1 DEF Advances, Jobs
<1>5. ASSUME Arrive(t), ~Finish(t)
      PROVE  Advances(t) /\ pc'[t] # "size" /\ job'[t].size = job[t].size
  <2>1. \/ \E label \in {"commit", "alloc"} : GoTo(t, label) /\ UNCHANGED job
        \/ job[t].kind = "ftruncate" /\ StartCollect(t, "ftruncate", next[job[t].cur])
    BY <1>5 DEF Arrive
  <2>2. CASE job[t].kind = "ftruncate" /\ StartCollect(t, "ftruncate", next[job[t].cur])
    BY <1>0, <2>2 DEF StartCollect, GoTo, Advances, Jobs
  <2> QED
    BY <1>3, <2>1, <2>2 DEF PCs
<1>6. ASSUME AllocClusters(t), ~Finish(t)
      PROVE  Advances(t) /\ pc'[t] # "size" /\ job'[t].size = job[t].size
  <2>1. PICK list : job' = [job EXCEPT ![t].list = list] /\ GoTo(t, "fill")
    BY <1>6 DEF AllocClusters
  <2> QED
    BY <1>0, <2>1 DEF GoTo, Advances, Jobs
<1>7. ASSUME Fill(t) \/ Hook(t) \/ Cut(t) \/ FreeChain(t) \/ Undo(t), ~Finish(t)
      PROVE  Advances(t) /\ pc'[t] # "size" /\ job'[t].size = job[t].size
  <2>1. \E label \in {"hook", "undo", "commit", "cut"} : GoTo(t, label) /\ UNCHANGED job
    BY <1>7 DEF Fill, Hook, Cut, FreeChain, Undo
  <2> QED
    BY <1>3, <2>1 DEF PCs
<1>8. ASSUME Collect(t), ~Finish(t)
      PROVE  Advances(t) /\ pc'[t] # "size" /\ job'[t].size = job[t].size
  <2>1. \/ GoTo(t, "free") /\ UNCHANGED job
        \/ /\ job' = [job EXCEPT ![t].at = next[job[t].at], ![t].list = Append(@, job[t].at)]
           /\ UNCHANGED pc
    BY <1>8 DEF Collect
  <2>2. CASE /\ job' = [job EXCEPT ![t].at = next[job[t].at], ![t].list = Append(@, job[t].at)]
             /\ UNCHANGED pc
    BY <1>0, <1>2, <1>8, <2>2 DEF Advances, Jobs
  <2> QED
    BY <1>3, <2>1, <2>2 DEF PCs
<1> QED
  BY <1>1, <1>2, <1>4, <1>5, <1>6, <1>7, <1>8 DEF Continue

\* bsfs_fallocate goes on only when the file gets longer.
Grows(t) == job[t].kind = "fallocate" /\ pc[t] # "size" => job[t].arg > job[t].size
AllGrow == \A t \in Threads : Grows(t)

LEMMA AllGrowStep ==
  ASSUME IInv, IInv', AllGrow, Next
  PROVE  AllGrow'
<1>1. PICK t \in Threads :
           \/ \E n \in Names : Mknod(t, n)
           \/ \E n \in Names : Unlink(t, n)
           \/ \E n \in Names : Open(t, n)
           \/ \E old, new \in Names : Rename(t, old, new)
           \/ Attributes(t) \/ Release(t)
           \/ \E arg \in 0 .. MaxSize, kind \in Kinds :
                \/ kind = "read" /\ BeginRead(t, arg)
                \/ kind # "read" /\ BeginWrite(t, kind, arg)
           \/ Continue(t)
  BY Steps
<1>0. job \in [Threads -> Jobs] /\ pc \in [Threads -> PCs] /\ bft \in [Indices -> Entries]
  BY DEF IInv, TypeOK
<1> SUFFICES Grows(t)' /\ \A u \in Threads \ {t} : UNCHANGED <<job[u], pc[u]>>
  BY DEF AllGrow, Grows
<1>3. CASE UNCHANGED <<job, pc>>
  BY <1>3 DEF AllGrow, Grows
<1>4. ASSUME NEW c \in Indices, StartCollect(t, "unlink", bft[c].first), pc[t] = "idle"
      PROVE  Grows(t)' /\ \A u \in Threads \ {t} : UNCHANGED <<job[u], pc[u]>>
  <2>1. bft[c].first \in Links
    BY <1>0 DEF Entries, Links
  <2> QED
    BY <1>4, <2>1, StartCollectStep DEF IInv, Grows
<1>5. CASE (\E n \in Names : Unlink(t, n)) \/ (\E old, new \in Names : Rename(t, old, new))
  <2>1. UNCHANGED <<job, pc>> \/ \E c \in Indices : StartCollect(t, "unlink", bft[c].first) /\ pc[t] = "idle"
    BY <1>5, FindType DEF Unlink, Rename, RenameExchange, RenameMove, RenameOver
  <2> QED
    BY <1>3, <1>4, <2>1
<1>6. CASE Release(t)
  <2>1. UNCHANGED job /\ pc[t] = "idle" /\ (UNCHANGED pc \/ pc' = [pc EXCEPT ![t] = "reap"])
    BY <1>6 DEF Release, GoTo
  <2> QED
    BY <1>0, <2>1 DEF AllGrow, Grows
<1>7. ASSUME NEW arg \in 0 .. MaxSize, NEW kind \in Kinds, Begin(t, kind, arg)
      PROVE  Grows(t)' /\ \A u \in Threads \ {t} : UNCHANGED <<job[u], pc[u]>>
  BY <1>0, <1>7 DEF Begin, GoTo, Grows
<1>8. CASE Reap(t)
  <2>1. UNCHANGED job /\ pc[t] = "reap" /\ pc' = [pc EXCEPT ![t] = "idle"]
    BY <1>8 DEF Reap, GoTo
  <2> QED
    BY <1>0, <2>1 DEF AllGrow, Grows
<1>9. CASE Finish(t)
  BY <1>0, <1>9 DEF Finish, NoJob, Grows
<1>10. CASE Continue(t) /\ ~Commit(t) /\ ~Reap(t) /\ ~Finish(t)
  <2>1. /\ Advances(t) /\ pc'[t] # "size"
        /\ pc[t] # "size" => job'[t].size = job[t].size
        /\ pc[t] = "size" => ~NothingToDo(job[t].kind, job[t].arg, job'[t].size)
    BY <1>10, ContinueMoves
  <2>2. job'[t].size \in 0 .. MaxSize /\ job'[t].arg \in 0 .. MaxSize
    BY JobFields DEF IInv, TypeOK
  <2> QED
    BY <2>1, <2>2 DEF Advances, AllGrow, Grows, NothingToDo
<1>11. CASE Continue(t)
  BY <1>8, <1>9, <1>10, <1>11 DEF Commit
<1>12. CASE (\E n \in Names : Mknod(t, n)) \/ (\E n \in Names : Open(t, n)) \/ Attributes(t)
  BY <1>3, <1>12 DEF Mknod, Open, Attributes
<1>13. CASE \E arg \in 0 .. MaxSize, kind \in Kinds :
              \/ kind = "read" /\ BeginRead(t, arg)
              \/ kind # "read" /\ BeginWrite(t, kind, arg)
  BY <1>7, <1>13 DEF BeginRead, BeginWrite
<1> QED
  BY <1>1, <1>5, <1>6, <1>11, <1>12, <1>13

\* The size that is written makes of the size the file has now what was asked:
\* the size read when the operation began is still this one.
LEMMA CommitSeen ==
  ASSUME IInv, AllGrow, NamedOnce, NamedOnce', NEW t \in Threads, Commit(t)
  PROVE  Directory!Commit(t)
<1>1. /\ pc[t] = "commit" /\ Finish(t) /\ UNCHANGED handle
      /\ bft' = [bft EXCEPT ![handle[t]].size = NewSize(t)]
  BY DEF Commit
<1>2. InFile(t) /\ handle[t] \in Indices /\ job[t].kind \in Kinds \ {"read"}
  BY <1>1 DEF InFile, AfterGetSize, IInv, Rest, Locked, KindOK, KindAt
<1>3. bft[handle[t]].size = job[t].size
  BY <1>1 DEF IInv, Rest, Snapshots, SnapshotAt, AfterGetSize
<1>4. job[t].size \in 0 .. MaxSize /\ job[t].arg \in 0 .. MaxSize
  BY JobFields DEF IInv, TypeOK
<1>5. PICK i \in Indices : i = handle[t] /\ SeenOpen[t] = i
  BY <1>1, <1>2 DEF SeenOpen
<1>6. \A k \in Indices : /\ bft'[k].name = bft[k].name
                         /\ bft'[k].size = IF k = i THEN NewSize(t) ELSE bft[k].size
  BY <1>1, <1>5 DEF IInv, TypeOK, Entries
<1>7. SeenDir' = SeenDir
  <2>1. \A n \in Names, k \in Indices : SeenDir[n] = k <=> bft'[k].name = n
    BY <1>6, SeenDirIs DEF SeenIsTable
  <2> QED
    BY <2>1, SeenDirType, SeenDirFrom
<1>8. SeenOp[t] = [kind |-> job[t].kind, arg |-> job[t].arg]
  BY <1>2 DEF SeenOp
<1>9. SeenOp[t] # [kind |-> "none", arg |-> 0] /\ SeenOp[t].kind # "read"
  <2>1. SeenOp[t].kind = job[t].kind
    BY <1>8
  <2> QED
    BY <1>2, <2>1 DEF Kinds
<1>10. SeenSize' = [SeenSize EXCEPT ![i] = NewSize(t)]
  BY <1>6 DEF SeenSize
<1>11. job[t].kind = "fallocate" => job[t].arg > job[t].size
  BY <1>1 DEF AllGrow, Grows
<1>12. NewSize(t) = Directory!Resized(job[t].kind, job[t].arg, job[t].size)
  BY <1>2, <1>4, <1>11 DEF NewSize, Greater, Directory!Resized, Kinds
<1>13. SeenSize[i] = job[t].size
  BY <1>3, <1>5 DEF SeenSize
<1>14. SeenOpen' = SeenOpen /\ SeenOp' = [SeenOp EXCEPT ![t] = [kind |-> "none", arg |-> 0]]
  BY <1>1, <1>2, FinishOps
<1>15. SeenSize' = [SeenSize EXCEPT ![SeenOpen[t]] =
                      Directory!Resized(SeenOp[t].kind, SeenOp[t].arg, SeenSize[SeenOpen[t]])]
  BY <1>5, <1>8, <1>10, <1>12, <1>13
<1> QED
  BY <1>7, <1>9, <1>14, <1>15 DEF Directory!Commit, Directory!NoOp

LEMMA StepSeen ==
  ASSUME ~RenameSame, IInv, IInv', NamedOnce, NamedOnce', AllGrow, [Next]_vars
  PROVE  [Directory!Next]_(Directory!vars)
<1> USE DEF Directory!Next, Directory!vars, seen
<1>1. ASSUME NEW t \in Threads, NEW n \in Names, Mknod(t, n) \/ Unlink(t, n) \/ Open(t, n)
      PROVE  [Directory!Next]_(Directory!vars)
  BY <1>1, MknodSeen, UnlinkSeen, OpenSeen
<1>2. ASSUME NEW t \in Threads, NEW old \in Names, NEW new \in Names, Rename(t, old, new)
      PROVE  [Directory!Next]_(Directory!vars)
  BY <1>2, RenameSeen
<1>3. CASE UNCHANGED <<bft, pc, handle, job>>
  BY <1>3, TableSeen DEF SeenOpen, SeenOp, InFile
<1>4. ASSUME NEW t \in Threads, Attributes(t)
      PROVE  [Directory!Next]_(Directory!vars)
  BY <1>3, <1>4 DEF Attributes, table
<1>5. ASSUME NEW t \in Threads, Release(t)
      PROVE  [Directory!Next]_(Directory!vars)
  BY <1>5, ReleaseSeen
<1>6. ASSUME NEW t \in Threads, NEW kind \in Kinds, NEW arg \in 0 .. MaxSize,
             \/ kind = "read" /\ BeginRead(t, arg)
             \/ kind # "read" /\ BeginWrite(t, kind, arg)
      PROVE  [Directory!Next]_(Directory!vars)
  <2>1. Directory!Begin(t, kind, arg)
    BY <1>6, BeginSeen
  <2> QED
    BY <2>1 DEF Kinds
<1>7. ASSUME NEW t \in Threads, Continue(t)
      PROVE  [Directory!Next]_(Directory!vars)
  <2>1. CASE Commit(t)
    BY <2>1, CommitSeen
  <2>2. CASE Reap(t)
    BY <2>2, ReapSeen
  <2>3. CASE ~Commit(t) /\ ~Reap(t)
    BY <1>7, <2>3, ContinueMoves, FinishSeen, AdvanceSeen
  <2> QED
    BY <2>1, <2>2, <2>3
<1>8. CASE UNCHANGED vars
  BY <1>3, <1>8 DEF vars, table
<1>9. CASE Next
  BY <1>9, Steps, <1>1, <1>2, <1>4, <1>5, <1>6, <1>7
<1> QED
  BY <1>8, <1>9

\* For its callers every operation happens at one moment: names lead to files as if
\* there were no threads, and a size is what the writes and truncations that
\* returned make of it, although each read it in one section and wrote it in
\* another.  Only a rename of a file to its own name would break this.
THEOREM CallersSeeDirectory == ~RenameSame => (Spec => ImplementsDirectory)
<1> SUFFICES ASSUME ~RenameSame PROVE Spec => ImplementsDirectory
  OBVIOUS
<1>1. Init => Directory!Init
  <2> SUFFICES ASSUME Init PROVE Directory!Init
    OBVIOUS
  <2>1. \A n \in Names : Find(n) = {}
    <3>1. \A i \in Indices : bft[i].name = NoName /\ bft[i].size = 0
      BY DEF Init, Zeroed
    <3> QED
      BY <3>1, FindType, IndexTypes
  <2>2. SeenDir = [n \in Names |-> None]
    BY <2>1 DEF SeenDir, Exists
  <2>3. SeenSize = [i \in Indices |-> 0] /\ SeenOpen = [t \in Threads |-> None]
    BY DEF Init, SeenSize, SeenOpen, Zeroed
  <2>4. SeenOp = [t \in Threads |-> [kind |-> "none", arg |-> 0]]
    BY DEF Init, SeenOp, InFile, AfterGetSize
  <2> QED
    BY <2>2, <2>3, <2>4 DEF Directory!Init, Directory!NoOp
<1>2. Init => AllGrow
  BY DEF Init, AllGrow, Grows, NoJob
<1>3. IInv /\ IInv' /\ AllGrow /\ [Next]_vars => AllGrow'
  <2>1. AllGrow /\ UNCHANGED vars => AllGrow'
    BY DEF AllGrow, Grows, vars
  <2> QED
    BY <2>1, AllGrowStep
<1>4. IInv /\ NamesUnique => NamedOnce
  BY DEF IInv, NamedOnce
<1>5. IInv' /\ NamesUnique' => NamedOnce'
  BY DEF IInv, NamedOnce
<1>6. /\ IInv /\ IInv' /\ NamesUnique /\ NamesUnique' /\ AllGrow /\ [Next]_vars
      => [Directory!Next]_(Directory!vars)
  BY <1>4, <1>5, StepSeen
<1> QED
  BY Inductive, NamesAreUnique, <1>1, <1>2, <1>3, <1>6, PTL DEF Spec, ImplementsDirectory, Directory!Spec
=============================================================================
