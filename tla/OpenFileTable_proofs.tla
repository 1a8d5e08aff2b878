----------------------- MODULE OpenFileTable_proofs -----------------------
(***************************************************************************)
(* Proofs about the open file table, for any finite set of threads, any    *)
(* indices and any addresses.                                              *)
(***************************************************************************)
EXTENDS OftBuckets, FiniteSetTheorems, WellFoundedInduction, TLAPS

(***************************************************************************)
(* The inductive invariant: the safety properties, which need each other,  *)
(* and two facts about memory.  RecheckSafe is NOT among them: it fails.   *)
(***************************************************************************)
ChainedIsLive == table \subseteq live
DestroyIsLive == \A t \in Threads : pc[t] = "destroy" => file[t] \in live

IInv == /\ TypeOK
        /\ ChainedIsLive
        /\ DestroyIsLive
        /\ HandleSafe
        /\ OneObjectPerIndex
        /\ RefcountExact
        /\ FreedOnce
        /\ ZeroIsPending

LEMMA HoldersFinite == \A a : IsFiniteSet(Holders(a))
<1>1. \A a : Holders(a) \subseteq Threads
  BY DEF Holders
<1> QED
  BY <1>1, OftAssumption, FS_Subset

LEMMA InitIInv == Init => IInv
<1> SUFFICES ASSUME Init PROVE IInv
  OBVIOUS
<1> USE DEF Init
<1>1. TypeOK
  BY DEF TypeOK
<1>2. ChainedIsLive /\ DestroyIsLive /\ HandleSafe /\ OneObjectPerIndex
  BY DEF ChainedIsLive, DestroyIsLive, HandleSafe, OneObjectPerIndex
<1>3. RefcountExact /\ FreedOnce /\ ZeroIsPending
  BY DEF RefcountExact, FreedOnce, ZeroIsPending
<1> QED
  BY <1>1, <1>2, <1>3 DEF IInv

----------------------------------------------------------------------------
\* Every action but GetNew leaves memory's owners alone unless it says so; the
\* lemmas below are one per action.

LEMMA GetFoundIInv ==
  ASSUME IInv, NEW t \in Threads, NEW i \in Indices, GetFound(t, i)
  PROVE  IInv'
<1>1. PICK a \in Found(i) :
        /\ refcount' = [refcount EXCEPT ![a] = @ + 1]
        /\ pc' = [pc EXCEPT ![t] = "using"]
        /\ file' = [file EXCEPT ![t] = a]
  BY DEF GetFound
<1>2. /\ pc[t] = "idle" /\ a \in table /\ a \in live /\ index[a] = i
      /\ UNCHANGED <<live, index, table>>
  BY DEF GetFound, Found, IInv, ChainedIsLive
<1>3. TypeOK'
  BY <1>1, <1>2 DEF IInv, TypeOK
<1>4. (ChainedIsLive /\ DestroyIsLive /\ HandleSafe /\ OneObjectPerIndex)'
  BY <1>1, <1>2 DEF IInv, TypeOK, ChainedIsLive, DestroyIsLive, HandleSafe, OneObjectPerIndex
<1>5. RefcountExact'
  <2> SUFFICES ASSUME NEW b \in table
               PROVE  refcount'[b] = Cardinality(Holders(b)')
    BY <1>2 DEF RefcountExact
  <2>1. CASE b = a
    <3>1. Holders(a)' = Holders(a) \cup {t} /\ t \notin Holders(a)
      BY <1>1, <1>2 DEF Holders, IInv, TypeOK
    <3>2. Cardinality(Holders(a)') = Cardinality(Holders(a)) + 1
      BY <3>1, HoldersFinite, FS_AddElement
    <3>3. refcount'[a] = refcount[a] + 1
      BY <1>1, <1>2 DEF IInv, TypeOK
    <3> QED
      BY <2>1, <3>2, <3>3, <1>2 DEF IInv, RefcountExact
  <2>2. CASE b # a
    <3>1. Holders(b)' = Holders(b)
      BY <1>1, <1>2, <2>2 DEF Holders, IInv, TypeOK
    <3>2. refcount'[b] = refcount[b]
      BY <1>1, <1>2, <2>2 DEF IInv, TypeOK
    <3> QED
      BY <3>1, <3>2 DEF IInv, RefcountExact
  <2> QED
    BY <2>1, <2>2
<1>6. FreedOnce'
  <2>1. \A u \in Threads, b \in Addrs :
          (pc'[u] = "destroy" /\ file'[u] = b) <=> (pc[u] = "destroy" /\ file[u] = b)
    BY <1>1, <1>2 DEF IInv, TypeOK
  <2> QED
    BY <2>1, <1>2 DEF IInv, TypeOK, FreedOnce
<1>7. ZeroIsPending'
  <2> SUFFICES ASSUME NEW b \in table, refcount'[b] = 0
               PROVE  \E u \in Threads : pc'[u] = "recheck" /\ file'[u] = b
    BY <1>2 DEF ZeroIsPending
  <2>1. b # a
    <3>1. refcount[a] = Cardinality(Holders(a)) /\ Cardinality(Holders(a)) \in Nat
      BY <1>2, HoldersFinite, FS_CardinalityType DEF IInv, RefcountExact
    <3> QED
      BY <1>1, <1>2, <3>1 DEF IInv, TypeOK
  <2>2. refcount[b] = 0
    BY <2>1, <1>1, <1>2 DEF IInv, TypeOK
  <2>3. PICK u \in Threads : pc[u] = "recheck" /\ file[u] = b
    BY <2>2 DEF IInv, ZeroIsPending
  <2> QED
    BY <2>3, <1>1, <1>2 DEF IInv, TypeOK
<1> QED
  BY <1>3, <1>4, <1>5, <1>6, <1>7 DEF IInv

LEMMA GetNewIInv ==
  ASSUME IInv, NEW t \in Threads, NEW i \in Indices, GetNew(t, i)
  PROVE  IInv'
<1>1. PICK a \in Addrs \ live :
        /\ live' = live \cup {a}
        /\ index' = [index EXCEPT ![a] = i]
        /\ refcount' = [refcount EXCEPT ![a] = 1]
        /\ table' = table \cup {a}
        /\ pc' = [pc EXCEPT ![t] = "using"]
        /\ file' = [file EXCEPT ![t] = a]
  BY DEF GetNew
<1>2. /\ pc[t] = "idle" /\ a \notin table
      /\ \A b \in table : index[b] # i
      /\ \A u \in Threads : pc[u] \in {"using", "destroy"} => file[u] # a
  BY DEF GetNew, Found, IInv, ChainedIsLive, HandleSafe, DestroyIsLive
<1>3. TypeOK'
  BY <1>1 DEF IInv, TypeOK
<1>4. (ChainedIsLive /\ DestroyIsLive)'
  BY <1>1, <1>2 DEF IInv, TypeOK, ChainedIsLive, DestroyIsLive
<1>5. (HandleSafe /\ OneObjectPerIndex)'
  BY <1>1, <1>2 DEF IInv, TypeOK, HandleSafe, OneObjectPerIndex
<1>6. RefcountExact'
  <2> SUFFICES ASSUME NEW b \in table'
               PROVE  refcount'[b] = Cardinality(Holders(b)')
    BY DEF RefcountExact
  <2>1. CASE b = a
    <3>1. Holders(a)' = {t}
      BY <1>1, <1>2 DEF Holders, IInv, TypeOK
    <3> QED
      BY <2>1, <3>1, <1>1, FS_Singleton DEF IInv, TypeOK
  <2>2. CASE b # a
    <3>1. Holders(b)' = Holders(b)
      BY <1>1, <1>2, <2>2 DEF Holders, IInv, TypeOK
    <3>2. refcount'[b] = refcount[b] /\ b \in table
      BY <1>1, <2>2 DEF IInv, TypeOK
    <3> QED
      BY <3>1, <3>2 DEF IInv, RefcountExact
  <2> QED
    BY <2>1, <2>2
<1>7. FreedOnce'
  <2>1. \A u \in Threads, b \in Addrs :
          (pc'[u] = "destroy" /\ file'[u] = b) <=> (pc[u] = "destroy" /\ file[u] = b)
    BY <1>1, <1>2 DEF IInv, TypeOK
  <2> SUFFICES ASSUME NEW b \in live'
               PROVE  IF b \in table'
                      THEN \A u \in Threads : ~(pc'[u] = "destroy" /\ file'[u] = b)
                      ELSE \E u \in Threads :
                             /\ pc'[u] = "destroy" /\ file'[u] = b
                             /\ \A v \in Threads : pc'[v] = "destroy" /\ file'[v] = b => v = u
    BY DEF FreedOnce
  <2>2. CASE b = a
    BY <2>1, <2>2, <1>1, <1>2
  <2>3. CASE b # a
    BY <2>1, <2>3, <1>1 DEF IInv, TypeOK, FreedOnce
  <2> QED
    BY <2>2, <2>3
<1>8. ZeroIsPending'
  BY <1>1, <1>2 DEF IInv, TypeOK, ZeroIsPending
<1> QED
  BY <1>3, <1>4, <1>5, <1>6, <1>7, <1>8 DEF IInv

LEMMA ReleaseDecIInv ==
  ASSUME IInv, NEW t \in Threads, ReleaseDec(t)
  PROVE  IInv'
<1>0. PICK a \in Addrs : a = file[t]
  BY DEF ReleaseDec, IInv, TypeOK
<1>1. /\ pc[t] = "using" /\ file[t] = a /\ a \in table /\ a \in live
      /\ UNCHANGED <<live, index, table>>
  BY <1>0 DEF ReleaseDec, IInv, HandleSafe
<1>2. refcount' = [refcount EXCEPT ![a] = refcount[a] - 1]
  BY <1>0 DEF ReleaseDec
<1>3. IF refcount[a] - 1 # 0
        THEN /\ pc' = [pc EXCEPT ![t] = "idle"]
             /\ file' = [file EXCEPT ![t] = NoFile]
        ELSE pc' = [pc EXCEPT ![t] = "recheck"] /\ UNCHANGED file
  BY <1>0 DEF ReleaseDec, Return
<1>4. /\ \A u \in Threads \ {t} : pc'[u] = pc[u] /\ file'[u] = file[u]
      /\ pc'[t] \in {"idle", "recheck"}
      /\ pc'[t] = "recheck" => file'[t] = a
  BY <1>1, <1>3 DEF IInv, TypeOK
<1>5. TypeOK'
  BY <1>1, <1>2, <1>3 DEF IInv, TypeOK
<1>6. (ChainedIsLive /\ DestroyIsLive /\ HandleSafe /\ OneObjectPerIndex)'
  BY <1>1, <1>4 DEF IInv, TypeOK, ChainedIsLive, DestroyIsLive, HandleSafe, OneObjectPerIndex
<1>7. RefcountExact'
  <2> SUFFICES ASSUME NEW b \in table
               PROVE  refcount'[b] = Cardinality(Holders(b)')
    BY <1>1 DEF RefcountExact
  <2>1. CASE b = a
    <3>1. Holders(a)' = Holders(a) \ {t} /\ t \in Holders(a)
      BY <1>1, <1>4 DEF Holders
    <3>2. Cardinality(Holders(a)') = Cardinality(Holders(a)) - 1
      BY <3>1, HoldersFinite, FS_RemoveElement
    <3>3. refcount'[a] = refcount[a] - 1
      BY <1>1, <1>2 DEF IInv, TypeOK
    <3> QED
      BY <2>1, <3>2, <3>3, <1>1 DEF IInv, RefcountExact
  <2>2. CASE b # a
    <3>1. Holders(b)' = Holders(b)
      BY <1>1, <1>4, <2>2 DEF Holders
    <3>2. refcount'[b] = refcount[b]
      BY <1>1, <1>2, <2>2 DEF IInv, TypeOK
    <3> QED
      BY <3>1, <3>2 DEF IInv, RefcountExact
  <2> QED
    BY <2>1, <2>2
<1>8. FreedOnce'
  <2>1. \A u \in Threads, b \in Addrs :
          (pc'[u] = "destroy" /\ file'[u] = b) <=> (pc[u] = "destroy" /\ file[u] = b)
    BY <1>1, <1>4
  <2> QED
    BY <2>1, <1>1 DEF IInv, TypeOK, FreedOnce
<1>9. ZeroIsPending'
  <2> SUFFICES ASSUME NEW b \in table, refcount'[b] = 0
               PROVE  \E u \in Threads : pc'[u] = "recheck" /\ file'[u] = b
    BY <1>1 DEF ZeroIsPending
  <2>1. CASE b = a
    BY <2>1, <1>1, <1>2, <1>3 DEF IInv, TypeOK
  <2>2. CASE b # a
    <3>1. refcount[b] = 0
      BY <2>2, <1>1, <1>2 DEF IInv, TypeOK
    <3>2. PICK u \in Threads : pc[u] = "recheck" /\ file[u] = b
      BY <3>1 DEF IInv, ZeroIsPending
    <3> QED
      BY <3>2, <1>1, <1>4
  <2> QED
    BY <2>1, <2>2
<1> QED
  BY <1>5, <1>6, <1>7, <1>8, <1>9 DEF IInv

\* The section under the mutex.  The count it loads may be that of a freed
\* object; an object that is still chained is live, so it is removed only when
\* its count is 0, and then nobody holds it.
LEMMA ReleaseRecheckIInv ==
  ASSUME IInv, NEW t \in Threads, ReleaseRecheck(t)
  PROVE  IInv'
<1>0. PICK a \in Addrs : a = file[t]
  BY DEF ReleaseRecheck, IInv, TypeOK
<1>1. /\ pc[t] = "recheck" /\ file[t] = a
      /\ UNCHANGED <<live, index, refcount>>
  BY <1>0 DEF ReleaseRecheck
<1>2. PICK count \in Loaded(a) :
        IF count = 0 /\ a \in table
          THEN /\ table' = table \ {a}
               /\ pc' = [pc EXCEPT ![t] = "destroy"]
               /\ UNCHANGED file
          ELSE Return(t) /\ UNCHANGED table
  BY <1>0 DEF ReleaseRecheck
<1>3. \A u \in Threads \ {t} : pc'[u] = pc[u] /\ file'[u] = file[u]
  BY <1>2 DEF Return, IInv, TypeOK
<1>4. pc'[t] # "using" /\ pc'[t] # "recheck"
  BY <1>2 DEF Return, IInv, TypeOK
<1>5. \A b : Holders(b)' = Holders(b)
  BY <1>1, <1>3, <1>4 DEF Holders
<1>6. CASE count = 0 /\ a \in table
  <2>1. /\ table' = table \ {a} /\ a \in live
        /\ pc'[t] = "destroy" /\ file' = file
    BY <1>2, <1>6 DEF IInv, TypeOK, ChainedIsLive
  <2>2. refcount[a] = 0
    BY <2>1, <1>6 DEF Loaded
  <2>3. Holders(a) = {}
    BY <2>2, <1>6, HoldersFinite, FS_EmptySet DEF IInv, RefcountExact
  <2>4. TypeOK'
    BY <1>1, <1>2, <1>6 DEF IInv, TypeOK
  <2>5. (ChainedIsLive /\ DestroyIsLive)'
    BY <1>1, <1>3, <2>1 DEF IInv, ChainedIsLive, DestroyIsLive
  <2>6. (HandleSafe /\ OneObjectPerIndex)'
    BY <1>1, <1>3, <1>4, <2>1, <2>3 DEF IInv, HandleSafe, OneObjectPerIndex, Holders
  <2>7. RefcountExact'
    BY <1>1, <1>5, <2>1 DEF IInv, RefcountExact
  <2>8. FreedOnce'
    <3> SUFFICES ASSUME NEW b \in live
                 PROVE  IF b \in table'
                        THEN \A u \in Threads : ~(pc'[u] = "destroy" /\ file'[u] = b)
                        ELSE \E u \in Threads :
                               /\ pc'[u] = "destroy" /\ file'[u] = b
                               /\ \A v \in Threads : pc'[v] = "destroy" /\ file'[v] = b => v = u
      BY <1>1 DEF FreedOnce
    <3>1. CASE b = a
      BY <3>1, <1>1, <1>3, <1>6, <2>1 DEF IInv, FreedOnce
    <3>2. CASE b # a
      BY <3>2, <1>1, <1>3, <2>1 DEF IInv, FreedOnce
    <3> QED
      BY <3>1, <3>2
  <2>9. ZeroIsPending'
    BY <1>1, <1>3, <2>1 DEF IInv, ZeroIsPending
  <2> QED
    BY <2>4, <2>5, <2>6, <2>7, <2>8, <2>9 DEF IInv
<1>7. CASE ~(count = 0 /\ a \in table)
  <2>1. Return(t) /\ table' = table /\ pc'[t] = "idle"
    BY <1>2, <1>7 DEF Return, IInv, TypeOK
  <2>2. a \in table => refcount[a] # 0
    BY <1>7 DEF Loaded, IInv, ChainedIsLive
  <2>3. TypeOK'
    BY <1>1, <2>1 DEF IInv, TypeOK, Return
  <2>4. (ChainedIsLive /\ DestroyIsLive /\ HandleSafe /\ OneObjectPerIndex)'
    BY <1>1, <1>3, <2>1 DEF IInv, ChainedIsLive, DestroyIsLive, HandleSafe, OneObjectPerIndex
  <2>5. RefcountExact'
    BY <1>1, <1>5, <2>1 DEF IInv, RefcountExact
  <2>6. FreedOnce'
    <3>1. \A u \in Threads, b \in Addrs :
            (pc'[u] = "destroy" /\ file'[u] = b) <=> (pc[u] = "destroy" /\ file[u] = b)
      BY <1>1, <1>3, <2>1
    <3> QED
      BY <3>1, <1>1, <2>1 DEF IInv, TypeOK, FreedOnce
  <2>7. ZeroIsPending'
    BY <1>1, <1>3, <2>1, <2>2 DEF IInv, ZeroIsPending
  <2> QED
    BY <2>3, <2>4, <2>5, <2>6, <2>7 DEF IInv
<1> QED
  BY <1>6, <1>7

LEMMA DestroyIInv ==
  ASSUME IInv, NEW t \in Threads, Destroy(t)
  PROVE  IInv'
<1>0. PICK a \in Addrs : a = file[t]
  BY DEF Destroy, IInv, TypeOK
<1>1. /\ pc[t] = "destroy" /\ file[t] = a /\ a \in live
      /\ live' = live \ {a}
      /\ pc' = [pc EXCEPT ![t] = "idle"]
      /\ file' = [file EXCEPT ![t] = NoFile]
      /\ UNCHANGED <<index, refcount, table>>
  BY <1>0 DEF Destroy, Return, IInv, DestroyIsLive
<1>2. a \notin table /\ \A u \in Threads : pc[u] = "destroy" /\ file[u] = a => u = t
  BY <1>1 DEF IInv, FreedOnce
<1>3. \A u \in Threads \ {t} : pc'[u] = pc[u] /\ file'[u] = file[u]
  BY <1>1 DEF IInv, TypeOK
<1>4. pc'[t] = "idle"
  BY <1>1 DEF IInv, TypeOK
<1>5. TypeOK'
  BY <1>1 DEF IInv, TypeOK
<1>6. (ChainedIsLive /\ DestroyIsLive /\ HandleSafe /\ OneObjectPerIndex)'
  BY <1>1, <1>2, <1>3, <1>4 DEF IInv, ChainedIsLive, DestroyIsLive, HandleSafe, OneObjectPerIndex
<1>7. RefcountExact'
  <2>1. \A b : Holders(b)' = Holders(b)
    BY <1>1, <1>3, <1>4 DEF Holders
  <2> QED
    BY <2>1, <1>1 DEF IInv, RefcountExact
<1>8. FreedOnce'
  BY <1>1, <1>2, <1>3, <1>4 DEF IInv, FreedOnce
<1>9. ZeroIsPending'
  BY <1>1, <1>3 DEF IInv, ZeroIsPending
<1> QED
  BY <1>5, <1>6, <1>7, <1>8, <1>9 DEF IInv

LEMMA StutterIInv == IInv /\ UNCHANGED vars => IInv'
<1> SUFFICES ASSUME IInv, UNCHANGED vars PROVE IInv'
  OBVIOUS
<1>1. \A b : Holders(b)' = Holders(b)
  BY DEF Holders, vars
<1> QED
  BY <1>1 DEF vars, IInv, TypeOK, ChainedIsLive, DestroyIsLive, HandleSafe,
              OneObjectPerIndex, RefcountExact, FreedOnce, ZeroIsPending

THEOREM Inductive == Spec => []IInv
<1>1. IInv /\ [Next]_vars => IInv'
  BY GetFoundIInv, GetNewIInv, ReleaseDecIInv, ReleaseRecheckIInv, DestroyIInv,
     StutterIInv DEF Next, Get
<1> QED
  BY InitIInv, <1>1, PTL DEF Spec

\* Every reachable state of oft.c is type correct.
THEOREM TypeCorrect == Spec => []TypeOK
BY Inductive, PTL DEF IInv

\* No interleaving of gets and releases takes an object from under a handle,
\* although the decrement is not under the mutex.
THEOREM HandlesAreSafe == Spec => []HandleSafe
BY Inductive, PTL DEF IInv

\* The count of a chained object is always the number of its handles.
THEOREM CountsAreExact == Spec => []RefcountExact
BY Inductive, PTL DEF IInv

\* Never two objects, hence never two locks, for one file.
THEOREM OneObject == Spec => []OneObjectPerIndex
BY Inductive, PTL DEF IInv

\* No object is leaked and none is freed twice, whatever a stale release reads
\* from freed memory.
THEOREM FreedExactlyOnce == Spec => []FreedOnce
BY Inductive, PTL DEF IInv

\* An object whose count is zero always has the release that removes it pending.
THEOREM ZeroHasRelease == Spec => []ZeroIsPending
BY Inductive, PTL DEF IInv

----------------------------------------------------------------------------
(***************************************************************************)
(* The refinement.  AbsRefs picks the object of an index with CHOOSE; the  *)
(* two lemmas say what that gives when indices are unique.                 *)
(***************************************************************************)
LEMMA RefsOfChained ==
  ASSUME NEW tab, NEW idx, NEW cnt, NEW a \in tab, idx[a] \in Indices,
         \A b, c \in tab : idx[b] = idx[c] => b = c
  PROVE  RefsMap(tab, idx, cnt)[idx[a]] = cnt[a]
<1>1. ~ \A b \in tab : idx[b] # idx[a]
  OBVIOUS
<1>2. (CHOOSE b \in tab : idx[b] = idx[a]) = a
  OBVIOUS
<1> QED
  BY <1>1, <1>2 DEF RefsMap

LEMMA RefsOfAbsent ==
  ASSUME NEW tab, NEW idx, NEW cnt, NEW i \in Indices, \A b \in tab : idx[b] # i
  PROVE  RefsMap(tab, idx, cnt)[i] = 0
BY DEF RefsMap

\* RefsMap is a function on Indices: two of them are equal when they agree there.
LEMMA RefsDomain ==
  ASSUME NEW tab, NEW idx, NEW cnt
  PROVE  RefsMap(tab, idx, cnt) = [j \in Indices |-> RefsMap(tab, idx, cnt)[j]]
BY DEF RefsMap

\* The chained objects' indices are indices, and no two of them are equal.
LEMMA ChainedIndices ==
  ASSUME IInv
  PROVE  /\ \A b \in table : index[b] \in Indices
         /\ \A b, c \in table : index[b] = index[c] => b = c
BY DEF IInv, TypeOK, OneObjectPerIndex

\* A step that changes the count of one chained object changes AbsRefs at its index.
LEMMA CountStep ==
  ASSUME IInv, NEW a \in table, UNCHANGED <<table, index>>,
         \A b \in table \ {a} : refcount'[b] = refcount[b]
  PROVE  AbsRefs' = [AbsRefs EXCEPT ![index[a]] = refcount'[a]]
<1> DEFINE old == RefsMap(table, index, refcount)
           new == RefsMap(table, index, refcount')
<1>1. new[index[a]] = refcount'[a] /\ index[a] \in Indices
  BY ChainedIndices, RefsOfChained
<1>2. ASSUME NEW j \in Indices, j # index[a]
      PROVE  new[j] = old[j]
  <2>1. CASE \A b \in table : index[b] # j
    BY <2>1, RefsOfAbsent
  <2>2. CASE \E b \in table : index[b] = j
    <3>1. PICK b \in table : index[b] = j
      BY <2>2
    <3>2. new[index[b]] = refcount'[b] /\ old[index[b]] = refcount[b]
      BY <3>1, RefsOfChained, ChainedIndices
    <3> QED
      BY <3>1, <3>2, <1>2
  <2> QED
    BY <2>1, <2>2
<1>3. new = [j \in Indices |-> new[j]] /\ old = [j \in Indices |-> old[j]]
  BY RefsDomain
<1>4. new = [old EXCEPT ![index[a]] = refcount'[a]]
  <2> HIDE DEF new, old
  <2> QED
    BY <1>1, <1>2, <1>3
<1> QED
  BY <1>4 DEF AbsRefs

LEMMA GetFoundRefines ==
  ASSUME IInv, NEW t \in Threads, NEW i \in Indices, GetFound(t, i)
  PROVE  Oft!Acquire(i)
<1>1. PICK a \in table : index[a] = i /\ refcount' = [refcount EXCEPT ![a] = @ + 1]
  BY DEF GetFound, Found
<1>2. UNCHANGED <<table, index>> /\ a \in Addrs
  BY DEF GetFound, IInv, TypeOK
<1>3. AbsPresent' = AbsPresent /\ i \in AbsPresent
  BY <1>1, <1>2 DEF AbsPresent
<1>4. AbsRefs' = [AbsRefs EXCEPT ![index[a]] = refcount'[a]]
  <2>1. \A b \in table \ {a} : refcount'[b] = refcount[b]
    BY <1>1 DEF IInv, TypeOK
  <2> QED
    BY <2>1, CountStep, <1>1, <1>2
<1>5. AbsRefs[i] = refcount[a] /\ refcount'[a] = refcount[a] + 1
  <2>1. RefsMap(table, index, refcount)[index[a]] = refcount[a]
    BY RefsOfChained, <1>1 DEF IInv, OneObjectPerIndex
  <2> QED
    BY <2>1, <1>1, <1>2 DEF IInv, TypeOK, AbsRefs
<1>6. AbsRefs' = [AbsRefs EXCEPT ![i] = @ + 1]
  BY <1>1, <1>4, <1>5
<1> QED
  BY <1>3, <1>6 DEF Oft!Acquire

LEMMA GetNewRefines ==
  ASSUME IInv, NEW t \in Threads, NEW i \in Indices, GetNew(t, i)
  PROVE  Oft!Acquire(i)
<1>1. PICK a \in Addrs \ live :
        /\ index' = [index EXCEPT ![a] = i]
        /\ refcount' = [refcount EXCEPT ![a] = 1]
        /\ table' = table \cup {a}
  BY DEF GetNew
<1>2. /\ a \notin table
      /\ \A b \in table : index[b] # i /\ b \in Addrs /\ index[b] \in Indices
      /\ \A b \in table : index'[b] = index[b] /\ refcount'[b] = refcount[b]
      /\ index'[a] = i /\ refcount'[a] = 1
  BY <1>1 DEF GetNew, Found, IInv, TypeOK, ChainedIsLive
<1>3. \A b, c \in table' : index'[b] = index'[c] => b = c
  BY <1>1, <1>2 DEF IInv, OneObjectPerIndex
<1>4. AbsPresent' = AbsPresent \cup {i}
  BY <1>1, <1>2 DEF AbsPresent
<1>5. RefsMap(table', index', refcount')[i] = 1
  <2>1. a \in table' /\ index'[a] \in Indices
    BY <1>1, <1>2
  <2>2. RefsMap(table', index', refcount')[index'[a]] = refcount'[a]
    BY <2>1, <1>3, RefsOfChained
  <2> QED
    BY <2>2, <1>2
<1>6. ASSUME NEW j \in Indices \ {i}
      PROVE  RefsMap(table', index', refcount')[j] = RefsMap(table, index, refcount)[j]
  <2>1. CASE \A b \in table : index[b] # j
    <3>1. \A b \in table' : index'[b] # j
      BY <2>1, <1>1, <1>2
    <3> QED
      BY <2>1, <3>1, RefsOfAbsent
  <2>2. CASE \E b \in table : index[b] = j
    <3>1. PICK b \in table : index[b] = j
      BY <2>2
    <3>2. b \in table' /\ index'[b] = j /\ refcount'[b] = refcount[b]
      BY <3>1, <1>1, <1>2
    <3>3. RefsMap(table', index', refcount')[j] = refcount'[b]
      BY <3>2, <1>3, RefsOfChained
    <3>4. RefsMap(table, index, refcount)[j] = refcount[b]
      BY <3>1, RefsOfChained DEF IInv, OneObjectPerIndex
    <3> QED
      BY <3>2, <3>3, <3>4
  <2> QED
    BY <2>1, <2>2
<1>7. RefsMap(table, index, refcount)[i] = 0
  BY <1>2, RefsOfAbsent
<1> DEFINE old == RefsMap(table, index, refcount)
           new == RefsMap(table', index', refcount')
<1>8. new = [old EXCEPT ![i] = 1]
  <2>1. new = [j \in Indices |-> new[j]] /\ old = [j \in Indices |-> old[j]]
    BY RefsDomain
  <2>2. new[i] = 1 /\ \A j \in Indices \ {i} : new[j] = old[j]
    BY <1>5, <1>6
  <2> HIDE DEF new, old
  <2> QED
    BY <2>1, <2>2
<1>9. AbsRefs' = [AbsRefs EXCEPT ![i] = @ + 1]
  BY <1>7, <1>8 DEF AbsRefs
<1> QED
  BY <1>4, <1>9 DEF Oft!Acquire

LEMMA ReleaseDecRefines ==
  ASSUME IInv, NEW t \in Threads, ReleaseDec(t)
  PROVE  \E i \in Indices : Oft!Drop(i)
<1>0. PICK a \in table : a = file[t] /\ pc[t] = "using"
  BY DEF ReleaseDec, IInv, HandleSafe
<1>1. /\ refcount' = [refcount EXCEPT ![a] = refcount[a] - 1]
      /\ UNCHANGED <<table, index>> /\ a \in Addrs /\ index[a] \in Indices
  BY <1>0 DEF ReleaseDec, IInv, TypeOK
<1>2. AbsPresent' = AbsPresent
  BY <1>1 DEF AbsPresent
<1>3. AbsRefs' = [AbsRefs EXCEPT ![index[a]] = refcount'[a]]
  <2>1. \A b \in table \ {a} : refcount'[b] = refcount[b]
    BY <1>1 DEF IInv, TypeOK
  <2> QED
    BY <2>1, CountStep, <1>1
<1>4. AbsRefs[index[a]] = refcount[a] /\ refcount'[a] = refcount[a] - 1
  <2>1. RefsMap(table, index, refcount)[index[a]] = refcount[a]
    BY RefsOfChained, <1>1 DEF IInv, OneObjectPerIndex
  <2> QED
    BY <2>1, <1>1 DEF IInv, TypeOK, AbsRefs
<1>5. refcount[a] > 0
  <2>1. t \in Holders(a)
    BY <1>0 DEF Holders
  <2>2. Cardinality(Holders(a)) \in Nat /\ Cardinality(Holders(a)) # 0
    BY <2>1, HoldersFinite, FS_CardinalityType, FS_EmptySet
  <2> QED
    BY <2>2 DEF IInv, RefcountExact
<1>6. AbsRefs' = [AbsRefs EXCEPT ![index[a]] = @ - 1]
  BY <1>3, <1>4
<1> QED
  BY <1>1, <1>2, <1>4, <1>5, <1>6 DEF Oft!Drop

LEMMA ReleaseRecheckRefines ==
  ASSUME IInv, NEW t \in Threads, ReleaseRecheck(t)
  PROVE  (\E i \in Indices : Oft!Reap(i)) \/ UNCHANGED <<AbsPresent, AbsRefs>>
<1>0. PICK a : a = file[t]
  OBVIOUS
<1>1. UNCHANGED <<live, index, refcount>>
  BY DEF ReleaseRecheck
<1>2. PICK count \in Loaded(a) :
        IF count = 0 /\ a \in table
          THEN table' = table \ {a}
          ELSE UNCHANGED table
  BY <1>0 DEF ReleaseRecheck
<1>3. CASE ~(count = 0 /\ a \in table)
  BY <1>1, <1>2, <1>3 DEF AbsPresent, AbsRefs
<1>4. CASE count = 0 /\ a \in table
  <2>1. refcount[a] = 0 /\ index[a] \in Indices /\ table' = table \ {a}
    BY <1>2, <1>4 DEF Loaded, IInv, TypeOK, ChainedIsLive
  <2>2. \A b \in table \ {a} : index[b] # index[a]
    BY <1>4 DEF IInv, OneObjectPerIndex
  <2>3. AbsPresent' = AbsPresent \ {index[a]} /\ index[a] \in AbsPresent
    BY <1>1, <1>4, <2>1, <2>2 DEF AbsPresent
  <2>4. RefsMap(table, index, refcount)[index[a]] = 0
    BY <1>4, <2>1, RefsOfChained DEF IInv, OneObjectPerIndex
  <2>5. RefsMap(table', index, refcount)[index[a]] = 0
    BY <2>1, <2>2, RefsOfAbsent
  <2>6. ASSUME NEW j \in Indices \ {index[a]}
        PROVE  RefsMap(table', index, refcount)[j] = RefsMap(table, index, refcount)[j]
    <3>1. CASE \A b \in table : index[b] # j
      BY <3>1, <2>1, RefsOfAbsent
    <3>2. CASE \E b \in table : index[b] = j
      <4>1. PICK b \in table : index[b] = j
        BY <3>2
      <4>2. b \in table' /\ \A c, d \in table' : index[c] = index[d] => c = d
        BY <4>1, <2>1 DEF IInv, OneObjectPerIndex
      <4>3. RefsMap(table', index, refcount)[j] = refcount[b]
        BY <4>1, <4>2, RefsOfChained
      <4>4. RefsMap(table, index, refcount)[j] = refcount[b]
        BY <4>1, RefsOfChained DEF IInv, OneObjectPerIndex
      <4> QED
        BY <4>3, <4>4
    <3> QED
      BY <3>1, <3>2
  <2>7. AbsRefs' = AbsRefs
    <3>1. \A j \in Indices : RefsMap(table', index, refcount)[j] = RefsMap(table, index, refcount)[j]
      BY <2>4, <2>5, <2>6
    <3> QED
      BY <3>1, <1>1 DEF AbsRefs, RefsMap
  <2> QED
    BY <2>1, <2>3, <2>4, <2>7 DEF Oft!Reap, AbsRefs
<1> QED
  BY <1>3, <1>4

\* oft.c, whose release works in three steps of which the first takes no lock,
\* implements the table it promises: get, drop and reap, one at a time.
THEOREM Refinement == Spec => ImplementsOft
<1>1. Init => Oft!Init
  BY DEF Init, Oft!Init, AbsPresent, AbsRefs, RefsMap
<1>2. IInv /\ [Next]_vars => [Oft!Next]_(Oft!vars)
  <2> SUFFICES ASSUME IInv, [Next]_vars PROVE [Oft!Next]_(Oft!vars)
    OBVIOUS
  <2>1. ASSUME NEW t \in Threads, NEW i \in Indices, Get(t, i)
        PROVE  Oft!Next
    BY <2>1, GetFoundRefines, GetNewRefines DEF Get, Oft!Next
  <2>2. ASSUME NEW t \in Threads, ReleaseDec(t) PROVE Oft!Next
    BY <2>2, ReleaseDecRefines DEF Oft!Next
  <2>3. ASSUME NEW t \in Threads, ReleaseRecheck(t) PROVE Oft!Next \/ UNCHANGED Oft!vars
    BY <2>3, ReleaseRecheckRefines DEF Oft!Next, Oft!vars
  <2>4. ASSUME NEW t \in Threads, Destroy(t) PROVE UNCHANGED Oft!vars
    BY <2>4 DEF Destroy, Oft!vars, AbsPresent, AbsRefs
  <2>5. CASE UNCHANGED vars
    BY <2>5 DEF vars, Oft!vars, AbsPresent, AbsRefs
  <2> QED
    BY <2>1, <2>2, <2>3, <2>4, <2>5 DEF Next
<1> QED
  BY Inductive, <1>1, <1>2, PTL DEF Spec, ImplementsOft, Oft!Spec

----------------------------------------------------------------------------
(***************************************************************************)
(* The hash table.  A rehash is two nested loops, each a recursive         *)
(* function: RoundsExist says that a loop has a result, UpTo is induction  *)
(* over its rounds (as the search for the least round that would fail).    *)
(***************************************************************************)
LEMMA UpTo ==
  ASSUME NEW N \in Nat, NEW P, 0 \in P, \A k \in 1 .. N : k - 1 \in P => k \in P
  PROVE  \A k \in 0 .. N : k \in P
<1> DEFINE Bad == {k \in 0 .. N : k \notin P}
<1> SUFFICES ASSUME Bad # {} PROVE FALSE
  OBVIOUS
<1>1. Bad \subseteq Nat
  OBVIOUS
<1>2. \E n \in Bad : \A m \in Bad : n <= m
  <2> HIDE DEF Bad
  <2>1. \E n \in Bad : \A m \in Bad : ~ (<<m, n>> \in OpToRel(<, Nat))
    BY <1>1, NatLessThanWellFounded, WFMin
  <2>2. PICK n \in Bad : \A m \in Bad : ~ (<<m, n>> \in OpToRel(<, Nat))
    BY <2>1
  <2>3. \A m \in Bad : ~ (m < n)
    BY <1>1, <2>2 DEF OpToRel
  <2> QED BY <1>1, <2>3
<1>3. PICK n \in Bad : \A m \in Bad : n <= m
  BY <1>2
<1>4. n # 0 /\ n - 1 \in 0 .. N /\ n - 1 \notin Bad /\ n \in 1 .. N
  BY <1>3
<1> QED
  BY <1>3, <1>4

\* f is what N rounds of F make of v.
Rounds(f, N, v, F) == f = [k \in 0 .. N |-> IF k = 0 THEN v ELSE F[k][f[k - 1]]]

LEMMA RoundsExist ==
  ASSUME NEW N \in Nat, NEW V, NEW v \in V, NEW F \in [1 .. N -> [V -> V]]
  PROVE  \E f \in [0 .. N -> V] : Rounds(f, N, v, F)
<1> DEFINE P == {n \in 0 .. N : \E f \in [0 .. n -> V] : Rounds(f, n, v, F)}
<1>1. 0 \in P
  <2>1. [k \in 0 .. 0 |-> v] \in [0 .. 0 -> V]
    OBVIOUS
  <2>2. Rounds([k \in 0 .. 0 |-> v], 0, v, F)
    BY DEF Rounds
  <2> QED BY <2>1, <2>2
<1>2. ASSUME NEW n \in 1 .. N, n - 1 \in P PROVE n \in P
  <2>1. PICK f \in [0 .. n - 1 -> V] : Rounds(f, n - 1, v, F)
    BY <1>2
  <2>2. PICK g : g = [k \in 0 .. n |-> IF k = n THEN F[n][f[n - 1]] ELSE f[k]]
    OBVIOUS
  <2>3. f[n - 1] \in V /\ F[n] \in [V -> V]
    BY <2>1
  <2>4. g \in [0 .. n -> V]
    BY <2>1, <2>2, <2>3
  <2>5. ASSUME NEW k \in 0 .. n PROVE g[k] = IF k = 0 THEN v ELSE F[k][g[k - 1]]
    <3>1. CASE k = n
      <4>1. g[n - 1] = f[n - 1] /\ g[n] = F[n][f[n - 1]]
        BY <2>2
      <4> QED BY <3>1, <4>1
    <3>2. CASE k # n
      <4>1. k \in 0 .. n - 1 /\ (k # 0 => k - 1 \in 0 .. n - 1)
        BY <3>2
      <4>2. f[k] = IF k = 0 THEN v ELSE F[k][f[k - 1]]
        BY <2>1, <4>1 DEF Rounds
      <4>3. g[k] = f[k] /\ (k # 0 => g[k - 1] = f[k - 1])
        BY <2>2, <4>1
      <4> QED BY <4>2, <4>3
    <3> QED BY <3>1, <3>2
  <2>6. g = [k \in 0 .. n |-> IF k = 0 THEN v ELSE F[k][g[k - 1]]]
    BY <2>4, <2>5
  <2>7. Rounds(g, n, v, F)
    BY <2>6 DEF Rounds
  <2> QED BY <2>4, <2>7
<1>3. N \in P
  <2> HIDE DEF P
  <2>1. \A k \in 0 .. N : k \in P
    BY <1>1, <1>2, UpTo
  <2> QED BY <2>1
<1> QED BY <1>3

----------------------------------------------------------------------------
(***************************************************************************)
(* What chains hold: each object of S once, in the bucket of its index,    *)
(* and nothing else.  Each of the operations on chains says what it makes  *)
(* of S.                                                                   *)
(***************************************************************************)
Chains(n) == [0 .. n - 1 -> Seq(Addrs)]

Holds(chains, n, S, idx) ==
  /\ chains \in Chains(n)
  /\ \A b \in 0 .. n - 1 : \A k \in 1 .. Len(chains[b]) :
       chains[b][k] \in S /\ BucketOf(idx[chains[b][k]], n) = b
  /\ \A b \in 0 .. n - 1 : \A j, k \in 1 .. Len(chains[b]) :
       chains[b][j] = chains[b][k] => j = k
  /\ \A a \in S : \E k \in 1 .. Len(chains[BucketOf(idx[a], n)]) :
       chains[BucketOf(idx[a], n)][k] = a

LEMMA BucketType ==
  ASSUME NEW n \in Nat \ {0}, NEW i \in Nat
  PROVE  BucketOf(i, n) \in 0 .. n - 1
BY DEF BucketOf

LEMMA EmptyHolds ==
  ASSUME NEW n \in Nat \ {0}, NEW idx
  PROVE  Holds(EmptyBuckets(n), n, {}, idx)
BY DEF Holds, EmptyBuckets, Chains

LEMMA InsertedType ==
  ASSUME NEW n \in Nat \ {0}, NEW chains \in Chains(n), NEW a \in Addrs, NEW idx, idx[a] \in Nat
  PROVE  Inserted(chains, n, a, idx) \in Chains(n)
BY BucketType DEF Inserted, Chains

LEMMA InsertedHolds ==
  ASSUME NEW n \in Nat \ {0}, NEW S \in SUBSET Addrs, NEW idx \in [Addrs -> Nat], NEW chains,
         Holds(chains, n, S, idx), NEW a \in Addrs \ S
  PROVE  Holds(Inserted(chains, n, a, idx), n, S \cup {a}, idx)
<1> DEFINE new == Inserted(chains, n, a, idx)
           h == BucketOf(idx[a], n)
<1>1. h \in 0 .. n - 1 /\ chains \in [0 .. n - 1 -> Seq(Addrs)]
  BY BucketType DEF Holds, Chains
<1>2. /\ new \in Chains(n)
      /\ \A b \in 0 .. n - 1 : b # h => new[b] = chains[b]
      /\ new[h] = <<a>> \o chains[h]
  <2>1. new = [chains EXCEPT ![h] = <<a>> \o @]
    BY DEF Inserted
  <2>2. new \in Chains(n)
    BY InsertedType DEF Holds
  <2> HIDE DEF new, h
  <2> QED BY <2>1, <2>2, <1>1
<1> HIDE DEF new, h
<1>3. /\ Len(new[h]) = Len(chains[h]) + 1 /\ new[h][1] = a /\ Len(chains[h]) \in Nat
      /\ \A k \in 2 .. Len(new[h]) : k - 1 \in 1 .. Len(chains[h]) /\ new[h][k] = chains[h][k - 1]
      /\ \A k \in 1 .. Len(chains[h]) : new[h][k + 1] = chains[h][k]
  <2> PICK u : u = new[h]
    OBVIOUS
  <2> PICK v : v = chains[h]
    OBVIOUS
  <2>1. v \in Seq(Addrs) /\ u = <<a>> \o v
    BY <1>1, <1>2
  <2>2. /\ Len(u) = Len(v) + 1 /\ u[1] = a /\ Len(v) \in Nat
        /\ \A k \in 2 .. Len(u) : k - 1 \in 1 .. Len(v) /\ u[k] = v[k - 1]
        /\ \A k \in 1 .. Len(v) : u[k + 1] = v[k]
    BY <2>1
  <2> QED BY <2>2
<1>4. ASSUME NEW b \in 0 .. n - 1, NEW k \in 1 .. Len(new[b])
      PROVE  new[b][k] \in S \cup {a} /\ BucketOf(idx[new[b][k]], n) = b
  <2>1. CASE b # h
    BY <2>1, <1>2 DEF Holds
  <2>2. CASE b = h /\ k = 1
    BY <2>2, <1>3 DEF h
  <2>3. CASE b = h /\ k # 1
    <3>1. k \in 2 .. Len(new[h])
      BY <2>3, <1>3
    <3>2. new[h][k] = chains[h][k - 1] /\ k - 1 \in 1 .. Len(chains[h])
      BY <3>1, <1>3
    <3>3. chains[h][k - 1] \in S /\ BucketOf(idx[chains[h][k - 1]], n) = h
      BY <3>2, <1>1 DEF Holds
    <3> QED BY <2>3, <3>2, <3>3
  <2> QED BY <2>1, <2>2, <2>3
<1>5. ASSUME NEW b \in 0 .. n - 1, NEW j \in 1 .. Len(new[b]), NEW k \in 1 .. Len(new[b]),
             new[b][j] = new[b][k]
      PROVE  j = k
  <2>1. CASE b # h
    BY <2>1, <1>2, <1>5 DEF Holds
  <2>2. CASE b = h
    <3>0. \A i \in 1 .. Len(chains[h]) : chains[h][i] \in S
      BY <1>1 DEF Holds
    <3>1. ASSUME NEW i \in 2 .. Len(new[h]) PROVE new[h][i] # a
      <4>1. i - 1 \in 1 .. Len(chains[h]) /\ new[h][i] = chains[h][i - 1]
        BY <1>3
      <4> QED BY <4>1, <3>0
    <3>2. \A i \in 1 .. Len(new[h]) : i # 1 => i \in 2 .. Len(new[h])
      BY <1>3
    <3>3. CASE j = 1 \/ k = 1
      BY <3>1, <3>2, <3>3, <2>2, <1>3, <1>5
    <3>4. CASE j # 1 /\ k # 1
      <4>1. j \in 2 .. Len(new[h]) /\ k \in 2 .. Len(new[h])
        BY <3>2, <3>4, <2>2
      <4>2. /\ j - 1 \in 1 .. Len(chains[h]) /\ k - 1 \in 1 .. Len(chains[h])
            /\ chains[h][j - 1] = chains[h][k - 1]
        BY <4>1, <1>3, <1>5, <2>2
      <4>3. j - 1 = k - 1
        BY <4>2, <1>1 DEF Holds
      <4> QED BY <4>1, <4>3
    <3> QED BY <3>3, <3>4
  <2> QED BY <2>1, <2>2
<1>6. ASSUME NEW c \in S \cup {a}
      PROVE  \E k \in 1 .. Len(new[BucketOf(idx[c], n)]) : new[BucketOf(idx[c], n)][k] = c
  <2> PICK b : b = BucketOf(idx[c], n)
    OBVIOUS
  <2>1. CASE c = a
    <3>1. b = h /\ 1 \in 1 .. Len(new[h])
      BY <2>1, <1>3 DEF h
    <3> QED BY <2>1, <3>1, <1>3
  <2>2. CASE c # a
    <3>1. PICK k \in 1 .. Len(chains[b]) : chains[b][k] = c
      BY <2>2 DEF Holds
    <3>2. b \in 0 .. n - 1
      BY BucketType
    <3>3. CASE b = h
      <4>1. k + 1 \in 1 .. Len(new[h]) /\ new[h][k + 1] = c
        BY <3>1, <3>3, <1>3
      <4> QED BY <4>1, <3>3
    <3>4. CASE b # h
      BY <3>1, <3>2, <3>4, <1>2
    <3> QED BY <3>3, <3>4
  <2> QED BY <2>1, <2>2
<1> QED
  BY <1>2, <1>4, <1>5, <1>6 DEF Holds, new

\* Moving a chain is as many insertions as it has objects.
LEMMA MovedRounds ==
  ASSUME NEW n \in Nat \ {0}, NEW chains \in Chains(n), NEW chain \in Seq(Addrs),
         index \in [Addrs -> Nat]
  PROVE  \E f \in [0 .. Len(chain) -> Chains(n)] :
           /\ f[0] = chains
           /\ \A k \in 1 .. Len(chain) : f[k] = Inserted(f[k - 1], n, chain[k], index)
           /\ Moved(chains, n, chain) = f[Len(chain)]
<1> DEFINE N == Len(chain)
           F == [k \in 1 .. N |-> [c \in Chains(n) |-> Inserted(c, n, chain[k], index)]]
           IsMoved(f) == f = [k \in 0 .. N |-> IF k = 0 THEN chains
                                               ELSE Inserted(f[k - 1], n, chain[k], index)]
<1>1. N \in Nat /\ \A k \in 1 .. N : chain[k] \in Addrs
  OBVIOUS
<1>2. \A k \in 1 .. N : \A c \in Chains(n) : Inserted(c, n, chain[k], index) \in Chains(n)
  BY <1>1, InsertedType
<1> HIDE DEF N
<1>3. F \in [1 .. N -> [Chains(n) -> Chains(n)]]
  BY <1>2
<1>4. ASSUME NEW f \in [0 .. N -> Chains(n)], Rounds(f, N, chains, F) PROVE IsMoved(f)
  <2>1. ASSUME NEW k \in 0 .. N
        PROVE  f[k] = IF k = 0 THEN chains ELSE Inserted(f[k - 1], n, chain[k], index)
    <3>1. f[k] = IF k = 0 THEN chains ELSE F[k][f[k - 1]]
      BY <1>4 DEF Rounds
    <3>2. k # 0 => k \in 1 .. N /\ f[k - 1] \in Chains(n)
      BY <1>1
    <3>3. k # 0 => F[k][f[k - 1]] = Inserted(f[k - 1], n, chain[k], index)
      BY <3>2
    <3> QED BY <3>1, <3>3
  <2> QED BY <2>1
<1>5. \E f : IsMoved(f)
  <2> HIDE DEF IsMoved, F
  <2> QED BY <1>1, <1>3, <1>4, RoundsExist
<1> DEFINE m == CHOOSE f : IsMoved(f)
<1>6. IsMoved(m)
  <2> HIDE DEF IsMoved
  <2> QED BY <1>5
<1>7. Moved(chains, n, chain) = m[N]
  BY DEF Moved, N
<1> HIDE DEF m
<1>8. /\ m[0] = chains
      /\ \A k \in 1 .. N : m[k] = Inserted(m[k - 1], n, chain[k], index)
  BY <1>1, <1>6
<1>9. \A k \in 0 .. N : m[k] \in Chains(n)
  <2> DEFINE P == {k \in 0 .. N : m[k] \in Chains(n)}
  <2>1. 0 \in P
    BY <1>1, <1>8
  <2>2. ASSUME NEW k \in 1 .. N, k - 1 \in P PROVE k \in P
    <3>1. Inserted(m[k - 1], n, chain[k], index) \in Chains(n)
      BY <1>2, <2>2
    <3> QED BY <3>1, <1>8
  <2>3. \A k \in 0 .. N : k \in P
    <3> HIDE DEF P
    <3> QED BY <1>1, <2>1, <2>2, UpTo
  <2> QED BY <2>3
<1>10. m \in [0 .. N -> Chains(n)]
  BY <1>6, <1>9
<1> QED
  BY <1>7, <1>8, <1>10 DEF N

\* A chain of objects that are not there yet is added.
LEMMA MovedHolds ==
  ASSUME NEW n \in Nat \ {0}, NEW S \in SUBSET Addrs, index \in [Addrs -> Nat], NEW chains,
         Holds(chains, n, S, index), NEW chain \in Seq(Addrs),
         \A k \in 1 .. Len(chain) : chain[k] \notin S,
         \A j, k \in 1 .. Len(chain) : chain[j] = chain[k] => j = k
  PROVE  Holds(Moved(chains, n, chain), n, S \cup {chain[k] : k \in 1 .. Len(chain)}, index)
<1> DEFINE N == Len(chain)
           T(k) == S \cup {chain[j] : j \in 1 .. k}
<1>1. chains \in Chains(n) /\ N \in Nat
  BY DEF Holds
<1>2. PICK f \in [0 .. N -> Chains(n)] :
        /\ f[0] = chains
        /\ \A k \in 1 .. N : f[k] = Inserted(f[k - 1], n, chain[k], index)
        /\ Moved(chains, n, chain) = f[N]
  BY <1>1, MovedRounds
<1> DEFINE P == {k \in 0 .. N : Holds(f[k], n, T(k), index)}
<1>3. 0 \in P
  <2>1. T(0) = S
    OBVIOUS
  <2> HIDE DEF T
  <2> QED BY <1>1, <1>2, <2>1
<1>4. ASSUME NEW k \in 1 .. N, k - 1 \in P PROVE k \in P
  <2>1. Holds(f[k - 1], n, T(k - 1), index)
    BY <1>4
  <2>2. T(k - 1) \in SUBSET Addrs /\ chain[k] \in Addrs
    BY <1>1
  <2>3. chain[k] \notin T(k - 1)
    <3>1. \A j \in 1 .. k - 1 : chain[j] # chain[k]
      BY <1>1
    <3> QED BY <3>1, <1>1
  <2>4. T(k) = T(k - 1) \cup {chain[k]}
    BY <1>1
  <2>5. Holds(Inserted(f[k - 1], n, chain[k], index), n, T(k - 1) \cup {chain[k]}, index)
    <3> HIDE DEF T
    <3> QED BY <2>1, <2>2, <2>3, InsertedHolds
  <2> HIDE DEF T
  <2>6. Holds(f[k], n, T(k), index) /\ k \in 0 .. N
    BY <1>1, <1>2, <2>4, <2>5
  <2> QED BY <2>6
<1>5. \A k \in 0 .. N : k \in P
  <2> HIDE DEF P, N
  <2> QED BY <1>1, <1>3, <1>4, UpTo
<1>6. Holds(f[N], n, T(N), index)
  <2>1. N \in 0 .. N
    BY <1>1
  <2> HIDE DEF T, N
  <2> QED BY <1>5, <2>1
<1> QED
  BY <1>2, <1>6

LEMMA MovedType ==
  ASSUME NEW n \in Nat \ {0}, NEW chains \in Chains(n), NEW chain \in Seq(Addrs),
         index \in [Addrs -> Nat]
  PROVE  Moved(chains, n, chain) \in Chains(n)
<1>1. PICK f \in [0 .. Len(chain) -> Chains(n)] : Moved(chains, n, chain) = f[Len(chain)]
  BY MovedRounds
<1>2. Len(chain) \in 0 .. Len(chain)
  OBVIOUS
<1> QED
  BY <1>1, <1>2

\* A rehash is as many moves as there are buckets.
LEMMA RehashedRounds ==
  ASSUME NEW n \in Nat \ {0}, index \in [Addrs -> Nat],
         bucketCount \in Nat, buckets \in Chains(bucketCount)
  PROVE  \E f \in [0 .. bucketCount -> Chains(n)] :
           /\ f[0] = EmptyBuckets(n)
           /\ \A b \in 1 .. bucketCount : f[b] = Moved(f[b - 1], n, buckets[b - 1])
           /\ Rehashed(n) = f[bucketCount]
<1> DEFINE N == bucketCount
           E == EmptyBuckets(n)
           F == [b \in 1 .. N |-> [c \in Chains(n) |-> Moved(c, n, buckets[b - 1])]]
           IsRehash(f) == f = [b \in 0 .. N |-> IF b = 0 THEN E
                                                ELSE Moved(f[b - 1], n, buckets[b - 1])]
<1>1. N \in Nat /\ (\A b \in 1 .. N : buckets[b - 1] \in Seq(Addrs)) /\ E \in Chains(n)
  BY EmptyHolds DEF Chains, Holds
<1>2. \A b \in 1 .. N : \A c \in Chains(n) : Moved(c, n, buckets[b - 1]) \in Chains(n)
  BY <1>1, MovedType
<1>3. F \in [1 .. N -> [Chains(n) -> Chains(n)]]
  BY <1>2
<1>4. ASSUME NEW f \in [0 .. N -> Chains(n)], Rounds(f, N, E, F) PROVE IsRehash(f)
  <2>1. ASSUME NEW b \in 0 .. N
        PROVE  f[b] = IF b = 0 THEN E ELSE Moved(f[b - 1], n, buckets[b - 1])
    <3>1. f[b] = IF b = 0 THEN E ELSE F[b][f[b - 1]]
      BY <1>4 DEF Rounds
    <3>2. b # 0 => b \in 1 .. N /\ f[b - 1] \in Chains(n)
      BY <1>1
    <3>3. b # 0 => F[b][f[b - 1]] = Moved(f[b - 1], n, buckets[b - 1])
      BY <3>2
    <3> QED BY <3>1, <3>3
  <2> QED BY <2>1
<1>5. \E f : IsRehash(f)
  <2> HIDE DEF IsRehash, F, E
  <2> QED BY <1>1, <1>3, <1>4, RoundsExist
<1> DEFINE m == CHOOSE f : IsRehash(f)
<1>6. IsRehash(m)
  <2> HIDE DEF IsRehash
  <2> QED BY <1>5
<1>7. Rehashed(n) = m[N]
  BY DEF Rehashed
<1> HIDE DEF m
<1>8. /\ m[0] = E
      /\ \A b \in 1 .. N : m[b] = Moved(m[b - 1], n, buckets[b - 1])
  BY <1>1, <1>6
<1>9. \A b \in 0 .. N : m[b] \in Chains(n)
  <2> DEFINE P == {b \in 0 .. N : m[b] \in Chains(n)}
  <2>1. 0 \in P
    BY <1>1, <1>8
  <2>2. ASSUME NEW b \in 1 .. N, b - 1 \in P PROVE b \in P
    <3>1. Moved(m[b - 1], n, buckets[b - 1]) \in Chains(n)
      BY <1>2, <2>2
    <3> QED BY <3>1, <1>8
  <2>3. \A b \in 0 .. N : b \in P
    <3> HIDE DEF P
    <3> QED BY <1>1, <2>1, <2>2, UpTo
  <2> QED BY <2>3
<1>10. m \in [0 .. N -> Chains(n)]
  BY <1>6, <1>9
<1> QED
  BY <1>7, <1>8, <1>10

\* The chains after a rehash hold what they held before.
LEMMA RehashedHolds ==
  ASSUME NEW n \in Nat \ {0}, index \in [Addrs -> Nat], table \in SUBSET Addrs,
         bucketCount \in Nat \ {0}, Holds(buckets, bucketCount, table, index)
  PROVE  Holds(Rehashed(n), n, table, index)
<1> DEFINE N == bucketCount
           T(b) == {a \in table : BucketOf(index[a], N) < b}
<1>1. buckets \in Chains(N)
  BY DEF Holds
<1>2. PICK f \in [0 .. N -> Chains(n)] :
        /\ f[0] = EmptyBuckets(n)
        /\ \A b \in 1 .. N : f[b] = Moved(f[b - 1], n, buckets[b - 1])
        /\ Rehashed(n) = f[N]
  BY <1>1, RehashedRounds
<1>3. \A a \in table : BucketOf(index[a], N) \in 0 .. N - 1
  BY BucketType
<1> DEFINE P == {b \in 0 .. N : Holds(f[b], n, T(b), index)}
<1>4. 0 \in P
  <2>1. T(0) = {}
    BY <1>3
  <2>2. Holds(f[0], n, T(0), index)
    <3> HIDE DEF T
    <3> QED BY <1>2, <2>1, EmptyHolds
  <2> QED BY <2>2
<1>5. ASSUME NEW b \in 1 .. N, b - 1 \in P PROVE b \in P
  <2> DEFINE chain == buckets[b - 1]
             C == {chain[k] : k \in 1 .. Len(chain)}
  <2>1. b - 1 \in 0 .. N - 1 /\ b \in 0 .. N /\ chain \in Seq(Addrs)
    BY <1>1 DEF Chains
  <2>2. \A k \in 1 .. Len(chain) : chain[k] \in table /\ BucketOf(index[chain[k]], N) = b - 1
    BY <2>1 DEF Holds
  <2>3. \A j, k \in 1 .. Len(chain) : chain[j] = chain[k] => j = k
    BY <2>1 DEF Holds
  <2>4. \A a \in table : BucketOf(index[a], N) = b - 1 => a \in C
    <3> SUFFICES ASSUME NEW a \in table, BucketOf(index[a], N) = b - 1 PROVE a \in C
      OBVIOUS
    <3>1. PICK k \in 1 .. Len(chain) : chain[k] = a
      BY DEF Holds
    <3> QED BY <3>1
  <2> HIDE DEF chain
  <2>5. \A k \in 1 .. Len(chain) : chain[k] \notin T(b - 1)
    BY <2>1, <2>2
  <2>6. T(b - 1) \cup C = T(b)
    <3>1. \A a \in T(b - 1) \cup C : a \in T(b)
      BY <2>2, <1>3
    <3>2. \A a \in T(b) : a \in T(b - 1) \cup C
      BY <2>4, <1>3
    <3> QED BY <3>1, <3>2
  <2>7. Holds(f[b - 1], n, T(b - 1), index) /\ T(b - 1) \in SUBSET Addrs
    BY <1>5
  <2>8. Holds(Moved(f[b - 1], n, chain), n, T(b - 1) \cup C, index)
    <3> HIDE DEF T
    <3> QED BY <2>1, <2>3, <2>5, <2>7, MovedHolds
  <2>9. Holds(f[b], n, T(b), index)
    <3> HIDE DEF T, C
    <3> QED BY <1>2, <2>6, <2>8 DEF chain
  <2> QED BY <2>1, <2>9
<1>6. \A b \in 0 .. N : b \in P
  <2> HIDE DEF P
  <2> QED BY <1>4, <1>5, UpTo
<1>7. Holds(f[N], n, T(N), index)
  <2>1. N \in 0 .. N
    OBVIOUS
  <2> HIDE DEF T
  <2> QED BY <1>6, <2>1
<1>8. T(N) = table
  BY <1>3
<1> QED
  BY <1>2, <1>7, <1>8

\* What the chains hold depends on the indices of what they hold only.
LEMMA HoldsIndex ==
  ASSUME NEW n \in Nat \ {0}, NEW S \in SUBSET Addrs, NEW idx, NEW jdx, NEW chains,
         Holds(chains, n, S, idx), \A a \in S : jdx[a] = idx[a]
  PROVE  Holds(chains, n, S, jdx)
<1>1. ASSUME NEW b \in 0 .. n - 1, NEW k \in 1 .. Len(chains[b])
      PROVE  chains[b][k] \in S /\ BucketOf(jdx[chains[b][k]], n) = b
  BY DEF Holds
<1>2. ASSUME NEW a \in S
      PROVE  \E k \in 1 .. Len(chains[BucketOf(jdx[a], n)]) : chains[BucketOf(jdx[a], n)][k] = a
  BY DEF Holds
<1> QED
  BY <1>1, <1>2 DEF Holds

\* RemoveFirst takes out the element at p, when no other is equal to it.
LEMMA RemoveFirstAt ==
  ASSUME NEW s \in Seq(Addrs), IsInjective(s), NEW p \in 1 .. Len(s)
  PROVE  LET r == RemoveFirst(s, s[p])
         IN  /\ r \in Seq(Addrs) /\ Len(r) = Len(s) - 1
             /\ \A k \in 1 .. p - 1 : r[k] = s[k]
             /\ \A k \in p .. Len(s) - 1 : r[k] = s[k + 1]
<1> DEFINE r == RemoveFirst(s, s[p])
<1> DEFINE I == {i \in 1 .. Len(s) : s[i] = s[p]}
<1>1. I = {p} /\ I # {}
  BY DEF IsInjective
<1>2. Min(I) = p
  BY <1>1 DEF Min
<1>3. SelectInSeq(s, LAMBDA v : v = s[p]) = p
  BY <1>1, <1>2 DEF SelectInSeq
<1>4. r = RemoveAt(s, p)
  BY <1>3 DEF RemoveFirst
<1> HIDE DEF r
<1>5. PICK u : u = SubSeq(s, 1, p - 1)
  OBVIOUS
<1>6. PICK v : v = SubSeq(s, p + 1, Len(s))
  OBVIOUS
<1>7. u \in Seq(Addrs) /\ Len(u) = p - 1 /\ \A k \in 1 .. p - 1 : u[k] = s[k]
  BY <1>5
<1>8. v \in Seq(Addrs) /\ Len(v) = Len(s) - p /\ \A k \in 1 .. Len(s) - p : v[k] = s[p + k]
  BY <1>6
<1>9. r = u \o v
  BY <1>4, <1>5, <1>6 DEF RemoveAt
<1>10. Len(s) \in Nat
  OBVIOUS
<1>11. r \in Seq(Addrs) /\ Len(r) = Len(s) - 1
  BY <1>7, <1>8, <1>9, <1>10
<1>12. \A k \in 1 .. p - 1 : r[k] = s[k]
  BY <1>7, <1>8, <1>9, <1>10
<1>13. ASSUME NEW k \in p .. Len(s) - 1 PROVE r[k] = s[k + 1]
  <2>1. k - (p - 1) \in 1 .. Len(s) - p /\ p + (k - (p - 1)) = k + 1
    BY <1>10
  <2> PICK j : j = k - (p - 1)
    OBVIOUS
  <2>2. \A l \in 1 .. Len(v) : r[Len(u) + l] = v[l]
    BY <1>7, <1>8, <1>9
  <2>3. j \in 1 .. Len(v) /\ Len(u) + j = k /\ p + j = k + 1
    BY <2>1, <1>7, <1>8, <1>10
  <2>4. r[k] = v[j]
    BY <2>2, <2>3
  <2> QED BY <2>1, <2>3, <2>4, <1>8
<1> QED
  BY <1>11, <1>12, <1>13 DEF r

\* Of the chains only the object's own changes, and of that only its link to it.
LEMMA RemovedHolds ==
  ASSUME NEW n \in Nat \ {0}, NEW S \in SUBSET Addrs, NEW idx \in [Addrs -> Nat], NEW chains,
         Holds(chains, n, S, idx), NEW a \in S
  PROVE  Holds([chains EXCEPT ![BucketOf(idx[a], n)] = RemoveFirst(@, a)], n, S \ {a}, idx)
<1> DEFINE h == BucketOf(idx[a], n)
           new == [chains EXCEPT ![h] = RemoveFirst(@, a)]
<1>1. h \in 0 .. n - 1 /\ chains \in [0 .. n - 1 -> Seq(Addrs)] /\ chains[h] \in Seq(Addrs)
  BY BucketType DEF Holds, Chains
<1>2. PICK p \in 1 .. Len(chains[h]) : chains[h][p] = a
  BY DEF Holds
<1>3. \A j, k \in 1 .. Len(chains[h]) : chains[h][j] = chains[h][k] => j = k
  BY <1>1 DEF Holds
<1>4. new[h] = RemoveFirst(chains[h], chains[h][p]) /\ \A b \in 0 .. n - 1 : b # h => new[b] = chains[b]
  BY <1>1, <1>2
<1>5. new = [b \in 0 .. n - 1 |-> new[b]]
  BY <1>1
<1> HIDE DEF h, new
<1>6. /\ new[h] \in Seq(Addrs) /\ Len(new[h]) = Len(chains[h]) - 1
      /\ \A k \in 1 .. p - 1 : new[h][k] = chains[h][k]
      /\ \A k \in p .. Len(chains[h]) - 1 : new[h][k] = chains[h][k + 1]
  <2>1. PICK q : q = chains[h]
    OBVIOUS
  <2>2. PICK r : r = new[h]
    OBVIOUS
  <2>3. q \in Seq(Addrs) /\ p \in 1 .. Len(q) /\ DOMAIN q = 1 .. Len(q)
    BY <2>1, <1>1
  <2>4. IsInjective(q)
    BY <2>1, <2>3, <1>3 DEF IsInjective
  <2>5. r = RemoveFirst(q, q[p])
    BY <2>1, <2>2, <1>4
  <2>6. /\ r \in Seq(Addrs) /\ Len(r) = Len(q) - 1
        /\ \A k \in 1 .. p - 1 : r[k] = q[k]
        /\ \A k \in p .. Len(q) - 1 : r[k] = q[k + 1]
    BY <2>3, <2>4, <2>5, RemoveFirstAt
  <2> QED BY <2>1, <2>2, <2>6
<1>7. new \in Chains(n)
  BY <1>1, <1>4, <1>5, <1>6 DEF Chains
\* old[k] is where the k-th object of the new chain was.
<1> DEFINE old == [k \in 1 .. Len(new[h]) |-> IF k < p THEN k ELSE k + 1]
<1>8. Len(chains[h]) \in Nat
  BY <1>1
<1>9. \A k \in 1 .. Len(new[h]) : /\ old[k] \in 1 .. Len(chains[h]) /\ old[k] # p
                                  /\ new[h][k] = chains[h][old[k]]
  <2> SUFFICES ASSUME NEW k \in 1 .. Len(new[h])
               PROVE  /\ old[k] \in 1 .. Len(chains[h]) /\ old[k] # p
                      /\ new[h][k] = chains[h][old[k]]
    OBVIOUS
  <2>1. CASE k < p
    <3>1. old[k] = k /\ k \in 1 .. p - 1
      BY <2>1
    <3>2. k \in 1 .. Len(chains[h]) /\ k # p
      BY <3>1, <1>8
    <3>3. new[h][k] = chains[h][k]
      BY <3>1, <1>6
    <3> QED BY <3>1, <3>2, <3>3
  <2>2. CASE ~(k < p)
    <3>1. old[k] = k + 1 /\ k \in p .. Len(chains[h]) - 1
      BY <2>2, <1>6, <1>8
    <3>2. k + 1 \in 1 .. Len(chains[h]) /\ k + 1 # p
      BY <3>1, <1>8
    <3> QED BY <3>1, <3>2, <1>6
  <2> QED BY <2>1, <2>2
<1>10. \A j, k \in 1 .. Len(new[h]) : old[j] = old[k] => j = k
  BY <1>6, <1>8
<1>11. \A k \in 1 .. Len(chains[h]) : k # p => \E j \in 1 .. Len(new[h]) : new[h][j] = chains[h][k]
  <2> SUFFICES ASSUME NEW k \in 1 .. Len(chains[h]), k # p
               PROVE  \E j \in 1 .. Len(new[h]) : new[h][j] = chains[h][k]
    OBVIOUS
  <2>1. CASE k < p
    BY <2>1, <1>6, <1>8
  <2>2. CASE k > p
    <3>1. k - 1 \in p .. Len(chains[h]) - 1 /\ k - 1 \in 1 .. Len(new[h]) /\ k - 1 + 1 = k
      BY <2>2, <1>6, <1>8
    <3>2. new[h][k - 1] = chains[h][k]
      BY <3>1, <1>6
    <3> QED BY <3>1, <3>2
  <2> QED BY <2>1, <2>2
<1> HIDE DEF old
<1>12. ASSUME NEW b \in 0 .. n - 1, NEW k \in 1 .. Len(new[b])
       PROVE  new[b][k] \in S \ {a} /\ BucketOf(idx[new[b][k]], n) = b
  <2>1. CASE b # h
    <3>1. new[b] = chains[b] /\ chains[b][k] \in S /\ BucketOf(idx[chains[b][k]], n) = b
      BY <2>1, <1>4 DEF Holds
    <3> QED BY <3>1, <2>1 DEF h
  <2>2. CASE b = h
    <3>1. /\ old[k] \in 1 .. Len(chains[h]) /\ old[k] # p /\ new[h][k] = chains[h][old[k]]
      BY <2>2, <1>9
    <3>2. chains[h][old[k]] \in S /\ BucketOf(idx[chains[h][old[k]]], n) = h
      BY <3>1, <1>1 DEF Holds
    <3>3. chains[h][old[k]] # a
      BY <3>1, <1>2, <1>3
    <3> QED BY <2>2, <3>1, <3>2, <3>3
  <2> QED BY <2>1, <2>2
<1>13. ASSUME NEW b \in 0 .. n - 1, NEW j \in 1 .. Len(new[b]), NEW k \in 1 .. Len(new[b]),
              new[b][j] = new[b][k]
       PROVE  j = k
  <2>1. CASE b # h
    BY <2>1, <1>4, <1>13 DEF Holds
  <2>2. CASE b = h
    <3>1. /\ old[j] \in 1 .. Len(chains[h]) /\ new[h][j] = chains[h][old[j]]
          /\ old[k] \in 1 .. Len(chains[h]) /\ new[h][k] = chains[h][old[k]]
      BY <2>2, <1>9
    <3>2. old[j] = old[k]
      BY <2>2, <3>1, <1>3, <1>13
    <3> QED BY <2>2, <3>2, <1>10
  <2> QED BY <2>1, <2>2
<1>14. ASSUME NEW c \in S \ {a}
       PROVE  \E k \in 1 .. Len(new[BucketOf(idx[c], n)]) : new[BucketOf(idx[c], n)][k] = c
  <2> PICK b : b = BucketOf(idx[c], n)
    OBVIOUS
  <2>1. PICK k \in 1 .. Len(chains[b]) : chains[b][k] = c
    BY DEF Holds
  <2>2. b \in 0 .. n - 1
    BY BucketType
  <2>3. CASE b = h
    <3>1. k # p
      BY <2>1, <2>3, <1>2
    <3>2. \E j \in 1 .. Len(new[h]) : new[h][j] = c
      BY <2>1, <2>3, <3>1, <1>11
    <3> QED BY <2>3, <3>2
  <2>4. CASE b # h
    BY <2>1, <2>2, <2>4, <1>4
  <2> QED BY <2>3, <2>4
<1> QED
  BY <1>7, <1>12, <1>13, <1>14 DEF Holds, new, h

----------------------------------------------------------------------------
(***************************************************************************)
(* The inductive invariant of the hash table.                              *)
(***************************************************************************)
BInv == /\ bucketCount \in Nat \ {0}
        /\ Holds(buckets, bucketCount, table, index)
        /\ IsFiniteSet(table) /\ size = Cardinality(table) /\ size <= bucketCount

LEMMA IndexType == IInv => index \in [Addrs -> Nat] /\ table \in SUBSET Addrs
BY BucketAssumption DEF IInv, TypeOK

LEMMA InitBInv == BucketInit => BInv
<1> SUFFICES ASSUME BucketInit PROVE BInv
  OBVIOUS
<1>1. bucketCount \in Nat \ {0} /\ table = {} /\ size = 0
  BY BucketAssumption DEF BucketInit, Init
<1>2. Holds(buckets, bucketCount, table, index)
  BY <1>1, EmptyHolds DEF BucketInit
<1> QED
  BY <1>1, <1>2, FS_EmptySet DEF BInv

LEMMA KeepBInv ==
  ASSUME BInv, KeepBuckets, UNCHANGED <<table, index>>
  PROVE  BInv'
BY DEF BInv, KeepBuckets

LEMMA InsertBInv ==
  ASSUME IInv, BInv, NEW t \in Threads, NEW i \in Indices, GetNew(t, i), Insert(file'[t])
  PROVE  BInv'
<1>1. PICK a \in Addrs \ live :
        /\ index' = [index EXCEPT ![a] = i]
        /\ table' = table \cup {a}
        /\ file' = [file EXCEPT ![t] = a]
  BY DEF GetNew
<1>2. a \notin table /\ file'[t] = a /\ a \in Addrs
  BY <1>1 DEF IInv, TypeOK, ChainedIsLive
<1>3. /\ index \in [Addrs -> Nat] /\ index' \in [Addrs -> Nat] /\ table \in SUBSET Addrs
      /\ \A b \in table : index'[b] = index[b]
  BY <1>1, <1>2, IndexType, BucketAssumption
<1>4. /\ bucketCount \in Nat \ {0} /\ Holds(buckets, bucketCount, table, index)
      /\ IsFiniteSet(table) /\ size = Cardinality(table) /\ size <= bucketCount
  BY DEF BInv
<1>5. size \in Nat
  BY <1>4, FS_CardinalityType
<1>6. IsFiniteSet(table') /\ Cardinality(table') = size + 1 /\ size' = size + 1
  BY <1>1, <1>2, <1>4, FS_AddElement DEF Insert
<1>7. CASE size + 1 > bucketCount
  <2> PICK n : n = 2 * bucketCount
    OBVIOUS
  <2>1. n \in Nat \ {0} /\ bucketCount' = n /\ buckets' = Inserted(Rehashed(n), n, a, index')
    BY <1>2, <1>4, <1>7 DEF Insert
  <2>2. Holds(Rehashed(n), n, table, index)
    BY <2>1, <1>3, <1>4, RehashedHolds
  <2>3. Holds(Rehashed(n), n, table, index')
    BY <2>1, <2>2, <1>3, HoldsIndex
  <2>4. Holds(buckets', n, table \cup {a}, index')
    BY <2>1, <2>3, <1>2, <1>3, InsertedHolds
  <2>5. size + 1 <= n
    BY <1>4, <1>5
  <2> QED
    BY <2>1, <2>4, <2>5, <1>1, <1>6 DEF BInv
<1>8. CASE ~(size + 1 > bucketCount)
  <2>1. bucketCount' = bucketCount /\ buckets' = Inserted(buckets, bucketCount, a, index')
    BY <1>2, <1>8 DEF Insert
  <2>2. Holds(buckets, bucketCount, table, index')
    BY <1>3, <1>4, HoldsIndex
  <2>3. Holds(buckets', bucketCount, table \cup {a}, index')
    BY <2>1, <2>2, <1>2, <1>3, <1>4, InsertedHolds
  <2>4. size + 1 <= bucketCount
    BY <1>4, <1>5, <1>8
  <2> QED
    BY <2>1, <2>3, <2>4, <1>1, <1>4, <1>6 DEF BInv
<1> QED
  BY <1>7, <1>8

LEMMA UnchainBInv ==
  ASSUME IInv, BInv, NEW t \in Threads, ReleaseRecheck(t), table' # table, Unchain(file[t])
  PROVE  BInv'
<1>1. PICK a : a = file[t]
  OBVIOUS
<1>2. a \in table /\ table' = table \ {a} /\ index' = index
  BY <1>1 DEF ReleaseRecheck
<1>3. index \in [Addrs -> Nat] /\ table \in SUBSET Addrs
  BY IndexType
<1>4. /\ bucketCount \in Nat \ {0} /\ Holds(buckets, bucketCount, table, index)
      /\ IsFiniteSet(table) /\ size = Cardinality(table) /\ size <= bucketCount
  BY DEF BInv
<1>5. /\ buckets' = [buckets EXCEPT ![BucketOf(index[a], bucketCount)] = RemoveFirst(@, a)]
      /\ size' = size - 1 /\ bucketCount' = bucketCount
  BY <1>1 DEF Unchain
<1>6. Holds(buckets', bucketCount, table \ {a}, index)
  BY <1>2, <1>3, <1>4, <1>5, RemovedHolds
<1>7. IsFiniteSet(table') /\ Cardinality(table') = size - 1 /\ size \in Nat
  BY <1>2, <1>4, FS_RemoveElement, FS_CardinalityType
<1>8. size - 1 <= bucketCount
  BY <1>4, <1>7
<1> QED
  BY <1>2, <1>4, <1>5, <1>6, <1>7, <1>8 DEF BInv

\* Every step of the hash table is one of OpenFileTable.
LEMMA BucketStep ==
  ASSUME [BucketNext]_bucketVars
  PROVE  [Next]_vars
BY DEF BucketNext, bucketVars, Next, Get

LEMMA NextBInv ==
  ASSUME IInv, BInv, [BucketNext]_bucketVars
  PROVE  BInv'
<1>1. ASSUME NEW t \in Threads, NEW i \in Indices, GetFound(t, i), KeepBuckets
      PROVE  BInv'
  BY <1>1, KeepBInv DEF GetFound
<1>2. ASSUME NEW t \in Threads, NEW i \in Indices, GetNew(t, i), Insert(file'[t])
      PROVE  BInv'
  BY <1>2, InsertBInv
<1>3. ASSUME NEW t \in Threads, ReleaseDec(t), KeepBuckets
      PROVE  BInv'
  BY <1>3, KeepBInv DEF ReleaseDec
<1>4. ASSUME NEW t \in Threads, ReleaseRecheck(t),
             IF table' = table THEN KeepBuckets ELSE Unchain(file[t])
      PROVE  BInv'
  <2>1. CASE table' = table
    BY <2>1, <1>4, KeepBInv DEF ReleaseRecheck
  <2>2. CASE table' # table
    BY <2>2, <1>4, UnchainBInv
  <2> QED BY <2>1, <2>2
<1>5. ASSUME NEW t \in Threads, Destroy(t), KeepBuckets
      PROVE  BInv'
  BY <1>5, KeepBInv DEF Destroy
<1>6. CASE UNCHANGED bucketVars
  BY <1>6, KeepBInv DEF bucketVars, vars, KeepBuckets
<1> QED
  BY <1>1, <1>2, <1>3, <1>4, <1>5, <1>6 DEF BucketNext

\* A walk along one chain finds what a search of the whole table would.
LEMMA FindIsFound ==
  ASSUME IInv, BInv, NEW i \in Indices
  PROVE  Find(i) = Found(i)
<1> DEFINE b == BucketOf(i, bucketCount)
           chain == buckets[b]
<1>1. b \in 0 .. bucketCount - 1
  BY BucketType, BucketAssumption DEF BInv
<1>2. chain \in Seq(Addrs) /\ DOMAIN chain = 1 .. Len(chain) /\ Len(chain) \in Nat
  BY <1>1 DEF BInv, Holds, Chains
<1>3. \A k \in 1 .. Len(chain) : chain[k] \in table
  BY <1>1 DEF BInv, Holds
<1>4. \A j, k \in 1 .. Len(chain) : chain[j] = chain[k] => j = k
  BY <1>1 DEF BInv, Holds
<1>5. \A a \in table : index[a] = i => \E k \in 1 .. Len(chain) : chain[k] = a
  BY DEF BInv, Holds
<1>6. Find(i) = {chain[k] : k \in {j \in DOMAIN chain :
                   index[chain[j]] = i /\ \A l \in 1 .. j - 1 : index[chain[l]] # i}}
  BY DEF Find
<1> HIDE DEF chain
<1>7. ASSUME NEW a \in Find(i) PROVE a \in Found(i)
  BY <1>2, <1>3, <1>6 DEF Found
<1>8. ASSUME NEW a \in Found(i) PROVE a \in Find(i)
  <2>1. a \in table /\ index[a] = i
    BY DEF Found
  <2>2. PICK k \in 1 .. Len(chain) : chain[k] = a
    BY <2>1, <1>5
  <2>3. ASSUME NEW l \in 1 .. k - 1 PROVE index[chain[l]] # i
    <3>1. l \in 1 .. Len(chain) /\ l # k
      BY <1>2
    <3>2. chain[l] \in table /\ chain[l] # a
      BY <3>1, <2>2, <1>3, <1>4
    <3> QED BY <3>2, <2>1 DEF IInv, OneObjectPerIndex
  <2>4. k \in DOMAIN chain
    BY <1>2
  <2> QED BY <2>1, <2>2, <2>3, <2>4, <1>6
<1> QED
  BY <1>7, <1>8

LEMMA ChainsAreTableHolds ==
  ASSUME IInv, BInv
  PROVE  ChainsAreTable
<1> DEFINE n == bucketCount
<1>1. /\ n \in Nat \ {0} /\ buckets \in [0 .. n - 1 -> Seq(Addrs)]
      /\ DOMAIN buckets = 0 .. n - 1
      /\ \A b \in 0 .. n - 1 : DOMAIN buckets[b] = 1 .. Len(buckets[b])
  BY DEF BInv, Holds, Chains
<1>2. \A b \in 0 .. n - 1 : \A k \in 1 .. Len(buckets[b]) :
        buckets[b][k] \in table /\ BucketOf(index[buckets[b][k]], n) = b
  BY DEF BInv, Holds
<1>3. \A b \in 0 .. n - 1 : IsInjective(buckets[b])
  BY <1>1 DEF BInv, Holds, IsInjective
<1>4. Chained = table
  <2>1. ASSUME NEW a \in Chained PROVE a \in table
    BY <1>1, <1>2 DEF Chained, ToSet
  <2>2. ASSUME NEW a \in table PROVE a \in Chained
    <3>1. PICK b : b = BucketOf(index[a], n)
      OBVIOUS
    <3>2. b \in 0 .. n - 1
      BY <3>1, <1>1, IndexType, BucketType
    <3>3. PICK k \in 1 .. Len(buckets[b]) : buckets[b][k] = a
      BY <3>1 DEF BInv, Holds
    <3>4. a \in ToSet(buckets[b])
      BY <3>2, <3>3, <1>1 DEF ToSet
    <3> QED BY <3>2, <3>4, <1>1 DEF Chained
  <2> QED BY <2>1, <2>2
<1>5. size = Cardinality(table) /\ size <= n
  BY DEF BInv
<1> QED
  BY <1>1, <1>2, <1>3, <1>4, <1>5, FindIsFound DEF ChainsAreTable

\* The hash table does what OpenFileTable does, so that all the theorems above hold of it.
THEOREM BucketsAreTable == BucketSpec => Spec
<1>1. BucketInit => Init
  BY DEF BucketInit
<1> QED
  BY <1>1, BucketStep, PTL DEF BucketSpec, Spec

\* oft_find finds the object of an index, if there is one, by a walk along one
\* chain: over all insertions, removals and rehashes the chains hold each object
\* of the table once, in the bucket of its index, and size counts them.
THEOREM ChainsHoldTheTable == BucketSpec => []ChainsAreTable
<1>1. BucketInit => BInv
  BY InitBInv
<1>2. IInv /\ BInv /\ [BucketNext]_bucketVars => BInv'
  BY NextBInv
<1>3. IInv /\ BInv => ChainsAreTable
  BY ChainsAreTableHolds
<1> QED
  BY <1>1, <1>2, <1>3, BucketsAreTable, Inductive, PTL DEF BucketSpec
=============================================================================
