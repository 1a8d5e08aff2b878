--------------------------- MODULE OpenFileTable ---------------------------
(***************************************************************************)
(* The reference-counted table of open files of a level (src/src/oft.c).   *)
(*                                                                         *)
(* bs_oft_get runs under the table's mutex from its first line to its      *)
(* last, so it is one action.  bs_oft_release does not: it decrements the  *)
(* count with an atomic operation and NO lock, then, when it saw zero,     *)
(* takes the mutex, reads the count again and removes the object, and at   *)
(* last frees it after the mutex was dropped.  Those are three actions,    *)
(* and other threads run between them.                                     *)
(*                                                                         *)
(* Memory is explicit: an object is an address, and malloc may hand out    *)
(* any free address again.  The hash buckets are abstracted to the set of  *)
(* the objects they chain.                                                 *)
(***************************************************************************)
EXTENDS Integers, FiniteSets

CONSTANTS Threads,        \* threads of the FUSE process
          Indices,        \* BFT indices
          Addrs,          \* addresses calloc may return for a bs_file_impl
          NoFile          \* the bs_file_t of a thread that holds none

ASSUME OftAssumption == /\ IsFiniteSet(Threads)
                        /\ NoFile \notin Addrs

VARIABLES live,           \* addresses that are allocated
          index,          \* file->index
          refcount,       \* file->refcount
          table,          \* objects chained in table->buckets
          pc,             \* where each thread is in get / release
          file            \* the bs_file_t each thread works with

vars == <<live, index, refcount, table, pc, file>>

TypeOK ==
  /\ live \subseteq Addrs
  /\ table \subseteq Addrs
  /\ index \in [Addrs -> Indices]
  /\ refcount \in [Addrs -> Int]
  /\ pc \in [Threads -> {"idle", "using", "recheck", "destroy"}]
  /\ file \in [Threads -> Addrs \cup {NoFile}]
  /\ \A t \in Threads : pc[t] # "idle" => file[t] \in Addrs

Init ==
  /\ live = {}
  /\ table = {}
  /\ index \in {[a \in Addrs |-> i] : i \in Indices}    \* never read before calloc
  /\ refcount = [a \in Addrs |-> 0]
  /\ pc = [t \in Threads |-> "idle"]
  /\ file = [t \in Threads |-> NoFile]

----------------------------------------------------------------------------
\* oft_find: the objects chained for an index.
Found(i) == {a \in table : index[a] = i}

\* Mutant of Return: the handle is dropped but the thread is still in release.
ReturnStuck(t) == file' = [file EXCEPT ![t] = NoFile] /\ UNCHANGED pc

\* Thread t is back from bs_oft_release.
Return(t) == /\ pc' = [pc EXCEPT ![t] = "idle"]
             /\ file' = [file EXCEPT ![t] = NoFile]

\* Mutant of GetFound: the increment is lost.
GetFoundUncounted(t, i) ==
  /\ pc[t] = "idle"
  /\ pc' = [pc EXCEPT ![t] = "using"]
  /\ \E a \in Found(i) : file' = [file EXCEPT ![t] = a]
  /\ UNCHANGED <<live, index, refcount, table>>

\* bs_oft_get finds an object: one more reference.
GetFound(t, i) ==
  /\ pc[t] = "idle"
  /\ \E a \in Found(i) :
       /\ refcount' = [refcount EXCEPT ![a] = @ + 1]
       /\ pc' = [pc EXCEPT ![t] = "using"]
       /\ file' = [file EXCEPT ![t] = a]
  /\ UNCHANGED <<live, index, table>>

\* Mutant of GetNew: the search was made before the mutex was taken.
GetNewUnchecked(t, i) ==
  /\ pc[t] = "idle"
  /\ \E a \in Addrs \ live :
       /\ live' = live \cup {a}
       /\ index' = [index EXCEPT ![a] = i]
       /\ refcount' = [refcount EXCEPT ![a] = 1]
       /\ table' = table \cup {a}
       /\ pc' = [pc EXCEPT ![t] = "using"]
       /\ file' = [file EXCEPT ![t] = a]

\* bs_oft_get finds none: create_open_file at any free address (its count is
\* 0), oft_insert, then the increment.
GetNew(t, i) ==
  /\ pc[t] = "idle"
  /\ Found(i) = {}
  /\ \E a \in Addrs \ live :
       /\ live' = live \cup {a}
       /\ index' = [index EXCEPT ![a] = i]
       /\ refcount' = [refcount EXCEPT ![a] = 1]
       /\ table' = table \cup {a}
       /\ pc' = [pc EXCEPT ![t] = "using"]
       /\ file' = [file EXCEPT ![t] = a]

Get(t, i) == GetFound(t, i) \/ GetNew(t, i)

\* Mutant of ReleaseDec: the last release forgets to remove.
ReleaseDecOnly(t) ==
  /\ pc[t] = "using"
  /\ refcount' = [refcount EXCEPT ![file[t]] = @ - 1]
  /\ Return(t)
  /\ UNCHANGED <<live, index, table>>

\* The first statement of bs_oft_release, outside the mutex.
ReleaseDec(t) ==
  /\ pc[t] = "using"
  /\ LET new == refcount[file[t]] - 1 IN
       /\ refcount' = [refcount EXCEPT ![file[t]] = new]
       /\ IF new # 0
            THEN Return(t)
            ELSE pc' = [pc EXCEPT ![t] = "recheck"] /\ UNCHANGED file
  /\ UNCHANGED <<live, index, table>>

\* What loading a->refcount can give: the count, or anything once a is freed.
Loaded(a) == IF a \in live THEN {refcount[a]} ELSE {0, 1}

\* Mutants of ReleaseRecheck: the count is not read again; the result of
\* oft_remove is ignored; an object that is not in use is kept.
RecheckDropped(t) ==
  /\ pc[t] = "recheck"
  /\ IF file[t] \in table
       THEN /\ table' = table \ {file[t]}
            /\ pc' = [pc EXCEPT ![t] = "destroy"]
            /\ UNCHANGED file
       ELSE Return(t) /\ UNCHANGED table
  /\ UNCHANGED <<live, index, refcount>>

RemoveUnchecked(t) ==
  /\ pc[t] = "recheck"
  /\ \E count \in Loaded(file[t]) :
       IF count = 0
         THEN /\ table' = table \ {file[t]}
              /\ pc' = [pc EXCEPT ![t] = "destroy"]
              /\ UNCHANGED file
         ELSE Return(t) /\ UNCHANGED table
  /\ UNCHANGED <<live, index, refcount>>

RecheckKeeps(t) ==
  /\ pc[t] = "recheck"
  /\ Return(t)
  /\ UNCHANGED <<live, index, refcount, table>>

\* The section of bs_oft_release under the mutex: recheck, then oft_remove,
\* which gives -EINVAL when the table does not chain the object.
ReleaseRecheck(t) ==
  /\ pc[t] = "recheck"
  /\ \E count \in Loaded(file[t]) :
       IF count = 0 /\ file[t] \in table
         THEN /\ table' = table \ {file[t]}
              /\ pc' = [pc EXCEPT ![t] = "destroy"]
              /\ UNCHANGED file
         ELSE Return(t) /\ UNCHANGED table
  /\ UNCHANGED <<live, index, refcount>>

\* destroy_open_file, after the mutex was released.
Destroy(t) ==
  /\ pc[t] = "destroy"
  /\ live' = live \ {file[t]}
  /\ Return(t)
  /\ UNCHANGED <<index, refcount, table>>

Next == \E t \in Threads :
          \/ \E i \in Indices : Get(t, i)
          \/ ReleaseDec(t)
          \/ ReleaseRecheck(t)
          \/ Destroy(t)

Spec == Init /\ [][Next]_vars

\* bs_oft_release never waits for another thread except for the mutex, which
\* every holder gives back: a thread that is inside it gets to run.
Fairness == \A t \in Threads : WF_vars(ReleaseRecheck(t) \/ Destroy(t))

----------------------------------------------------------------------------
Holders(a) == {t \in Threads : pc[t] = "using" /\ file[t] = a}

\* A handle that bs_oft_get gave out and nobody released is a live object
\* that the table still chains: no release of another handle, however it
\* interleaves, frees it or detaches it.
HandleSafe == \A t \in Threads :
                pc[t] = "using" => file[t] \in live /\ file[t] \in table

\* Two objects for one index would be two `lock`s for one file: the table
\* never chains two (oft_find stops at the first).
OneObjectPerIndex ==
  \A a, b \in table : index[a] = index[b] => a = b

\* The count of a chained object is the number of handles on it: the
\* unlocked decrement loses no update and counts none twice.
RefcountExact == \A a \in table : refcount[a] = Cardinality(Holders(a))

\* An allocated object is either chained or about to be freed by exactly one
\* thread: bs_oft_release neither leaks an object nor frees it twice.
FreedOnce ==
  \A a \in live :
    IF a \in table THEN \A t \in Threads : ~(pc[t] = "destroy" /\ file[t] = a)
    ELSE \E t \in Threads :
           /\ pc[t] = "destroy" /\ file[t] = a
           /\ \A u \in Threads : pc[u] = "destroy" /\ file[u] = a => u = t

\* An object with count zero still has a release on its way that will find it:
\* otherwise bs_oft_has would answer true for ever and the file could never be
\* unlinked.
ZeroIsPending ==
  \A a \in table : refcount[a] = 0 =>
    \E t \in Threads : pc[t] = "recheck" /\ file[t] = a

\* An object whose last handle is released leaves the table or is opened again.
ZeroRefReclaimed ==
  \A a \in Addrs : (a \in table /\ refcount[a] = 0)
                     ~> (a \notin table \/ refcount[a] > 0)

\* "Recheck refcount under lock (double-checked locking)" (oft.c:210): the
\* recheck reads a count of an object that exists.  The code does not give
\* this: see the run oft_recheck.
RecheckSafe == \A t \in Threads : pc[t] = "recheck" => file[t] \in live

----------------------------------------------------------------------------
\* The table implements OftSpec.
AbsPresent == {index[a] : a \in table}
RefsMap(tab, idx, cnt) ==
  [i \in Indices |-> IF \A a \in tab : idx[a] # i THEN 0
                     ELSE cnt[CHOOSE a \in tab : idx[a] = i]]
AbsRefs == RefsMap(table, index, refcount)
Oft == INSTANCE OftSpec WITH present <- AbsPresent, refs <- AbsRefs
ImplementsOft == Oft!Spec
=============================================================================
