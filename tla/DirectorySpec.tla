--------------------------- MODULE DirectorySpec ---------------------------
(***************************************************************************)
(* What the operations of a level promise to those who call bsfs.c         *)
(* (src/src/bsfs.h): names that lead to files, files that have a size, and *)
(* handles on them.  An operation on a path happens at one moment; one on  *)
(* a handle changes the size at one moment between its call and its        *)
(* return, or not at all.  Whoever writes a file has it alone meanwhile.   *)
(*                                                                         *)
(* There are no locks, no clusters and no table here, and nothing that an  *)
(* operation remembers but what it was asked.                              *)
(***************************************************************************)
EXTENDS Naturals

CONSTANTS Threads, Names,
          Indices,        \* the files there can be
          Sizes,          \* offsets and sizes
          None            \* no file

VARIABLES dir,            \* the file of each name
          size,           \* the size of each file
          open,           \* the file each thread has a handle of
          op              \* what each thread was asked to do with it

vars == <<dir, size, open, op>>

NoOp == [kind |-> "none", arg |-> 0]

Init == /\ dir = [n \in Names |-> None]
        /\ size = [i \in Indices |-> 0]
        /\ open = [t \in Threads |-> None]
        /\ op = [t \in Threads |-> NoOp]

Closed(i) == \A t \in Threads : open[t] # i

\* bsfs_mknod
Create(n) ==
  /\ dir[n] = None
  /\ \E i \in Indices \ {dir[m] : m \in Names} :
       /\ dir' = [dir EXCEPT ![n] = i]
       /\ size' = [size EXCEPT ![i] = 0]
  /\ UNCHANGED <<open, op>>

\* bsfs_unlink, of a file that nobody has open.
Remove(n) ==
  /\ dir[n] # None /\ Closed(dir[n])
  /\ dir' = [dir EXCEPT ![n] = None]
  /\ size' = [size EXCEPT ![dir[n]] = 0]
  /\ UNCHANGED <<open, op>>

\* bsfs_rename: two files swap their names, ...
Exchange(old, new) ==
  /\ dir[old] # None /\ dir[new] # None
  /\ dir' = [dir EXCEPT ![old] = dir[new], ![new] = dir[old]]
  /\ UNCHANGED <<size, open, op>>

\* ... or one gets a name that was free, ...
Move(old, new) ==
  /\ dir[old] # None /\ dir[new] = None
  /\ dir' = [dir EXCEPT ![old] = None, ![new] = dir[old]]
  /\ UNCHANGED <<size, open, op>>

\* ... or that of a file which nobody has open and which ends with it.
Replace(old, new) ==
  /\ old # new
  /\ dir[old] # None /\ dir[new] # None /\ Closed(dir[new])
  /\ dir' = [dir EXCEPT ![old] = None, ![new] = dir[old]]
  /\ size' = [size EXCEPT ![dir[new]] = 0]
  /\ UNCHANGED <<open, op>>

\* bsfs_open and bsfs_release
Open(t, n) ==
  /\ open[t] = None /\ dir[n] # None
  /\ open' = [open EXCEPT ![t] = dir[n]]
  /\ UNCHANGED <<dir, size, op>>

Close(t) ==
  /\ open[t] # None /\ op[t] = NoOp
  /\ open' = [open EXCEPT ![t] = None]
  /\ UNCHANGED <<dir, size, op>>

----------------------------------------------------------------------------
\* A call on a handle: it has the file alone, or shares it with readers.
Begin(t, kind, arg) ==
  /\ open[t] # None /\ op[t] = NoOp
  /\ \A u \in Threads : open[u] = open[t] /\ op[u] # NoOp => kind = "read" /\ op[u].kind = "read"
  /\ op' = [op EXCEPT ![t] = [kind |-> kind, arg |-> arg]]
  /\ UNCHANGED <<dir, size, open>>

\* A write or fallocate up to arg never makes a file shorter, whatever happened
\* since it began; ftruncate gives it the size asked for.
Resized(kind, arg, now) == IF kind # "ftruncate" /\ now > arg THEN now ELSE arg

\* bsfs_write, bsfs_fallocate or bsfs_ftruncate takes effect and returns.
Commit(t) ==
  /\ op[t] # NoOp /\ op[t].kind # "read"
  /\ size' = [size EXCEPT ![open[t]] = Resized(op[t].kind, op[t].arg, @)]
  /\ op' = [op EXCEPT ![t] = NoOp]
  /\ UNCHANGED <<dir, open>>

\* An operation returns that changes no size: a read, or one that failed.
Return(t) ==
  /\ op[t] # NoOp
  /\ op' = [op EXCEPT ![t] = NoOp]
  /\ UNCHANGED <<dir, size, open>>

Next == \E t \in Threads :
  \/ \E n \in Names : Create(n) \/ Remove(n) \/ Open(t, n)
  \/ \E old, new \in Names : Exchange(old, new) \/ Move(old, new) \/ Replace(old, new)
  \/ Close(t)
  \/ \E kind \in {"read", "write", "fallocate", "ftruncate"}, arg \in Sizes : Begin(t, kind, arg)
  \/ Commit(t) \/ Return(t)

Spec == Init /\ [][Next]_vars
=============================================================================
