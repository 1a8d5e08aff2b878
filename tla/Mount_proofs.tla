---------------------------- MODULE Mount_proofs ----------------------------
(***************************************************************************)
(* Proofs about a mounted disk, for any number of threads, levels and      *)
(* passwords, any contents of the key table, any number of changes and any *)
(* set of steps that may fail.                                             *)
(***************************************************************************)
EXTENDS Mount, FiniteSetTheorems, TLAPS

----------------------------------------------------------------------------
(***************************************************************************)
(* The inductive invariant, in three layers: who runs, which level is in   *)
(* which place, and how old the metadata is.                               *)
(***************************************************************************)
Getting(t) == pc[t] \in {"lookup", "bft", "bitmap"}
Holding(t) == pc[t] \in {"using", "flush"}
Ending(t) == pc[t] \in {"destroy", "closing"}

\* Only the holder of level_lock is inside bs_level_get; whoever unmounts is
\* alone, and nobody runs while nothing is mounted.
LockInv == \A t \in Threads : Getting(t) <=> levelLock = t
AloneInv == \A t, u \in Threads : Ending(t) /\ u # t => pc[u] = "idle"
MountInv == ~mounted => Idle
Control == TypeOK /\ LockInv /\ AloneInv /\ MountInv

\* While a level is being opened its place is free, no place has its password,
\* and the key is that of the password; a level in use is open.
Placed(t) ==
  /\ Getting(t) => /\ job[t].pass \in Passwords
                   /\ levels[job[t].at].pass = NoPass
                   /\ \A s \in Slots : levels[s].pass # job[t].pass
  /\ pc[t] \in {"bft", "bitmap"} => job[t].key \in Lookup(job[t].pass)
  /\ Holding(t) => levels[job[t].at].pass # NoPass
PlacedInv == \A t \in Threads : Placed(t)
OnePerPass == \A r, s \in Slots :
                levels[r].pass # NoPass /\ levels[r].pass = levels[s].pass => r = s
Places == PlacedInv /\ OnePerPass /\ RightLevel

\* The disk is never ahead of a level that is open, the BFT never ahead of the
\* bitmap, and the bitmap is on the disk before the BFT is written.
AgeInv == \A s \in Open :
            /\ levels[s].bft <= levels[s].bitmap
            /\ disk[levels[s].key].bitmap <= levels[s].bitmap
            /\ disk[levels[s].key].bft <= levels[s].bft
ReadInv == \A t \in Threads : pc[t] = "bitmap" => job[t].bft = disk[job[t].key].bft
FlushInv == \A t \in Threads : pc[t] = "flush" =>
              disk[levels[job[t].at].key].bitmap = levels[job[t].at].bitmap
CloseInv == \A t \in Threads : pc[t] = "closing" =>
              \A s \in Least(Open) : disk[levels[s].key].bitmap = levels[s].bitmap
Ages == AgeInv /\ ReadInv /\ FlushInv /\ CloseInv /\ BitmapFirst /\ FsyncDurable

----------------------------------------------------------------------------
LEMMA SlotsNat == Slots \subseteq Nat /\ 0 \in Slots /\ IsFiniteSet(Slots)
BY MountAssumption, FS_Interval DEF Slots

LEMMA LeastSubset == \A S : Least(S) \subseteq S /\ Greatest(S) \subseteq S
BY DEF Least, Greatest

LEMMA OpenSubset == Open \subseteq Slots /\ Free \subseteq Slots
BY DEF Open, Free

LEMMA LookupSlot == \A p : \A k \in Lookup(p) : k \in Slots /\ keytab[k] = p
BY LeastSubset DEF Lookup

LEMMA JobFields ==
  ASSUME NEW j \in Jobs
  PROVE  /\ j.pass \in Passwords \cup {NoPass}
         /\ j.at \in Slots /\ j.key \in Slots /\ j.bft \in Versions
         /\ \A p \in Passwords \cup {NoPass} : [j EXCEPT !.pass = p] \in Jobs
         /\ \A s \in Slots : [j EXCEPT !.at = s] \in Jobs
         /\ \A k \in Slots : [j EXCEPT !.key = k] \in Jobs
         /\ \A v \in Versions : [j EXCEPT !.bft = v] \in Jobs
BY DEF Jobs

LEMMA LevelFields ==
  ASSUME NEW l \in OpenLevels
  PROVE  /\ l.pass \in Passwords \cup {NoPass} /\ l.key \in Slots
         /\ l.bitmap \in Versions /\ l.bft \in Versions
         /\ \A v \in Versions : [l EXCEPT !.bitmap = v, !.bft = v] \in OpenLevels
BY DEF OpenLevels

LEMMA MetadataFields ==
  ASSUME NEW d \in Metadata
  PROVE  /\ d.bitmap \in Versions /\ d.bft \in Versions
         /\ \A v \in Versions : [d EXCEPT !.bitmap = v] \in Metadata
         /\ \A v \in Versions : [d EXCEPT !.bft = v] \in Metadata
BY DEF Metadata

LEMMA LevelVersions ==
  ASSUME TypeOK, NEW s \in Slots
  PROVE  /\ levels[s] \in OpenLevels /\ levels[s].key \in Slots
         /\ levels[s].bitmap \in Versions /\ levels[s].bft \in Versions
BY LevelFields DEF TypeOK

LEMMA JobSlots ==
  ASSUME TypeOK, NEW t \in Threads
  PROVE  /\ job[t] \in Jobs /\ job[t].at \in Slots /\ job[t].key \in Slots
         /\ job[t].bft \in Versions /\ job[t].pass \in Passwords \cup {NoPass}
BY JobFields DEF TypeOK

LEMMA DiskWrite ==
  ASSUME TypeOK, NEW k \in Slots, NEW v \in Versions
  PROVE  /\ [disk EXCEPT ![k].bitmap = v] \in [Slots -> Metadata]
         /\ [disk EXCEPT ![k].bft = v] \in [Slots -> Metadata]
<1>1. disk[k] \in Metadata
  BY DEF TypeOK
<1>2. [disk[k] EXCEPT !.bitmap = v] \in Metadata /\ [disk[k] EXCEPT !.bft = v] \in Metadata
  BY <1>1, MetadataFields
<1>3. /\ [disk EXCEPT ![k].bitmap = v] = [disk EXCEPT ![k] = [disk[k] EXCEPT !.bitmap = v]]
      /\ [disk EXCEPT ![k].bft = v] = [disk EXCEPT ![k] = [disk[k] EXCEPT !.bft = v]]
  BY DEF TypeOK
<1> QED
  BY <1>2, <1>3 DEF TypeOK

LEMMA Defaults ==
  /\ NoJob \in Jobs /\ Closed \in OpenLevels /\ Closed.pass = NoPass
  /\ \A s \in Slots : [NoJob EXCEPT !.at = s] \in Jobs
  /\ [bitmap |-> 0, bft |-> 0] \in Metadata /\ 0 \in Versions
BY MountAssumption, SlotsNat DEF NoJob, Jobs, Closed, OpenLevels, Metadata, Versions

LEMMA InitControl == Init => Control
<1> SUFFICES ASSUME Init PROVE Control
  OBVIOUS
<1>1. TypeOK
  BY Defaults DEF Init, TypeOK, PCs
<1>2. LockInv /\ AloneInv /\ MountInv
  BY MountAssumption DEF Init, LockInv, AloneInv, MountInv, Idle, Getting, Ending
<1> QED
  BY <1>1, <1>2 DEF Control

\* The type invariant, action by action.
LEMMA NextType == TypeOK /\ [Next]_vars => TypeOK'
<1> SUFFICES ASSUME TypeOK, [Next]_vars PROVE TypeOK'
  OBVIOUS
<1> USE Defaults
<1>1. ASSUME BsfsInit PROVE TypeOK'
  BY <1>1 DEF BsfsInit, TypeOK, meta
<1>2. ASSUME NEW k \in Slots, NEW p \in Passwords, KeytabStore(k, p) PROVE TypeOK'
  BY <1>2 DEF KeytabStore, TypeOK
<1>3. ASSUME Crash PROVE TypeOK'
  BY <1>3 DEF Crash, TypeOK, meta, PCs
<1>4. ASSUME NEW t \in Threads, NEW p \in Passwords, LevelGet(t, p) PROVE TypeOK'
  <2>1. job[t] \in Jobs
    BY JobSlots
  <2>2. CASE \E s \in Opened(p) : job' = [job EXCEPT ![t].at = s] /\ GoTo(t, "using")
                                  /\ UNCHANGED levelLock
    <3>1. job' \in [Threads -> Jobs]
      BY <2>1, <2>2, OpenSubset, JobFields DEF Opened, TypeOK
    <3> QED
      BY <3>1, <2>2, <1>4 DEF LevelGet, TypeOK, meta, GoTo, PCs
  <2>3. CASE /\ \E s \in Greatest(Free) : job' = [job EXCEPT ![t].pass = p, ![t].at = s]
             /\ levelLock' = t /\ GoTo(t, "lookup")
    <3>1. PICK s \in Greatest(Free) : job' = [job EXCEPT ![t].pass = p, ![t].at = s]
      BY <2>3
    <3>2. s \in Slots
      BY OpenSubset, LeastSubset
    <3>3. [[job[t] EXCEPT !.pass = p] EXCEPT !.at = s] \in Jobs
      BY <2>1, <3>2, JobFields
    <3>4. job' = [job EXCEPT ![t] = [[job[t] EXCEPT !.pass = p] EXCEPT !.at = s]]
      BY <3>1 DEF TypeOK
    <3>5. job' \in [Threads -> Jobs]
      BY <3>3, <3>4 DEF TypeOK
    <3> QED
      BY <3>5, <2>3, <1>4 DEF LevelGet, TypeOK, meta, GoTo, PCs
  <2> QED
    BY <2>2, <2>3, <1>4 DEF LevelGet
<1>5. ASSUME NEW t \in Threads, LevelOpen(t) PROVE TypeOK'
  <2>1. job' \in [Threads -> Jobs]
    BY <1>5, LookupSlot, JobFields DEF LevelOpen, TypeOK, Fail
  <2> QED
    BY <1>5, <2>1 DEF LevelOpen, TypeOK, GoTo, PCs, Fail, meta
<1>6. ASSUME NEW t \in Threads, ReadBft(t) PROVE TypeOK'
  <2>1. disk[job[t].key].bft \in Versions
    BY JobSlots, MetadataFields DEF TypeOK
  <2>2. job' \in [Threads -> Jobs]
    BY <1>6, <2>1, JobFields DEF ReadBft, TypeOK, Fail
  <2> QED
    BY <1>6, <2>2 DEF ReadBft, TypeOK, GoTo, PCs, Fail, meta
<1>7. ASSUME NEW t \in Threads, ReadBitmap(t) PROVE TypeOK'
  <2>1. /\ job[t].at \in Slots /\ job[t].key \in Slots /\ job[t].bft \in Versions
        /\ job[t].pass \in Passwords \cup {NoPass}
    BY JobSlots
  <2>2. disk[job[t].key].bitmap \in Versions
    BY <2>1, MetadataFields DEF TypeOK
  <2>3. [pass |-> job[t].pass, key |-> job[t].key,
         bitmap |-> disk[job[t].key].bitmap, bft |-> job[t].bft] \in OpenLevels
    BY <2>1, <2>2 DEF OpenLevels
  <2>4. levels' \in [Slots -> OpenLevels]
    BY <1>7, <2>3 DEF ReadBitmap, TypeOK
  <2>5. job' \in [Threads -> Jobs]
    BY <1>7, <2>1 DEF ReadBitmap, TypeOK, Fail
  <2> QED
    BY <1>7, <2>4, <2>5 DEF ReadBitmap, TypeOK, GoTo, PCs, Fail, meta
<1>8. ASSUME NEW t \in Threads, Change(t) PROVE TypeOK'
  <2> DEFINE s == job[t].at
             v == Newer(levels[s].bitmap, levels[s].bft) + 1
  <2>1. s \in Slots /\ levels[s] \in OpenLevels
    BY JobSlots, LevelVersions
  <2>2. v \in Versions
    <3>1. levels[s].bitmap \in Versions /\ levels[s].bft \in Versions
      BY <2>1, LevelVersions
    <3>2. v <= MaxVersion
      BY <1>8 DEF Change
    <3> QED
      BY <3>1, <3>2, MountAssumption DEF Newer, Versions
  <2>3. levels' = [levels EXCEPT ![s] = [levels[s] EXCEPT !.bitmap = v, !.bft = v]]
    BY <1>8, <2>1 DEF Change, TypeOK
  <2>4. levels' \in [Slots -> OpenLevels]
    BY <2>1, <2>2, <2>3, LevelFields DEF TypeOK
  <2> QED
    BY <2>4, <1>8 DEF Change, TypeOK, meta
<1>9. ASSUME NEW t \in Threads, Done(t) PROVE TypeOK'
  BY <1>9 DEF Done, TypeOK, GoTo, PCs, meta
<1>10. ASSUME NEW t \in Threads, FsyncBitmap(t) PROVE TypeOK'
  <2> DEFINE s == job[t].at
             k == levels[s].key
             v == levels[s].bitmap
  <2>1. s \in Slots /\ k \in Slots /\ v \in Versions
    BY JobSlots, LevelVersions
  <2>2. disk' = [disk EXCEPT ![k].bitmap = v] \/ disk' = disk
    BY <1>10 DEF FsyncBitmap, WriteBitmap
  <2>3. [disk EXCEPT ![k].bitmap = v] \in [Slots -> Metadata]
    BY <2>1, DiskWrite
  <2>4. disk' \in [Slots -> Metadata]
    BY <2>2, <2>3 DEF TypeOK
  <2> QED
    BY <1>10, <2>4 DEF FsyncBitmap, WriteBitmap, TypeOK, GoTo, PCs
<1>11. ASSUME NEW t \in Threads, FsyncBft(t) PROVE TypeOK'
  <2> DEFINE s == job[t].at
             k == levels[s].key
             v == levels[s].bft
  <2>1. s \in Slots /\ k \in Slots /\ v \in Versions
    BY JobSlots, LevelVersions
  <2>2. disk' = [disk EXCEPT ![k].bft = v] \/ disk' = disk
    BY <1>11 DEF FsyncBft
  <2>3. [disk EXCEPT ![k].bft = v] \in [Slots -> Metadata]
    BY <2>1, DiskWrite
  <2>4. disk' \in [Slots -> Metadata]
    BY <2>2, <2>3 DEF TypeOK
  <2>5. synced' \in [Slots -> Versions]
    BY <1>11, <2>1 DEF FsyncBft, TypeOK
  <2> QED
    BY <1>11, <2>4, <2>5 DEF FsyncBft, TypeOK, GoTo, PCs
<1>12. ASSUME NEW t \in Threads, Destroy(t) PROVE TypeOK'
  BY <1>12 DEF Destroy, TypeOK, GoTo, PCs, meta
<1>13. ASSUME NEW t \in Threads, DestroyBitmap(t) PROVE TypeOK'
  <2>1. PICK s \in Least(Open) :
          /\ disk' = [disk EXCEPT ![levels[s].key].bitmap = levels[s].bitmap] \/ disk' = disk
          /\ levels' = [levels EXCEPT ![s] = Closed] \/ levels' = levels
    BY <1>13 DEF DestroyBitmap
  <2>2. s \in Slots
    BY OpenSubset, LeastSubset
  <2>3. levels[s].key \in Slots /\ levels[s].bitmap \in Versions
    BY <2>2, LevelVersions
  <2>a. [disk EXCEPT ![levels[s].key].bitmap = levels[s].bitmap] \in [Slots -> Metadata]
    BY <2>3, DiskWrite
  <2>4. disk' \in [Slots -> Metadata]
    BY <2>1, <2>a DEF TypeOK
  <2>5. levels' \in [Slots -> OpenLevels]
    BY <2>1 DEF TypeOK
  <2> QED
    BY <1>13, <2>4, <2>5 DEF DestroyBitmap, TypeOK, GoTo, PCs
<1>14. ASSUME NEW t \in Threads, DestroyBft(t) PROVE TypeOK'
  <2>1. PICK s \in Least(Open) :
          /\ disk' = [disk EXCEPT ![levels[s].key].bft = levels[s].bft] \/ disk' = disk
          /\ levels' = [levels EXCEPT ![s] = Closed] \/ levels' = levels
    BY <1>14 DEF DestroyBft
  <2>2. s \in Slots
    BY OpenSubset, LeastSubset
  <2>3. levels[s].key \in Slots /\ levels[s].bft \in Versions
    BY <2>2, LevelVersions
  <2>a. [disk EXCEPT ![levels[s].key].bft = levels[s].bft] \in [Slots -> Metadata]
    BY <2>3, DiskWrite
  <2>4. disk' \in [Slots -> Metadata]
    BY <2>1, <2>a DEF TypeOK
  <2>5. levels' \in [Slots -> OpenLevels]
    BY <2>1 DEF TypeOK
  <2> QED
    BY <1>14, <2>4, <2>5 DEF DestroyBft, TypeOK, GoTo, PCs
<1>15. ASSUME NEW t \in Threads, DestroyEnd(t) PROVE TypeOK'
  BY <1>15 DEF DestroyEnd, TypeOK, GoTo, PCs, meta
<1>16. ASSUME UNCHANGED vars PROVE TypeOK'
  BY <1>16 DEF TypeOK, vars, meta
<1> QED
  BY <1>1, <1>2, <1>3, <1>4, <1>5, <1>6, <1>7, <1>8, <1>9, <1>10, <1>11, <1>12,
     <1>13, <1>14, <1>15, <1>16 DEF Next, Continue

\* Who runs, action by action.
LEMMA NextControl == Control /\ [Next]_vars => Control'
<1> SUFFICES ASSUME Control, [Next]_vars PROVE LockInv' /\ AloneInv' /\ MountInv'
  BY NextType DEF Control
<1> USE MountAssumption DEF Control
<1>1. ASSUME BsfsInit PROVE LockInv' /\ AloneInv' /\ MountInv'
  BY <1>1 DEF BsfsInit, TypeOK, LockInv, AloneInv, MountInv, Idle, Getting, Ending, GoTo, PCs, meta
<1>2. ASSUME NEW k \in Slots, NEW p \in Passwords, KeytabStore(k, p) PROVE LockInv' /\ AloneInv' /\ MountInv'
  BY <1>2 DEF KeytabStore, TypeOK, LockInv, AloneInv, MountInv, Idle, Getting, Ending, GoTo, PCs, meta
<1>3. ASSUME Crash PROVE LockInv' /\ AloneInv' /\ MountInv'
  BY <1>3 DEF Crash, TypeOK, LockInv, AloneInv, MountInv, Idle, Getting, Ending, GoTo, PCs, meta
<1>4. ASSUME NEW t \in Threads, NEW p \in Passwords, LevelGet(t, p) PROVE LockInv' /\ AloneInv' /\ MountInv'
  BY <1>4 DEF LevelGet, TypeOK, LockInv, AloneInv, MountInv, Idle, Getting, Ending, GoTo, PCs, meta
<1>5. ASSUME NEW t \in Threads, LevelOpen(t) PROVE LockInv' /\ AloneInv' /\ MountInv'
  BY <1>5 DEF LevelOpen, TypeOK, LockInv, AloneInv, MountInv, Idle, Getting, Ending, GoTo, PCs, meta, Fail
<1>6. ASSUME NEW t \in Threads, ReadBft(t) PROVE LockInv' /\ AloneInv' /\ MountInv'
  BY <1>6 DEF ReadBft, TypeOK, LockInv, AloneInv, MountInv, Idle, Getting, Ending, GoTo, PCs, meta, Fail
<1>7. ASSUME NEW t \in Threads, ReadBitmap(t) PROVE LockInv' /\ AloneInv' /\ MountInv'
  BY <1>7 DEF ReadBitmap, TypeOK, LockInv, AloneInv, MountInv, Idle, Getting, Ending, GoTo, PCs, meta, Fail
<1>8. ASSUME NEW t \in Threads, Change(t) PROVE LockInv' /\ AloneInv' /\ MountInv'
  BY <1>8 DEF Change, TypeOK, LockInv, AloneInv, MountInv, Idle, Getting, Ending, GoTo, PCs, meta
<1>9. ASSUME NEW t \in Threads, Done(t) PROVE LockInv' /\ AloneInv' /\ MountInv'
  BY <1>9 DEF Done, TypeOK, LockInv, AloneInv, MountInv, Idle, Getting, Ending, GoTo, PCs, meta
<1>10. ASSUME NEW t \in Threads, FsyncBitmap(t) PROVE LockInv' /\ AloneInv' /\ MountInv'
  BY <1>10 DEF FsyncBitmap, TypeOK, LockInv, AloneInv, MountInv, Idle, Getting, Ending, GoTo, PCs, meta, WriteBitmap
<1>11. ASSUME NEW t \in Threads, FsyncBft(t) PROVE LockInv' /\ AloneInv' /\ MountInv'
  BY <1>11 DEF FsyncBft, TypeOK, LockInv, AloneInv, MountInv, Idle, Getting, Ending, GoTo, PCs, meta
<1>12. ASSUME NEW t \in Threads, Destroy(t) PROVE LockInv' /\ AloneInv' /\ MountInv'
  BY <1>12 DEF Destroy, TypeOK, LockInv, AloneInv, MountInv, Idle, Getting, Ending, GoTo, PCs, meta
<1>13. ASSUME NEW t \in Threads, DestroyBitmap(t) PROVE LockInv' /\ AloneInv' /\ MountInv'
  BY <1>13 DEF DestroyBitmap, TypeOK, LockInv, AloneInv, MountInv, Idle, Getting, Ending, GoTo, PCs, meta
<1>14. ASSUME NEW t \in Threads, DestroyBft(t) PROVE LockInv' /\ AloneInv' /\ MountInv'
  BY <1>14 DEF DestroyBft, TypeOK, LockInv, AloneInv, MountInv, Idle, Getting, Ending, GoTo, PCs, meta
<1>15. ASSUME NEW t \in Threads, DestroyEnd(t) PROVE LockInv' /\ AloneInv' /\ MountInv'
  BY <1>15 DEF DestroyEnd, TypeOK, LockInv, AloneInv, MountInv, Idle, Getting, Ending, GoTo, PCs, meta
<1>16. ASSUME UNCHANGED vars PROVE LockInv' /\ AloneInv' /\ MountInv'
  BY <1>16 DEF vars, TypeOK, LockInv, AloneInv, MountInv, Idle, Getting, Ending, GoTo, PCs, meta
<1> QED
  BY <1>1, <1>2, <1>3, <1>4, <1>5, <1>6, <1>7, <1>8, <1>9, <1>10, <1>11, <1>12, <1>13, <1>14, <1>15, <1>16 DEF Next, Continue

\* The type invariant of the mounted disk.
THEOREM TypeCorrect == Spec => []TypeOK
<1>1. Init => TypeOK
  BY InitControl DEF Control
<1> QED
  BY <1>1, NextType, PTL DEF Spec
----------------------------------------------------------------------------
LEMMA InitPlaces == Init => Places
BY Defaults
DEF Init, Places, PlacedInv, Placed, Getting, Holding, OnePerPass, RightLevel, Open

\* A thread that goes on with what it had, or stops.
Quiet(u) ==
  \/ pc'[u] \in {"idle", "destroy", "closing"}
  \/ pc'[u] = pc[u] /\ job'[u] = job[u]
  \/ Holding(u) /\ pc'[u] \in {"using", "flush"} /\ job'[u] = job[u]

\* Steps that change no level and no key.
LEMMA PlacesKept ==
  ASSUME Places, levels' = levels, keytab' = keytab,
         \A u \in Threads : Quiet(u) \/ Placed(u)'
  PROVE  Places'
<1>1. PlacedInv'
  <2> SUFFICES ASSUME NEW u \in Threads, Quiet(u) PROVE Placed(u)'
    BY DEF PlacedInv
  <2>1. CASE pc'[u] \in {"idle", "destroy", "closing"}
    BY <2>1 DEF Placed, Getting, Holding
  <2>2. CASE pc'[u] = pc[u] /\ job'[u] = job[u]
    <3>1. Placed(u)
      BY DEF Places, PlacedInv
    <3> QED
      BY <2>2, <3>1 DEF Placed, Getting, Holding, Lookup
  <2>3. CASE Holding(u) /\ pc'[u] \in {"using", "flush"} /\ job'[u] = job[u]
    <3>1. levels[job[u].at].pass # NoPass
      BY <2>3 DEF Places, PlacedInv, Placed
    <3> QED
      BY <2>3, <3>1 DEF Placed, Getting, Holding
  <2> QED
    BY <2>1, <2>2, <2>3 DEF Quiet
<1>2. OnePerPass' /\ RightLevel'
  BY DEF Places, OnePerPass, RightLevel, Open
<1> QED
  BY <1>1, <1>2 DEF Places

LEMMA GetPlaces ==
  ASSUME Control, Places, NEW t \in Threads, NEW p \in Passwords, LevelGet(t, p)
  PROVE  Places'
<1>1. \A u \in Threads \ {t} : Quiet(u)
  BY DEF LevelGet, Quiet, GoTo, Control, TypeOK
<1>2. CASE \E s \in Opened(p) : job' = [job EXCEPT ![t].at = s] /\ GoTo(t, "using")
  <2>1. PICK s \in Opened(p) : job' = [job EXCEPT ![t].at = s] /\ GoTo(t, "using")
    BY <1>2
  <2>2. pc'[t] = "using" /\ job'[t].at = s /\ levels[s].pass # NoPass
    BY <2>1, JobSlots DEF GoTo, Control, TypeOK, Jobs, Opened, Open
  <2>3. Placed(t)'
    BY <2>2 DEF Placed, Getting, Holding, LevelGet
  <2> QED
    BY <1>1, <2>3, PlacesKept DEF LevelGet, meta
<1>3. CASE /\ Opened(p) = {} /\ GoTo(t, "lookup")
           /\ \E s \in Greatest(Free) : job' = [job EXCEPT ![t].pass = p, ![t].at = s]
  <2>1. PICK s \in Greatest(Free) : job' = [job EXCEPT ![t].pass = p, ![t].at = s]
    BY <1>3
  <2>2. s \in Slots /\ levels[s].pass = NoPass
    BY LeastSubset DEF Free, Open
  <2>3. pc'[t] = "lookup" /\ job'[t].pass = p /\ job'[t].at = s
    BY <1>3, <2>1, JobSlots DEF GoTo, Control, TypeOK, Jobs
  <2>4. \A r \in Slots : levels[r].pass # p
    BY <1>3, MountAssumption DEF Opened, Open
  <2>5. Placed(t)'
    BY <2>2, <2>3, <2>4 DEF Placed, Getting, Holding, LevelGet
  <2> QED
    BY <1>1, <2>5, PlacesKept DEF LevelGet, meta
<1> QED
  BY <1>2, <1>3 DEF LevelGet

LEMMA OpenPlaces ==
  ASSUME Control, Places, NEW t \in Threads, LevelOpen(t)
  PROVE  Places'
<1>1. \A u \in Threads \ {t} : Quiet(u)
  BY DEF LevelOpen, Fail, Quiet, GoTo, Control, TypeOK
<1>2. CASE Fail(t)
  <2>1. Quiet(t)
    BY <1>2 DEF Fail, GoTo, Quiet, Control, TypeOK
  <2> QED
    BY <1>1, <2>1, PlacesKept DEF LevelOpen, meta
<1>3. CASE \E k \in Lookup(job[t].pass) : job' = [job EXCEPT ![t].key = k] /\ GoTo(t, "bft")
  <2>1. PICK k \in Lookup(job[t].pass) : job' = [job EXCEPT ![t].key = k] /\ GoTo(t, "bft")
    BY <1>3
  <2>2. /\ pc'[t] = "bft" /\ job'[t].key = k
        /\ job'[t].pass = job[t].pass /\ job'[t].at = job[t].at
    BY <2>1, JobSlots DEF GoTo, Control, TypeOK, Jobs
  <2>3. Placed(t)'
    BY <2>2 DEF Placed, PlacedInv, Places, Getting, Holding, LevelOpen, meta, Lookup
  <2> QED
    BY <1>1, <2>3, PlacesKept DEF LevelOpen, meta
<1> QED
  BY <1>2, <1>3 DEF LevelOpen

LEMMA BftPlaces ==
  ASSUME Control, Places, NEW t \in Threads, ReadBft(t)
  PROVE  Places'
<1>1. \A u \in Threads \ {t} : Quiet(u)
  BY DEF ReadBft, Fail, Quiet, GoTo, Control, TypeOK
<1>2. CASE Fail(t)
  <2>1. Quiet(t)
    BY <1>2 DEF Fail, GoTo, Quiet, Control, TypeOK
  <2> QED
    BY <1>1, <2>1, PlacesKept DEF ReadBft, meta
<1>3. CASE job' = [job EXCEPT ![t].bft = disk[job[t].key].bft] /\ GoTo(t, "bitmap")
  <2>1. /\ pc'[t] = "bitmap" /\ job'[t].key = job[t].key
        /\ job'[t].pass = job[t].pass /\ job'[t].at = job[t].at
    BY <1>3, JobSlots DEF GoTo, Control, TypeOK, Jobs
  <2>2. Placed(t)'
    BY <2>1 DEF Placed, PlacedInv, Places, Getting, Holding, ReadBft, meta, Lookup
  <2> QED
    BY <1>1, <2>2, PlacesKept DEF ReadBft, meta
<1> QED
  BY <1>2, <1>3 DEF ReadBft

\* The place a level is put into was free, no other place has its password, and
\* no other thread is looking for one.
LEMMA BitmapPlaces ==
  ASSUME Control, Places, NEW t \in Threads, ReadBitmap(t)
  PROVE  Places'
<1>1. \A u \in Threads \ {t} : Quiet(u)
  BY DEF ReadBitmap, Fail, Quiet, GoTo, Control, TypeOK
<1>2. CASE Fail(t) /\ UNCHANGED levels
  <2>1. Quiet(t)
    BY <1>2 DEF Fail, GoTo, Quiet, Control, TypeOK
  <2> QED
    BY <1>1, <1>2, <2>1, PlacesKept DEF ReadBitmap, meta
<1>3. CASE UNCHANGED levels => ~Fail(t)
  <2> DEFINE a == job[t].at
             q == job[t].pass
  <2>1. /\ a \in Slots /\ levels[a].pass = NoPass /\ q \in Passwords
        /\ \A s \in Slots : levels[s].pass # q
        /\ job[t].key \in Lookup(q)
    BY JobSlots DEF Control, Places, PlacedInv, Placed, Getting, ReadBitmap
  <2>2. /\ \A s \in Slots \ {a} : levels'[s] = levels[s]
        /\ levels'[a].pass = q /\ levels'[a].key = job[t].key
        /\ pc'[t] = "using" /\ job'[t].at = a /\ keytab' = keytab
    BY <1>3, <2>1, Defaults DEF ReadBitmap, GoTo, Control, TypeOK, NoJob, meta
  <2>3. \A u \in Threads \ {t} : ~Getting(u) /\ pc'[u] = pc[u] /\ job'[u] = job[u]
    BY <1>3 DEF ReadBitmap, GoTo, Control, TypeOK, LockInv, Getting
  <2>4. \A u \in Threads \ {t} : Placed(u)'
    BY <2>1, <2>2, <2>3, JobSlots
    DEF Places, PlacedInv, Placed, Getting, Holding, Control
  <2>5. Placed(t)'
    BY <2>1, <2>2, MountAssumption DEF Placed, Getting, Holding
  <2>6. OnePerPass'
    BY <2>1, <2>2 DEF Places, OnePerPass
  <2>7. RightLevel'
    BY <2>1, <2>2 DEF Places, RightLevel, Open, Lookup, Least
  <2> QED
    BY <2>4, <2>5, <2>6, <2>7 DEF Places, PlacedInv
<1> QED
  BY <1>2, <1>3

\* Closing levels while nobody else runs.
LEMMA ClosePlaces ==
  ASSUME Control, Places, NEW t \in Threads, Ending(t),
         \A u \in Threads \ {t} : pc'[u] = pc[u],
         pc'[t] \in {"destroy", "closing"}, keytab' = keytab,
         NEW s \in Slots, levels' = levels \/ levels' = [levels EXCEPT ![s] = Closed]
  PROVE  Places'
<1>1. PlacedInv'
  BY DEF PlacedInv, Placed, Getting, Holding, Control, AloneInv, Ending
<1>2. \A r \in Slots : levels'[r] = levels[r] \/ levels'[r].pass = NoPass
  BY Defaults DEF Control, TypeOK
<1>3. OnePerPass' /\ RightLevel'
  BY <1>2 DEF Places, OnePerPass, RightLevel, Open
<1> QED
  BY <1>1, <1>3 DEF Places

LEMMA ChangePlaces ==
  ASSUME Control, Places, NEW t \in Threads, Change(t)
  PROVE  Places'
<1>1. \A s \in Slots : levels'[s].pass = levels[s].pass /\ levels'[s].key = levels[s].key
  BY LevelVersions DEF Change, Control, TypeOK, OpenLevels
<1>2. keytab' = keytab /\ pc' = pc /\ job' = job
  BY DEF Change, meta
<1>3. ASSUME NEW u \in Threads PROVE Placed(u)'
  <2>1. Placed(u) /\ job[u].at \in Slots
    BY JobSlots DEF Places, PlacedInv, Control
  <2> QED
    BY <1>1, <1>2, <2>1 DEF Placed, Getting, Holding, Lookup
<1>4. OnePerPass'
  BY <1>1 DEF Places, OnePerPass
<1>5. RightLevel'
  BY <1>1, <1>2 DEF Places, RightLevel, Open
<1> QED
  BY <1>3, <1>4, <1>5 DEF Places, PlacedInv

LEMMA NextPlaces == Control /\ Places /\ [Next]_vars => Places'
<1> SUFFICES ASSUME Control, Places, [Next]_vars PROVE Places'
  OBVIOUS
<1> USE DEF Control, TypeOK
<1>1. ASSUME BsfsInit \/ Crash PROVE Places'
  <2>1. /\ \A u \in Threads : pc'[u] = "idle"
        /\ \A s \in Slots : levels'[s].pass = NoPass
    BY <1>1, Defaults DEF BsfsInit, Crash, MountInv, Idle
  <2> QED
    BY <2>1 DEF Places, PlacedInv, Placed, Getting, Holding, OnePerPass, RightLevel, Open
<1>2. ASSUME NEW k \in Slots, NEW p \in Passwords, KeytabStore(k, p) PROVE Places'
  BY <1>2 DEF KeytabStore, Idle, Places, PlacedInv, Placed, Getting, Holding,
              OnePerPass, RightLevel, Open
<1>3. ASSUME NEW t \in Threads, Done(t) PROVE Places'
  <2>1. \A u \in Threads : Quiet(u)
    BY <1>3 DEF Done, GoTo, Quiet
  <2> QED
    BY <1>3, <2>1, PlacesKept DEF Done, meta
<1>4. ASSUME NEW t \in Threads, FsyncBitmap(t) \/ FsyncBft(t) PROVE Places'
  <2>1. \A u \in Threads : Quiet(u)
    BY <1>4 DEF FsyncBitmap, FsyncBft, WriteBitmap, GoTo, Quiet, Holding
  <2> QED
    BY <1>4, <2>1, PlacesKept DEF FsyncBitmap, FsyncBft
<1>5. ASSUME NEW t \in Threads, Destroy(t) \/ DestroyEnd(t) PROVE Places'
  <2>1. \A u \in Threads : Quiet(u)
    BY <1>5 DEF Destroy, DestroyEnd, GoTo, Quiet
  <2> QED
    BY <1>5, <2>1, PlacesKept DEF Destroy, DestroyEnd, meta
<1>6. ASSUME NEW t \in Threads, DestroyBitmap(t) PROVE Places'
  <2>1. PICK s \in Least(Open) : levels' = levels \/ levels' = [levels EXCEPT ![s] = Closed]
    BY <1>6 DEF DestroyBitmap
  <2>2. s \in Slots
    BY OpenSubset, LeastSubset
  <2>3. /\ Ending(t) /\ pc'[t] \in {"destroy", "closing"} /\ keytab' = keytab
        /\ \A u \in Threads \ {t} : pc'[u] = pc[u]
    BY <1>6 DEF DestroyBitmap, GoTo, Ending
  <2> QED
    BY <2>1, <2>2, <2>3, ClosePlaces
<1>7. ASSUME NEW t \in Threads, DestroyBft(t) PROVE Places'
  <2>1. PICK s \in Least(Open) : levels' = [levels EXCEPT ![s] = Closed]
    BY <1>7 DEF DestroyBft
  <2>2. s \in Slots
    BY OpenSubset, LeastSubset
  <2>3. /\ Ending(t) /\ pc'[t] \in {"destroy", "closing"} /\ keytab' = keytab
        /\ \A u \in Threads \ {t} : pc'[u] = pc[u]
    BY <1>7 DEF DestroyBft, GoTo, Ending
  <2> QED
    BY <2>1, <2>2, <2>3, ClosePlaces
<1>8. ASSUME UNCHANGED vars PROVE Places'
  <2>1. \A u \in Threads : Quiet(u)
    BY <1>8 DEF vars, Quiet
  <2> QED
    BY <1>8, <2>1, PlacesKept DEF vars, meta
<1> QED
  BY <1>1, <1>2, <1>3, <1>4, <1>5, <1>6, <1>7, <1>8, GetPlaces, OpenPlaces, BftPlaces,
     BitmapPlaces, ChangePlaces DEF Next, Continue

----------------------------------------------------------------------------
\* Two open levels have different keys, and a level that is being opened has the
\* key of none.
LEMMA KeysApart ==
  ASSUME Control, Places
  PROVE  /\ OneLevelPerKey
         /\ \A t \in Threads : pc[t] = "bitmap" =>
              \A s \in Open : levels[s].key # job[t].key
<1>1. OneLevelPerKey
  BY DEF OneLevelPerKey, Places, RightLevel, OnePerPass, Open
<1>2. ASSUME NEW t \in Threads, pc[t] = "bitmap", NEW s \in Open,
             levels[s].key = job[t].key
      PROVE  FALSE
  <2>1. job[t].key \in Lookup(job[t].pass) /\ levels[s].pass # job[t].pass
    BY <1>2 DEF Places, PlacedInv, Placed, Getting, Open
  <2> QED
    BY <1>2, <2>1, LookupSlot DEF Places, RightLevel
<1> QED
  BY <1>1, <1>2

LEMMA OpenVersions ==
  ASSUME TypeOK, NEW s \in Slots
  PROVE  /\ levels[s].bitmap \in Nat /\ levels[s].bft \in Nat
         /\ disk[s].bitmap \in Nat /\ disk[s].bft \in Nat /\ synced[s] \in Nat
         /\ levels[s].key \in Slots
BY LevelVersions, MetadataFields, MountAssumption DEF TypeOK, Versions

LEMMA InitAges == Init => Ages
<1> SUFFICES ASSUME Init PROVE Ages
  OBVIOUS
<1>1. Open = {}
  BY Defaults DEF Init, Open
<1>2. AgeInv /\ ReadInv /\ FlushInv /\ CloseInv
  BY <1>1 DEF Init, AgeInv, ReadInv, FlushInv, CloseInv
<1>3. BitmapFirst /\ FsyncDurable
  BY DEF Init, BitmapFirst, FsyncDurable
<1> QED
  BY <1>2, <1>3 DEF Ages

\* Steps that write nothing; a thread may have read the BFT.
LEMMA AgesKept ==
  ASSUME Ages, levels' = levels, disk' = disk, synced' = synced,
         \A u \in Threads :
           pc'[u] \in {"bitmap", "flush", "closing"} =>
             \/ pc'[u] = pc[u] /\ job'[u] = job[u]
             \/ pc'[u] = "bitmap" /\ job'[u].bft = disk[job'[u].key].bft
  PROVE  Ages'
<1>1. AgeInv' /\ BitmapFirst' /\ FsyncDurable'
  BY DEF Ages, AgeInv, BitmapFirst, FsyncDurable, Open
<1>2. ReadInv' /\ FlushInv'
  BY DEF Ages, ReadInv, FlushInv
<1>3. CloseInv'
  BY DEF Ages, CloseInv, Open
<1> QED
  BY <1>1, <1>2, <1>3 DEF Ages

\* The disk after one part of an open level's metadata was written: not ahead of
\* any open level, not older than before.
Written(d) ==
  /\ \A r \in Open : /\ d[levels[r].key].bitmap <= levels[r].bitmap
                     /\ d[levels[r].key].bft <= levels[r].bft
  /\ \A k \in Slots : /\ d[k].bft <= d[k].bitmap
                      /\ disk[k].bitmap <= d[k].bitmap /\ disk[k].bft <= d[k].bft

LEMMA BitmapWritten ==
  ASSUME Control, Places, Ages, NEW s \in Open,
         disk' = [disk EXCEPT ![levels[s].key].bitmap = levels[s].bitmap]
  PROVE  /\ Written(disk')
         /\ disk'[levels[s].key].bitmap = levels[s].bitmap
         /\ \A k \in Slots : disk'[k].bft = disk[k].bft
         /\ \A r \in Open \ {s} : disk'[levels[r].key] = disk[levels[r].key]
<1> DEFINE k0 == levels[s].key
<1>1. TypeOK /\ OneLevelPerKey /\ AgeInv /\ BitmapFirst
  BY KeysApart DEF Control, Ages
<1>2. s \in Slots /\ k0 \in Slots /\ Open \subseteq Slots
  BY <1>1, OpenSubset, OpenVersions
<1>3. /\ \A k \in Slots \ {k0} : disk'[k] = disk[k]
      /\ disk'[k0].bitmap = levels[s].bitmap /\ disk'[k0].bft = disk[k0].bft
  BY <1>1, <1>2 DEF TypeOK, Metadata
<1>4. \A r \in Open \ {s} : levels[r].key \in Slots \ {k0}
  BY <1>1, <1>2, OpenVersions DEF OneLevelPerKey
<1>5. \A r \in Open : /\ disk'[levels[r].key].bitmap <= levels[r].bitmap
                      /\ disk'[levels[r].key].bft <= levels[r].bft
  BY <1>1, <1>2, <1>3, <1>4, OpenVersions DEF AgeInv
<1>6. \A k \in Slots : /\ disk'[k].bft <= disk'[k].bitmap
                       /\ disk[k].bitmap <= disk'[k].bitmap /\ disk[k].bft <= disk'[k].bft
  BY <1>1, <1>2, <1>3, OpenVersions DEF AgeInv, BitmapFirst
<1> QED
  BY <1>3, <1>4, <1>5, <1>6 DEF Written

LEMMA BftWritten ==
  ASSUME Control, Places, Ages, NEW s \in Open,
         disk[levels[s].key].bitmap = levels[s].bitmap,
         disk' = [disk EXCEPT ![levels[s].key].bft = levels[s].bft]
  PROVE  /\ Written(disk')
         /\ disk'[levels[s].key].bft = levels[s].bft
         /\ \A k \in Slots : disk'[k].bitmap = disk[k].bitmap
         /\ \A k \in Slots \ {levels[s].key} : disk'[k] = disk[k]
<1> DEFINE k0 == levels[s].key
<1>1. TypeOK /\ OneLevelPerKey /\ AgeInv /\ BitmapFirst
  BY KeysApart DEF Control, Ages
<1>2. s \in Slots /\ k0 \in Slots /\ Open \subseteq Slots
  BY <1>1, OpenSubset, OpenVersions
<1>3. /\ \A k \in Slots \ {k0} : disk'[k] = disk[k]
      /\ disk'[k0].bft = levels[s].bft /\ disk'[k0].bitmap = disk[k0].bitmap
  BY <1>1, <1>2 DEF TypeOK, Metadata
<1>4. \A r \in Open \ {s} : levels[r].key \in Slots \ {k0}
  BY <1>1, <1>2, OpenVersions DEF OneLevelPerKey
<1>5. \A r \in Open : /\ disk'[levels[r].key].bitmap <= levels[r].bitmap
                      /\ disk'[levels[r].key].bft <= levels[r].bft
  BY <1>1, <1>2, <1>3, <1>4, OpenVersions DEF AgeInv
<1>6. \A k \in Slots : /\ disk'[k].bft <= disk'[k].bitmap
                       /\ disk[k].bitmap <= disk'[k].bitmap /\ disk[k].bft <= disk'[k].bft
  BY <1>1, <1>2, <1>3, OpenVersions DEF AgeInv, BitmapFirst
<1> QED
  BY <1>3, <1>5, <1>6 DEF Written

\* What follows for a disk that only got newer.
LEMMA WrittenAges ==
  ASSUME Control, Ages, Written(disk'), disk' \in [Slots -> Metadata],
         \A s \in Slots : levels'[s] = levels[s] \/ levels'[s].pass = NoPass,
         synced' = synced
  PROVE  AgeInv' /\ BitmapFirst' /\ FsyncDurable'
<1>1. AgeInv' /\ BitmapFirst'
  BY DEF Written, Ages, AgeInv, BitmapFirst, Open
<1>2. ASSUME NEW k \in Slots
      PROVE  synced[k] <= disk'[k].bitmap /\ synced[k] <= disk'[k].bft
  <2>1. disk'[k].bitmap \in Nat /\ disk'[k].bft \in Nat
    BY MetadataFields, MountAssumption DEF Versions
  <2> QED
    BY <2>1, OpenVersions DEF Written, Ages, FsyncDurable, Control
<1> QED
  BY <1>1, <1>2 DEF FsyncDurable

LEMMA BitmapAges ==
  ASSUME Control, Places, Ages, NEW t \in Threads, ReadBitmap(t)
  PROVE  Ages'
<1>1. CASE Fail(t) /\ UNCHANGED levels
  BY <1>1, AgesKept DEF ReadBitmap, Fail, GoTo, Control, TypeOK, meta
<1>2. CASE ~(Fail(t) /\ UNCHANGED levels)
  <2> DEFINE a == job[t].at
             k == job[t].key
  <2>1. /\ a \in Slots /\ k \in Slots /\ levels[a].pass = NoPass /\ pc[t] = "bitmap"
        /\ job[t].bft = disk[k].bft /\ disk' = disk /\ synced' = synced
    BY JobSlots
    DEF Control, Places, PlacedInv, Placed, Getting, ReadBitmap, Ages, ReadInv, meta
  <2>2. /\ \A s \in Slots \ {a} : levels'[s] = levels[s]
        /\ levels'[a].key = k /\ levels'[a].bitmap = disk[k].bitmap
        /\ levels'[a].bft = disk[k].bft
        /\ pc'[t] = "using"
        /\ \A u \in Threads \ {t} : pc'[u] = pc[u] /\ job'[u] = job[u]
    BY <1>2, <2>1 DEF ReadBitmap, GoTo, Control, TypeOK
  <2>3. \A u \in Threads \ {t} : pc[u] # "bitmap" /\ pc[u] # "closing"
    BY <2>1 DEF Control, LockInv, AloneInv, Getting, Ending
  <2>4. AgeInv'
    BY <2>1, <2>2, OpenVersions DEF Ages, AgeInv, BitmapFirst, Open, Control
  <2>5. ReadInv' /\ CloseInv'
    BY <2>2, <2>3 DEF ReadInv, CloseInv
  <2>6. FlushInv'
    <3> SUFFICES ASSUME NEW u \in Threads, pc'[u] = "flush"
                 PROVE  (disk[levels[job[u].at].key].bitmap = levels[job[u].at].bitmap)'
      BY DEF FlushInv
    <3>1. u # t /\ pc[u] = "flush" /\ job'[u] = job[u]
      BY <2>2
    <3>2. job[u].at \in Slots /\ job[u].at # a
      BY <2>1, <3>1, JobSlots DEF Places, PlacedInv, Placed, Holding, Control
    <3> QED
      BY <2>1, <2>2, <3>1, <3>2 DEF Ages, FlushInv
  <2>7. BitmapFirst' /\ FsyncDurable'
    BY <2>1 DEF Ages, BitmapFirst, FsyncDurable
  <2> QED
    BY <2>4, <2>5, <2>6, <2>7 DEF Ages
<1> QED
  BY <1>1, <1>2

LEMMA ChangeAges ==
  ASSUME Control, Places, Ages, NEW t \in Threads, Change(t)
  PROVE  Ages'
<1> DEFINE a == job[t].at
           v == Newer(levels[a].bitmap, levels[a].bft) + 1
<1>1. /\ a \in Slots /\ pc[t] = "using" /\ disk' = disk /\ synced' = synced
      /\ pc' = pc /\ job' = job /\ levels[a].pass # NoPass
      /\ \A u \in Threads : pc[u] = "flush" => job[u].at # a
  BY JobSlots DEF Change, meta, Control, Places, PlacedInv, Placed, Holding
<1>2. /\ \A s \in Slots \ {a} : levels'[s] = levels[s]
      /\ levels'[a].bitmap = v /\ levels'[a].bft = v
      /\ levels'[a].key = levels[a].key /\ levels'[a].pass = levels[a].pass
  BY <1>1 DEF Change, Control, TypeOK, OpenLevels
<1>3. v \in Nat /\ levels[a].bitmap <= v /\ levels[a].bft <= v
  BY <1>1, OpenVersions DEF Newer, Control
<1> HIDE DEF v
<1>4. AgeInv'
  <2> SUFFICES ASSUME NEW s \in Slots, levels'[s].pass # NoPass
               PROVE  /\ levels'[s].bft <= levels'[s].bitmap
                      /\ disk[levels'[s].key].bitmap <= levels'[s].bitmap
                      /\ disk[levels'[s].key].bft <= levels'[s].bft
    BY <1>1 DEF AgeInv, Open
  <2>1. s \in Open
    BY <1>1, <1>2 DEF Open
  <2>2. CASE s # a
    BY <1>2, <2>1, <2>2 DEF Ages, AgeInv
  <2>3. CASE s = a
    <3>1. disk[levels[a].key].bitmap <= levels[a].bitmap /\ disk[levels[a].key].bft <= levels[a].bft
      BY <2>1, <2>3 DEF Ages, AgeInv
    <3>2. levels[a].key \in Slots
      BY <1>1, OpenVersions DEF Control
    <3>3. /\ disk[levels[a].key].bitmap \in Nat /\ disk[levels[a].key].bft \in Nat
          /\ levels[a].bitmap \in Nat /\ levels[a].bft \in Nat
      BY <1>1, <3>2, OpenVersions DEF Control
    <3> QED
      BY <1>2, <1>3, <2>3, <3>1, <3>3
  <2> QED
    BY <2>2, <2>3
<1>5. ReadInv'
  BY <1>1 DEF Ages, ReadInv
<1>6. FlushInv'
  BY <1>1, <1>2, JobSlots DEF Ages, FlushInv, Control
<1>7. CloseInv'
  BY <1>1 DEF CloseInv, Control, AloneInv, Ending
<1>8. BitmapFirst' /\ FsyncDurable'
  BY <1>1 DEF Ages, BitmapFirst, FsyncDurable
<1> QED
  BY <1>4, <1>5, <1>6, <1>7, <1>8 DEF Ages

LEMMA FsyncBitmapAges ==
  ASSUME Control, Places, Ages, NEW t \in Threads, FsyncBitmap(t)
  PROVE  Ages'
<1> DEFINE a == job[t].at
<1>1. /\ pc[t] = "using" /\ a \in Open /\ a \in Slots /\ job' = job /\ levels' = levels
      /\ synced' = synced /\ \A u \in Threads \ {t} : pc'[u] = pc[u]
  BY JobSlots DEF FsyncBitmap, WriteBitmap, GoTo, Control, TypeOK, Places, PlacedInv,
                  Placed, Holding, Open
<1>2. CASE disk' = disk /\ pc'[t] = "using"
  BY <1>1, <1>2, AgesKept
<1>3. CASE disk' = [disk EXCEPT ![levels[a].key].bitmap = levels[a].bitmap] /\ pc'[t] = "flush"
  <2>1. /\ Written(disk') /\ disk'[levels[a].key].bitmap = levels[a].bitmap
        /\ \A k \in Slots : disk'[k].bft = disk[k].bft
        /\ \A r \in Open \ {a} : disk'[levels[r].key] = disk[levels[r].key]
    BY <1>1, <1>3, BitmapWritten
  <2>2. disk' \in [Slots -> Metadata]
    BY NextType DEF Control, TypeOK, Next
  <2>3. AgeInv' /\ BitmapFirst' /\ FsyncDurable'
    BY <1>1, <2>1, <2>2, WrittenAges
  <2>4. ReadInv'
    <3> SUFFICES ASSUME NEW u \in Threads, pc'[u] = "bitmap"
                 PROVE  job[u].bft = disk'[job[u].key].bft
      BY <1>1 DEF ReadInv
    <3>1. pc[u] = "bitmap" /\ job[u].key \in Slots
      BY <1>1, <1>3, JobSlots DEF Control
    <3> QED
      BY <2>1, <3>1 DEF Ages, ReadInv
  <2>5. FlushInv'
    <3> SUFFICES ASSUME NEW u \in Threads, pc'[u] = "flush"
                 PROVE  disk'[levels[job[u].at].key].bitmap = levels[job[u].at].bitmap
      BY <1>1 DEF FlushInv
    <3>1. CASE job[u].at = a
      BY <2>1, <3>1
    <3>2. CASE job[u].at # a
      <4>1. u # t /\ pc[u] = "flush"
        BY <1>1, <3>2
      <4>2. job[u].at \in Open
        BY <4>1, JobSlots DEF Places, PlacedInv, Placed, Holding, Open, Control
      <4> QED
        BY <2>1, <3>2, <4>1, <4>2 DEF Ages, FlushInv
    <3> QED
      BY <3>1, <3>2
  <2>6. CloseInv'
    BY <1>1, <1>3 DEF CloseInv, Control, AloneInv, Ending
  <2> QED
    BY <2>3, <2>4, <2>5, <2>6 DEF Ages
<1> QED
  BY <1>1, <1>2, <1>3 DEF FsyncBitmap, WriteBitmap, GoTo, Control, TypeOK

LEMMA FsyncBftAges ==
  ASSUME Control, Places, Ages, NEW t \in Threads, FsyncBft(t)
  PROVE  Ages'
<1> DEFINE a == job[t].at
<1>1. /\ pc[t] = "flush" /\ a \in Open /\ a \in Slots /\ job' = job /\ levels' = levels
      /\ pc'[t] = "using" /\ \A u \in Threads \ {t} : pc'[u] = pc[u]
      /\ disk[levels[a].key].bitmap = levels[a].bitmap
  BY JobSlots DEF FsyncBft, GoTo, Control, TypeOK, Places, PlacedInv, Placed, Holding,
                  Open, Ages, FlushInv
<1>2. CASE disk' = disk /\ synced' = synced
  BY <1>1, <1>2, AgesKept
<1>3. CASE /\ disk' = [disk EXCEPT ![levels[a].key].bft = levels[a].bft]
           /\ synced' = [synced EXCEPT ![levels[a].key] = levels[a].bft]
  <2> DEFINE k0 == levels[a].key
  <2>1. /\ Written(disk') /\ disk'[k0].bft = levels[a].bft
        /\ \A k \in Slots : disk'[k].bitmap = disk[k].bitmap
        /\ \A k \in Slots \ {k0} : disk'[k] = disk[k]
    BY <1>1, <1>3, BftWritten
  <2>2. disk' \in [Slots -> Metadata] /\ k0 \in Slots
    BY <1>1, NextType, OpenVersions DEF Control, TypeOK, Next
  <2>3. AgeInv' /\ BitmapFirst'
    BY <1>1, <2>1 DEF Written, Ages, AgeInv, BitmapFirst, Open
  <2>4. FsyncDurable'
    <3>1. synced'[k0] <= disk'[k0].bitmap /\ synced'[k0] <= disk'[k0].bft
      <4>1. synced'[k0] = levels[a].bft
        BY <1>3, <2>2 DEF Control, TypeOK
      <4>2. levels[a].bft <= levels[a].bitmap /\ levels[a].bft \in Nat
        BY <1>1, OpenVersions DEF Ages, AgeInv, Control
      <4>3. disk'[k0].bitmap = levels[a].bitmap /\ disk'[k0].bft = levels[a].bft
        BY <1>1, <2>1, <2>2
      <4> QED
        BY <4>1, <4>2, <4>3
    <3>2. \A k \in Slots \ {k0} : synced'[k] = synced[k]
      BY <1>3, <2>2 DEF Control, TypeOK
    <3> QED
      BY <2>1, <3>1, <3>2 DEF Ages, FsyncDurable
  <2>5. ReadInv'
    <3> SUFFICES ASSUME NEW u \in Threads, pc'[u] = "bitmap"
                 PROVE  job[u].bft = disk'[job[u].key].bft
      BY <1>1 DEF ReadInv
    <3>1. pc[u] = "bitmap" /\ job[u].key \in Slots
      BY <1>1, JobSlots DEF Control
    <3>2. job[u].key # k0
      BY <1>1, <3>1, KeysApart
    <3> QED
      BY <2>1, <3>1, <3>2 DEF Ages, ReadInv
  <2>6. FlushInv'
    <3> SUFFICES ASSUME NEW u \in Threads, pc'[u] = "flush"
                 PROVE  disk'[levels[job[u].at].key].bitmap = levels[job[u].at].bitmap
      BY <1>1 DEF FlushInv
    <3>1. pc[u] = "flush" /\ job[u].at \in Slots
      BY <1>1, JobSlots DEF Control
    <3>2. levels[job[u].at].key \in Slots
      BY <3>1, OpenVersions DEF Control
    <3> QED
      BY <2>1, <3>1, <3>2 DEF Ages, FlushInv
  <2>7. CloseInv'
    BY <1>1 DEF CloseInv, Control, AloneInv, Ending
  <2> QED
    BY <2>3, <2>4, <2>5, <2>6, <2>7 DEF Ages
<1> QED
  BY <1>2, <1>3 DEF FsyncBft

\* Whoever unmounts is alone: nothing is being read or flushed.
LEMMA AloneAges ==
  ASSUME Control, NEW t \in Threads, Ending(t), pc'[t] \in {"destroy", "closing"},
         \A u \in Threads \ {t} : pc'[u] = pc[u]
  PROVE  ReadInv' /\ FlushInv' /\ (pc'[t] = "destroy" => CloseInv')
BY DEF Control, AloneInv, Ending, ReadInv, FlushInv, CloseInv

LEMMA DestroyBitmapAges ==
  ASSUME Control, Places, Ages, NEW t \in Threads, DestroyBitmap(t)
  PROVE  Ages'
<1>1. PICK s \in Least(Open) :
        \/ /\ disk' = [disk EXCEPT ![levels[s].key].bitmap = levels[s].bitmap]
           /\ pc' = [pc EXCEPT ![t] = "closing"] /\ levels' = levels
        \/ levels' = [levels EXCEPT ![s] = Closed] /\ disk' = disk /\ pc' = pc
  BY DEF DestroyBitmap, GoTo
<1>2. /\ s \in Open /\ s \in Slots /\ Ending(t) /\ synced' = synced
      /\ pc[t] = "destroy" /\ pc'[t] \in {"destroy", "closing"}
      /\ \A u \in Threads \ {t} : pc'[u] = pc[u]
  BY <1>1, LeastSubset, OpenSubset DEF DestroyBitmap, Ending, Control, TypeOK
<1>3. ReadInv' /\ FlushInv'
  BY <1>2, AloneAges
<1>4. disk' \in [Slots -> Metadata]
  BY NextType DEF Control, TypeOK, Next
<1>5. CASE disk' = disk /\ pc' = pc /\ levels' = [levels EXCEPT ![s] = Closed]
  <2>1. \A r \in Slots : levels'[r] = levels[r] \/ levels'[r].pass = NoPass
    BY <1>5, Defaults DEF Control, TypeOK
  <2>2. AgeInv' /\ BitmapFirst' /\ FsyncDurable'
    BY <1>2, <1>5, <2>1 DEF Ages, AgeInv, BitmapFirst, FsyncDurable, Open
  <2>3. CloseInv'
    BY <1>2, <1>5, AloneAges
  <2> QED
    BY <1>3, <2>2, <2>3 DEF Ages
<1>6. CASE /\ disk' = [disk EXCEPT ![levels[s].key].bitmap = levels[s].bitmap]
           /\ levels' = levels
  <2>1. Written(disk') /\ disk'[levels[s].key].bitmap = levels[s].bitmap
    BY <1>2, <1>6, BitmapWritten
  <2>2. AgeInv' /\ BitmapFirst' /\ FsyncDurable'
    BY <1>2, <1>4, <1>6, <2>1, WrittenAges
  <2>3. \A r \in Least(Open) : r = s
    BY <1>1, SlotsNat, OpenSubset DEF Least
  <2>4. CloseInv'
    BY <1>6, <2>1, <2>3 DEF CloseInv, Open
  <2> QED
    BY <1>3, <2>2, <2>4 DEF Ages
<1> QED
  BY <1>1, <1>5, <1>6

LEMMA DestroyBftAges ==
  ASSUME Control, Places, Ages, NEW t \in Threads, DestroyBft(t)
  PROVE  Ages'
<1>1. PICK s \in Least(Open) :
        /\ levels' = [levels EXCEPT ![s] = Closed]
        /\ disk' = [disk EXCEPT ![levels[s].key].bft = levels[s].bft] \/ disk' = disk
  BY DEF DestroyBft
<1>2. /\ s \in Open /\ s \in Slots /\ Ending(t) /\ synced' = synced /\ pc'[t] = "destroy"
      /\ \A u \in Threads \ {t} : pc'[u] = pc[u]
      /\ disk[levels[s].key].bitmap = levels[s].bitmap
  BY <1>1, LeastSubset, OpenSubset
  DEF DestroyBft, GoTo, Ending, Control, TypeOK, Ages, CloseInv
<1>3. ReadInv' /\ FlushInv' /\ CloseInv'
  BY <1>2, AloneAges
<1>4. disk' \in [Slots -> Metadata]
  BY NextType DEF Control, TypeOK, Next
<1>5. \A r \in Slots : levels'[r] = levels[r] \/ levels'[r].pass = NoPass
  BY <1>1, Defaults DEF Control, TypeOK
<1>6. AgeInv' /\ BitmapFirst' /\ FsyncDurable'
  <2>1. CASE disk' = disk
    BY <1>2, <1>5, <2>1 DEF Ages, AgeInv, BitmapFirst, FsyncDurable, Open
  <2>2. CASE disk' = [disk EXCEPT ![levels[s].key].bft = levels[s].bft]
    <3>1. Written(disk')
      BY <1>2, <2>2, BftWritten
    <3> QED
      BY <1>2, <1>4, <1>5, <3>1, WrittenAges
  <2> QED
    BY <1>1, <2>1, <2>2
<1> QED
  BY <1>3, <1>6 DEF Ages

LEMMA NextAges == Control /\ Places /\ Ages /\ [Next]_vars => Ages'
<1> SUFFICES ASSUME Control, Places, Ages, [Next]_vars PROVE Ages'
  OBVIOUS
<1>1. ASSUME BsfsInit \/ Crash PROVE Ages'
  <2>1. /\ \A u \in Threads : pc'[u] = "idle"
        /\ \A s \in Slots : levels'[s].pass = NoPass
        /\ disk' = disk /\ synced' = synced
    BY <1>1, Defaults DEF BsfsInit, Crash, Control, MountInv, Idle, meta
  <2>2. AgeInv' /\ ReadInv' /\ FlushInv' /\ CloseInv'
    BY <2>1 DEF AgeInv, ReadInv, FlushInv, CloseInv, Open
  <2>3. BitmapFirst' /\ FsyncDurable'
    BY <2>1 DEF Ages, BitmapFirst, FsyncDurable
  <2> QED
    BY <2>2, <2>3 DEF Ages
<1>2. ASSUME NEW k \in Slots, NEW p \in Passwords, KeytabStore(k, p) PROVE Ages'
  BY <1>2, AgesKept DEF KeytabStore
<1>3. ASSUME NEW t \in Threads, NEW p \in Passwords, LevelGet(t, p) PROVE Ages'
  <2>1. pc'[t] \in {"using", "lookup"}
    BY <1>3 DEF LevelGet, GoTo, Control, TypeOK
  <2>2. \A u \in Threads \ {t} : pc'[u] = pc[u] /\ job'[u] = job[u]
    BY <1>3 DEF LevelGet, GoTo, Control, TypeOK
  <2> QED
    BY <1>3, <2>1, <2>2, AgesKept DEF LevelGet, meta
<1>4. ASSUME NEW t \in Threads, LevelOpen(t) \/ Done(t) \/ Destroy(t) \/ DestroyEnd(t)
      PROVE  Ages'
  <2>1. /\ levels' = levels /\ disk' = disk /\ synced' = synced
        /\ pc'[t] \in {"idle", "bft", "destroy"}
        /\ \A u \in Threads \ {t} : pc'[u] = pc[u] /\ job'[u] = job[u]
    BY <1>4 DEF LevelOpen, Done, Destroy, DestroyEnd, Fail, GoTo, Control, TypeOK, meta
  <2> QED
    BY <2>1, AgesKept
<1>5. ASSUME NEW t \in Threads, ReadBft(t) PROVE Ages'
  <2>1. \A u \in Threads \ {t} : pc'[u] = pc[u] /\ job'[u] = job[u]
    BY <1>5 DEF ReadBft, Fail, GoTo, Control, TypeOK
  <2>2. \/ pc'[t] = "idle"
        \/ pc'[t] = "bitmap" /\ job'[t].bft = disk[job'[t].key].bft
    BY <1>5, JobSlots DEF ReadBft, Fail, GoTo, Control, TypeOK, Jobs
  <2> QED
    BY <1>5, <2>1, <2>2, AgesKept DEF ReadBft, meta
<1>6. ASSUME UNCHANGED vars PROVE Ages'
  BY <1>6, AgesKept DEF vars, meta
<1> QED
  BY <1>1, <1>2, <1>3, <1>4, <1>5, <1>6, BitmapAges, ChangeAges, FsyncBitmapAges,
     FsyncBftAges, DestroyBitmapAges, DestroyBftAges DEF Next, Continue

----------------------------------------------------------------------------
(* The theorems *)

IInv == Control /\ Places /\ Ages

THEOREM Invariance == Spec => []IInv
<1>1. Init => IInv
  BY InitControl, InitPlaces, InitAges DEF IInv
<1>2. IInv /\ [Next]_vars => IInv'
  BY NextControl, NextPlaces, NextAges DEF IInv
<1> QED
  BY <1>1, <1>2, PTL DEF Spec

\* However many threads open levels at once, a level never has two objects.
THEOREM OneObjectPerLevel == Spec => []OneLevelPerKey
<1>1. IInv => OneLevelPerKey
  BY KeysApart DEF IInv
<1> QED
  BY <1>1, Invariance, PTL

\* A password opens the first level stored for it and no other.
THEOREM PasswordOpensItsLevel == Spec => []RightLevel
<1>1. IInv => RightLevel
  BY DEF IInv, Places
<1> QED
  BY <1>1, Invariance, PTL

\* An fsync that returned 0 is kept by whatever comes after it.
THEOREM FsyncIsDurable == Spec => []FsyncDurable
<1>1. IInv => FsyncDurable
  BY DEF IInv, Ages
<1> QED
  BY <1>1, Invariance, PTL

\* The BFT on the disk is never ahead of the bitmap.
THEOREM BitmapIsFirst == Spec => []BitmapFirst
<1>1. IInv => BitmapFirst
  BY DEF IInv, Ages
<1> QED
  BY <1>1, Invariance, PTL

\* When no place is free, the keys of the open levels are all keys: an injection
\* of the places into the slots of the table reaches every slot.
LEMMA FullPlaces ==
  ASSUME IInv, Free = {}, NEW p \in Passwords, Lookup(p) # {}
  PROVE  Opened(p) # {}
<1> DEFINE f == [s \in Slots |-> levels[s].key]
<1>1. PICK k \in Lookup(p) : TRUE
  OBVIOUS
<1>2. k \in Slots /\ keytab[k] = p
  BY LookupSlot
<1>3. Open = Slots
  BY DEF Free, Open
<1>4. f \in Injection(Slots, Slots)
  BY <1>3, KeysApart, OpenVersions DEF IInv, Control, OneLevelPerKey, Injection, IsInjective
<1>5. f \in Surjection(Slots, Slots)
  BY <1>4, SlotsNat, FS_Injection
<1>6. PICK s \in Slots : f[s] = k
  BY <1>2, <1>5 DEF Surjection
<1>7. levels[s].pass = p
  BY <1>2, <1>3, <1>6 DEF IInv, Places, RightLevel
<1> QED
  BY <1>3, <1>7 DEF Opened

\* The comment at bsfs.c:160 is right: when the array is full, a password that is
\* not open has no level.
THEOREM FullMeansNoSuchLevel == Spec => []FullMeansUnknown
<1>1. IInv => FullMeansUnknown
  BY FullPlaces DEF FullMeansUnknown
<1> QED
  BY <1>1, Invariance, PTL

=============================================================================
