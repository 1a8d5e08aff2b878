------------------------------- MODULE Mount -------------------------------
(***************************************************************************)
(* The levels of a mounted disk (src/src/bsfs.c, src/src/keytab.c): the    *)
(* key table on the disk, the array of levels that were opened, which      *)
(* bs_level_get searches and fills under level_lock, the metadata each     *)
(* level has in memory and on the disk, fsync, unmounting and a crash of   *)
(* the process.                                                            *)
(*                                                                         *)
(* Metadata is abstracted to a version for the bitmap and one for the BFT: *)
(* a section under metadata_lock that changes a level makes new versions.  *)
(* What the versions hold, and what a crash between the two writes of a    *)
(* flush does to files, is in LevelCrash.                                  *)
(***************************************************************************)
EXTENDS Integers, FiniteSets

CONSTANTS Threads,        \* threads of the FUSE process
          SlotCount,      \* STEGO_USER_LEVEL_COUNT
          Passwords,      \* first components of paths
          NoPass,         \* a slot no password decrypts; the pass of no level
          None,           \* no thread
          MaxVersion,     \* bound on the changes made to a level
          Faults          \* what may fail: "derive", "read", "write"

Slots == 0 .. SlotCount - 1

ASSUME MountAssumption ==
  /\ SlotCount \in Nat \ {0}
  /\ NoPass \notin Passwords
  /\ None \notin Threads
  /\ MaxVersion \in Nat

VARIABLES mounted,        \* a bs_bsfs_t exists
          keytab,         \* the password that decrypts each slot of the table
          disk,           \* the versions of each level's metadata on the disk
          levels,         \* fs->levels
          levelLock,      \* the thread that holds fs->level_lock
          pc,             \* where each thread is
          job,            \* its locals in bs_level_get and the level it got
          synced          \* history: the version at the last fsync that returned 0

meta == <<keytab, disk, synced>>
vars == <<mounted, keytab, disk, levels, levelLock, pc, job, synced>>

Versions == 0 .. MaxVersion

\* The key in slot k is that of level k.  A level that was opened remembers its
\* password and key; a free place of the array is all zero.
Closed == [pass |-> NoPass, key |-> 0, bitmap |-> 0, bft |-> 0]
NoJob == [pass |-> NoPass, at |-> 0, key |-> 0, bft |-> 0]

PCs == {"idle", "lookup", "bft", "bitmap", "using", "flush", "destroy", "closing"}

Metadata == [bitmap : Versions, bft : Versions]
OpenLevels == [pass : Passwords \cup {NoPass}, key : Slots,
               bitmap : Versions, bft : Versions]
Jobs == [pass : Passwords \cup {NoPass}, at : Slots, key : Slots, bft : Versions]

TypeOK ==
  /\ mounted \in BOOLEAN
  /\ keytab \in [Slots -> Passwords \cup {NoPass}]
  /\ disk \in [Slots -> Metadata]
  /\ levels \in [Slots -> OpenLevels]
  /\ levelLock \in Threads \cup {None}
  /\ pc \in [Threads -> PCs]
  /\ job \in [Threads -> Jobs]
  /\ synced \in [Slots -> Versions]

\* A disk whose levels have empty metadata, under any table of passwords: one
\* password may be in several slots.
Init ==
  /\ mounted = FALSE
  /\ keytab \in [Slots -> Passwords \cup {NoPass}]
  /\ disk = [k \in Slots |-> [bitmap |-> 0, bft |-> 0]]
  /\ levels = [s \in Slots |-> Closed]
  /\ levelLock = None
  /\ pc = [t \in Threads |-> "idle"]
  /\ job = [t \in Threads |-> NoJob]
  /\ synced = [k \in Slots |-> 0]

----------------------------------------------------------------------------
Least(S) == {x \in S : \A y \in S : x <= y}
Greatest(S) == {x \in S : \A y \in S : x >= y}
Newer(a, b) == IF a > b THEN a ELSE b

Open == {s \in Slots : levels[s].pass # NoPass}
Free == Slots \ Open

\* The level that was opened with this password: every match has the same one.
Opened(p) == {s \in Open : levels[s].pass = p}

\* Mutant of Lookup: the search does not stop at the first slot that decrypts.
LookupLast(p) == Greatest({k \in Slots : keytab[k] = p})

\* keytab_lookup: the first slot that decrypts with the password.
Lookup(p) == Least({k \in Slots : keytab[k] = p})

Idle == \A t \in Threads : pc[t] = "idle"

GoTo(t, label) == pc' = [pc EXCEPT ![t] = label]

\* Mutant of Fail: level_lock is kept on the way out.
FailLocked(t) ==
  /\ GoTo(t, "idle")
  /\ job' = [job EXCEPT ![t] = NoJob]
  /\ UNCHANGED levelLock

\* bs_level_get returns an error.
Fail(t) ==
  /\ GoTo(t, "idle")
  /\ job' = [job EXCEPT ![t] = NoJob]
  /\ levelLock' = None

----------------------------------------------------------------------------
(* The key table and mounting *)

\* keytab_store, before any level is open.  The result of the key derivation is
\* overwritten: when it fails the entry is encrypted with whatever was on the
\* stack, no password decrypts it, and the caller is told 0.
KeytabStore(k, p) ==
  /\ mounted /\ Idle /\ Open = {}
  /\ \/ keytab' = [keytab EXCEPT ![k] = p]
     \/ "derive" \in Faults /\ keytab' = [keytab EXCEPT ![k] = NoPass]
  /\ UNCHANGED <<mounted, disk, levels, levelLock, pc, job, synced>>

\* bsfs_init
BsfsInit ==
  /\ ~mounted
  /\ mounted' = TRUE
  /\ levels' = [s \in Slots |-> Closed]
  /\ UNCHANGED <<meta, levelLock, pc, job>>

----------------------------------------------------------------------------
(* bs_level_get *)

\* Mutants of LevelGet: the mutex is dropped after the search; the array being
\* full is not noticed.
LevelGetUnlocked(t, p) ==
  /\ mounted /\ pc[t] = "idle" /\ levelLock = None
  /\ \A u \in Threads : pc[u] \notin {"destroy", "closing"}
  /\ \/ \E s \in Opened(p) :
          /\ job' = [job EXCEPT ![t].at = s]
          /\ GoTo(t, "using")
     \/ /\ Opened(p) = {}
        /\ \E s \in Greatest(Free) : job' = [job EXCEPT ![t].pass = p, ![t].at = s]
        /\ GoTo(t, "lookup")
  /\ UNCHANGED <<mounted, meta, levels, levelLock>>

LevelGetUnchecked(t, p) ==
  /\ mounted /\ pc[t] = "idle" /\ levelLock = None
  /\ \A u \in Threads : pc[u] \notin {"destroy", "closing"}
  /\ \/ \E s \in Opened(p) :
          /\ job' = [job EXCEPT ![t].at = s]
          /\ GoTo(t, "using")
          /\ UNCHANGED levelLock
     \/ /\ Opened(p) = {}
        /\ \E s \in Greatest(Free \cup {-1}) :
             job' = [job EXCEPT ![t].pass = p, ![t].at = s]
        /\ levelLock' = t
        /\ GoTo(t, "lookup")
  /\ UNCHANGED <<mounted, meta, levels>>

\* The search: a level that is open is returned, the last free place is kept
\* for one that is not.  No free place is -ENOENT and changes nothing.
LevelGet(t, p) ==
  /\ mounted /\ pc[t] = "idle" /\ levelLock = None
  /\ \A u \in Threads : pc[u] \notin {"destroy", "closing"}
  /\ \/ \E s \in Opened(p) :
          /\ job' = [job EXCEPT ![t].at = s]
          /\ GoTo(t, "using")
          /\ UNCHANGED levelLock
     \/ /\ Opened(p) = {}
        /\ \E s \in Greatest(Free) : job' = [job EXCEPT ![t].pass = p, ![t].at = s]
        /\ levelLock' = t
        /\ GoTo(t, "lookup")
  /\ UNCHANGED <<mounted, meta, levels>>

\* level_open: keytab_lookup finds the key, or no slot decrypts (-ENOENT), or
\* the derivation or the decryption fails.
LevelOpen(t) ==
  /\ pc[t] = "lookup"
  /\ \/ \E k \in Lookup(job[t].pass) :
          /\ job' = [job EXCEPT ![t].key = k]
          /\ GoTo(t, "bft")
          /\ UNCHANGED levelLock
     \/ Lookup(job[t].pass) = {} /\ Fail(t)
     \/ "derive" \in Faults /\ Fail(t)
  /\ UNCHANGED <<mounted, meta, levels>>

\* level_init up to bft_read_table.
ReadBft(t) ==
  /\ pc[t] = "bft"
  /\ \/ /\ job' = [job EXCEPT ![t].bft = disk[job[t].key].bft]
        /\ GoTo(t, "bitmap")
        /\ UNCHANGED levelLock
     \/ "read" \in Faults /\ Fail(t)
  /\ UNCHANGED <<mounted, meta, levels>>

\* level_init from fs_read_bitmap: the place of the array is written only now,
\* when nothing can fail any more, and bs_level_get unlocks.
ReadBitmap(t) ==
  /\ pc[t] = "bitmap"
  /\ \/ /\ levels' = [levels EXCEPT ![job[t].at] =
                        [pass |-> job[t].pass, key |-> job[t].key,
                         bitmap |-> disk[job[t].key].bitmap, bft |-> job[t].bft]]
        /\ job' = [job EXCEPT ![t] = [NoJob EXCEPT !.at = job[t].at]]
        /\ levelLock' = None
        /\ GoTo(t, "using")
     \/ "read" \in Faults /\ Fail(t) /\ UNCHANGED levels
  /\ UNCHANGED <<mounted, meta>>

----------------------------------------------------------------------------
(* A thread that has a level *)

\* The bitmap and the BFT change under the write lock of metadata_lock, which
\* waits for the flushes of the level.
Change(t) ==
  LET s == job[t].at
      v == Newer(levels[s].bitmap, levels[s].bft) + 1
  IN /\ pc[t] = "using"
     /\ \A u \in Threads : ~(pc[u] = "flush" /\ job[u].at = s)
     /\ v <= MaxVersion
     /\ levels' = [levels EXCEPT ![s].bitmap = v, ![s].bft = v]
     /\ UNCHANGED <<mounted, meta, levelLock, pc, job>>

\* The operation, or the last one on a handle, is over.
Done(t) ==
  /\ pc[t] = "using"
  /\ GoTo(t, "idle")
  /\ job' = [job EXCEPT ![t] = NoJob]
  /\ UNCHANGED <<mounted, meta, levels, levelLock>>

\* Mutant of WriteBitmap: the result of fs_write_bitmap is not looked at.
WriteBitmapUnchecked(t, s, then, failed) ==
  /\ \/ disk' = [disk EXCEPT ![levels[s].key].bitmap = levels[s].bitmap]
     \/ "write" \in Faults /\ UNCHANGED disk
  /\ GoTo(t, then)

\* level_flush_metadata: fs_write_bitmap, and the BFT only after it succeeded.
WriteBitmap(t, s, then, failed) ==
  \/ /\ disk' = [disk EXCEPT ![levels[s].key].bitmap = levels[s].bitmap]
     /\ GoTo(t, then)
  \/ /\ "write" \in Faults
     /\ GoTo(t, failed)
     /\ UNCHANGED disk

\* bsfs_fsync takes the read lock, which it keeps up to the end of FsyncBft.
FsyncBitmap(t) ==
  /\ pc[t] = "using"
  /\ WriteBitmap(t, job[t].at, "flush", "using")
  /\ UNCHANGED <<mounted, keytab, levels, levelLock, job, synced>>

\* Mutant of FsyncBft: it returns 0 whatever bft_write_table returned.
FsyncBftUnchecked(t) ==
  LET level == levels[job[t].at] IN
    /\ pc[t] = "flush"
    /\ \/ disk' = [disk EXCEPT ![level.key].bft = level.bft]
       \/ "write" \in Faults /\ UNCHANGED disk
    /\ synced' = [synced EXCEPT ![level.key] = Newer(level.bitmap, level.bft)]
    /\ GoTo(t, "using")
    /\ UNCHANGED <<mounted, keytab, levels, levelLock, job>>

\* The rest of level_flush_metadata in bsfs_fsync: bft_write_table.
FsyncBft(t) ==
  LET level == levels[job[t].at] IN
    /\ pc[t] = "flush"
    /\ \/ /\ disk' = [disk EXCEPT ![level.key].bft = level.bft]
          /\ synced' = [synced EXCEPT ![level.key] = level.bft]
       \/ "write" \in Faults /\ UNCHANGED <<disk, synced>>
    /\ GoTo(t, "using")
    /\ UNCHANGED <<mounted, keytab, levels, levelLock, job>>

----------------------------------------------------------------------------
(* Unmounting and crashing *)

\* bsfs_destroy, which libfuse calls when its worker threads have ended.
Destroy(t) ==
  /\ mounted /\ Idle
  /\ GoTo(t, "destroy")
  /\ UNCHANGED <<mounted, meta, levels, levelLock, job>>

\* level_destroy of the next open level: its flush begins.  A level whose
\* bitmap cannot be written is closed without another word.
DestroyBitmap(t) ==
  /\ pc[t] = "destroy"
  /\ \E s \in Least(Open) :
       /\ \/ disk' = [disk EXCEPT ![levels[s].key].bitmap = levels[s].bitmap]
             /\ GoTo(t, "closing")
             /\ UNCHANGED levels
          \/ /\ "write" \in Faults
             /\ levels' = [levels EXCEPT ![s] = Closed]
             /\ UNCHANGED <<disk, pc>>
  /\ UNCHANGED <<mounted, keytab, levelLock, job, synced>>

\* The flush ends and the level is closed.
DestroyBft(t) ==
  /\ pc[t] = "closing"
  /\ \E s \in Least(Open) :
       /\ \/ disk' = [disk EXCEPT ![levels[s].key].bft = levels[s].bft]
          \/ "write" \in Faults /\ UNCHANGED disk
       /\ levels' = [levels EXCEPT ![s] = Closed]
  /\ GoTo(t, "destroy")
  /\ UNCHANGED <<mounted, keytab, levelLock, job, synced>>

\* disk_free: the disk can be mounted again.
DestroyEnd(t) ==
  /\ pc[t] = "destroy" /\ Open = {}
  /\ mounted' = FALSE
  /\ GoTo(t, "idle")
  /\ UNCHANGED <<meta, levels, levelLock, job>>

\* The process dies, between two writes.  What was copied into the shared mapping stays.
Crash ==
  /\ mounted
  /\ mounted' = FALSE
  /\ levels' = [s \in Slots |-> Closed]
  /\ levelLock' = None
  /\ pc' = [t \in Threads |-> "idle"]
  /\ job' = [t \in Threads |-> NoJob]
  /\ UNCHANGED meta

----------------------------------------------------------------------------
\* The steps of bs_level_get after the search.
Continue(t) == LevelOpen(t) \/ ReadBft(t) \/ ReadBitmap(t)

Next ==
  \/ BsfsInit
  \/ \E k \in Slots, p \in Passwords : KeytabStore(k, p)
  \/ Crash
  \/ \E t \in Threads :
       \/ \E p \in Passwords : LevelGet(t, p)
       \/ Continue(t)
       \/ Change(t) \/ Done(t)
       \/ FsyncBitmap(t) \/ FsyncBft(t)
       \/ Destroy(t) \/ DestroyBitmap(t) \/ DestroyBft(t) \/ DestroyEnd(t)

Spec == Init /\ [][Next]_vars

\* The holder of level_lock waits for the disk's lock only.
FairSpec == Spec /\ \A t \in Threads : WF_vars(Continue(t))

----------------------------------------------------------------------------
\* A level has one object, whichever threads open it at once: with two, each
\* would allocate from its own bitmap and the later flush would undo the other.
OneLevelPerKey ==
  \A r, s \in Open : levels[r].key = levels[s].key => r = s

\* A password opens the first level stored for it and no other, and goes on
\* doing so for as long as the level is open.
RightLevel ==
  \A s \in Open :
    /\ keytab[levels[s].key] = levels[s].pass
    /\ \A k \in Slots : keytab[k] = levels[s].pass => levels[s].key <= k

\* "All levels are already in use, so whichever level the user is trying to
\* open necessarily doesn't exist" (bsfs.c:160): levels that fail to open take
\* no place for ever, and none takes two.
FullMeansUnknown ==
  Free = {} => \A p \in Passwords : Lookup(p) # {} => Opened(p) # {}

\* What an fsync that returned 0 has written is what a later mount reads, or
\* something newer, whatever crashes, failing writes and unmounts come after.
FsyncDurable ==
  \A k \in Slots : synced[k] <= disk[k].bitmap /\ synced[k] <= disk[k].bft

\* The BFT on the disk is never ahead of the bitmap: a file that a crash leaves
\* in the table was there when the bitmap was written.
BitmapFirst == \A k \in Slots : disk[k].bft <= disk[k].bitmap

\* level_lock is free again once its holder has left bs_level_get.
LockReturned == \A t \in Threads : levelLock = t ~> levelLock # t
=============================================================================
