\* Two places for levels, three passwords of which at most two are stored; the
\* derivation of keys, reads and writes of metadata fail; the process crashes.
SPECIFICATION FairSpec
CONSTANTS
  Threads = {t1, t2}
  SlotCount = 2
  Passwords = {p1, p2, p3}
  NoPass = NoPass
  None = None
  MaxVersion = 2
  Faults = {"derive", "read", "write"}
INVARIANTS
  TypeOK
  OneLevelPerKey
  RightLevel
  FullMeansUnknown
  FsyncDurable
  BitmapFirst
PROPERTIES
  LockReturned
