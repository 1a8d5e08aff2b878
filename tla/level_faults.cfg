\* One file of up to three clusters, the last partly filled; reads and writes of
\* clusters fail, -ENOSPC happens; callers do not unlink an open file.
SPECIFICATION FairSpec
CONSTANTS
  Threads = {t1, t2}
  MaxEntries = 1
  ClusterCount = 3
  DataSize = 2
  MaxSize = 5
  Names = {a}
  NoName = NoName
  EOF = EOF
  Random = Random
  None = None
  Faults = {"read", "fill", "hook"}
  UnlinkOpen = FALSE
  RenameSame = FALSE
INVARIANTS
  ChainsIntact
  NoCrossLink
PROPERTIES
  OpsFinish
