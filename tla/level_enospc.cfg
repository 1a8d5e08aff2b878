\* A file that grows by two clusters when one is free.
SPECIFICATION Spec
CONSTANTS
  Threads = {t1, t2}
  MaxEntries = 1
  ClusterCount = 2
  DataSize = 1
  MaxSize = 3
  Names = {a}
  NoName = NoName
  EOF = EOF
  Random = Random
  None = None
  Faults = {}
  UnlinkOpen = FALSE
  RenameSame = FALSE
INVARIANTS
  NoLeak
