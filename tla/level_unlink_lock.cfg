\* A caller unlinks an open file.
SPECIFICATION Spec
CONSTANTS
  Threads = {t1, t2}
  MaxEntries = 1
  ClusterCount = 2
  DataSize = 1
  MaxSize = 1
  Names = {a}
  NoName = NoName
  EOF = EOF
  Random = Random
  None = None
  Faults = {}
  UnlinkOpen = TRUE
  RenameSame = FALSE
INVARIANTS
  MetadataUnlocked
