\* Two files, two threads, clusters for one and a half of them, callers that
\* unlink open files; no cluster access fails.
SPECIFICATION Spec
CONSTANTS
  Threads = {t1, t2}
  MaxEntries = 2
  ClusterCount = 3
  DataSize = 1
  MaxSize = 2
  Names = {a, b}
  NoName = NoName
  EOF = EOF
  Random = Random
  None = None
  Faults = {}
  UnlinkOpen = TRUE
  RenameSame = FALSE
SYMMETRY Symmetric
INVARIANTS
  TypeOK
  ChainsIntact
  NoCrossLink
  NoLeak
  WalksInside
  SnapshotCurrent
  NoClusterRace
PROPERTIES
  OpenFileStays
  ReadersIsolated
  ImplementsDirectory
