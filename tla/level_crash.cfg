\* Two files, one thread of operations and one that flushes; the write of the BFT, of
\* new clusters and of links fails; unmounts at any clean moment, one lossy crash.
SPECIFICATION CrashSpec
CONSTANTS
  Threads = {t1}
  MaxEntries = 2
  ClusterCount = 2
  DataSize = 1
  MaxSize = 2
  Names = {a, b}
  NoName = NoName
  EOF = EOF
  Random = Random
  None = None
  Faults = {"flush", "hook", "fill"}
  UnlinkOpen = FALSE
  RenameSame = FALSE
INVARIANTS
  FsyncedFilesSurvive
  TrustedChains
SYMMETRY Symmetric
