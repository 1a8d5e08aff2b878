\* A disk whose level holds its BFT, its bitmap and one cluster exactly.
SPECIFICATION Spec
CONSTANTS
  Threads = {t1, t2}
  KeytabSize = 5
  CoverFiles = 8
  LevelsPerPassword = 4
  BftSize = 48
  ClusterSize = 16
  Word = 4096
  DiskSizes = {165, 172}
  Values = {v1, v2}
  None = None
  Unwritten = Unwritten
INVARIANTS
  ClustersUsable
