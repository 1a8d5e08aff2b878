\* Disks with no level, too small for a BFT, for a cluster, for exactly one
\* cluster, and for two; the BFT is spread over two to four cover files.
SPECIFICATION Spec
CONSTANTS
  Threads = {t1, t2}
  KeytabSize = 5
  CoverFiles = 8
  LevelsPerPassword = 4
  BftSize = 48
  ClusterSize = 16
  Word = 4096
  DiskSizes = {3, 45, 101, 133, 172, 205}
  Values = {v1, v2}
  None = None
  Unwritten = Unwritten
SYMMETRY Symmetric
INVARIANTS
  TypeOK
  LayoutFits
  AccessInside
  RegionsApart
PROPERTIES
  ImplementsRegions
