SPECIFICATION BucketSpec
CONSTANTS
  Threads = {t1, t2, t3}
  Indices = {0, 1, 2}
  Addrs = {a1, a2, a3}
  NoFile = NoFile
  InitialBuckets = 1
INVARIANTS
  TypeOK
  HandleSafe
  OneObjectPerIndex
  RefcountExact
  FreedOnce
  ZeroIsPending
  ChainsAreTable
PROPERTIES
  ImplementsOft
  ZeroRefReclaimed
