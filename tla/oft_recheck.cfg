\* The recheck of bs_oft_release against the release of another thread.
SPECIFICATION Spec
CONSTANTS
  Threads = {t1, t2}
  Indices = {i1}
  Addrs = {a1, a2}
  NoFile = NoFile
INVARIANT RecheckSafe
