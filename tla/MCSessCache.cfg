SPECIFICATION Spec
CONSTANTS
  Threads = {t1, t2}
  Objects = {o1, o2, o3}
  Ids = {i1, i2, i3}
  NULL = NULL
  CacheSizes = {0, 1, 3}
  UpdateTime = FALSE
  StoreSize = 1
  AsyncLookup = TRUE
  TIME_MAX = 3
  Timeout = 2
  Timeouts = {0}
  MaxTime = 2
SYMMETRY Symmetric
INVARIANTS
  ReferencesExact
  CacheConsistent
  CacheBounded
PROPERTY
  FlushLeavesNoneExpired
