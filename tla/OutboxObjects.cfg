SPECIFICATION SpecOrderly
CONSTANTS
  Runs = {r1}
  Targets <- ObjectStore
  Workers = {w1, w2}
  NoOne = NoOne
  NoKey = NoKey
  Lease = 3
  Timeout = 1
  Backoff <- MCBackoff
  MaxStall = 1
  LateRequests = FALSE
  AtomicRetention = TRUE
  MaxTime = 6
  MaxVersion = 3
SYMMETRY Interchangeable
INVARIANTS LeaseExclusive ObjectMirror
PROPERTY ObjectsFollow
CHECK_DEADLOCK FALSE
