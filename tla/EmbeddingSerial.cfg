SPECIFICATION Spec
CONSTANTS
  Runs = {r1}
  Models = {m1, m2}
  Dims = {1}
  Serial = TRUE
  MaxInserts = 2
  MaxGeneration = 3
  Profiles = {p1}
  Workers = {w1, w2}
  NoOne = NoOne
  NoJob = NoJob
  NoModel = NoModel
  Lease = 1
  Delay <- MCDelay
  MaxAttempts = 2
  MaxTime = 2
SYMMETRY Interchangeable
INVARIANT FreshVectors
PROPERTY RetiredJobsSilent GenerationsAdvance
CHECK_DEADLOCK FALSE
