SPECIFICATION SpecFair
CONSTANTS
  Runs = {r1}
  Models = {m1}
  Dims = {1}
  Serial = FALSE
  MaxInserts = 2
  MaxGeneration = 4
  Profiles = {p1}
  Workers = {w1}
  NoOne = NoOne
  NoJob = NoJob
  NoModel = NoModel
  Lease = 1
  Delay <- MCDelay
  MaxAttempts = 2
  MaxTime = 9
PROPERTY Indexed
CHECK_DEADLOCK FALSE
