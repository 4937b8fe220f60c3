SPECIFICATION SpecFair
CONSTANTS
  Runs = {r1, r2}
  Models = {m1}
  Dims = {1}
  Serial = TRUE
  MaxInserts = 1
  MaxGeneration = 3
  Searchers = {s1, s2}
  NoOne = NoOne
  Connections = 1
  Weight <- MCWeight
  Budget = 1
  MinIndexed = 1
INVARIANTS CacheSound CacheBudget
PROPERTY AnswersCurrent SearchesReturn
CHECK_DEADLOCK FALSE
