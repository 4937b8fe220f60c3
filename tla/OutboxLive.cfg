SPECIFICATION SpecFair
CONSTANTS
  Runs = {r1}
  Targets <- Webhook
  Workers = {w1}
  NoOne = NoOne
  NoKey = NoKey
  Lease = 2
  Timeout = 1
  Backoff <- MCBackoff
  MaxStall = 9
  LateRequests = TRUE
  AtomicRetention = TRUE
  MaxTime = 9
  MaxVersion = 4
PROPERTY EventuallyDelivered
CHECK_DEADLOCK FALSE
