SPECIFICATION Spec
CONSTANTS
  Runs = {r1}
  Targets <- Webhook
  Workers = {w1}
  NoOne = NoOne
  NoKey = NoKey
  Lease = 1
  Timeout = 1
  Backoff <- MCBackoff
  MaxStall = 9
  LateRequests = TRUE
  AtomicRetention = FALSE
  MaxTime = 2
  MaxVersion = 3
INVARIANTS TypeOK WebhookMirror
PROPERTY HooksFollow
CHECK_DEADLOCK FALSE
