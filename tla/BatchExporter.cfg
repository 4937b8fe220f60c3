SPECIFICATION SpecFair
CONSTANTS
  Runs = {r1, r2, r3}
  NoRun = NoRun
  Size <- MixedSize
  BatchSize = 2
  MaxQueueSize = 1
  MaxQueueBytes = 2
  MaxSpoolBytes = 2
  MaxAttempts = 2
  Answers = {"stored", "unanswered", "failed", "rejected"}
  MaxCalls = 2
  MaxFailures = 1
INVARIANT TypeOK AcceptedSurvives SpoolBounded QueueBounded BacklogDrained
PROPERTY ShutdownReturns
CHECK_DEADLOCK FALSE
