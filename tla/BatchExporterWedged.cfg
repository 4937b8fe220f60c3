SPECIFICATION SpecFair
CONSTANTS
  Runs = {r1, r2, r3}
  NoRun = NoRun
  Size <- UnitSize
  BatchSize = 1
  MaxQueueSize = 4
  MaxQueueBytes = 4
  MaxSpoolBytes = 4
  MaxAttempts = 1
  Answers = {"stored"}
  MaxCalls = 1
  MaxFailures = 0
PROPERTY AcceptedDelivered
CHECK_DEADLOCK FALSE
