SPECIFICATION Spec
CONSTANTS
  Writers = {w1, w2}
  Traces = {1, 2}
  Ids = {1, 2, 3}
  Exports <- MCExports
  TelemetryExports <- MCTelemetryExports
  Bad = "bad"
  MaxSpans = 2
  MaxAssemblies = 1
CONSTRAINTS
  Apart
  Brief
SYMMETRY Symmetric
CHECK_DEADLOCK FALSE
INVARIANTS
  NoPoisonedTrace
  NoOrphanSpans
  StoredIsPublished
  TelemetryCountedOnce
PROPERTY
  Implements
