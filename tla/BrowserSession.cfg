SPECIFICATION SpecFair
CONSTANTS
  Requests = {r1, r2}
  Servers = {v1}
  Home <- OneServer
  NoOne = NoOne
  Lease = 2
  Margin = 1
  Leeway = 1
  MaxHold = 1
  TokenLife = 2
  SessionLife = 4
  Idle = 4
  KeysFresh = 3
  KeysBackoff = 1
  Tries = 2
  MaxFailures = 1
  MaxTime = 3
PROPERTY SessionKept NoResurrection RequestsReturn
CHECK_DEADLOCK FALSE
