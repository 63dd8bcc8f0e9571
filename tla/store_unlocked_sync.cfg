CONSTANTS
  Clients = {p1}
  Syncers = {s1}
  MaxCalls = 1
  MaxRetries = 1
  Faults = FALSE
SPECIFICATION Spec
INVARIANTS ReturnedIsKept
CHECK_DEADLOCK FALSE
