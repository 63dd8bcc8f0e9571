CONSTANTS
  Clients = {p1, p2, p3}
  Syncers = {}
  MaxCalls = 2
  MaxRetries = 1
  Faults = TRUE
SPECIFICATION FairSpec
INVARIANTS TypeOK OneHolder ReturnedIsKept
PROPERTIES ImplementsAtomicStore EveryCallEnds
CHECK_DEADLOCK FALSE
