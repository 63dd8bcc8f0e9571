CONSTANTS
  main = main  worker = worker  rm = rm  rw = rw  ma = ma  wa = wa  wb = wb
  All = All
  None = None
  Ids = {main, worker}
  Runners = {rm, rw}
  IdOf <- IdDef
  Conns = {ma, wa, wb}
  OwnerOf <- OwnerDef
  Responses <- ResponsesDef
  WsQueueMax = 2
  WsReconnectMaxAttempts = 1
  SayBound <- SayDef
  Breakable = {wa}
SPECIFICATION FairSpec
INVARIANTS TransportTypeOK HeardInOrder MapFollowsConnections
PROPERTIES RunnerBecomesReachable RetriesEnd
CHECK_DEADLOCK FALSE
