CONSTANTS
  r1 = r1  r2 = r2  r3 = r3  r4 = r4  s1 = s1  j1 = j1  j2 = j2  j3 = j3  j4 = j4
  None = None
  Managed = Managed
  Runs = {r1, r2, r3, r4}
  Jobs = {j1, j2, j3, j4}
  JobOf <- OwnJobs
  Sessions = {s1}
  SessionOf <- TwoInSession
  MaxConcurrentJobs = 2
  MaxAccounts = 2
  MaxLinks = 2
  MaxStarts = 2
  DiskFaults = TRUE
SPECIFICATION Spec
INVARIANTS BridgeTypeOK SessionExclusive RunIsCancellable ConcurrencyKept ResultNotLost
CHECK_DEADLOCK FALSE
