CONSTANTS
  t1 = t1  t2 = t2  t3 = t3  k1 = k1  k2 = k2  g1 = g1  c1 = c1  c2 = c2
  None = None
  Tasks = {t1, t2, t3}
  Clients = {c1, c2}
  CallsOf <- CallsDef
  Touched = {t2}
  Initially = {t1, t3}
  Rank <- RankDef
  KeysOf <- KeysDef
  DepsOf <- DepsDef
  GroupOf <- GroupDef
  CapOf <- CapDef
  MaxAttempts = 2
  Patches = {"pending", "waiting"}
  Added = {t2}
  NewStatuses = {"pending"}
  ClaimBound = 1
SPECIFICATION FairSpec
INVARIANTS PgTypeOK ReviewsHaveTasks SharersAreLate
PROPERTIES ImplementsClaimBoard EveryCallEnds
CHECK_DEADLOCK FALSE
