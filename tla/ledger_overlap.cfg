CONSTANTS
  t1 = t1  t2 = t2  t3 = t3  k1 = k1  k2 = k2  k3 = k3  g1 = g1  c1 = c1  v1 = v1
  Unset = Unset
  Blank = Blank
  Tasks = {t1, t2, t3}
  Ticks = {w1, w2}
  Keys = {k1, k2, k3}
  Groups = {g1}
  Contracts = {c1}
  Commands = {v1}
  Rank <- RankDef
  Templates <- WorktreeTemplates
  Patches <- HandPatches
  Verdicts = {}
  Deletable = {}
  RunningTimeout = 0
  RecheckInterval = 1
  RetryDelay = 1
  RecheckLimit = 1
  ExecLimit = 2
  DeathsUntil = 1
  Horizon = 2
  ClaimBound = 1
SPECIFICATION Spec
INVARIANTS TypeOK RunningKeysDisjoint GroupWithinCap
PROPERTIES ImplementsClaimBoard
CHECK_DEADLOCK FALSE
