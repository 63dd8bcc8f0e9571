CONSTANTS
  t1 = t1  t2 = t2  t3 = t3  k1 = k1  k2 = k2  k3 = k3  g1 = g1  c1 = c1  v1 = v1
  Unset = Unset
  Blank = Blank
  Tasks = {t1, t2}
  Ticks = {w1, w2}
  Keys = {k1}
  Groups = {g1}
  Contracts = {c1}
  Commands = {v1}
  Rank <- RankDef
  Templates <- LastChanceTemplates
  Patches <- NoPatches
  Verdicts = {}
  Deletable = {}
  RunningTimeout = 2
  RecheckInterval = 1
  RetryDelay = 1
  RecheckLimit = 1
  ExecLimit = 1
  DeathsUntil = 2
  Horizon = 5
  ClaimBound = 10
SPECIFICATION FairSpec
INVARIANTS LiveRunIsRunning LiveRunsDisjoint AttemptsWithinLimit
PROPERTIES ReadySettles StaleRunReclaimed
CHECK_DEADLOCK FALSE
