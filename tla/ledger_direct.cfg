CONSTANTS
  t1 = t1  t2 = t2  t3 = t3  k1 = k1  k2 = k2  k3 = k3  g1 = g1  c1 = c1  v1 = v1
  Unset = Unset
  Blank = Blank
  Tasks = {t1}
  Ticks = {w1}
  Keys = {k1}
  Groups = {g1}
  Contracts = {c1}
  Commands = {v1}
  Rank <- RankDef
  Templates <- EvidenceTemplates
  Patches <- StatusPatches
  Verdicts = {}
  Deletable = {}
  RunningTimeout = 1
  RecheckInterval = 1
  RetryDelay = 1
  RecheckLimit = 1
  ExecLimit = 1
  DeathsUntil = 0
  Horizon = 2
  ClaimBound = 2
SPECIFICATION Spec
PROPERTIES CompletionHasEvidence
CHECK_DEADLOCK FALSE
