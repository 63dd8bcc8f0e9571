CONSTANTS
  t1 = t1  t2 = t2  k1 = k1  g1 = g1  c1 = c1  v1 = v1
  Unset = Unset
  Blank = Blank
  Tasks = {t1}
  Ticks = {w1}
  Keys = {k1}
  Groups = {g1}
  Contracts = {c1}
  Commands = {v1}
  Rank <- RankDef
  Templates <- MixedTemplates
  Patches <- RequeuePatches
  Edits <- EditsDef
  Verdicts = {}
  Deletable = {t1}
  RunningTimeout = 0
  RecheckInterval = 2
  RetryDelay = 0
  RecheckLimit = 1
  ExecLimit = 1
  DeathsUntil = 1
  Horizon = 2
  ClaimBound = 2
SPECIFICATION DesktopSpec
INVARIANTS RunningWasClaimed
PROPERTIES CompletionIsGated
CHECK_DEADLOCK FALSE
