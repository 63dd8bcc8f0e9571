CONSTANTS
  r1 = r1  r2 = r2  j1 = j1  a1 = a1
  Unset = Unset
  Requests = {r1, r2}
  AgentTasks = {j1}
  Actions = {a1}
  TaskOf <- TaskDef
  ActionOf <- ActionDef
  Faults = {r1, r2}
  Restarts = TRUE
SPECIFICATION Spec
INVARIANTS TypeOK LookupIsFresh CallsAreAnnounced EventsMatchAnswers
PROPERTIES SpentIsRefused EveryRunEnds
CHECK_DEADLOCK FALSE
