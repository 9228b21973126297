\* Four runs of any agents, two faults.
CONSTANTS
  t1 = t1
  t2 = t2
  f1 = f1
  f2 = f2
  Tasks = {t1, t2}
  Files = {f1, f2}
  MaxRuns = 4
  MaxFaults = 2
SPECIFICATION Spec
CHECK_DEADLOCK FALSE
INVARIANTS CompletedIsDone OnlyFaultsLeaveTraces LeftoversAreRetries
