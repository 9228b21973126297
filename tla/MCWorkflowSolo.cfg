\* One request at a time, aborted, restarted, retried by hand and remediated.
CONSTANTS
  e1 = e1
  e2 = e2
  i1 = i1
  r1 = r1
  Executors = {e1}
  Instances = {i1}
  Host <- OnOneInstance
  MaxRetries <- OneRetry
  CallSizes = {1, 20}
  TestFailures <- TwoTestFailures
  DeployFailures <- BuildFailure
  Proposals <- CautiousProposals
  Resolutions = {r1}
  Strategies = {"CODE_FIX", "RETEST", "ROLLBACK", "NO_ACTION"}
  MaxCalls = 3
  MaxReopens = 1
  MaxDisturbances = 2
SPECIFICATION Spec
CHECK_DEADLOCK FALSE
INVARIANTS LiveIsTested CompletedIsDeployed EscalationExplained
