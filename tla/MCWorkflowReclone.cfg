\* A FAILED workflow is retried after its workspace was reclaimed.
CONSTANTS
  e1 = e1
  e2 = e2
  i1 = i1
  r1 = r1
  Executors = {e1}
  Instances = {i1}
  Host <- OnOneInstance
  MaxRetries <- OneRetry
  CallSizes = {20}
  TestFailures <- TwoTestFailures
  DeployFailures <- BuildFailure
  Proposals <- CautiousProposals
  Resolutions = {}
  Strategies = {}
  MaxCalls = 2
  MaxReopens = 1
  MaxDisturbances = 0
SPECIFICATION Spec
CHECK_DEADLOCK FALSE
INVARIANTS TestedTree
