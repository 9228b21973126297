\* One undisturbed /run with the default budgets and every kind of failure.
CONSTANTS
  e1 = e1
  e2 = e2
  i1 = i1
  r1 = r1
  Executors = {e1}
  Instances = {i1}
  Host <- OnOneInstance
  MaxRetries <- DefaultRetries
  CallSizes = {20}
  TestFailures <- AllTestFailures
  DeployFailures <- AllDeployFailures
  Proposals <- CautiousProposals
  Resolutions = {}
  Strategies = {}
  MaxCalls = 1
  MaxReopens = 0
  MaxDisturbances = 0
SPECIFICATION FairSpec
CHECK_DEADLOCK FALSE
INVARIANTS TestedTree
PROPERTIES RunEndsWorkflow
