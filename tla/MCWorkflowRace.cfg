\* Two requests race on a workflow that is about to test its code, which is also
\* retried by hand and remediated.
CONSTANTS
  e1 = e1
  e2 = e2
  i1 = i1
  r1 = r1
  Executors = {e1, e2}
  Instances = {i1}
  Host <- OnOneInstance
  MaxRetries <- OneRetry
  CallSizes = {1}
  TestFailures <- RaceTestFailures
  DeployFailures <- BuildFailure
  Proposals <- RashProposals
  Resolutions = {r1}
  Strategies = {"CODE_FIX"}
  MaxCalls = 3
  MaxReopens = 1
  MaxDisturbances = 2
SPECIFICATION SpecAtTesting
CHECK_DEADLOCK FALSE
INVARIANTS RetryBudget EvidenceSound Provenance
PROPERTIES NothingLost StageMovesLegal ResultsReviveNothing EscalationsRecorded MovedOnByEvidence
SYMMETRY Requests
