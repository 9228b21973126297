\* One worker process; the scopes of the service and of no service overlap.
CONSTANTS
  s1 = s1
  s2 = s2
  s3 = s3
  ghost = ghost
  none = none
  Signals = {s1, s2, s3}
  NoService = none
  Service <- MCService
  Host <- OneProcess
  Owned = {s1}
  Defect = {s1}
  MinConfidence = 75
  MinRelated = 2
  Claims <- MCClaims
  Proposals <- MCProposals
  MaxFaults = 1
SPECIFICATION FairSpec
CHECK_DEADLOCK FALSE
INVARIANTS OnePerScope Grounded
PROPERTIES EveryDetectionActedOn
