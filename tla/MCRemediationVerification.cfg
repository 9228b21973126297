\* Two callers, two deployments, four signals, of which a query hides one.
CONSTANTS
  c1 = c1
  c2 = c2
  odd = odd
  norev = norev
  NoRevision = norev
  Callers = {c1, c2}
  Deployments <- MCDeployments
  Signals <- MCSignals
  Types <- MCTypes
  Window = 4
  MinEvidence = 1
  MaxSignals = 2
  Threshold = 500
  MaxCalls = 3
  MaxFaults = 1
SPECIFICATION Spec
CHECK_DEADLOCK FALSE
INVARIANTS OneOutcome OutcomeIsEarned MirrorIsTrue
 
