\* Every kind of failure, in overlapping calls; then the service is back.
CONSTANTS
  c1 = c1
  c2 = c2
  c3 = c3
  Callers = {c1, c2, c3}
  Threshold = 2
  MaxAttempts = 2
  Faults = {"transient", "permanent", "cancelled"}
  MaxFaults = 8
SPECIFICATION FairSpec
CHECK_DEADLOCK FALSE
INVARIANTS ClosedBelowThreshold HalfOpenIsProbed
PROPERTIES Recovers
