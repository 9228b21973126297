\* Requests race on reviews from creation to workflow.
CONSTANTS
  e1 = e1
  e2 = e2
  e3 = e3
  Executors = {e1, e2, e3}
  Detections = {1}
  MaxAttempts = 2
  Faults = {"down", "unanswered", "refused"}
  MaxReviews = 2
  MaxRequests = 6
  MaxFaults = 2
  MaxCrashes = 1
  MaxVersion = 2
SPECIFICATION Spec
CHECK_DEADLOCK FALSE
INVARIANTS TicketsReal AnswersAgree WorkflowsOwned
PROPERTIES DecisionsFinal
SYMMETRY Callers
