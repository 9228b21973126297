CONSTANTS
  Top = Top
  None = None
  Duplicate = Duplicate
  NotFound = NotFound
  Conflict = Conflict
  Workflows = {1, 2}
  Ids = {1, 2, 3}
  KeyOf <- MCKeyOf
  KindOf <- MCKindOf
  TimeOf <- MCTimeOf
  Statuses = {"s", "t"}
  MaxVersion = 3
  MaxDocs = 3
  Nobody = Nobody
  Missing = Missing
  Unasked = Unasked
  Refused = Refused
  Failed = Failed
  Corpora <- MCCorpora
  Requests <- MCRequests
  Freshness = TRUE
  TopK = 2
  MaxContextItems = 3
  MinRelevance = 30
SPECIFICATION Spec
INVARIANTS SameAnswers ReadsAgree RelevanceLeads AnswerGrounded
CHECK_DEADLOCK FALSE
