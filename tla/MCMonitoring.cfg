SPECIFICATION Spec
CHECK_DEADLOCK FALSE
CONSTANTS
  r1 = r1  r2 = r2
  Missing = Missing  Null = Null  Garbled = Garbled  Malformed = Malformed  Odd = Odd
  Nothing = Nothing  Everything = "environment"
  Runs = {r1}
  Inputs <- AnyInput
  Notifications <- AllNotifications
  Entries <- TwoEntries
  Counts = {0, 1}
  Warning = 5
  Critical = 60
  LogLimit = 2
  MaxReceived = 1
  MaxTime = 1
  MaxFaults = 2
INVARIANTS ReportIsEvidence StatusIsHonest
