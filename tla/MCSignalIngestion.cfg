SPECIFICATION FairSpec
CONSTANTS
  w1 = w1  w2 = w2  s1 = s1  s2 = s2  bad = bad  odd = odd
  Messages = {1, 3, 4}
  Events = {"e"}
  Nobody = 0
  Bad = bad
  Odd = odd
  Content <- MCContent
  Workers = {w1}
  Slots = {s1, s2}
  Owner <- MCOwner
  MaxPull = 2
  MaxFaults = 3
INVARIANTS CopiesBounded StoppedIsQuiet
PROPERTIES Delivery EveryMessageSettled
