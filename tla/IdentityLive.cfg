CONSTANTS
  s1 = s1
  s2 = s2
  e1 = e1
  None = None
  Sessions = {s1}
  Enders = {}
  MaxGen = 2
  MaxFaults = 1
  MaxRestarts = 1
SPECIFICATION FairSpec
PROPERTIES
  LoadingEnds
CHECK_DEADLOCK FALSE
