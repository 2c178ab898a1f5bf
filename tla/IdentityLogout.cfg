CONSTANTS
  s1 = s1
  s2 = s2
  e1 = e1
  None = None
  Sessions = {s1}
  Enders = {e1}
  MaxGen = 2
  MaxFaults = 0
  MaxRestarts = 0
SPECIFICATION Spec
INVARIANTS
  EndedIsRevoked
CHECK_DEADLOCK FALSE
