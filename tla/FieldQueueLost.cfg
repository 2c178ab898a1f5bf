CONSTANTS
  a1 = a1
  a2 = a2
  c1 = c1
  c2 = c2
  d1 = d1
  d2 = d2
  i1 = i1
  i2 = i2
  None = None
  Actors = {a1}
  Captures = {c1, c2}
  Drains = {d1}
  Intents = {i1, i2}
  Located = {}
  MaxAttempts = 2
  Capacity = 2
  MaxFaults = 2
  MaxLogins = 1
SPECIFICATION Spec
INVARIANTS
  SavedWorkNeverLost
CHECK_DEADLOCK FALSE
