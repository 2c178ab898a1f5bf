CONSTANTS
  a1 = a1
  a2 = a2
  c1 = c1
  c2 = c2
  d1 = d1
  d2 = d2
  i1 = i1
  i2 = i2
  None = None
  Actors = {a1, a2}
  Captures = {c1, c2}
  Drains = {d1}
  Intents = {i1}
  Located = {i1}
  MaxAttempts = 1
  Capacity = 2
  MaxFaults = 1
  MaxLogins = 2
SYMMETRY Symmetry
SPECIFICATION Spec
INVARIANTS
  SyncedForItsAgent
  SavedWorkKept
  OneOperationPerIntent
PROPERTIES
  NotDeliveredBlindly
CHECK_DEADLOCK FALSE
