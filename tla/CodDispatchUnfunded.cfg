CONSTANTS
  None = None
  Captains = {c1, c2}
  Offers = {o1, o2}
  Requests = {r1, r2}
  Keys = {k1}
  Workers = {w1}
  MaxReadbacks = 2
  MaxFaults = 0
SPECIFICATION Spec
SYMMETRY Symmetry
INVARIANTS AcceptedIsFunded
CHECK_DEADLOCK FALSE
