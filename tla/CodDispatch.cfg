CONSTANTS
  None = None
  Captains = {c1, c2}
  Offers = {o1, o2}
  Requests = {r1, r2}
  Keys = {k1}
  Workers = {w1, w2}
  MaxReadbacks = 2
  MaxFaults = 1
SPECIFICATION Spec
SYMMETRY Symmetry
INVARIANTS FundedUntilRelease ReservationExplained DebitedIsDeliverer SentIsFinalized FailureExplained
PROPERTIES ReleaseAsPromised CustodyKept
CHECK_DEADLOCK FALSE
