CONSTANTS
  k1 = k1
  k2 = k2
  Keys = {k1, k2}
  MaxCrashes = 1
  MaxLate = 1
  MaxStale = 1
SPECIFICATION Spec
SYMMETRY Symmetry
INVARIANTS
  CapturedIsReal
  OneCaseWhenUnknown
  PendingBacked
  NoLostCapture
PROPERTIES
  DecidedOnce
  StatusFollowsCourse
  NoSecondAuthorization
  CaptureOnce
CHECK_DEADLOCK FALSE
