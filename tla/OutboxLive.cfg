CONSTANTS
  online = online
  cod = cod
  w1 = w1
  w2 = w2
  t1 = t1
  t2 = t2
  t3 = t3
  t4 = t4
  t5 = t5
  NoToken = NoToken
  Sessions = {online}
  CodSessions = {}
  Workers = {w1}
  Tokens = {t1, t2, t3}
  BatchSize = 2
  MaxDeliveryAttempts = 2
  MaxReadbackAttempts = 2
  MaxFaults = 1
  MaxOperatorActions = 1
SPECIFICATION FairSpec
INVARIANTS
  CancelledCaptureRefunded
  RefundOnlyForCancelled
  ClosureLostOnlyToRelease
PROPERTIES
  EveryClosureSettles
  UnknownReadBeforeRetry
CHECK_DEADLOCK FALSE
