CONSTANTS
  online = online
  cod = cod
  w1 = w1
  w2 = w2
  t1 = t1
  t2 = t2
  t3 = t3
  t4 = t4
  t5 = t5
  NoToken = NoToken
  Sessions = {cod}
  CodSessions = {cod}
  Workers = {w1, w2}
  Tokens = {t1, t2, t3, t4}
  BatchSize = 2
  MaxDeliveryAttempts = 2
  MaxReadbackAttempts = 2
  MaxFaults = 1
  MaxOperatorActions = 1
SPECIFICATION Spec
SYMMETRY Symmetry
INVARIANTS
  SentAgreesWithWlt
PROPERTIES
  RowsFenced
  ReleasesAsPromised
CHECK_DEADLOCK FALSE
