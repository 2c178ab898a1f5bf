CONSTANTS
  c1 = c1
  c2 = c2
  w1 = w1
  w2 = w2
  d1 = d1
  d2 = d2
  Callers = {c1}
  Workers = {w1}
  Couriers = {d1}
  MaxAttempts = 1
  MaxTries = 1
  MaxEdits = 1
  MaxFaults = 1
SPECIFICATION FairSpec
INVARIANTS
  ConfirmedIsPaid
  CompletedIsAttached
  SentWasApplied
  OrphanNoticed
  BudgetRespected
PROPERTIES
  SettledIsFinal
  SessionAsPromised
  SagaSettles
  OutcomeReachesIntent
CHECK_DEADLOCK FALSE
