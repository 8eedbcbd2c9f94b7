SPECIFICATION JobsSpec
CONSTANTS
  a = a
  b = b
  a1 = a1
  a2 = a2
  b1 = b1
  Replica = {a, b}
  Run = {a1, a2, b1}
  Home <- MCHome
  Timeout = 2
  Grace = 1
  MaxHandlers = 2
  Nobody = Nobody
  Nil = Nil
  hourly = hourly  daily = daily  e1 = e1  e2 = e2
  Horizon = {hourly, daily}
  Daily = {daily}
  Steps <- MCSteps
  Tolerance <- MCTolerance
  Evaluator = {e1}
  QueueLimit = 1
  CalWindow = 1
  GateSamples = 1
  MinSamples = 2
  CallOf <- MCCallOf
  Settles <- MCSettles
  EnsembleAge = 1
  PredictionAge = 1
  BatchRows = 1
  MaxTime = 3
  MaxPreds = 3
  MaxKills = 1
INVARIANTS DueAreGraded
