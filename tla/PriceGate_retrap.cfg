SPECIFICATION Spec
CONSTANTS
  Priority <- MCSole
  Lags <- MCNoLag
  Value = {100, 110}
  Sane <- MCSane
  Open <- MCAlwaysOpen
  StaleAfter = 1
  SustainMin = 5
  SustainSpan = 3
  AlertAfter = 3
  AlertCooldown = 6
  MadMin = 5
  RecentWindow = 30
  HistoryLimit = 40
  MaxTime = 12
INVARIANTS NoRetrap
CHECK_DEADLOCK FALSE
