SPECIFICATION PricesSpec
CONSTANTS
  Priority <- MCPriority
  Lags <- MCLags
  Value = {100, 103, 130, 900}
  Sane <- MCSane
  Open <- MCOpen
  StaleAfter = 0
  SustainMin = 3
  SustainSpan = 2
  AlertAfter = 2
  AlertCooldown = 2
  MadMin = 3
  RecentWindow = 4
  HistoryLimit = 2
  MaxTime = 4
  Days = 4
  FirstDay = 3
  Values = {10, 30}
  LiveValue = 10
  MaxRestated = 1
  Side = 2
  MinJudged = 2
  RecentRows = 2
  GapFillFrom = 2
INVARIANTS StepsAreDecidedInOrder NoTrapdoor SeenMeansRead MixedOnlyByLateRow
PROPERTIES WarnedFirst LoneCloseNeverStored
CHECK_DEADLOCK FALSE
