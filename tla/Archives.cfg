SPECIFICATION Spec
CONSTANTS
  i1 = i1  i2 = i2  s1 = s1  s2 = s2  r1 = r1
  MinCompared = 2
  RecentOverlap = 2
  Sessions = 3
  Prices = {0, 1}
  Ingester = {i1, i2}
  MaxIngests = 3
  MaxDiffer = 1
  MaxSession = 0
  MaxReopening = 1
  Missing = Missing
  IndexDays = 3
  FirstListed = 2
  Decades = {0, 1}
  Levels = {0, 1}
  IndexDiffer = 2
  Handler = {i1, i2}
  MaxPosts = 2
  MaxExp = 3
  NoValue = NoValue
  Share = {s1, s2}
  Seeded = {s1}
  LastDay = 3
  StartDay = 3
  Histories = {{1, 2, 3}}
  Misstated <- MCMisstated
  Floors = {2}
  FlowOverlap = 1
  DayOverlap = 0
  MinShares = 1
  GuardMin = 2
  TradedSessions = 1
  RunTicks = 1
  Runner = {r1}
  MaxRuns = 2
  FundDays = 3
  FundLists <- MCFundLists
  FundHandler = {i1, i2}
  MaxFundPosts = 2
  Rounding = 1
  NoClose = NoClose
INVARIANTS
  NoUnmadeStep
  FactorsChainBars
  ValidatedIsOnScale
  NoForwardStep
  OwedIsAsked
PROPERTIES
  CleanRunStoresAll
CHECK_DEADLOCK FALSE
