SPECIFICATION Spec
CONSTANTS
  MaxTrainings = 3
  ReapAge = 0
  ArtifactAge = 0
  VersionAge = 1
  p1 = p1  p2 = p2
  Width <- MCWidth
  Verdict <- MCVerdict
  Slow = 1
  Warm = 1
  BucketSlack = 1
  ScanSlack = 1
  StaleBuckets = 1
  MinBuckets = 2
  WindowDays = {1}
  Prices = {1, 2}
  Histories <- MCHistories
  FirstHour = 7
  LastHour = 8
  Pass = {p1, p2}
  MaxPasses = 2
  MaxLate = 1
  Absent = Absent
  gold = gold  silver = silver
  Asset = {gold, silver}
  Forecastable = {gold}
  Reference = gold
  Boards <- MCBoards
  Bars <- MCBars
  MinFactors = 3
  TrendWeight = 10
  Assumed = 4
  SanePct = {1, 2, 3, 4}
  ScanLimit = 3
  Forecasts <- MCForecasts
  MaxSignalPasses = 1
  Lengths = {2, 6, 9}
  Horizons = {2, 3}
  Candidates <- MCCandidates
  Walks <- MCWalks
  MinTrain = 1
  MinPoints = 3
  MaxFolds = 4
  HoldoutMin = 1
  HoldoutTotal = 3
  HoldoutPct = 30
  EdgePct = 10
  MinPaired = 3
  None = None
  Undecided = Undecided
  Batches <- MCBatches
  NoTime = NoTime
  NoTitle = NoTitle
  Likeness <- MCLikeness
  TitleKeyWindow = 24
  NearWindow = 6
  EntityWindow = 3
  NearTitle = 85
  TitleFloor = 55
  EntityOverlap = 60
  SameHeadline = 95
  Dimension = {"usd_irt", "sanctions_pressure"}
  Reads <- MCReads
  Unread = Unread
  EventPool <- MCEvents
  MinWeight = 4
  FullWeight = 60
  StepNum = 1
  StepDen = 2
  IntensityStep = 2
  FreshStep = 2
  StaleAfter = 1
  FullAge = 1
  Null = Null
  Health <- MCHealth
  Versions = {1, 2}
  MaxCaptures = 2
INVARIANTS AlertedOnce ActiveHasArtifact ForecastMonotone ConfirmedOutOfSample StoriesCountOnce EvenHanded
PROPERTIES ReplaySeesNoFuture NeverUnservable
CHECK_DEADLOCK FALSE
