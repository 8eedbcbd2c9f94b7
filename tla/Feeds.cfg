SPECIFICATION FairSpec
CONSTANTS
  p1 = p1  p2 = p2  m1 = m1  m2 = m2  a = a  b = b
  art1 = art1  u = u  v = v  i1 = i1  c1 = c1  c2 = c2  x = x  y = y  on = on
  Nil = Nil
  Pass = {p1}
  Period = {m1, m2}
  Value = {a, b}
  Edition = {0, 1, 2, 3}
  Content <- MCContent
  MonthEnd <- MCMonthEnd
  MaxPosts = 5
  LastEdition = 4
  Published = {1, 3}
  Figures = {1}
  NoFile = NoFile
  AllowOlder = {FALSE, TRUE}
  MaxDay = 3
  MaxSaves = 1
  MaxPrints = 3
  MaxCbiKills = 1
  Interval = 1
  Trip = 1
  BaseCooldown = 1
  MaxCooldown = 2
  MaxFailures = 2
  Article = {art1}
  Wording = {u, v}
  Absent = Absent
  Ingest = {i1}
  Collect = {c1}
  MaxEdits = 1
  MaxFedKills = 1
  Entry = {x, y}
  State = {on}
  NotListed = NotListed
  Collector = {c1, c2}
  MaxListings = 2
  MaxReceived = 3
  MaxSdnKills = 1
  Queries = 2
  Url = {u}
  Requester = {c1, c2}
  Gap = 2
  MaxAttempts = 2
  home = home  mirror = mirror  elsewhere = elsewhere
  Host = {home, mirror, elsewhere}
  Approved = {home, mirror}
  MaxRedirects = 1
  MaxTries = 2
  WireCap = 1
  DecodedCap = 5
  RatioFloor = 3
  RatioCap = 3
  Chunks <- MCChunks
  MaxDepth = 1
  Documents <- MCDocuments
  h1 = h1  h2 = h2
  Quarters <- MCQuarters
  FirstExcel <- MCFirstExcel
  SeriesOrder <- MCSeriesOrder
  Strict = {"CBI_LIQUIDITY"}
  Payloads <- MCPayloads
  ExcelEditions <- MCEditions
  Poster = {h1, h2}
  NoPayload = NoPayload
  MaxHistoryPosts = 3
INVARIANTS
  EditionOrder
  NoneLockedOut
  StampInOrder
  ReportedHappened
  ChangesReported
  CredentialsStayHome
  DepthIsNesting
  PostsAreWhole
  OneSourcePerMonth
PROPERTIES
  RequestsSpaced
  SourceNeverAbandoned
CHECK_DEADLOCK FALSE
