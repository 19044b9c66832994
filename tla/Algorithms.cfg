SPECIFICATION MCSpec
CONSTANTS
  Paths = {1, 2, 3}
  Shots <- AllShots
  ChartRequests <- AllCharts
  Listings <- AllListings
  MaxRows = 6
  MaxObjectFields = 2
  MaxSourceFields = 2
  MaxScanRows = 3
  MaxOutputPoints = 5
  MaxWindows = 3
  MaxPageBytes = 3
  Radix = 2
  MaxInt = 3
  MaxFinite = 3
  Alphabet <- TextOrder
  Holds <- TextHolds
  Written <- TextWritten
  MaxColumns = 3
  Rules <- AllRules
  MetricSets <- AllMeasurements
  NotNumeric = NotNumeric
  Valid <- ValidExpr
  ReadsClock <- TouchesTime
  Says <- TruthIn
  Capacity = 3
  MaxRules = 2
  MaxSeries = 1
  MaxInputs = 5
  Client = {u1, u2}
  Channels <- TwoEndpoints
  Events <- ThreeEvents
  Minute = 2
  RateLimit = 1
  DedupWindow = 2
  MaxRetries = 1
  QueueSize = 1
  PendingBytes = 3
  Backoffs = {1}
  MaxEvents = 3
  LastInstant = 2
  Idle = Idle
CHECK_DEADLOCK FALSE
INVARIANTS
  AnswersAreTrueToTheStates
  WalksAreComplete
  PagesAreExact
  VerdictsReadTheHistory
  AlertsAreJustified
  DispatchIsHonest
