SPECIFICATION MCSpec
CONSTANTS
  alpha = alpha
  beta = beta
  padded = padded
  long = long
  blank = blank
  json = json
  list = list
  text = text
  http = http
  slash = slash
  https = https
  ftp = ftp
  r0 = r0
  r1 = r1
  r2 = r2
  r3 = r3
  s1 = s1
  s2 = s2
  b1 = b1
  b2 = b2
  b3 = b3
  p1 = p1
  p2 = p2
  p3 = p3
  home = home
  away = away
  n1 = n1
  n2 = n2
  secret = secret
  renewed = renewed
  Trim <- MCTrim
  Blank = blank
  TooLong = {long}
  JsonValue <- MCJsonValue
  Malformed = Malformed
  JsonObject = {json}
  BaseUrl <- MCBaseUrl
  NotBase = NotBase
  MinInterval = 50
  None = None
  RunId = {r0, r1, r2, r3}
  Caller = {c1, c2}
  Hierarchies <- MCHierarchies
  FreshRun <- MCFreshRun
  FreshSource <- MCFreshSource
  Configurations <- MCConfigurations
  Registrations <- MCRegistrations
  RunTargets = {"failed"}
  SourceTargets = {"draining", "active"}
  ConfigText = {json, text}
  MaxConcurrency = 1
  MaxFaults = 1
  MaxBoots = 2
  Password = {secret, renewed}
  Nonce = {n1, n2}
  Garbage = Garbage
  Nil = Nil
  Browser = {b1, b2, b3}
  PeerOf <- MCPeerOf
  Peer = {p1, p2, p3}
  Policies <- MCPolicies
  Requests <- MCRequests
  FreshNonce <- MCFreshNonce
  SessionLife = 1
  MaxSessions = 1
  AttemptWindow = 2
  MaxAttempts = 2
  MaxPeers = 2
  MaxConnections = 1
  MaxMessages = 1
  MaxTime = 5
  MaxStarts = 2
  LastingTime = 1
CHECK_DEADLOCK FALSE
INVARIANTS
  EverySourceHasOnePlace
  EndedRunsAreSettled
  EnsureIsIdempotent
  AnsweredWhileActive
  NothingOutlivesShutdown
  ThrottleHolds
PROPERTIES
  SessionsEndForCause
