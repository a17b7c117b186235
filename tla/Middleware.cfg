SPECIFICATION MiddlewareSpec
CONSTANTS
  Ips = {a, b}
  Clients = {a, b}
  Proxies <- NoProxies
  EntryPoints = {1}
  Prefixes <- NoPrefix
  AuthHeaders <- SmallHeaders
  ApiKey <- SmallKey
  TrustProxy = FALSE
  TrustedHops = 1
  ByteValues = 256
  MaxFailures = 1
  AuthWindow = 2
  MaxRpm = 2
  Minute = 2
  MaxTracked = 1
  TicksPerSecond = 2
  Threads = {t1, t2}
  RequireAuth = TRUE
  MaxRequests = 5
  MaxClock = 5
SYMMETRY MiddlewareSymmetry
INVARIANTS
  MiddlewareTypeOK
  FailuresBounded
  BlockedForCause
  RetryHonest
  TwoWindowBound
CHECK_DEADLOCK FALSE
