SPECIFICATION MiddlewareSpec
CONSTANTS
  Ips = {a, b}
  Clients = {a, b}
  Proxies <- NoProxies
  EntryPoints = {1}
  Prefixes <- NoPrefix
  AuthHeaders <- SmallHeaders
  ApiKey <- SmallKey
  TrustProxy = FALSE
  TrustedHops = 1
  ByteValues = 256
  MaxFailures = 1
  AuthWindow = 1
  MaxRpm = 2
  Minute = 2
  MaxTracked = 1
  TicksPerSecond = 2
  Threads = {t1, t2}
  RequireAuth = FALSE
  MaxRequests = 5
  MaxClock = 9
SYMMETRY MiddlewareSymmetry
INVARIANTS
  SlidingWindow
CHECK_DEADLOCK FALSE
