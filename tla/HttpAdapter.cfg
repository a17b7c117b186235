SPECIFICATION AdapterSpec
CONSTANTS
  Clients = {a}
  Other = Other
  Outer = Outer
  Inner = Inner
  Ips <- SmallIps
  Proxies <- SmallProxies
  EntryPoints = {1, 3}
  Prefixes <- SmallPrefixes
  AuthHeaders <- SmallHeaders
  ApiKey <- SmallKey
  TrustProxy = TRUE
  TrustedHops = 2
  ByteValues = 4
  MaxFailures = 1
  AuthWindow = 1
  MaxRpm = 1
  Minute = 1
  MaxTracked = 2
  TicksPerSecond = 1
  Threads = {t1, t2}
  RequireAuth = TRUE
  MaxRequests = 2
  MaxClock = 1
  Bodies <- SmallBodies
  Catalog = {"ar_male"}
  MaxInputChars = 2
  MaxBodyBytes = 4
  Absent = Absent
  WrongType = WrongType
  MaxIds = 2
SYMMETRY AdapterSymmetry
INVARIANTS
  AdapterTypeOK
  ClientIdentified
  OneIdPerRequest
  OnlyKeyHolders
  
CHECK_DEADLOCK FALSE
