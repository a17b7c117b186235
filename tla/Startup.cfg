SPECIFICATION StartupSpec
CONSTANTS
  Counts <- SmallCounts
  PoolCounts <- SmallCounts
  Strings <- SmallStrings
  IntMax = 3
  PortMax = 1
  Default <- SmallDefault
  TomlInts <- SmallTomlInts
  EnvInts <- SmallEnvInts
  Absent = Absent
  Garbage = Garbage
INVARIANTS
  StartupTypeOK
  Precedence
  KeyFromEnvironment
CHECK_DEADLOCK FALSE
