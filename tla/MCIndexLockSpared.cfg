SPECIFICATION CacheSpec
CONSTANTS
    FrontEnd = {p}
    MaxInodes = 2
    MaxLocks = 2
    MaxMints = 3
    MaxTime = 4
    MaxTroubles = 0
    MaxShared = 0
    MaxSweeps = 2
    MaxCacheCalls = 1
PROPERTIES LockedIsSpared
CHECK_DEADLOCK FALSE
