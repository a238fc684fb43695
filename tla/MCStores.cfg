SPECIFICATION Spec
CONSTANTS
    Proc = {p1, p2}
    Id = {i1, i2}
    HomeId = home
    Home = homedir
    Remote = {r1}
    Place = {d1}
    None = none
    Works = {"import", "sweep", "drop", "add", "move", "protect", "unprotect", "discard", "tidy", "forget", "checks", "local"}
    MaxOps = 3
    MaxFaults = 1
    MaxTrouble = 2
    MaxStoreCalls = 2
    MaxCrashes = 1
    MaxMeddling = 1
    MaxStuck = 1
    Times = {1, 2, 3}
    Versions = {"v1", "v2"}
    MaxRevision = 7
    MaxApprovals = 2
    FrontEnd = {p, q}
    MaxInodes = 3
    MaxLocks = 2
    MaxMints = 3
    MaxTime = 4
    MaxTroubles = 1
    MaxShared = 1
    MaxSweeps = 2
    MaxCacheCalls = 3
    AgentCaller = {c1, c2}
    Command = {x, y}
    Digest = {d3, d4}
    Scope = {"global", "w"}
    MaxCalls = 4
    MaxSwaps = 1
INVARIANTS StoreKept NoneStuck
PROPERTIES CatalogKept RecordsKept CacheKept RegistryKept
CHECK_DEADLOCK FALSE
