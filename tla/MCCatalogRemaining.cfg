SPECIFICATION CatalogSpec
CONSTANTS
    Proc = {p1, p2}
    Id = {i1, i2}
    HomeId = home
    Home = homedir
    Remote = {r1}
    Place = {d1, d2}
    None = none
    Works = {"add", "move", "tidy"}
    MaxOps = 5
    MaxFaults = 0
    MaxTrouble = 0
INVARIANTS RemainingSpared
CHECK_DEADLOCK FALSE
