SPECIFICATION Spec
CONSTANTS
    Receiver = {r1}
    Capacity = 1
    PageLimit = 1
    MaxEvents = 3
    Origins = {"own", "historic", "foreign"}
    MayFailStore = TRUE
    u1 = u1
    Run = {u1}
    NoRun = NoRun
    Tick <- MCTick
    MaxSelect = 2
    Recorded = 1
    MaxLogged = 3
    MaxReads = 1
    PageSize = 1
    MaxRows = 2
    LiveCapacity = 1
    MayFailRead = TRUE
INVARIANTS DeliveryFaithful TimelineTrue
PROPERTIES StreamSettles
CHECK_DEADLOCK FALSE
