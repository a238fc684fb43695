SPECIFICATION Spec
CONSTANTS
    Caller = {c1, c2}
    Consumer = k
    Nobody = nobody
    Mixes = {{"consume", "note"}, {"helper"}, {"repeat", "expire"}, {"junk"}, {"exit"}, {"cancel"}, {"startup"}}
    OutCap = 1
    PipeCap = 1
    InCap = 1
    PeerCap = 1
    Retained = 2
    MaxNotes = 1
    Kinds = {"tool", "git", "github"}
    Company = {{"helper"}, {"escaped"}}
    MaxSaid <- SaidBound
    Noisy = {"escaped"}
    MaxAsked = 1
    PipeSize = 1
    QueueSize = 1
    MaxForward = 1
    ReadsAfterStop = 2
    ArtifactLimit = 1
    OutputLimit = 1
INVARIANTS HealthyKept ChildTrue
PROPERTIES AllReturn
CHECK_DEADLOCK FALSE
