SPECIFICATION Spec
CONSTANTS
    Tools <- TwoTools
    Descriptor <- TwoDescriptors
    Inputs <- ThreeInputs
    PolicyFiles <- ThreeFiles
    Runs = {r1}
    GateRoots = {main}
    Fronts = {cli, gui}
    MaxClock = 1
    MaxGateCalls = 2
    MaxMeddles = 2
    Paths = {1, 2}
    Opaque = {}
    Trees <- ThreeTrees
    Branches = {trunk}
    Commits <- TwoCommits
    MaxEdits = 1
    MaxChecks = 1
    Passing <- AllThere
    Outputs <- FewOutputs
    Texts <- SomeTexts
    Contexts = {1, 2}
    MaxMoves = 2
    f1 = f1
    f2 = f2
    Files <- TwoFiles
    Content = {a, x}
    Approved = a
    Patched = p
    MaxMeddling = 3
    Kinds = {"agent", "account", "workspace"}
    Values <- SomeValues
    Subjects <- SomeSubjects
    Roots = {"r1", "r2"}
    MaxDrifts = 2
    MaxDecisions = 3
    MaxUses = 1
    MaxTime = 1
    Events <- SomeEvents
    Arguments <- SomeArguments
    Stops = {"disconnected", "rate_limited"}
    MaxText = 3
    MaxArguments = 4
    MaxCalls = 2
    Capacity = 5
    MaxSteps = 6
INVARIANTS GateKept EvidenceTrue StagingTrue TurnTrue
PROPERTIES PatchTrue TrustKept
CHECK_DEADLOCK FALSE
