SPECIFICATION AgentSpec
CONSTANTS
    AgentCaller = {p, q}
    Command = {x}
    Digest = {d1, d2}
    Scope = {"global"}
    MaxCalls = 5
    MaxSwaps = 1
PROPERTIES NewerGrantKept
CHECK_DEADLOCK FALSE
