SPECIFICATION Spec
CHECK_DEADLOCK FALSE
CONSTANTS
    root = root
    sub = sub
    Tasks = {root, sub}
    Root = root
    AgentOf <- OneEach
    Results = {r1}
    Skipped = skipped
    MaxPattern = 1
    Runs = 2
    Limit = 20
    Reserve = 4
    Sizes = {1, 15, 16, 17}
    WrapUp = 2
    MaxCalls = 1
    MaxPartials = 1
INVARIANTS
    LaterRequestUsesTools
