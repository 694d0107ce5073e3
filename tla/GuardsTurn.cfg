SPECIFICATION FairSpec
CHECK_DEADLOCK FALSE
CONSTANTS
    root = root
    sub = sub
    Tasks = {root, sub}
    Root = root
    AgentOf <- OneEach
    Results = {r1, r2}
    Skipped = skipped
    MaxPattern = 2
    Runs = 2
    Limit = 20
    Reserve = 4
    Sizes = {1, 15, 16, 17}
    WrapUp = 2
    MaxCalls = 2
    MaxPartials = 2
INVARIANTS
    TypeOK
    StopsAreReported
    TasksStartClean
PROPERTIES
    ToldTasksEnd
    ToldTasksRunNoTools
