SPECIFICATION Spec
CHECK_DEADLOCK FALSE
CONSTANTS
    coordinator = coordinator
    specialist = specialist
    Coordinator = coordinator
    Specialists = {specialist}
    Options <- CommandLines
    Deltas <- Cuts
    Replies <- Wholes
    MaxEvents = 6
INVARIANTS
    TypeOK
    LinesKeepApart
    PrintedIsRecorded
    SessionsAreClosed
PROPERTIES
    AnswersAreShownWhole
    LimitedTurnsEnd
