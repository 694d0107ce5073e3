SPECIFICATION Spec
CHECK_DEADLOCK FALSE
CONSTANTS
    coordinator = coordinator
    specialist = specialist
    Coordinator = coordinator
    Specialists = {specialist}
    Options <- CommandLines
    Deltas <- Cuts
    Replies <- Wholes
    MaxEvents = 2
PROPERTIES
    InterruptsEnd
