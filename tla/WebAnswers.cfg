SPECIFICATION Spec
CHECK_DEADLOCK FALSE
CONSTANTS
    Messages = {m1, m2}
    Deltas <- Cuts
    Replies <- Wholes
    MaxPieces = 3
    MaxWire = 3
INVARIANTS
    TypeOK
    OnlyUnfinishedIsHeld
    LengthIsTrue
PROPERTIES
    ShowsWhatItPromises
    AnswersEnd
