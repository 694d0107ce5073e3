SPECIFICATION Spec
CONSTANTS
    Tasks = {cli, child}
    CliTasks = {cli}
    WebTasks = {}
    Sessions = {s1}
    Ephemeral = Ephemeral
    NoSession = NoSession
    Callers = {s1}
    textC = textC
    textA = textA
    textB = textB
    textShort = textShort
    Texts = {textA, textB, textC}
    Length <- MCLength
    Fields = {}
    MinimumLength = 1
    CharacterLimit = 2
    Refs = {1, 2, 3}
    NoRef = 0
    SavesFail = FALSE
    MaxClock = 2
    MaxNumber = 2
VIEW LiveView
CHECK_DEADLOCK FALSE
INVARIANT SessionWithinCharacterLimit
