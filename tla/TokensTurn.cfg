SPECIFICATION Spec
CONSTANTS
    Tasks = {cli, child}
    CliTasks = {cli}
    WebTasks = {}
    Sessions = {s1}
    Ephemeral = Ephemeral
    NoSession = NoSession
    Callers = {s1}
    textC = textC
    textA = textA
    textB = textB
    textShort = textShort
    Texts = {textA, textB, textShort}
    Length <- MCLength
    Fields = {"note"}
    MinimumLength = 1
    CharacterLimit = 1
    Refs = {1, 2, 3}
    NoRef = 0
    SavesFail = TRUE
    MaxClock = 2
    MaxNumber = 2
VIEW LiveView
SYMMETRY Alike
CHECK_DEADLOCK FALSE
INVARIANTS TypeOK IssuedTokensKeepTheirText IssuedTokensAreKept IssuedTokensAreShown
