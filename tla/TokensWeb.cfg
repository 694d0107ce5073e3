SPECIFICATION Spec
CONSTANTS
    Tasks = {web1, web2}
    CliTasks = {}
    WebTasks = {web1, web2}
    Sessions = {s1, s2}
    Ephemeral = Ephemeral
    NoSession = NoSession
    Callers = {s1, s2, NoSession}
    textC = textC
    textA = textA
    textB = textB
    textShort = textShort
    Texts = {textA, textB}
    Length <- MCLength
    Fields = {}
    MinimumLength = 1
    CharacterLimit = 1
    Refs = {1, 2, 3, 4, 5}
    NoRef = 0
    SavesFail = FALSE
    MaxClock = 0
    MaxNumber = 1
VIEW LiveView
SYMMETRY Alike
CHECK_DEADLOCK FALSE
INVARIANTS SessionIsolation IssuedTokensAreShown
PROPERTY RowsKeepTheirText
