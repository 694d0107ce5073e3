SPECIFICATION Spec
CHECK_DEADLOCK FALSE
CONSTANTS
    Tiny = 3
    Short = 43
    Middle = 601
    Long = 1807
    Conversations <- AllConversations
    Instructions = {403, 2603, 3502}
    Declarations = {0, 902}
    Limits = {700, 1024, 1131}
    Reserve = 256
    MaxRequests = 3
    MinKeep = 32
    Slack = 8
    Marker = 44
    Placeholder = 33
    Notice = 52
    Title = 31
    Label = 18
    Snippet = 160
INVARIANTS
    AcceptedRequestsFit
    RepliesFit
    CallsKeepTheirResults
    NewestAreKept
    CurrentRequestIsWhole
    SectionsSurvive
PROPERTIES
    FirstTailFits
