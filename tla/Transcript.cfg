SPECIFICATION Spec
CHECK_DEADLOCK FALSE
CONSTANTS
    cli = cli
    web1 = web1
    web2 = web2
    Writers = {cli, web1, web2}
    Processes = {"cli", "web"}
    Home <- ProcessOf
    Files = {f1, f2, f3, f4}
    NoFile = NoFile
    NoWriter = NoWriter
    MaxEvents = 4
SYMMETRY Alike
INVARIANTS
    TranscriptIsWhole
PROPERTIES
    LoneWritesAreCurrent
