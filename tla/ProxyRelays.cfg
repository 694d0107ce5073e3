SPECIFICATION TcpFairSpec
CHECK_DEADLOCK FALSE
CONSTANTS
    talks = talks
    idles = idles
    Conns = {talks, idles}
    Active = {talks}
    MaxChunks <- TwoChunks
    Buffer = 1
INVARIANTS
    StreamsArriveWhole
PROPERTIES
    StopEndsRelays
    ConnectionsEnd
