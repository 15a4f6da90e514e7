SPECIFICATION BridgeSpec
CONSTANTS
    Ptys = {p1, p2, p3, p4}
    Conns = {c1}
    MaxOutput = 2
    MaxBuffer = 2
    MaxSnapshot = 1
    TuiChunks = {}
    SpawnFails = FALSE
    NoPty = NoPty
    NoConn = NoConn
INVARIANT OneTerminal
