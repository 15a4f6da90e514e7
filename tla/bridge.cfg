SPECIFICATION CalmSpec
CONSTANTS
    Ptys = {p1, p2, p3, p4}
    Conns = {c1, c2}
    MaxOutput = 3
    MaxBuffer = 2
    MaxSnapshot = 1
    TuiChunks = {2}
    SpawnFails = TRUE
    NoPty = NoPty
    NoConn = NoConn
INVARIANT BridgeTypeOK
INVARIANT OneTerminal
INVARIANT NoGaps
