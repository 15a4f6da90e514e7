SPECIFICATION FairSpec
CONSTANTS
    Ptys = {p1}
    Conns = {c1, c2}
    MaxOutput = 1
    MaxBuffer = 2
    MaxSnapshot = 2
    TuiChunks = {}
    SpawnFails = FALSE
    Pages = {"phone"}
    MaxFetches <- Fetches
    MaxTyped = 0
    QueueLimit = 1
    NoPty = NoPty
    NoConn = NoConn
PROPERTY MissesNothing
