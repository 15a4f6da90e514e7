SPECIFICATION FairSpec
CONSTANTS
    Ptys = {p1, p2, p3}
    Conns = {c1, c2}
    MaxOutput = 1
    MaxBuffer = 2
    MaxSnapshot = 1
    TuiChunks = {1}
    SpawnFails = FALSE
    Pages = {"console", "phone", "desktop"}
    MaxFetches <- Fetches
    MaxTyped = 3
    QueueLimit = 2
    NoPty = NoPty
    NoConn = NoConn
INVARIANT SessionIsNotGone
INVARIANT TypedInOrder
PROPERTY ConsoleRecovers
PROPERTY Reconnects
PROPERTY QueueDrains
