SPECIFICATION FairSpec
CONSTANTS
    Pages = {"users", "requests", "restore", "views", "filters", "overview", "signin", "access", "typing"}
    Rows = {r1, r2}
    States = {"open", "closed"}
    Notes = {"plain", "other"}
    Contents <- RowContents
    FirstTables <- SomeTables
    FirstRows <- SomeRows
    Bad <- SomeContent
    NoRow = NoRow
    Templates = {}
    MaxOthers = 1
    MaxLoads = 1
    MaxActs = 2
    Bundles = {b1, b2}
    NoBundle = NoBundle
    MaxReviews = 3
    Tabs = {t1, t2}
    Names = {n1, n2, n3}
    MaxViews = 2
    MaxIds = 3
    Texts = {"", "web", "all", "newest"}
    MaxEdits = 2
    MaxRefreshes = 2
    MaxTroubles = 1
    Windows = {w1, w2}
    SignUp = TRUE
    MaxMoves = 3
    MaxFaults = 1
    Screens = {w1, w2}
    MaxSecrets = 2
    MaxSteps = 3
    Devices = {"phone", "console", "desktop"}
    MaxKeys = 3
    MaxPosts = 3
INVARIANT AdminTypeOK
INVARIANT ShowsWhatItSaved
INVARIANT OneBundle
INVARIANT ViewsAreDistinct
INVARIANT LeadsBack
INVARIANT TypedOnce
PROPERTY DraftsKept
PROPERTY ComesToRest
PROPERTY OverviewSettles
CHECK_DEADLOCK FALSE
