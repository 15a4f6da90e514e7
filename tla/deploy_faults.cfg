SPECIFICATION Spec
CONSTANTS
    Requests = {r1, r2, r3}
    Users = {admin}
    Admins = {admin}
    Names = {n1}
    Ports = {}
    Servers = {}
    Hosts = {h1}
    Local = local
    MaxDeployments = 3
    Faults = {"runtime", "timeout", "late", "db", "crash"}
    NoRow = NoRow
    NoContainer = NoContainer
    NoHost = NoHost
    NoName = NoName
    NoPort = NoPort
    NoRequest = NoRequest
SYMMETRY RequestSymmetry
INVARIANT TypeOK
INVARIANT NoOrphanContainer
INVARIANT OneContainerPerDeployment
INVARIANT RunningNamesTheContainer
INVARIANT NothingLoggedAboutTheDead
