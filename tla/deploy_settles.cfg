SPECIFICATION FairSpec
CONSTANTS
    Requests = {r1, r2}
    Users = {admin, member}
    Admins = {admin}
    Names = {}
    Ports = {p1}
    Servers = {s1}
    Hosts = {h1, h2}
    Local = local
    MaxDeployments = 1
    Faults = {}
    NoRow = NoRow
    NoContainer = NoContainer
    NoHost = NoHost
    NoName = NoName
    NoPort = NoPort
    NoRequest = NoRequest
INVARIANT RunningIsBacked
PROPERTY PendingSettles
