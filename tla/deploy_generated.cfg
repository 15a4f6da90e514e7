SPECIFICATION Spec
CONSTANTS
    Requests = {r1, r2, r3}
    Users = {admin}
    Admins = {admin}
    Names = {}
    Ports = {}
    Servers = {s1}
    Hosts = {h1, h2}
    Local = local
    MaxDeployments = 3
    Faults = {"runtime"}
    NoRow = NoRow
    NoContainer = NoContainer
    NoHost = NoHost
    NoName = NoName
    NoPort = NoPort
    NoRequest = NoRequest
SYMMETRY HostSymmetry
INVARIANT NoOrphanContainer
PROPERTY RemovesOnlyItsOwn
PROPERTY ImplementsLifecycle
