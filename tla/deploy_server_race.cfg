SPECIFICATION Spec
CONSTANTS
    Requests = {r1, r2}
    Users = {admin}
    Admins = {admin}
    Names = {}
    Ports = {}
    Servers = {s1}
    Hosts = {h1}
    Local = local
    MaxDeployments = 3
    Faults = {}
    NoRow = NoRow
    NoContainer = NoContainer
    NoHost = NoHost
    NoName = NoName
    NoPort = NoPort
    NoRequest = NoRequest
SYMMETRY RequestSymmetry
INVARIANT NoDanglingServer
