SPECIFICATION Spec
CONSTANTS
    Requests = {r1, r2, r3}
    Users = {admin}
    Admins = {admin}
    Names = {n1}
    Ports = {}
    Servers = {}
    Hosts = {h1}
    Local = local
    MaxDeployments = 3
    Faults = {}
    NoRow = NoRow
    NoContainer = NoContainer
    NoHost = NoHost
    NoName = NoName
    NoPort = NoPort
    NoRequest = NoRequest
SYMMETRY RequestSymmetry
PROPERTY RemovesOnlyItsOwn
