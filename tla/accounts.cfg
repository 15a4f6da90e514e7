SPECIFICATION Spec
CONSTANTS
    Calls = {c1, c2}
    Accounts0 = {boot, other}
    Bootstrap = boot
    Root = root
    Names = {root, ann}
    Upgrades = {q1}
    MaxAttempts = 1
    MaxServers = 1
    Ops = {"login", "register", "logout", "create", "update", "delete", "upgrade", "server", "fault", "restart"}
    NoUser = NoUser
    NoCall = NoCall
SYMMETRY CallSymmetry
INVARIANT AccountsTypeOK
INVARIANT AdminRemains
INVARIANT OneAccountPerName
INVARIANT SessionsOfUsers
INVARIANT FailuresBounded
INVARIANT ServersWithinPlan
PROPERTY UpdateKeepsTheRest
