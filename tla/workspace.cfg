SPECIFICATION FairSpec
CONSTANTS
    Pages = {"workflow", "detail", "servers"}
    Rows = {r1, r2}
    Contents = {good, bad}
    Bad = bad
    NoRow = NoRow
    Templates = {r2}
    Servers = {s1}
    NoServer = NoServer
    Handoffs = {"none", "server", "preview", "edit"}
    MaxOthers = 1
    MaxLoads = 1
    MaxActs = 3
INVARIANT WorkspaceTypeOK
INVARIANT EditsGoHome
 
PROPERTY NoRolloutOverFailure
PROPERTY ListSettles
PROPERTY ReadyByItsOwnCheck
CHECK_DEADLOCK FALSE
