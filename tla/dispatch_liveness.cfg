SPECIFICATION FairSpec
CONSTANTS
    Nodes = {n1}
    Services <- WebServices
    Deployments <- OneDeployment
    Rollbacks = {}
    ServiceOf <- AllWeb
    Ops = {"o1"}
    OpKinds = {"restart", "qualify", "cleanup"}
    MaxConnections = 2
    MaxMishaps = 0
    MaxCrashes = 0
    MaxTroubles = 0
    MaxRestarts = 1
    MaxUnread = 1
INVARIANTS
    MaintenanceAlone
PROPERTIES
    Ends
CHECK_DEADLOCK FALSE
