SPECIFICATION Spec
CONSTANTS
    Nodes = {n1}
    Services <- WebServices
    Deployments <- OneDeployment
    Rollbacks = {}
    ServiceOf <- AllWeb
    Ops = {"o1"}
    OpKinds = {"cleanup"}
    MaxConnections = 2
    MaxMishaps = 0
    MaxCrashes = 0
    MaxTroubles = 0
    MaxRestarts = 0
    MaxUnread = 1
INVARIANTS
    MaintenanceExcludes
CHECK_DEADLOCK FALSE
