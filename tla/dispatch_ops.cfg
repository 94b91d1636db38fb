SPECIFICATION Spec
CONSTANTS
    Nodes = {n1}
    Services <- WebServices
    Deployments <- TwoAndRollback
    Rollbacks = {3}
    ServiceOf <- AllWeb
    Ops = {"o1"}
    OpKinds = {"restart"}
    MaxConnections = 2
    MaxMishaps = 0
    MaxCrashes = 0
    MaxTroubles = 0
    MaxRestarts = 1
    MaxUnread = 1
INVARIANTS
    RestartAlone
CHECK_DEADLOCK FALSE
