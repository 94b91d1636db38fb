SPECIFICATION Spec
CONSTANTS
    Nodes = {n1}
    Services <- WebServices
    Deployments <- TwoDeployments
    Rollbacks = {}
    ServiceOf <- AllWeb
    Ops = {}
    OpKinds = {}
    MaxConnections = 2
    MaxMishaps = 1
    MaxCrashes = 1
    MaxTroubles = 1
    MaxRestarts = 0
    MaxUnread = 1
INVARIANTS
    Consistent
    ReadyWasRouted
PROPERTIES
    ReportedFailureIsFinal
CHECK_DEADLOCK FALSE
