SPECIFICATION Spec
CONSTANTS
    web = web
    api = api
    w1 = w1
    w2 = w2
    a1 = a1
    NoRoute = NoRoute
    Absent = Absent
    Services = {web, api}
    Deployments = {w1, w2, a1}
    Ports = {1, 2, 3}
    ServiceOf <- MCServiceOf
    HostPort <- MCHostPort
    Stateful = {}
    MaxDeliveries = 2
    MaxRestarts = 1
    MaxCrashes = 1
    MaxReboots = 1
    MaxDrops = 1
    MaxFaults = 1
    MaxMishaps = 2
    MaxTroubles = 2
INVARIANTS
    TypeOK
    BootOnlyCommitted
    FailureIsTold
    ServedThroughout
PROPERTIES
    RefinesRouteStore
    RecoveredReachesSamePorts
CHECK_DEADLOCK FALSE
