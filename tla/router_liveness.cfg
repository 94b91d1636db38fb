SPECIFICATION FairSpec
CONSTANTS
    web = web
    api = api
    w1 = w1
    w2 = w2
    a1 = a1
    NoRoute = NoRoute
    Absent = Absent
    Services = {web, api}
    Deployments = {w1, w2, a1}
    Ports = {1, 2, 3}
    ServiceOf <- MCServiceOf
    HostPort <- MCSharedPort
    Stateful = {web}
    MaxDeliveries = 2
    MaxRestarts = 1
    MaxCrashes = 1
    MaxReboots = 0
    MaxDrops = 1
    MaxFaults = 1
    MaxMishaps = 1
    MaxTroubles = 3
INVARIANTS
    BackendsApart
PROPERTIES
    Finishes
CHECK_DEADLOCK FALSE
