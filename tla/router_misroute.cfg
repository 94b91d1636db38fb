SPECIFICATION Spec
CONSTANTS
    web = web
    api = api
    w1 = w1
    w2 = w2
    a1 = a1
    NoRoute = NoRoute
    Absent = Absent
    Services = {web, api}
    Deployments = {w1, w2, a1}
    Ports = {1, 2, 3}
    ServiceOf <- MCServiceOf
    HostPort <- MCHostPort
    Stateful = {}
    MaxDeliveries = 1
    MaxRestarts = 0
    MaxCrashes = 0
    MaxReboots = 1
    MaxDrops = 0
    MaxFaults = 0
    MaxMishaps = 1
    MaxTroubles = 1
CHECK_DEADLOCK FALSE
PROPERTIES
    RecoveredReaches
