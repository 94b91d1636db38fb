SPECIFICATION Spec
CONSTANTS
    n1 = n1
    n2 = n2
    d1 = d1
    d2 = d2
    web = web
    Nodes = {n1}
    NoNode = NoNode
    Domains = {d1}
    Services = {web}
    ServiceOf <- AllWeb
    Placed <- OnFirst
    Connected = {n1}
    Movers = {}
    RetryDelays = 1
    Slots = 2
    MaxCalls = 3
    MaxConns = 1
    MaxReadies = 0
    MaxTicks = 0
    MaxEvents = 3
    MaxMishaps = 0
PROPERTIES
    DeletionIsFinal
CHECK_DEADLOCK FALSE
