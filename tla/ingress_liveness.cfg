SPECIFICATION FairSpec
CONSTANTS
    n1 = n1
    n2 = n2
    d1 = d1
    d2 = d2
    web = web
    Nodes = {n1}
    NoNode = NoNode
    Domains = {d1, d2}
    Services = {web}
    ServiceOf <- AllWeb
    Placed <- OnFirst
    Connected = {n1}
    Movers = {}
    RetryDelays = 1
    Slots = 1
    MaxCalls = 3
    MaxConns = 2
    MaxReadies = 0
    MaxTicks = 1
    MaxEvents = 3
    MaxMishaps = 2
PROPERTIES
    ConfiguringEnds
CHECK_DEADLOCK FALSE
