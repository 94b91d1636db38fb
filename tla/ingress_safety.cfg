SPECIFICATION Spec
CONSTANTS
    n1 = n1
    n2 = n2
    d1 = d1
    d2 = d2
    web = web
    Nodes = {n1, n2}
    NoNode = NoNode
    Domains = {d1}
    Services = {web}
    ServiceOf <- AllWeb
    Placed <- OnFirst
    Connected = {n1, n2}
    Movers = {n2}
    RetryDelays = 1
    Slots = 2
    MaxCalls = 2
    MaxConns = 2
    MaxReadies = 1
    MaxTicks = 1
    MaxEvents = 3
    MaxMishaps = 1
CONSTRAINT BeginsWithRequest
INVARIANTS
    Consistent
    ActiveWasVerified
PROPERTIES
    DecidedByItsRun
CHECK_DEADLOCK FALSE
