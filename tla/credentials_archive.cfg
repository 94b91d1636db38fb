SPECIFICATION AllSpec
CONSTANTS
    n1 = n1
    s1 = s1
    i1 = i1
    i2 = i2
    h1 = h1
    h2 = h2
    Nodes = {n1}
    Sources = {s1}
    Images = {i1}
    HomeOf <- AllOnOne
    Hosts = {h1, h2}
    HostOf <- OwnHosts
    NoHost = NoHost
    MaxRuns = 2
    MaxTries = 2
    MaxReleases = 2
    MaxFaults = 2
    d1 = d1
    Replaceable = {d1, d2}
    Connections = {c1, c2}
    None = None
    Cooldown = 1
    MaxSamples = 2
    MaxTroubles = 2
INVARIANT ArchivedIsRevoked
CHECK_DEADLOCK FALSE
