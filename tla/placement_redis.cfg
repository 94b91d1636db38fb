SPECIFICATION Spec
CONSTANTS
    s1 = s1
    n1 = n1
    s2 = s2
    n2 = n2
    v1 = v1
    Services = {s1, s2}
    Nodes = {n1, n2}
    Volumes = {v1, v2}
    NoNode = NoNode
    Ports = {1, 2}
    MaxDeployments = 3
    MaxVolumes = 2
    MaxFlips = 1
    k1 = k1
    k2 = k2
    Keys = {k1, k2}
    MaxWrites = 2
    MaxCaptures = 2
    MaxDeletes = 1
    top = top
    web = web
    api = api
    x = x
    y = y
    Paths = {top, web, api}
    Root = top
    Slugs = {x, y}
    Providers = {hetzner, vps}
    Adapted = {hetzner}
    Requests = {1, 2, 3, 4}
    MaxCrashes = 1
    ScopeRequests = {1, 2, 3}
    Focuses = {"addon"}
INVARIANT AddonReadyWasMade
CHECK_DEADLOCK FALSE
