SPECIFICATION Spec
CONSTANTS
    s1 = s1
    n1 = n1
    main = main
    Services = {s1}
    Nodes = {n1}
    Branches = {main, dev}
    NoBranch = none
    Builders = {b1}
    WorkerId <- OwnId
    MaxPushes = 2
    MaxBuilds = 1
    MaxChanges = 4
    MaxMishaps = 0
INVARIANT CanonicalUsesBuildEngine
CHECK_DEADLOCK FALSE
