SPECIFICATION ConfiguredFairSpec
CONSTANTS
    s1 = s1
    n1 = n1
    main = main
    Services = {s1, s2}
    Nodes = {n1}
    Branches = {main}
    NoBranch = none
    Builders = {b1, b2}
    WorkerId <- OwnId
    MaxPushes = 1
    MaxBuilds = 2
    MaxChanges = 1
    MaxMishaps = 1
INVARIANTS
    Consistent
    PushTriggersOnce
PROPERTIES
    OnlyTheOwnerEnds
    RefinesBuildQueue
    JobsEnd
CHECK_DEADLOCK FALSE
