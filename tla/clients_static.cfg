SPECIFICATION FocusedSpec
CONSTANTS
    d1 = d1
    d2 = d2
    a1 = a1
    Requests = {r1, r2}
    Refs = {a1}
    NoRef = NoRef
    Names = {"metrics", "restart", "rollback"}
    BaseRisk <- Risk
    Resources = {d1, d2}
    Calls <- MCCalls
    Singles <- MCSingles
    Policies <- MCPolicies
    Unlimited = Unlimited
    Freshness = 0
    MaxTime = 1
    MaxUses = 2
    MaxFaults = 1
    Modes = {"static", "oauth", "oauth-builtin"}
    Clients = {"c1", "c2"}
    Diagnostics <- MCDiagnostics
    CodeLife = 0
    AccessLife = 0
    RefreshLife = 2
    MaxConsents = 1
    MaxTokens = 2
    MaxCalls = 1
    ProjectIds = {1, 2}
    ServiceIds = {1, 2}
    ProjectOfId <- MCProjectOf
    MaxShown = 2
    MaxAsked = 3
    MaxEvents = 3
    MaxRuns = 2
INVARIANT OnlyStaticChanges
CHECK_DEADLOCK FALSE
