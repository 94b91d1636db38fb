----------------------------- MODULE ClientsMC ------------------------------
(***************************************************************************)
(* Instances, for TLC, of the two clients of the control plane: the MCP    *)
(* server, with deployments d1 and d2, approvals by reference a1, and      *)
(* operations of each risk class; and the web console, its page and its    *)
(* panel that imports services.  They share nothing, so one of them moves  *)
(* in a behaviour and the others rest.                                     *)
(***************************************************************************)
EXTENDS McpServer

CONSTANTS d1, d2, a1, ProjectIds, ServiceIds, ProjectOfId, MaxShown, MaxAsked, MaxEvents, MaxRuns

VARIABLES
    focus,
    rows, page, asked, events,
    panel, all, runs, enabled, queued, overtaken

Either == Permutations(Requests)

Risk == [n \in Names |-> CASE n = "metrics" -> ReadOnly [] n = "restart" -> SafeWrite [] n = "rollback" -> SensitiveWrite]
Call(name, resource, contextual, granted, ref) ==
    [name |-> name, resource |-> resource, contextual |-> contextual, granted |-> granted, ref |-> ref]
MCCalls ==
    {Call("restart", d1, ReadOnly, TRUE, NoRef), Call("rollback", d2, ReadOnly, TRUE, a1),
     Call("rollback", d1, Destructive, TRUE, a1), Call("rollback", d1, SafeWrite, TRUE, a1)}
MCSingles == {<<"rollback", d1>>}
MCPolicies ==
    {[names |-> {"restart", "rollback"}, resources |-> {d1}, sensitive |-> TRUE, max |-> 2],
     [names |-> {"rollback"}, resources |-> {d1, d2}, sensitive |-> FALSE, max |-> Unlimited]}
MCDiagnostics == {<<"metrics", d1>>}

\* Of the MCP server, either operations under approvals are left to do, or calls.
Lost == [pc |-> "lost", name |-> "restart", resource |-> d1, risk |-> SafeWrite, ref |-> NoRef, at |-> 0,
         audited |-> FALSE, answer |-> "none", finalized |-> FALSE]
Withdrawn == [kind |-> "EXPLICIT", names |-> {"restart"}, resources |-> {d1}, sensitive |-> FALSE, issued |-> 0,
          expires |-> 1, max |-> 1, uses |-> 0, revoked |-> TRUE]
OperationsOnly ==
    /\ now = 0 /\ faults = 0 /\ executed = {}
    /\ approvals = [a \in Refs |-> NoApproval]
    /\ request = [r \in Requests |-> NotAsked] /\ audit = [r \in Requests |-> NoRow]
    /\ mode = "static" /\ grants = {} /\ registered = {}
    /\ consents = <<>> /\ codes = {} /\ exchanging = {} /\ refresh = <<>> /\ access = <<>>
    /\ key = 0 /\ reads = [r \in Requests |-> TRUE]
    /\ changes = [i \in 1..MaxCalls |-> [token |-> NoToken, key |-> 0]]
CallsOnly ==
    /\ mode \in Modes /\ grants = {d1} /\ registered = {"c2"}
    /\ consents = <<>> /\ codes = {} /\ exchanging = {} /\ refresh = <<>> /\ access = <<>>
    /\ key = 0 /\ reads = [r \in Requests |-> TRUE] /\ changes = <<>>
    /\ now = 0 /\ faults = 0 /\ executed = {}
    /\ approvals = [a \in Refs |-> Withdrawn]
    /\ \E free \in Requests : request = [r \in Requests |-> IF r = free THEN NotAsked ELSE Lost]
    /\ audit = [r \in Requests |-> NoRow]

\* Some projects and their services, or the first alone, of which 1 has been
\* deployed; the page is opened afresh or with the selection it had.
MCProjectOf == <<1, 2>>
W == INSTANCE WebConsole WITH Projects <- ProjectIds, Services <- ServiceIds, ProjectOf <- ProjectOfId,
        MaxDeployments <- MaxShown, MaxCalls <- MaxAsked, calls <- asked
P == INSTANCE ImportPanel WITH Services <- Resources
ASSUME ConsoleConstants == W!IdsAreNumbers /\ W!ServicesHaveProjects /\ W!ConsoleBounds /\ P!ImportBound

ConsoleInit ==
    /\ W!Init
    /\ rows.count = [s \in ServiceIds |-> IF s = 1 THEN 1 ELSE 0] /\ rows.ready = [s \in ServiceIds |-> 0]
    /\ page.project = page.service /\ rows.projects = rows.services
    /\ focus # "console" => page.project = 0 /\ rows.projects = ProjectIds

FocusedInit ==
    /\ focus \in {"operations", "calls", "console", "import"}
    /\ IF focus = "calls" THEN CallsOnly ELSE OperationsOnly
    /\ ConsoleInit /\ P!Init
McpRests == UNCHANGED vars
ConsoleRests == UNCHANGED <<rows, page, asked, events>>
PanelRests == UNCHANGED <<panel, all, runs, enabled, queued, overtaken>>
FocusedNext ==
    \/ focus \in {"operations", "calls"} /\ Next /\ ConsoleRests /\ PanelRests /\ UNCHANGED focus
    \/ focus = "console" /\ W!Next /\ McpRests /\ PanelRests /\ UNCHANGED focus
    \/ focus = "import" /\ P!Next /\ McpRests /\ ConsoleRests /\ UNCHANGED focus
FocusedSpec ==
    FocusedInit /\ [][FocusedNext]_<<vars, focus, rows, page, asked, events, panel, all, runs, enabled, queued, overtaken>>

-----------------------------------------------------------------------------
(* The properties of the console are those of its modules, where they are explained *)

\* WebConsole: the page shows the deployments, variables and domains of one
\* service, and never the answer of a watch that was replaced.  ImportPanel: what
\* it shows as queued has its deployment and its push autodeploy.
ConsoleHolds ==
    /\ [](focus = "console" => W!TypeOK) /\ [](focus = "import" => P!TypeOK)
    /\ []W!ShowsOneService /\ []P!QueuedIsEnabled
    /\ W!WatchesOne
=============================================================================
