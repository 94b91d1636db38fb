--------------------------- MODULE WorkspaceScope ---------------------------
(***************************************************************************)
(* Workspaces own projects, which own services, and they own nodes.  What  *)
(* a service deploys, and the domains it serves, stay on the nodes of its  *)
(* workspace, although requests look the service up first and write later, *)
(* and although a node may change hands: a node of the internal workspace  *)
(* of migration 019 ("legacy") is adopted by a workspace when it is empty. *)
(*                                                                         *)
(* Requests are transactions under READ COMMITTED.  A request that selects *)
(* a node FOR UPDATE, or inserts a row that refers to it, waits for those  *)
(* that hold the node.  The lifecycle of a node (maintenance, archive) is  *)
(* left to NodeDispatch and NodeCredentials: it asks for a workspace, so a *)
(* legacy node is ACTIVE.  Volumes and addons belong to services that are  *)
(* not legacy, so no legacy node has one (Placement).                      *)
(***************************************************************************)
EXTENDS Naturals, FiniteSets

CONSTANTS
    Workspaces, Projects, Services, Nodes, Requests, Deps, Domains,
    Legacy,             \* internalLegacyWorkspaceId
    None

Owners == Workspaces \union {Legacy}
NoneAssumption == None \notin Owners \union Projects
Kinds == {"deploy", "import", "attach", "adopt"}

VARIABLES
    project,            \* projects: workspace and status
    service,            \* services: project and status
    node,               \* nodes: workspace
    request,            \* requests of the control API
    deployment,         \* deployments: service, node, status
    domain,             \* service_domains: service, node, status
    moving              \* deployments just READY, whose domains are yet to follow

vars == <<project, service, node, request, deployment, domain, moving>>

Active == {"QUEUED", "READY"}
TypeOK ==
    /\ project \in [Projects -> [st : {"none", "ACTIVE", "ARCHIVED"}, ws : Owners \union {None}]]
    /\ service \in [Services -> [st : {"none", "ACTIVE", "ARCHIVED"}, p : Projects \union {None}]]
    /\ node \in [Nodes -> Owners \union {None}]
    /\ request \in [Requests -> [pc : {"new", "resolved", "holds", "checked", "done"},
                                 kind : Kinds \union {"none"}, s : Services \union {None},
                                 ws : Owners \union {None}, n : Nodes \union {None}, over : SUBSET Deps]]
    /\ deployment \in [Deps -> [st : {"none", "QUEUED", "READY", "FAILED", "ROLLED_BACK"},
                                s : Services \union {None}, n : Nodes \union {None}]]
    /\ domain \in [Domains -> [st : {"none", "there", "DELETING"},
                               s : Services \union {None}, n : Nodes \union {None}]]
    /\ moving \subseteq Deps

NewRequest == [pc |-> "new", kind |-> "none", s |-> None, ws |-> None, n |-> None, over |-> {}]
Init ==
    /\ project = [p \in Projects |-> [st |-> "none", ws |-> None]]
    /\ service = [s \in Services |-> [st |-> "none", p |-> None]]
    /\ node = [n \in Nodes |-> None]
    /\ request = [r \in Requests |-> NewRequest]
    /\ deployment = [d \in Deps |-> [st |-> "none", s |-> None, n |-> None]]
    /\ domain = [d \in Domains |-> [st |-> "none", s |-> None, n |-> None]]
    /\ moving = {}

WorkspaceOf(s) == project[service[s].p].ws
Known(s) == service[s].st # "none"
IsLegacy(s) == WorkspaceOf(s) = Legacy
ReadyOf(s) == {d \in Deps : deployment[d].st = "READY" /\ deployment[d].s = s}

-----------------------------------------------------------------------------
(* Projects, services and nodes: one statement each *)

\* POST .../projects; the project of what has no other is there from migration 019
CreateProject(p, w) ==
    /\ project[p].st = "none"
    /\ w = Legacy => \A q \in Projects : project[q].ws # Legacy
    /\ project' = [project EXCEPT ![p] = [st |-> "ACTIVE", ws |-> w]]
    /\ UNCHANGED <<service, node, request, deployment, domain, moving>>

\* POST .../services of an ACTIVE project, or rundea_legacy_service_id, which
\* makes the service of a name that is deployed under the old API
CreateService(s, p) ==
    /\ service[s].st = "none" /\ project[p].st = "ACTIVE"
    /\ service' = [service EXCEPT ![s] = [st |-> "ACTIVE", p |-> p]]
    /\ UNCHANGED <<project, node, request, deployment, domain, moving>>

ArchiveService(s) ==
    /\ service[s].st = "ACTIVE" /\ ~IsLegacy(s)
    /\ service' = [service EXCEPT ![s].st = "ARCHIVED"]
    /\ UNCHANGED <<project, node, request, deployment, domain, moving>>

\* POST .../archive of a project and its services, which commit together; a
\* service that is inserted meanwhile is ProjectSources'
ArchiveProject(p) ==
    /\ project[p].st = "ACTIVE" /\ project[p].ws # Legacy
    /\ project' = [project EXCEPT ![p].st = "ARCHIVED"]
    /\ service' = [s \in Services |-> IF service[s].p = p THEN [service[s] EXCEPT !.st = "ARCHIVED"] ELSE service[s]]
    /\ UNCHANGED <<node, request, deployment, domain, moving>>

\* POST /v0/nodes makes a legacy node, POST /v0/workspaces/:workspaceId/nodes one of a workspace
CreateNode(n, w) ==
    /\ node[n] = None
    /\ node' = [node EXCEPT ![n] = w]
    /\ UNCHANGED <<project, service, request, deployment, domain, moving>>

-----------------------------------------------------------------------------
(* Requests *)

\* FOR UPDATE on the node: no other transaction holds it in any way
Holders(n) == {r \in Requests : /\ request[r].n = n /\ request[r].pc \in {"holds", "checked"}
                                /\ request[r].kind # "attach"}
\* the foreign key takes KEY SHARE, which inserts may hold together
Exclusive(n) == {r \in Holders(n) : request[r].kind \in {"deploy", "adopt"}}

\* resolveActiveCanonicalService
Resolves(s) ==
    Known(s) /\ ~IsLegacy(s) /\ service[s].st = "ACTIVE" /\ project[service[s].p].st = "ACTIVE"

Resolve(r, k, s) ==
    /\ request[r].pc = "new" /\ k \in {"deploy", "attach"} /\ Resolves(s)
    /\ request' = [request EXCEPT ![r] = [NewRequest EXCEPT !.pc = "resolved", !.kind = k, !.s = s,
                                                            !.ws = WorkspaceOf(s)]]
    /\ UNCHANGED <<project, service, node, deployment, domain, moving>>

\* Mutant: a legacy node is offered to every workspace.
OfferedToAll(n, w) == node[n] \in {w, Legacy}
\* the nodes POST .../deployments selects from
Offered(n, w) == node[n] = w

\* POST /v0/services/:serviceId/deployments selects and locks a node of the workspace
Place(r, n) ==
    /\ request[r].kind = "deploy" /\ request[r].pc = "resolved"
    /\ Offered(n, request[r].ws) /\ Holders(n) = {}
    /\ request' = [request EXCEPT ![r].pc = "holds", ![r].n = n]
    /\ UNCHANGED <<project, service, node, deployment, domain, moving>>

\* POST /v0/deployments names its node, which is only asked to exist
InsertLegacy(r, s, n) ==
    /\ request[r].pc = "new" /\ Known(s) /\ IsLegacy(s) /\ node[n] # None
    /\ Exclusive(n) = {}
    /\ request' = [request EXCEPT ![r] = [NewRequest EXCEPT !.pc = "holds", !.kind = "import", !.s = s, !.n = n]]
    /\ UNCHANGED <<project, service, node, deployment, domain, moving>>

\* the transaction of a deployment ends: it is QUEUED, or nothing is left of it
EndInsert(r, d) ==
    /\ request[r].kind \in {"deploy", "import"} /\ request[r].pc = "holds"
    /\ deployment[d].st = "none"
    /\ request' = [request EXCEPT ![r].pc = "done"]
    /\ deployment' = [deployment EXCEPT ![d] = [st |-> "QUEUED", s |-> request[r].s, n |-> request[r].n]]
    /\ UNCHANGED <<project, service, node, domain, moving>>
Abandon(r) ==
    /\ request[r].pc \in {"resolved", "holds", "checked"}
    /\ request' = [request EXCEPT ![r].pc = "done"]
    /\ UNCHANGED <<project, service, node, deployment, domain, moving>>

\* POST .../domains reads the node of the READY deployment, of a service that
\* resolved or (POST /v0/domains) of a name ...
ReadReady(r, s, d) ==
    /\ \/ request[r].kind = "attach" /\ request[r].pc = "resolved" /\ request[r].s = s
       \/ request[r].pc = "new" /\ Known(s) /\ IsLegacy(s)
    /\ d \in ReadyOf(s)
    /\ request' = [request EXCEPT ![r] = [NewRequest EXCEPT !.pc = "checked", !.kind = "attach", !.s = s,
                                                            !.n = deployment[d].n]]
    /\ UNCHANGED <<project, service, node, deployment, domain, moving>>
\* ... and inserts the domain there, when the node is not held
Attach(r, x) ==
    /\ request[r].kind = "attach" /\ request[r].pc = "checked" /\ domain[x].st = "none"
    /\ Exclusive(request[r].n) = {}
    /\ domain' = [domain EXCEPT ![x] = [st |-> "there", s |-> request[r].s, n |-> request[r].n]]
    /\ request' = [request EXCEPT ![r].pc = "done"]
    /\ UNCHANGED <<project, service, node, deployment, moving>>

\* only an unscoped legacy node can be adopted
Adoptable(n) == node[n] = Legacy

\* POST .../adopt locks the node ...
LockNode(r, w, n) ==
    /\ request[r].pc = "new" /\ Holders(n) = {} /\ Adoptable(n)
    /\ request' = [request EXCEPT ![r] = [NewRequest EXCEPT !.pc = "holds", !.kind = "adopt", !.ws = w, !.n = n]]
    /\ UNCHANGED <<project, service, node, deployment, domain, moving>>

OnNode(n) == {d \in Deps : deployment[d].st # "none" /\ deployment[d].n = n}
Blocked(n) ==
    \/ \E d \in OnNode(n) : deployment[d].st \in Active
    \/ \E x \in Domains : domain[x].st = "there" /\ domain[x].n = n
\* ... looks for what blocks it ...
Check(r) ==
    /\ request[r].kind = "adopt" /\ request[r].pc = "holds" /\ ~Blocked(request[r].n)
    /\ request' = [request EXCEPT ![r].pc = "checked", ![r].over = OnNode(request[r].n)]
    /\ UNCHANGED <<project, service, node, deployment, domain, moving>>
\* ... and gives it to the workspace
Adopt(r) ==
    /\ request[r].kind = "adopt" /\ request[r].pc = "checked"
    /\ node' = [node EXCEPT ![request[r].n] = request[r].ws]
    /\ request' = [request EXCEPT ![r].pc = "done"]
    /\ UNCHANGED <<project, service, deployment, domain, moving>>

\* DELETE of a domain; the rest of its life is DomainIngress's
DeleteDomain(x) ==
    /\ domain[x].st = "there" /\ (IsLegacy(domain[x].s) \/ Resolves(domain[x].s))
    /\ domain' = [domain EXCEPT ![x].st = "DELETING"]
    /\ UNCHANGED <<project, service, node, request, deployment, moving>>

-----------------------------------------------------------------------------
(* What becomes of deployments (NodeDispatch in detail) *)

\* READY, of which the service keeps one; a FAILED deployment may recover
BecomesReady(d) ==
    /\ deployment[d].st \in {"QUEUED", "FAILED"}
    /\ deployment' = [e \in Deps |->
          IF e = d THEN [deployment[d] EXCEPT !.st = "READY"]
          ELSE IF e \in ReadyOf(deployment[d].s) THEN [deployment[e] EXCEPT !.st = "ROLLED_BACK"]
          ELSE deployment[e]]
    /\ moving' = moving \union {d}
    /\ UNCHANGED <<project, service, node, request, domain>>
\* recordStatus of a failure; it need not have been sent for that (failQueuedBeforeDispatch,
\* failActiveDeploymentsForNode)
Fails(d) ==
    /\ deployment[d].st = "QUEUED"
    /\ deployment' = [deployment EXCEPT ![d].st = "FAILED"]
    /\ UNCHANGED <<project, service, node, request, domain, moving>>

\* reconcileServiceDomainsAfterReady: the domains of the service follow it
Followers(d) == {x \in Domains : domain[x].st = "there" /\ domain[x].s = deployment[d].s}
MoveDomains(d) ==
    /\ d \in moving /\ Exclusive(deployment[d].n) = {}
    /\ domain' = [x \in Domains |-> IF x \in Followers(d) THEN [domain[x] EXCEPT !.n = deployment[d].n]
                                    ELSE domain[x]]
    /\ moving' = moving \ {d}
    /\ UNCHANGED <<project, service, node, request, deployment>>

Next ==
    \/ \E p \in Projects : ArchiveProject(p) \/ \E w \in Owners : CreateProject(p, w)
    \/ \E s \in Services, p \in Projects : CreateService(s, p)
    \/ \E s \in Services : ArchiveService(s)
    \/ \E n \in Nodes, w \in Owners : CreateNode(n, w)
    \/ \E r \in Requests :
          \/ \E k \in Kinds, s \in Services : Resolve(r, k, s)
          \/ \E n \in Nodes : Place(r, n) \/ \E s \in Services : InsertLegacy(r, s, n)
          \/ \E d \in Deps : EndInsert(r, d)
          \/ \E s \in Services, d \in Deps : ReadReady(r, s, d)
          \/ \E x \in Domains : Attach(r, x)
          \/ \E w \in Workspaces, n \in Nodes : LockNode(r, w, n)
          \/ Check(r) \/ Adopt(r) \/ Abandon(r)
    \/ \E x \in Domains : DeleteDomain(x)
    \/ \E d \in Deps : BecomesReady(d) \/ Fails(d) \/ MoveDomains(d)

Spec == Init /\ [][Next]_vars

-----------------------------------------------------------------------------
(* Properties *)

\* The workspace of a service owns the nodes its deployments and domains are on,
\* whatever adoption does between the moment a request looks at a node and the
\* moment it writes (adopt, POST .../deployments, POST .../domains).
StaysInWorkspace ==
    /\ \A d \in Deps : deployment[d].st # "none" /\ ~IsLegacy(deployment[d].s) =>
          node[deployment[d].n] = WorkspaceOf(deployment[d].s)
    /\ \A x \in Domains : domain[x].st # "none" /\ ~IsLegacy(domain[x].s) =>
          node[domain[x].n] = WorkspaceOf(domain[x].s)

\* A node that changes hands was legacy, and is empty but for deployments that
\* were over when that was checked and have recovered since ("only an unscoped
\* legacy node can be adopted", "zero active/READY deployments, active domains").
AdoptsEmpty ==
    \A n \in Nodes : node[n] # None /\ node'[n] # node[n] =>
        /\ node[n] = Legacy
        /\ \A x \in Domains : domain[x].n = n => domain[x].st # "there"
        /\ \A d \in OnNode(n) : deployment[d].st \in Active =>
              deployment[d].st = "READY" /\ \E r \in Holders(n) : d \in request[r].over
AdoptedEmpty == [][AdoptsEmpty]_vars
=============================================================================
