------------------------------ MODULE ProjectsMC ------------------------------
(***************************************************************************)
(* Instances, for TLC, of the modules about what belongs to a project:     *)
(* where it is placed, the workspace that owns it, its variables, its      *)
(* source and its connections to providers.  They share no row, so one of  *)
(* them moves in a behaviour and the others rest; Placement moves in three *)
(* ways, which keep apart what does not meet: the ports of two services,   *)
(* the addon of two services, and the volumes of one.                      *)
(***************************************************************************)
EXTENDS Naturals, Sequences, FiniteSets

CONSTANTS
    Services, Nodes, Volumes, Ports, NoNode, MaxDeployments, MaxVolumes, MaxFlips,
    Keys, MaxWrites, MaxCaptures, MaxDeletes,
    Paths, Root, Slugs,
    Providers, Adapted, Requests, MaxCrashes,
    ScopeRequests,
    Focuses,
    s1, s2, n1, n2, v1, k1, k2, top, web, api, x, y

VARIABLES
    focus,
    online, ports, target, dep, vol, addon, made, slipped, flips,
    stored, write, captured, sent, logged, clock, deletedAt,
    head, project, source, service, request,
    connection, asked, accepted, crashes,
    scope, member, owner, placing, placed, domain, moving

Orders == {<<k1, k2>>, <<k2, k1>>, <<k1>>}

\* A branch that is a single application, then gets a second one, then becomes
\* a monorepo whose root has no Dockerfile any more.
NoPorts == [p \in Paths |-> 0]
Tree == <<
    [docker |-> {top}, ports |-> [NoPorts EXCEPT ![top] = 1], packages |-> {top}, members |-> {}],
    [docker |-> {top, web}, ports |-> [NoPorts EXCEPT ![top] = 1, ![web] = 1], packages |-> {top}, members |-> {}],
    [docker |-> {web}, ports |-> [NoPorts EXCEPT ![web] = 2], packages |-> {top, web, api}, members |-> {web, api}] >>
Picked(p, s, port) == [path |-> p, slug |-> s, port |-> port]
Selections == {
    <<Picked(web, y, TRUE)>>,
    <<Picked(web, y, FALSE), Picked(top, x, FALSE)>>, <<Picked(top, x, FALSE), Picked(api, y, TRUE)>>,
    <<Picked(web, x, TRUE), Picked(api, x, TRUE)>> }
Plan(a, b, c, d) == [q \in Requests |-> CASE q = 1 -> a [] q = 2 -> b [] q = 3 -> c [] OTHER -> d]
Plans == {
    Plan("connect", "confirm", "confirm", "connect"), Plan("connect", "confirm", "create", "archive"),
    Plan("connect", "confirm", "confirm", "retire"),
    Plan("none", "none", "none", "none") }

P == INSTANCE Placement
V == INSTANCE ServiceVariables
S == INSTANCE ProjectSources
C == INSTANCE ProviderConnections WITH request <- asked

ASSUME PlacementConstants ==
    P!ServicesAssumption /\ P!PortsAssumption /\ P!NoNodeAssumption /\ P!PlacementBounds
ASSUME VariableConstants == V!OrdersAssumption /\ V!VariableBounds
ASSUME SourceConstants ==
    S!TreeAssumption /\ S!RootAssumption /\ S!RequestsFinite /\ S!PlansAssumption /\ S!SelectionsAssumption
ASSUME ConnectionConstants == C!ProvidersAssumption /\ C!RequestsAssumption
\* the services that move below are there, and so are two deployments
ASSUME MovesConstants == {s1, s2} \subseteq Services /\ MaxDeployments >= 2

\* Workspace "w1" has a project and s1, "w2" may get a project and s2, and the
\* legacy project has the service "old"; n1 is a legacy node, n2 is not there yet.
Home == [own |-> "w1", other |-> "w2", legacy |-> "internal"]
In == [s \in Services \union {"old"} |-> CASE s = s1 -> "own" [] s = s2 -> "other" [] OTHER -> "legacy"]
W == INSTANCE WorkspaceScope WITH Workspaces <- {"w1", "w2"}, Legacy <- "internal", None <- NoNode,
        Projects <- DOMAIN Home, Services <- DOMAIN In, Domains <- {x}, Requests <- ScopeRequests,
        Deps <- 1..2, project <- scope, service <- member, node <- owner, request <- placing,
        deployment <- placed
ASSUME ScopeConstants == W!NoneAssumption
ScopeInit ==
    /\ scope = [p \in DOMAIN Home |-> IF p = "other" THEN [st |-> "none", ws |-> NoNode]
                                     ELSE [st |-> "ACTIVE", ws |-> Home[p]]]
    /\ member = [s \in DOMAIN In |-> IF s = s2 THEN [st |-> "none", p |-> NoNode]
                                     ELSE [st |-> "ACTIVE", p |-> In[s]]]
    /\ owner = [n \in Nodes |-> IF n = n1 THEN "internal" ELSE NoNode]
    /\ placing = [r \in ScopeRequests |-> W!NewRequest]
    /\ placed = [d \in 1..2 |-> [st |-> "none", s |-> NoNode, n |-> NoNode]]
    /\ domain = [d \in {x} |-> [st |-> "none", s |-> NoNode, n |-> NoNode]]
    /\ moving = {}

Init ==
    /\ focus \in Focuses /\ P!Init /\ V!Init /\ S!Init /\ C!Init /\ ScopeInit
    /\ focus # "sources" <=> \A q \in Requests : request[q].kind = "none"

PlacementRests == UNCHANGED <<online, ports, target, dep, vol, addon, made, slipped, flips>>
VariablesRest == UNCHANGED <<stored, write, captured, sent, logged, clock, deletedAt>>
SourcesRest == UNCHANGED <<head, project, source, service, request>>
ConnectionsRest == UNCHANGED <<connection, asked, accepted, crashes>>
ScopesRest == UNCHANGED <<scope, member, owner, placing, placed, domain, moving>>
OthersRest(f) ==
    /\ focus = f /\ UNCHANGED focus
    /\ f \in {"ports", "addon", "volumes"} \/ PlacementRests
    /\ f = "variables" \/ VariablesRest
    /\ f = "sources" \/ SourcesRest
    /\ f = "connections" \/ ConnectionsRest
    /\ f = "scopes" \/ ScopesRest

\* services, nodes and volumes are interchangeable: what is used first is s1, n1 and v1
FirstUse(s, n) == dep[1].st = "none" /\ ports = {} => s = s1 /\ n = n1
Inserts(d, on) ==
    \/ \E s \in on, n \in Nodes : FirstUse(s, n) /\ P!Place(d, s, n)
    \/ P!Write(d) \/ P!Commit(d) \/ P!Abort(d) \/ P!Progress(d)
PortsMove ==
    \/ \E d \in 1..2 :
          Inserts(d, Services) \/ \E s \in Services : P!PlaceBuild(d, s)
    \/ \E s \in Services, n \in Nodes : FirstUse(s, n) /\ P!Configure(s, n)
    \/ \E n \in Nodes : P!NodeFlips(n)
AddonMoves ==
    \/ P!AskAddon \/ P!CommitAddon
    \/ \E d \in 1..MaxDeployments : Inserts(d, IF d = 2 THEN Services ELSE {s1})
VolumesMove ==
    \/ \E d \in 1..MaxDeployments :
          Inserts(d, {s1}) \/ P!PlaceRollback(d) \/ \E t \in 1..MaxDeployments : P!ChooseRollback(d, t)
    \/ \E v \in Volumes :
          \/ (v = v1 \/ vol[v1].st # "none") /\ P!CountVolumes(v, s1)
          \/ P!ChooseVolumeNode(v) \/ P!CommitVolume(v)
\* requests of a kind are numbered as they arrive; a second PUT follows the first
Numbered ==
    \A q, r \in Requests : q < r /\ request[q].kind = request[r].kind /\ request[r].pc # "new" =>
        IF request[q].kind = "connect" THEN request[q].pc \in {"done", "failed"} ELSE request[q].pc # "new"
SourcesMove == S!Next /\ Numbered'

\* requests and deployments are taken in order; what is archived is "other" and its service
Comes(r) == placing[r].pc = "new" /\ \A q \in ScopeRequests : q < r => placing[q].pc # "new"
Goes(r) == placing[r].pc # "new"
\* a request that holds no node and is abandoned is one that never goes on
Releases(r) == (\E n \in Nodes : r \in W!Holders(n)) /\ W!Abandon(r)
NextPlaced == {d \in 1..2 : \A e \in 1..2 : e < d => placed[e].st # "none"}
ScopesMove ==
    \/ \E p \in DOMAIN Home : W!CreateProject(p, Home[p])
    \/ W!ArchiveProject("other") \/ W!ArchiveService(s2)
    \/ \E s \in DOMAIN In : W!CreateService(s, In[s])
    \/ \E n \in Nodes : W!CreateNode(n, "w1")
    \/ \E r \in ScopeRequests, s \in DOMAIN In :
          \/ Comes(r) /\ \E k \in {"deploy", "attach"} : W!Resolve(r, k, s)
          \/ Comes(r) /\ \E n \in Nodes : W!InsertLegacy(r, s, n)
          \/ (Comes(r) \/ Goes(r)) /\ \E d \in 1..2 : W!ReadReady(r, s, d)
    \/ \E r \in ScopeRequests, n \in Nodes :
          \/ W!Place(r, n)
          \/ Comes(r) /\ \E w \in {"w1", "w2"} : W!LockNode(r, w, n)
    \/ \E r \in ScopeRequests :
          W!Check(r) \/ W!Adopt(r) \/ Releases(r) \/ W!Attach(r, x) \/ \E d \in NextPlaced : W!EndInsert(r, d)
    \/ W!DeleteDomain(x)
    \/ \E d \in 1..2 : W!BecomesReady(d) \/ W!Fails(d) \/ W!MoveDomains(d)

Next ==
    \/ OthersRest("ports") /\ PortsMove
    \/ OthersRest("addon") /\ AddonMoves
    \/ OthersRest("volumes") /\ VolumesMove
    \/ OthersRest("variables") /\ V!Next
    \/ OthersRest("sources") /\ SourcesMove
    \/ OthersRest("connections") /\ C!Next
    \/ OthersRest("scopes") /\ ScopesMove

vars == <<focus, online, ports, target, dep, vol, addon, made, slipped, flips,
          stored, write, captured, sent, logged, clock, deletedAt,
          head, project, source, service, request, connection, asked, accepted, crashes,
          scope, member, owner, placing, placed, domain, moving>>
Spec == Init /\ [][Next]_vars

-----------------------------------------------------------------------------
(* The properties are those of the modules, where they are explained *)

\* Placement: on a node a host port belongs to one service, which keeps it; a
\* deployment runs where the volumes it mounts are, and one node is told to run
\* the addon.
PlacementHolds ==
    focus \in {"ports", "addon", "volumes"} =>
        P!TypeOK /\ P!PortsAreTheirs /\ P!MountedWhereBound /\ P!AddonOnOneNode
\* Placement: an addon that is READY was made (migration 027).
AddonReadyWasMade == P!AddonReadyWasMade

\* ServiceVariables: a deployment captures whole writes, each dispatch of it and
\* its rollback send what was captured, and no log line shows a secret of it.
CapturedAndKept ==
    focus = "variables" =>
        V!TypeOK /\ V!CapturesWholeWrites /\ V!SentAsCaptured /\ V!LogsHideSecrets

\* ProjectSources: a confirmation is stored as a whole or not at all, what it
\* confirmed is in the revision it recorded, and needs no port that was not asked for.
ConfirmedAsShown ==
    focus = "sources" => S!TypeOK /\ S!AllOrNothing /\ S!NestedExists /\ S!ReadyNeedsNoPort

\* ProviderConnections: a connection shows what was found with the credential it
\* stores, stores what was accepted, and is not left DISCOVERING.
ConnectionsHold ==
    focus = "connections" =>
        C!TypeOK /\ C!ShowsWhatItStores /\ C!StoredWasAccepted /\ C!DiscoveringIsAttended

\* WorkspaceScope: deployments and domains stay on nodes of the workspace of
\* their service.
ScopesHold == focus = "scopes" => W!TypeOK /\ W!StaysInWorkspace

\* Placement: the node of a volume or an addon never changes.  ProjectSources: the
\* config of a service never goes back to an older discovery, nor changes once
\* the service is archived.  WorkspaceScope: a node that is adopted is empty.
NeverGoesBack ==
    [][/\ focus \in {"ports", "addon", "volumes"} => P!KeepsBindings
       /\ focus = "sources" => S!ConfirmsInOrder /\ S!ConfirmsActive
       /\ focus = "scopes" => W!AdoptsEmpty]_vars
=============================================================================
