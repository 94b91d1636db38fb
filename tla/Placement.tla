------------------------------ MODULE Placement ------------------------------
(***************************************************************************)
(* Where a deployment of a project is placed: the node it is given, the    *)
(* host port Rundea allocates there, the persistent volumes of its service *)
(* and the Redis addon of its project, each of which belongs to one node.  *)
(*                                                                         *)
(* A deployment is created by an operator, by a rollback, or by a build    *)
(* that was pushed.  Each is a transaction of several statements under     *)
(* READ COMMITTED, and the triggers of migrations 026, 027 and 036 are     *)
(* statements of it too: what a transaction has written is in its own      *)
(* record until it commits, and others wait for the rows it holds.         *)
(*                                                                         *)
(* `dep' holds a deployment, from the transaction that inserts it on;      *)
(* `vol' and `addon' are the rows of volumes and of the addon, from the    *)
(* request that creates them on.  Statuses in detail are NodeDispatch's.   *)
(***************************************************************************)
EXTENDS Naturals, FiniteSets

CONSTANTS
    Services, Nodes, Volumes,
    Ports,              \* the range of rundea_allocate_host_port
    NoNode,
    MaxDeployments,     \* bound: deployments, numbered in the order of created_at
    MaxVolumes,         \* volumes of a service (16)
    MaxFlips            \* bound: times a node goes away or comes back

ServicesAssumption == Services # {}
PortsAssumption == Ports # {} /\ Ports \subseteq Nat \ {0} /\ IsFiniteSet(Ports)
NoNodeAssumption == NoNode \notin Nodes
PlacementBounds == MaxDeployments \in Nat /\ MaxVolumes \in Nat /\ MaxFlips \in Nat

VARIABLES
    online,             \* nodes that are ACTIVE and ONLINE
    ports,              \* service_port_allocations
    target,             \* service_autodeploys: service -> node and port
    dep, vol, addon,
    made, slipped, flips    \* history

vars == <<online, ports, target, dep, vol, addon, made, slipped, flips>>

Deps == 1..MaxDeployments
Somewhere == Nodes \union {NoNode}
InTransaction == {"placed", "written"}
Live == {"QUEUED", "asked", "sent", "running"}
Rows == Live \union {"READY", "ROLLED_BACK", "FAILED"}

TypeOK ==
    /\ online \subseteq Nodes
    /\ ports \subseteq [s : Services, n : Nodes, port : Ports]
    /\ target \in [Services -> SUBSET [n : Nodes, port : Ports]]
    /\ dep \in [Deps -> [st : {"none", "chosen", "over"} \union InTransaction \union Rows,
                         op : {"deploy", "rollback", "build"}, s : Services, n : Somewhere,
                         port : Ports, of : Deps \union {0}, image : BOOLEAN,
                         mounts : SUBSET Volumes, holds : SUBSET Volumes, addon : BOOLEAN,
                         seen : Somewhere, redis : BOOLEAN]]
    /\ vol \in [Volumes -> [st : {"none", "counted", "chosen", "there"}, s : Services,
                            n : Somewhere, share : Deps \union {0}]]
    /\ addon \in [st : {"none", "asked", "CONFIGURED", "READY"}, n : Somewhere]
    /\ made \subseteq Nodes /\ slipped \subseteq Volumes /\ flips \in 0..MaxFlips

Unused ==
    [st |-> "none", op |-> "deploy", s |-> CHOOSE s \in Services : TRUE, n |-> NoNode,
     port |-> CHOOSE p \in Ports : TRUE, of |-> 0, image |-> FALSE, mounts |-> {}, holds |-> {},
     addon |-> FALSE, seen |-> NoNode, redis |-> FALSE]
Refused == [Unused EXCEPT !.st = "over"]     \* nothing was inserted
Init ==
    /\ online = Nodes /\ ports = {} /\ target = [s \in Services |-> {}]
    /\ dep = [d \in Deps |-> Unused]
    /\ vol = [v \in Volumes |-> [st |-> "none", s |-> CHOOSE s \in Services : TRUE, n |-> NoNode, share |-> 0]]
    /\ addon = [st |-> "none", n |-> NoNode]
    /\ made = {} /\ slipped = {} /\ flips = 0

-----------------------------------------------------------------------------
(* What queries see: committed rows *)

VolumesOf(s) == {v \in Volumes : vol[v].st = "there" /\ vol[v].s = s}
BoundNodes(s) == {vol[v].n : v \in VolumesOf(s)} \ {NoNode}
HasAddon == addon.st \in {"CONFIGURED", "READY"}
ReadyOf(s) == {d \in Deps : dep[d].st = "READY" /\ dep[d].s = s}
LatestReady(s) == {d \in ReadyOf(s) : \A e \in ReadyOf(s) : e <= d}
Unborn(d) == dep[d].st = "none" /\ \A e \in Deps : e < d => dep[e].st # "none"

\* SELECT ... FROM nodes ... FOR UPDATE waits for whoever holds the node
NodeFree(n) == ~\E d \in Deps : dep[d].st \in InTransaction /\ dep[d].n = n
\* FOR SHARE: builds that were pushed may hold it together
NodeShared(n) == ~\E d \in Deps : dep[d].st \in InTransaction /\ dep[d].n = n /\ dep[d].op # "build"

\* the candidates of selectNode and of the POST
Compatible(s, n) == n \in online /\ (BoundNodes(s) = {} \/ n \in BoundNodes(s))

\* Mutant: the allocation of the service is looked up on any node.
PortOfAnyNode(s, n) ==
    LET mine == {a.port : a \in {b \in ports : b.s = s}}
        free == Ports \ {a.port : a \in {b \in ports : b.n = n}}
    IN  IF mine # {} THEN mine ELSE {p \in free : \A q \in free : p <= q}
\* rundea_allocate_host_port (migration 030): the port the service has on the
\* node, else the first that is free; none when the range is exhausted
PortFor(s, n) ==
    LET mine == {a.port : a \in {b \in ports : b.s = s /\ b.n = n}}
        free == Ports \ {a.port : a \in {b \in ports : b.n = n}}
    IN  IF mine # {} THEN mine ELSE {p \in free : \A q \in free : p <= q}
Allocated(s, n, p) == ports \union {[s |-> s, n |-> n, port |-> p]}

-----------------------------------------------------------------------------
(* The transactions that insert a deployment *)

\* POST /v0/services/:serviceId/deployments: the node is locked and a port
\* allocated, which nobody reads before the commit, as the node is held
Place(d, s, n) ==
    /\ Unborn(d) /\ NodeFree(n) /\ Compatible(s, n)
    /\ \E p \in PortFor(s, n) :
          dep' = [dep EXCEPT ![d] = [Unused EXCEPT !.st = "placed", !.s = s, !.n = n, !.port = p]]
    /\ UNCHANGED <<online, ports, target, vol, addon, made, slipped, flips>>

\* configureCanonicalAutodeploy: the node and the port of the builds to come
Configure(s, n) ==
    /\ NodeFree(n) /\ Compatible(s, n)
    /\ \E p \in PortFor(s, n) :
          /\ ports' = Allocated(s, n, p)
          /\ target' = [target EXCEPT ![s] = {[n |-> n, port |-> p]}]
    /\ UNCHANGED <<online, dep, vol, addon, made, slipped, flips>>

\* a build that was pushed is deployed where its service was configured to be
PlaceBuild(d, s) ==
    /\ Unborn(d)
    /\ \E t \in target[s] :
          /\ t.n \in online /\ NodeShared(t.n)
          /\ dep' = [dep EXCEPT ![d] = [Unused EXCEPT !.st = "placed", !.op = "build", !.s = s, !.image = TRUE,
                                                      !.n = t.n, !.port = t.port]]
    /\ UNCHANGED <<online, ports, target, vol, addon, made, slipped, flips>>

\* executeRollbackOperation reads the current revision without a lock ...
ChooseRollback(d, t) ==
    /\ Unborn(d) /\ dep[t].st \in {"READY", "ROLLED_BACK"}
    /\ \E c \in LatestReady(dep[t].s) \ {t} :
          dep' = [dep EXCEPT ![d] = [Unused EXCEPT !.st = "chosen", !.op = "rollback", !.s = dep[t].s, !.of = t,
                                     !.image = dep[t].image, !.n = dep[c].n, !.port = dep[c].port]]
    /\ UNCHANGED <<online, ports, target, vol, addon, made, slipped, flips>>
\* ... then locks its node, where nothing may be under way
PlaceRollback(d) ==
    LET n == dep[d].n
        allowed == /\ n \in online
                   /\ n = dep[dep[d].of].n \/ dep[d].image
                   /\ ~\E e \in Deps : dep[e].n = n /\ dep[e].st \in Live
    IN  /\ dep[d].st = "chosen" /\ NodeFree(n)
        /\ dep' = [dep EXCEPT ![d] = IF allowed THEN [@ EXCEPT !.st = "placed"] ELSE Refused]
        /\ UNCHANGED <<online, ports, target, vol, addon, made, slipped, flips>>

\* rundea_prepare_deployment_volume_scope and rundea_bind_managed_redis_node:
\* what is bound, is bound to this node; a rollback to another node mounts nothing
Pinned(d) ==
    /\ dep[d].op = "rollback" => dep[d].n = dep[dep[d].of].n \/ dep[dep[d].of].mounts = {}
    /\ BoundNodes(dep[d].s) \subseteq {dep[d].n}
    /\ ~HasAddon \/ addon.n \in {NoNode, dep[d].n}

\* BEFORE INSERT: the rows of the volumes and of the addon are locked; what is
\* not bound yet will be, when this commits
Write(d) ==
    LET holds == VolumesOf(dep[d].s)
    IN  /\ dep[d].st = "placed"
        /\ \A e \in Deps : dep[e].st = "written" => dep[e].holds \intersect holds = {}
        /\ HasAddon => ~\E e \in Deps : dep[e].st = "written" /\ dep[e].addon
        /\ dep' = [dep EXCEPT ![d] = IF Pinned(d) THEN [@ EXCEPT !.st = "written", !.holds = holds, !.addon = HasAddon]
                                     ELSE Refused]
        /\ UNCHANGED <<online, ports, target, vol, addon, made, slipped, flips>>

BindVolume(r, n) == IF r.n = NoNode THEN [r EXCEPT !.n = n] ELSE r
BindAddon(a, n) == IF a.n = NoNode THEN [a EXCEPT !.n = n] ELSE a

\* AFTER INSERT, and the commit: rundea_snapshot_deployment_volumes reads the
\* volumes again, or takes those of the target of a rollback
Commit(d) ==
    LET r == dep[d]
        mounts == IF r.op = "rollback" THEN dep[r.of].mounts ELSE VolumesOf(r.s)
    IN  /\ r.st = "written"
        /\ dep' = [dep EXCEPT ![d] = [@ EXCEPT !.st = "QUEUED", !.mounts = mounts, !.holds = {}, !.addon = FALSE]]
        /\ ports' = IF r.op = "deploy" THEN Allocated(r.s, r.n, r.port) ELSE ports
        /\ vol' = [v \in Volumes |-> IF v \in r.holds THEN BindVolume(vol[v], r.n) ELSE vol[v]]
        /\ addon' = IF r.addon THEN BindAddon(addon, r.n) ELSE addon
        /\ slipped' = slipped \union (mounts \ r.holds)
        /\ UNCHANGED <<online, target, made, flips>>

\* a query fails, or a rollback is refused for its image or a restart: ROLLBACK
Abort(d) ==
    /\ dep[d].st \in {"chosen", "placed", "written"}
    /\ dep' = [dep EXCEPT ![d] = Refused]
    /\ UNCHANGED <<online, ports, target, vol, addon, made, slipped, flips>>

-----------------------------------------------------------------------------
(* The requests that create a volume, or the addon *)

\* POST /v0/services/:serviceId/volumes counts the volumes, and asks where they are
CountVolumes(v, s) ==
    /\ vol[v].st = "none"
    /\ Cardinality(VolumesOf(s)) < MaxVolumes
    /\ Cardinality(BoundNodes(s)) <= 1
    /\ \E n \in IF BoundNodes(s) = {} THEN {NoNode} ELSE BoundNodes(s) :
          vol' = [vol EXCEPT ![v] = [st |-> "counted", s |-> s, n |-> n, share |-> 0]]
    /\ UNCHANGED <<online, ports, target, dep, addon, made, slipped, flips>>

\* then for the node of the READY deployment, FOR SHARE
ChooseVolumeNode(v) ==
    LET current == LatestReady(vol[v].s)
        n == IF current = {} THEN NoNode ELSE dep[CHOOSE d \in current : TRUE].n
    IN  /\ vol[v].st = "counted"
        /\ vol' = [vol EXCEPT ![v] =
                      IF NoNode \notin {vol[v].n, n} /\ vol[v].n # n
                      THEN [@ EXCEPT !.st = "none", !.n = NoNode]             \* 409
                      ELSE [@ EXCEPT !.st = "chosen", !.n = IF vol[v].n = NoNode THEN n ELSE vol[v].n,
                                     !.share = IF current = {} THEN 0 ELSE CHOOSE d \in current : TRUE]]
        /\ UNCHANGED <<online, ports, target, dep, addon, made, slipped, flips>>
CommitVolume(v) ==
    /\ vol[v].st = "chosen"
    /\ vol' = [vol EXCEPT ![v].st = "there", ![v].share = 0]
    /\ UNCHANGED <<online, ports, target, dep, addon, made, slipped, flips>>

\* POST /v0/projects/:projectId/addons/redis: the node of the READY services,
\* which may be none, but not two; then the row
AskAddon ==
    LET ready == {dep[d].n : d \in {e \in Deps : dep[e].st = "READY"}}
    IN  /\ addon.st = "none" /\ Cardinality(ready) <= 1
        /\ \E n \in IF ready = {} THEN {NoNode} ELSE ready : addon' = [st |-> "asked", n |-> n]
        /\ UNCHANGED <<online, ports, target, dep, vol, made, slipped, flips>>
CommitAddon ==
    /\ addon.st = "asked"
    /\ addon' = [addon EXCEPT !.st = "CONFIGURED"]
    /\ UNCHANGED <<online, ports, target, dep, vol, made, slipped, flips>>

-----------------------------------------------------------------------------
(* Dispatch, and what becomes of it *)

\* loadManagedRedisRuntimeMetadata, called for each dispatch: the row is read ...
AskDispatch(d) ==
    /\ dep[d].st = "QUEUED" /\ dep[d].n \in online
    /\ dep' = [dep EXCEPT ![d].st = IF HasAddon THEN "asked" ELSE "sent", ![d].seen = addon.n]
    /\ UNCHANGED <<online, ports, target, vol, addon, made, slipped, flips>>

\* Mutant: the addon is bound to the node, whatever became of it since.
BoundRegardless(d) == [addon EXCEPT !.n = IF dep[d].seen = NoNode THEN dep[d].n ELSE @]
\* UPDATE ... WHERE node_id IS NULL
BoundAtDispatch(d) == IF dep[d].seen = NoNode THEN BindAddon(addon, dep[d].n) ELSE addon

MaySend(d, a) == a.n = dep[d].n
\* ... and bound if it was not, once whoever holds it is done.  A deployment on
\* another node than the addon's stays QUEUED.
Dispatch(d) ==
    LET a == BoundAtDispatch(d)
        good == MaySend(d, a)
    IN  /\ dep[d].st = "asked"
        /\ dep[d].seen = NoNode => ~\E e \in Deps : dep[e].st = "written" /\ dep[e].addon
        /\ addon' = a
        /\ dep' = [dep EXCEPT ![d].st = IF good THEN "sent" ELSE "QUEUED", ![d].redis = good]
        /\ UNCHANGED <<online, ports, target, vol, made, slipped, flips>>

\* the Agent: Redis is created or recovered before the container is started
Run(d) ==
    /\ dep[d].st = "sent"
    /\ dep' = [dep EXCEPT ![d].st = "running"]
    /\ made' = IF dep[d].redis THEN made \union {dep[d].n} ELSE made
    /\ UNCHANGED <<online, ports, target, vol, addon, slipped, flips>>
Fail(d) ==
    /\ dep[d].st \in Live
    /\ dep' = [dep EXCEPT ![d].st = "FAILED"]
    /\ UNCHANGED <<online, ports, target, vol, addon, made, slipped, flips>>

\* recordStatus, READY: the previous revision gives way, on whatever node it is,
\* and rundea_mark_managed_redis_ready marks the addon of this node
Ready(d) ==
    LET previous == ReadyOf(dep[d].s)
    IN  /\ dep[d].st = "running"
        /\ ~\E v \in Volumes : vol[v].share \in previous
        /\ dep' = [e \in Deps |-> IF e = d THEN [dep[d] EXCEPT !.st = "READY"]
                                  ELSE IF e \in previous THEN [dep[e] EXCEPT !.st = "ROLLED_BACK"] ELSE dep[e]]
        /\ addon' = IF HasAddon /\ addon.n = dep[d].n THEN [addon EXCEPT !.st = "READY"] ELSE addon
        /\ UNCHANGED <<online, ports, target, vol, made, slipped, flips>>

NodeFlips(n) ==
    /\ flips < MaxFlips /\ flips' = flips + 1
    /\ online' = IF n \in online THEN online \ {n} ELSE online \union {n}
    /\ UNCHANGED <<ports, target, dep, vol, addon, made, slipped>>

Insertion(d) ==
    \/ \E s \in Services : PlaceBuild(d, s) \/ \E n \in Nodes : Place(d, s, n)
    \/ \E t \in Deps : ChooseRollback(d, t)
    \/ PlaceRollback(d) \/ Write(d) \/ Commit(d) \/ Abort(d)
Progress(d) == AskDispatch(d) \/ Dispatch(d) \/ Run(d) \/ Fail(d) \/ Ready(d)
Volume(v) == (\E s \in Services : CountVolumes(v, s)) \/ ChooseVolumeNode(v) \/ CommitVolume(v)

Next ==
    \/ \E d \in Deps : Insertion(d) \/ Progress(d)
    \/ \E s \in Services, n \in Nodes : Configure(s, n)
    \/ \E v \in Volumes : Volume(v)
    \/ AskAddon \/ CommitAddon
    \/ \E n \in Nodes : NodeFlips(n)

Spec == Init /\ [][Next]_vars

-----------------------------------------------------------------------------
(* Properties *)

Placed == {d \in Deps : dep[d].st \in Rows}

\* On a node a host port belongs to one service, and a service keeps one port:
\* a revision that is rolled out, back, or over from another node takes over
\* the port its predecessor is routed by.
PortsAreTheirs ==
    \A d, e \in Placed : dep[d].n = dep[e].n => (dep[d].port = dep[e].port <=> dep[d].s = dep[e].s)

\* A deployment that mounts a volume runs where the data is, though volumes are
\* created and nodes chosen at the same time.  (A volume that was committed
\* between the two triggers of an insertion is the exception: see the README.)
MountedWhereBound == \A d \in Placed : \A v \in dep[d].mounts \ slipped : vol[v].n = dep[d].n

\* No two Agents are told to run the addon of a project: its data is on one node,
\* though it may be created while deployments to several nodes are under way.
AddonOnOneNode == \A d \in Deps : dep[d].redis => addon.n = dep[d].n

\* The node of a volume or of an addon never changes once it is bound.
Keeps(old, new) == old.n # NoNode => new.n = old.n
KeepsBindings ==
    /\ \A v \in Volumes : vol[v].st = "there" => Keeps(vol[v], vol'[v])
    /\ HasAddon => Keeps(addon, addon')
BindingIsFinal == [][KeepsBindings]_vars

\* "a deployment cannot become READY unless the addon was created or recovered
\* successfully on the same node" (migration 027): an addon that is READY was made.
AddonReadyWasMade == addon.st = "READY" => addon.n \in made
=============================================================================
