---------------------------- MODULE NodeDispatch ----------------------------
(***************************************************************************)
(* How the control plane (apps/api) hands work to the Agents of its nodes  *)
(* and records what they answer: deployments, restarts, qualifications and *)
(* node maintenance, over one WebSocket per node.                          *)
(*                                                                         *)
(* Tables.  `status', `home' and `lease' are columns of deployments;       *)
(* `lost' says whose last STATUS event is the one of the close handler.    *)
(* `op' holds the rows of runtime_actions,                                 *)
(* node_qualifications and node_maintenance_actions.  A transaction is one *)
(* step, with two exceptions.  Those that record an Agent's status also    *)
(* meet SKIP LOCKED and each other: `txs' are the ones begun and not       *)
(* committed.  The one that ends a node's maintenance on a disconnect      *)
(* updates two tables without a lock on the first one's node: a request    *)
(* may commit between its statements.  `startup' is how far a control      *)
(* plane that starts again is with its updates, each a transaction.        *)
(*                                                                         *)
(* Sockets.  Connections of a node are numbered as the Agent dials them.   *)
(* `phase' is how far the control plane's handler of each one is, and      *)
(* `sockets' the map every sender looks up.  `task' follows a command from *)
(* the claim in the database to the goroutine that carries it out.         *)
(*                                                                         *)
(* Agents are the environment: goroutines that hold runtimeMu, a durable   *)
(* route per service, and recovery before the first command is read (the   *)
(* router of the node in detail is AgentRouter).                           *)
(***************************************************************************)
EXTENDS Naturals, Sequences, FiniteSets

CONSTANTS
    Nodes,
    Services,
    Deployments,    \* 1 .. n, in the order of created_at
    Rollbacks,      \* bound: deployments that only a rollback creates
    ServiceOf,      \* deployment -> service
    Ops,            \* ids of restarts, qualifications and maintenance actions
    OpKinds,        \* which of those an operator asks for
    MaxConnections, \* bound: connections an Agent dials
    MaxMishaps,     \* bound: leases that run out under way, claims given back, hellos refused
    MaxCrashes,     \* bound: Agent crashes
    MaxTroubles,    \* bound: mishaps and crashes together
    MaxRestarts,    \* bound: control plane restarts
    MaxUnread       \* bound: frames of a connection not yet read

ASSUME NodesAssumption == Nodes # {}
ASSUME DeploymentsAssumption == Deployments \subseteq Nat \ {0} /\ Rollbacks \subseteq Deployments
ASSUME ServiceAssumption == ServiceOf \in [Deployments -> Services]
ASSUME KindsAssumption == OpKinds \subseteq {"restart", "qualify", "update", "cleanup"}
ASSUME BoundsAssumption ==
    /\ MaxConnections \in Nat /\ MaxMishaps \in Nat
    /\ MaxCrashes \in Nat /\ MaxTroubles \in Nat
    /\ MaxRestarts \in Nat /\ MaxUnread \in Nat \ {0}

Conns == 1..MaxConnections
Tries == 1..(MaxMishaps + 1)    \* copies of one deploy command under way
InProgress == {"BUILDING", "DEPLOYING", "HEALTHCHECK"}
Statuses == {"none", "QUEUED", "READY", "FAILED", "ROLLED_BACK"} \union InProgress
Maintenance == {"update", "cleanup"}

VARIABLES
    status, home, lease, lost, op, lifecycle, online,           \* PostgreSQL
    startup, sockets, phase, shut, inbox, txs,                  \* API process
    task,                                                       \* commands
    dialed, alive, recovery, marked, route,                     \* Agents
    routed, overdue, crossed, orphans, stranded, slipped, used  \* history

deployment == <<status, home, lease, lost>>
db == <<deployment, op, lifecycle, online>>
api == <<startup, sockets, phase, shut, inbox, txs>>
agent == <<dialed, alive, recovery, marked, route>>
excused == <<orphans, stranded, slipped>>
history == <<routed, overdue, crossed, excused, used>>
vars == <<db, api, task, agent, history>>

Tasks ==
    [kind : {"deploy"}, id : Deployments, try : Tries, node : Nodes, conn : Conns,
     at : {"claimed", "wire", "waiting", "building", "deploying", "checking", "routed"}]
    \union
    [kind : OpKinds, id : Ops, try : {0}, node : Nodes, conn : Conns,
     at : {"claimed", "wire", "waiting"}]
Messages ==
    [type : {"status"}, dep : Deployments, status : InProgress \union {"READY", "FAILED"}]
    \union [type : {"recovered"}, dep : Deployments]
    \union [type : {"result"}, op : Ops, ok : BOOLEAN]
Phases == {"none", "hello", "online", "open", "guard", "offline", "deployments",
           "actions", "qualifications", "maintenance", "release", "holding", "done", "refused"}
Startups == {"nodes", "qualifications", "actions", "maintenance", "lifecycle", "up"}

TypeDb ==
    /\ status \in [Deployments -> Statuses]
    /\ home \in [Deployments -> Nodes]
    /\ lease \in [Deployments -> {"none", "live", "expired"}]
    /\ lost \subseteq Deployments
    /\ op \in [Ops -> [kind : OpKinds \union {"none"}, node : Nodes, dep : Deployments \union {0},
                       status : {"none", "RUNNING", "DONE", "FAILED"}]]
    /\ lifecycle \in [Nodes -> {"ACTIVE", "MAINTENANCE", "ARCHIVED"}]
    /\ online \in [Nodes -> BOOLEAN]
TypeApi ==
    /\ startup \in Startups
    /\ sockets \in [Nodes -> Conns \union {0}]
    /\ phase \in [Nodes -> [Conns -> Phases]]
    /\ shut \in [Nodes -> SUBSET Conns]
    /\ inbox \in [Nodes -> [Conns -> Seq(Messages)]]
    /\ txs \subseteq [node : Nodes, conn : Conns, dep : Deployments,
                      status : InProgress \union {"READY", "FAILED"}, previous : SUBSET Deployments]
TypeAgent ==
    /\ dialed \in [Nodes -> 0..MaxConnections]
    /\ alive \in [Nodes -> Conns \union {0}]
    /\ recovery \in [Nodes -> [pc : {"router", "report", "served"}, left : SUBSET Deployments]]
    /\ marked \in [Nodes -> SUBSET Deployments]
    /\ route \in [Nodes -> [Services -> Deployments \union {0}]]
TypeHistory ==
    /\ routed \subseteq Deployments
    /\ overdue \subseteq Deployments
    /\ crossed \subseteq Deployments
    /\ orphans \subseteq Deployments
    /\ stranded \subseteq Ops
    /\ slipped \subseteq Ops
    /\ used \in [mishaps : Nat, crashes : Nat, restarts : Nat]
TypeOK == TypeDb /\ TypeApi /\ task \subseteq Tasks /\ TypeAgent /\ TypeHistory

Init ==
    /\ status = [d \in Deployments |-> "none"]
    /\ home = [d \in Deployments |-> CHOOSE n \in Nodes : TRUE]
    /\ lease = [d \in Deployments |-> "none"]
    /\ lost = {}
    /\ op = [o \in Ops |-> [kind |-> "none", node |-> CHOOSE n \in Nodes : TRUE,
                            dep |-> 0, status |-> "none"]]
    /\ lifecycle = [n \in Nodes |-> "ACTIVE"]
    /\ online = [n \in Nodes |-> FALSE]
    /\ startup = "up"
    /\ sockets = [n \in Nodes |-> 0]
    /\ phase = [n \in Nodes |-> [c \in Conns |-> "none"]]
    /\ shut = [n \in Nodes |-> {}]
    /\ inbox = [n \in Nodes |-> [c \in Conns |-> <<>>]]
    /\ txs = {}
    /\ task = {}
    /\ dialed = [n \in Nodes |-> 0]
    /\ alive = [n \in Nodes |-> 0]
    /\ recovery = [n \in Nodes |-> [pc |-> "router", left |-> {}]]
    /\ marked = [n \in Nodes |-> {}]
    /\ route = [n \in Nodes |-> [s \in Services |-> 0]]
    /\ routed = {}
    /\ overdue = {}
    /\ crossed = {}
    /\ orphans = {}
    /\ stranded = {}
    /\ slipped = {}
    /\ used = [mishaps |-> 0, crashes |-> 0, restarts |-> 0]

-----------------------------------------------------------------------------
(* What the queries of the control plane see *)

On(n) == {d \in Deployments : status[d] # "none" /\ home[d] = n}
Active(d) == status[d] \in InProgress
Leased(d) == status[d] = "QUEUED" /\ lease[d] = "live"
InFlight(d) == Active(d) \/ Leased(d)
Busy(n) == \E d \in On(n) : Active(d) \/ status[d] = "QUEUED"
Running(n, kinds) == {o \in Ops : op[o].status = "RUNNING" /\ op[o].node = n /\ op[o].kind \in kinds}
Ready(s) == {d \in Deployments : status[d] = "READY" /\ ServiceOf[d] = s}
LatestReady(s) == {d \in Ready(s) : \A e \in Ready(s) : e <= d}
Locked == UNION {{t.dep} \union t.previous : t \in txs}
\* sockets that a request which is still awaiting the database may hold
Captured(n) == {c \in Conns : phase[n][c] \notin {"none", "hello", "online", "refused"}}

CanTransition(from, to) ==
    \/ from = "QUEUED" /\ to \in {"BUILDING", "FAILED"}
    \/ from = "BUILDING" /\ to \in {"DEPLOYING", "FAILED"}
    \/ from = "DEPLOYING" /\ to \in {"HEALTHCHECK", "FAILED"}
    \/ from = "HEALTHCHECK" /\ to \in {"READY", "FAILED"}
    \/ from = "READY" /\ to = "ROLLED_BACK"

-----------------------------------------------------------------------------
(* Operators: deployments, rollbacks, restarts, qualifications, maintenance *)

Insert(d, n) ==
    /\ startup = "up" /\ status[d] = "none"
    /\ \A e \in Deployments : e < d => status[e] # "none"
    /\ status' = [status EXCEPT ![d] = "QUEUED"]
    /\ home' = [home EXCEPT ![d] = n]
    /\ UNCHANGED <<lease, lost, op, lifecycle, online, api, task, agent, history>>

\* POST /v0/deployments asks nothing of the node: it may be away or archived
CreateDeployment(d, n) == d \notin Rollbacks /\ Insert(d, n)

\* the rollback is a new deployment on the node of the current revision
CreateRollback(d) ==
    \E current \in LatestReady(ServiceOf[d]) :
        LET n == home[current]
        IN  /\ \E target \in Deployments \ {current} :
                  ServiceOf[target] = ServiceOf[d] /\ status[target] \in {"READY", "ROLLED_BACK"}
            /\ online[n] /\ lifecycle[n] = "ACTIVE"
            /\ ~Busy(n) /\ Running(n, {"restart"}) = {}
            /\ Insert(d, n)

\* The row is inserted RUNNING, and the command is on its way to the socket
\* the request looked up before it awaited the transaction.
StartOp(o, kind, n, c, dep) ==
    /\ op[o].status = "none" /\ c \in Captured(n)
    /\ op' = [op EXCEPT ![o] = [kind |-> kind, node |-> n, dep |-> dep, status |-> "RUNNING"]]
    /\ task' = task \union {[kind |-> kind, id |-> o, try |-> 0, node |-> n, conn |-> c,
                             at |-> "claimed"]}
    /\ UNCHANGED <<deployment, online, api, agent, routed, overdue, crossed, orphans, stranded, used>>

RestartAllowed(n) == ~Busy(n) /\ Running(n, {"restart"}) = {}

Restart(o, d, c) ==
    /\ "restart" \in OpKinds
    /\ d \in LatestReady(ServiceOf[d])
    /\ d \notin Locked
    /\ RestartAllowed(home[d])
    /\ StartOp(o, "restart", home[d], c, d)
    /\ UNCHANGED <<lifecycle, slipped>>

Qualify(o, n, c) ==
    /\ "qualify" \in OpKinds
    /\ Running(n, {"qualify"}) = {}
    /\ StartOp(o, "qualify", n, c, 0)
    /\ UNCHANGED <<lifecycle, slipped>>

MaintenanceAllowed(n, kind) ==
    /\ online[n] /\ lifecycle[n] = "ACTIVE"
    /\ ~Busy(n) /\ Running(n, {"restart"}) = {}
    /\ (kind = "cleanup") => ~(\E d \in On(n) : status[d] = "READY")

\* node_maintenance_one_running_idx allows one RUNNING action.  An action
\* started between the two statements of a close handler slips its first one.
Maintain(o, n, kind, c) ==
    /\ kind \in OpKinds \intersect Maintenance
    /\ MaintenanceAllowed(n, kind) /\ Running(n, Maintenance) = {}
    /\ StartOp(o, kind, n, c, 0)
    /\ lifecycle' = [lifecycle EXCEPT ![n] = "MAINTENANCE"]
    /\ slipped' = IF \E b \in Conns : phase[n][b] = "release"
                  THEN slipped \union {o} ELSE slipped

-----------------------------------------------------------------------------
(* Dispatch *)

\* Mutant: only the deployments in progress hold the node, not a live lease.
DispatchableIgnoringLeases(n) ==
    IF \/ lifecycle[n] # "ACTIVE"
       \/ \E d \in On(n) : Active(d)
       \/ Running(n, {"restart"}) # {}
    THEN {}
    ELSE {d \in On(n) : status[d] = "QUEUED" /\ lease[d] # "live" /\ d \notin Locked}
\* Mutant: a running restart does not hold the dispatch.
DispatchableUnderRestart(n) ==
    IF \/ lifecycle[n] # "ACTIVE"
       \/ \E d \in On(n) : Active(d) \/ Leased(d)
    THEN {}
    ELSE {d \in On(n) : status[d] = "QUEUED" /\ lease[d] # "live" /\ d \notin Locked}
\* FOR UPDATE SKIP LOCKED: a row that a status transaction holds is passed over
Dispatchable(n) ==
    IF \/ lifecycle[n] # "ACTIVE"
       \/ \E d \in On(n) : Active(d) \/ Leased(d)
       \/ Running(n, {"restart"}) # {}
    THEN {}
    ELSE {d \in On(n) : status[d] = "QUEUED" /\ lease[d] # "live" /\ d \notin Locked}

\* tells the copies of a deploy command apart
Unused(d, k) == \A t \in task : t.kind = "deploy" /\ t.id = d => t.try # k

\* dispatchQueued up to its COMMIT: the oldest deployment is leased for 30 s.
\* The socket was looked up first; bound: a stale one only on a first attempt.
Dispatch(n, c) ==
    \E d \in Dispatchable(n), k \in Tries :
        /\ \A e \in Dispatchable(n) : d <= e
        /\ Unused(d, k) /\ \A j \in Tries : Unused(d, j) => k <= j
        /\ c # 0 /\ (c = sockets[n] \/ (c \in Captured(n) /\ lease[d] = "none"))
        /\ lease' = [lease EXCEPT ![d] = "live"]
        /\ task' = task \union {[kind |-> "deploy", id |-> d, try |-> k, node |-> n,
                                 conn |-> c, at |-> "claimed"]}
        /\ UNCHANGED <<status, home, lost, op, lifecycle, online, api, agent, history>>

\* the deployment fails if it is still QUEUED
FailQueued(d) ==
    IF status[d] = "QUEUED"
    THEN /\ status' = [status EXCEPT ![d] = "FAILED"]
         /\ lease' = [lease EXCEPT ![d] = "none"]
    ELSE UNCHANGED <<status, lease>>

\* The command could not be made (a capability of the Agent, a ticket or the
\* provenance of the artifact is missing): nothing is sent.
FailBeforeDispatch(t) ==
    /\ t \in task /\ t.kind = "deploy" /\ t.at = "claimed" /\ t.id \notin Locked
    /\ task' = task \ {t}
    /\ FailQueued(t.id)
    /\ UNCHANGED <<home, lost, op, lifecycle, online, api, agent, history>>

Trouble == used.mishaps + used.crashes < MaxTroubles
Mishap == used.mishaps < MaxMishaps /\ Trouble

\* The environment snapshot cannot be read, or send throws: the claim is given
\* back, and a later dispatch tries again.
GiveBack(t) ==
    /\ t \in task /\ t.kind = "deploy" /\ t.at = "claimed" /\ t.id \notin Locked
    /\ Mishap
    /\ task' = task \ {t}
    /\ lease' = IF status[t.id] = "QUEUED" THEN [lease EXCEPT ![t.id] = "none"] ELSE lease
    /\ used' = [used EXCEPT !.mishaps = @ + 1]
    /\ UNCHANGED <<status, home, lost, op, lifecycle, online, api, agent, routed, overdue, crossed, excused>>

\* the socket is open here: its frames are kept until the connection is
\* admitted, and queued from then on
Hears(n, c) == phase[n][c] \in {"hello", "online", "open"} /\ c \notin shut[n]
Connected(n, c) == alive[n] = c /\ Hears(n, c)

\* socket.send on the socket looked up before: a socket that has closed, or
\* whose other end has, loses the command without an exception.
Send(t) ==
    /\ t \in task /\ t.at = "claimed"
    /\ task' = (task \ {t}) \union
               (IF Connected(t.node, t.conn) THEN {[t EXCEPT !.at = "wire"]} ELSE {})
    /\ stranded' = IF t.kind # "deploy" /\ ~Connected(t.node, t.conn)
                   THEN stranded \union {t.id} ELSE stranded
    /\ UNCHANGED <<db, api, agent, routed, overdue, crossed, orphans, slipped, used>>

\* Thirty seconds pass; bounds: while the command is still under way, and
\* before it is even sent only if another mishap is left.
Expire(d) ==
    LET copies == {t \in task : t.kind = "deploy" /\ t.id = d}
        early == copies # {}
    IN  /\ lease[d] = "live" /\ status[d] = "QUEUED"
        /\ early => Mishap
        /\ (\E t \in copies : t.at = "claimed") => used.mishaps + 1 < MaxMishaps
        /\ lease' = [lease EXCEPT ![d] = "expired"]
        /\ overdue' = overdue \union {d}
        /\ used' = [used EXCEPT !.mishaps = @ + IF early THEN 1 ELSE 0]
        /\ UNCHANGED <<status, home, lost, op, lifecycle, online, api, task, agent,
                       routed, crossed, excused>>

-----------------------------------------------------------------------------
(* The handler of a connection: app.get("/v0/agent/ws") *)

\* credentials and hello are good: ONLINE is written, and awaited
Admit(n, c) ==
    /\ phase[n][c] = "hello" /\ c \notin shut[n]
    /\ phase' = [phase EXCEPT ![n][c] = "online"]
    /\ online' = [online EXCEPT ![n] = TRUE]
    /\ UNCHANGED <<deployment, op, lifecycle, startup, sockets, shut, inbox, txs, task, agent, history>>

\* The hello does not come in time, or is of an incompatible Agent: the node is
\* OFFLINE, also while an older connection of it is in the map.
Reject(n, c) ==
    /\ phase[n][c] = "hello" /\ c \notin shut[n]
    /\ Mishap /\ c < MaxConnections
    /\ phase' = [phase EXCEPT ![n][c] = "refused"]
    /\ shut' = [shut EXCEPT ![n] = @ \union {c}]
    /\ inbox' = [inbox EXCEPT ![n][c] = <<>>]
    /\ online' = [online EXCEPT ![n] = FALSE]
    /\ used' = [used EXCEPT !.mishaps = @ + 1]
    /\ UNCHANGED <<deployment, op, lifecycle, startup, sockets, txs, task, agent, routed, overdue, crossed, excused>>

\* sockets.set; a connection still in the map is closed, whichever was dialed
\* last, and nothing it has sent is read any more.  Its close handler will leave
\* alone what is under way: deployments, also those whose status is just being
\* recorded, and actions.
Open(n, c) ==
    LET previous == sockets[n]
    IN  /\ phase[n][c] = "online" /\ c \notin shut[n]
        /\ phase' = [phase EXCEPT ![n][c] = "open"]
        /\ sockets' = [sockets EXCEPT ![n] = c]
        /\ IF previous = 0
           THEN UNCHANGED <<shut, inbox, orphans, stranded>>
           ELSE /\ shut' = [shut EXCEPT ![n] = @ \union {previous}]
                /\ inbox' = [inbox EXCEPT ![n][previous] = <<>>]
                /\ orphans' = orphans \union {d \in On(n) : Active(d)}
                                     \union {t.dep : t \in {u \in txs : u.node = n}}
                /\ stranded' = stranded \union Running(n, OpKinds)
        /\ UNCHANGED <<db, startup, txs, task, agent, routed, overdue, crossed, slipped, used>>

\* The close event: before sockets.set the handler returns, after it the
\* cleanup starts.  Messages not taken from the queue are dropped.
CloseEvent(n, c) ==
    /\ phase[n][c] \in {"hello", "online", "open"}
    /\ alive[n] # c \/ c \in shut[n]
    /\ phase' = [phase EXCEPT ![n][c] = IF @ = "open" THEN "guard" ELSE "refused"]
    /\ inbox' = [inbox EXCEPT ![n][c] = <<>>]
    /\ UNCHANGED <<db, startup, sockets, shut, txs, task, agent, history>>

\* Mutant: the map's entry goes and the cleanup runs, whoever is in the map.
GuardUnchecked(n, c) ==
    /\ phase[n][c] = "guard"
    /\ ~\E t \in txs : t.node = n /\ t.conn = c
    /\ sockets' = [sockets EXCEPT ![n] = 0]
    /\ phase' = [phase EXCEPT ![n][c] = "offline"]
    /\ UNCHANGED <<db, startup, shut, inbox, txs, task, agent, history>>
\* await messageQueue, then the check that a newer connection has not come
Guard(n, c) ==
    /\ phase[n][c] = "guard"
    /\ ~\E t \in txs : t.node = n /\ t.conn = c
    /\ IF sockets[n] = c
       THEN /\ sockets' = [sockets EXCEPT ![n] = 0]
            /\ phase' = [phase EXCEPT ![n][c] = "offline"]
       ELSE /\ phase' = [phase EXCEPT ![n][c] = "done"]
            /\ UNCHANGED sockets
    /\ UNCHANGED <<db, startup, shut, inbox, txs, task, agent, history>>

Advance(n, c, from, to) ==
    /\ phase[n][c] = from
    /\ phase' = [phase EXCEPT ![n][c] = to]
    /\ UNCHANGED <<startup, sockets, shut, inbox, txs, task, agent, history>>

GoOffline(n, c) ==
    /\ Advance(n, c, "offline", "deployments")
    /\ online' = [online EXCEPT ![n] = FALSE]
    /\ UNCHANGED <<deployment, op, lifecycle>>

FailActiveDeployments(n, c) ==
    LET failed == {d \in On(n) : Active(d)}
    IN  /\ Advance(n, c, "deployments", "actions")
        /\ failed \intersect Locked = {}
        /\ status' = [d \in Deployments |-> IF d \in failed THEN "FAILED" ELSE status[d]]
        /\ lease' = [d \in Deployments |-> IF d \in failed THEN "none" ELSE lease[d]]
        /\ lost' = lost \union failed
        /\ UNCHANGED <<home, op, lifecycle, online>>

FailRunning(n, kinds) ==
    op' = [o \in Ops |-> IF o \in Running(n, kinds) THEN [op[o] EXCEPT !.status = "FAILED"] ELSE op[o]]
Release(n) == [lifecycle EXCEPT ![n] = IF @ = "MAINTENANCE" THEN "ACTIVE" ELSE @]

FailRunningRuntimeActions(n, c) ==
    /\ Advance(n, c, "actions", "qualifications")
    /\ FailRunning(n, {"restart"})
    /\ UNCHANGED <<deployment, lifecycle, online>>
FailRunningQualifications(n, c) ==
    /\ Advance(n, c, "qualifications", "maintenance")
    /\ FailRunning(n, {"qualify"})
    /\ UNCHANGED <<deployment, lifecycle, online>>
\* The transaction that ends maintenance, first statement: the RUNNING action,
\* if there is one, is FAILED for this transaction only and its row is held.
\* Nothing holds the row of the node.
Holding(n) == \E c \in Conns : phase[n][c] = "holding"
FailRunningNodeMaintenance(n, c) ==
    /\ ~Holding(n)
    /\ Advance(n, c, "maintenance", IF Running(n, Maintenance) = {} THEN "release" ELSE "holding")
    /\ UNCHANGED db

\* Mutant: the action fails and the node stays in MAINTENANCE.
FailMaintenanceOnly(n, c) ==
    /\ \/ Advance(n, c, "holding", "done") /\ FailRunning(n, Maintenance)
       \/ Advance(n, c, "release", "done") /\ UNCHANGED op
    /\ UNCHANGED <<deployment, lifecycle, online>>
\* second statement and COMMIT: a node in MAINTENANCE is released, by now
\* perhaps that of an action which the first statement did not see
ReleaseNode(n, c) ==
    /\ \/ Advance(n, c, "holding", "done") /\ FailRunning(n, Maintenance)
       \/ Advance(n, c, "release", "done") /\ UNCHANGED op
    /\ lifecycle' = Release(n)
    /\ UNCHANGED <<deployment, online>>

\* The control plane stops, and starts again: transactions roll back, sockets,
\* handlers and requests are gone, the tables stay as they are.  It may stop
\* again before it is up.  Bound: an Agent can still dial.
ControlPlaneRestart ==
    /\ used.restarts < MaxRestarts /\ \E n \in Nodes : dialed[n] < MaxConnections
    /\ startup' = "nodes"
    /\ sockets' = [n \in Nodes |-> 0]
    /\ phase' = [n \in Nodes |-> [c \in Conns |-> IF c <= dialed[n] THEN "refused" ELSE "none"]]
    /\ shut' = [n \in Nodes |-> 1..dialed[n]]
    /\ inbox' = [n \in Nodes |-> [c \in Conns |-> <<>>]]
    /\ txs' = {}
    /\ task' = {t \in task : t.at \notin {"claimed", "wire"}}
    /\ orphans' = orphans \union {d \in Deployments : Active(d)}
    /\ used' = [used EXCEPT !.restarts = @ + 1]
    /\ UNCHANGED <<db, agent, routed, overdue, crossed, stranded, slipped>>

\* the UPDATEs before the server listens, one after the other; deployments are
\* not among them
StartupStep(from, to) ==
    /\ startup = from
    /\ startup' = to
    /\ UNCHANGED <<deployment, sockets, phase, shut, inbox, txs, task, agent, history>>
FailInterrupted(kinds) ==
    op' = [o \in Ops |-> IF op[o].status = "RUNNING" /\ op[o].kind \in kinds
                         THEN [op[o] EXCEPT !.status = "FAILED"] ELSE op[o]]

NodesOffline ==
    /\ StartupStep("nodes", "qualifications")
    /\ online' = [n \in Nodes |-> FALSE]
    /\ UNCHANGED <<op, lifecycle>>
FailInterruptedQualifications ==
    /\ StartupStep("qualifications", "actions")
    /\ FailInterrupted({"qualify"})
    /\ UNCHANGED <<lifecycle, online>>
FailInterruptedActions ==
    /\ StartupStep("actions", "maintenance")
    /\ FailInterrupted({"restart"})
    /\ UNCHANGED <<lifecycle, online>>
FailInterruptedMaintenance ==
    /\ StartupStep("maintenance", "lifecycle")
    /\ FailInterrupted(Maintenance)
    /\ UNCHANGED <<lifecycle, online>>
ReleaseNodes ==
    /\ StartupStep("lifecycle", "up")
    /\ lifecycle' = [n \in Nodes |-> IF lifecycle[n] = "MAINTENANCE" THEN "ACTIVE" ELSE lifecycle[n]]
    /\ UNCHANGED <<op, online>>

-----------------------------------------------------------------------------
(* The message queue of the connection that is in the map *)

Reads(n, c) ==
    /\ phase[n][c] = "open" /\ sockets[n] = c
    /\ inbox[n][c] # <<>>
    /\ ~\E t \in txs : t.node = n /\ t.conn = c
Consume(n, c) == inbox' = [inbox EXCEPT ![n][c] = Tail(@)]

\* a heartbeat marks the node ONLINE and dispatches (Dispatch)
Heartbeat(n) ==
    /\ \E c \in Conns : sockets[n] = c /\ phase[n][c] = "open" /\ alive[n] = c
    /\ ~online[n]
    /\ online' = [online EXCEPT ![n] = TRUE]
    /\ UNCHANGED <<deployment, op, lifecycle, api, task, agent, history>>

\* Mutant: any failed deployment that is routed is READY again.
RecoverableAnyFailure(d) == status[d] \in {"READY", "HEALTHCHECK", "FAILED"}
\* a failure the Agent itself reported is final
Recoverable(d) ==
    \/ status[d] \in {"READY", "HEALTHCHECK"}
    \/ status[d] = "FAILED" /\ d \in lost

Accepted(m) ==
    IF m.type = "recovered" THEN Recoverable(m.dep)
    ELSE m.status = status[m.dep] \/ CanTransition(status[m.dep], m.status)

Previous(d) == Ready(ServiceOf[d]) \ {d}

NewStatus(m) == IF m.type = "recovered" THEN "READY" ELSE m.status

\* recordStatus and recordRuntimeRecovery up to COMMIT: the row is locked and
\* the change checked; for READY the rows of the previous revisions as well,
\* the ones this transaction can see.
BeginRecord(n, c) ==
    LET m == Head(inbox[n][c])
        new == NewStatus(m)
        previous == IF new = "READY" THEN Previous(m.dep) ELSE {}
    IN  /\ Reads(n, c) /\ m.type # "result"
        /\ Consume(n, c)
        /\ m.dep \notin Locked
        /\ IF home[m.dep] = n /\ Accepted(m)
           THEN /\ previous \intersect Locked = {}
                /\ txs' = txs \union {[node |-> n, conn |-> c, dep |-> m.dep,
                                       status |-> new, previous |-> previous]}
           ELSE UNCHANGED txs
        /\ UNCHANGED <<db, startup, sockets, phase, shut, task, agent, history>>

\* another READY of the service is being recorded, and does not see this one
Crosses(t) ==
    /\ t.status = "READY"
    /\ \E u \in txs \ {t} : u.status = "READY" /\ ServiceOf[u.dep] = ServiceOf[t.dep]

CommitRecord(t) ==
    /\ t \in txs
    /\ status' = [d \in Deployments |-> IF d = t.dep THEN t.status
                                        ELSE IF d \in t.previous THEN "ROLLED_BACK" ELSE status[d]]
    /\ lease' = [lease EXCEPT ![t.dep] = "none"]
    /\ lost' = lost \ {t.dep}
    /\ txs' = txs \ {t}
    /\ crossed' = IF Crosses(t) THEN crossed \union {t.dep} ELSE crossed
    /\ UNCHANGED <<home, op, lifecycle, online, startup, sockets, phase, shut, inbox, task,
                   agent, routed, overdue, excused, used>>

\* A result is refused unless its action is RUNNING on the node of the
\* connection; a cleanup also unless the node is in MAINTENANCE.
Acceptable(n, m) ==
    /\ op[m.op].status = "RUNNING" /\ op[m.op].node = n
    /\ op[m.op].kind = "cleanup" /\ m.ok => lifecycle[n] = "MAINTENANCE"

Complete(m) == op' = [op EXCEPT ![m.op].status = IF m.ok THEN "DONE" ELSE "FAILED"]

RecordRuntimeAction(m) ==
    /\ op[m.op].kind = "restart"
    /\ Complete(m)
    /\ UNCHANGED <<lifecycle, online, shut>>

RecordNodeQualification(m) ==
    /\ op[m.op].kind = "qualify"
    /\ Complete(m)
    /\ UNCHANGED <<lifecycle, online, shut>>

\* A node that was cleaned up is archived, and its connection closed.  The row
\* of the action is locked: not while a close handler holds it.
RecordNodeMaintenance(n, c, m) ==
    LET archives == op[m.op].kind = "cleanup" /\ m.ok
    IN  /\ op[m.op].kind \in Maintenance /\ ~Holding(n)
        /\ Complete(m)
        /\ lifecycle' = IF archives THEN [lifecycle EXCEPT ![n] = "ARCHIVED"] ELSE Release(n)
        /\ online' = [online EXCEPT ![n] = @ /\ ~archives]
        /\ shut' = [shut EXCEPT ![n] = IF archives THEN @ \union {c} ELSE @]

\* the queue hands each event to its recorder; one that is refused is logged
RecordResult(n, c) ==
    LET m == Head(inbox[n][c])
    IN  /\ Reads(n, c) /\ m.type = "result"
        /\ Consume(n, c)
        /\ IF Acceptable(n, m)
           THEN RecordRuntimeAction(m) \/ RecordNodeQualification(m) \/ RecordNodeMaintenance(n, c, m)
           ELSE UNCHANGED <<op, lifecycle, online, shut>>
        /\ UNCHANGED <<deployment, startup, sockets, phase, txs, task, agent, history>>

-----------------------------------------------------------------------------
(* The Agents *)

\* w.send: an Agent that knows its connection is gone gets an error; one that
\* does not loses what it sends if the other end has closed.
\* Bound: at most MaxUnread frames of a connection are unread at a time.
Write(n, c, message) ==
    IF Hears(n, c)
    THEN /\ Len(inbox[n][c]) < MaxUnread
         /\ inbox' = [inbox EXCEPT ![n][c] = Append(@, message)]
    ELSE UNCHANGED inbox
Writable(t) == alive[t.node] = t.conn
Says(d, s) == [type |-> "status", dep |-> d, status |-> s]

\* dial and hello; the credential of an archived node is revoked
Connect(n) ==
    LET c == dialed[n] + 1
    IN  /\ startup = "up"
        /\ alive[n] = 0 /\ c \in Conns /\ lifecycle[n] # "ARCHIVED"
        /\ dialed' = [dialed EXCEPT ![n] = c]
        /\ alive' = [alive EXCEPT ![n] = c]
        /\ phase' = [phase EXCEPT ![n][c] = "hello"]
        /\ recovery' = [recovery EXCEPT ![n] = [pc |-> "router", left |-> {}]]
        /\ UNCHANGED <<db, startup, sockets, shut, inbox, txs, task, marked, route, history>>

Hangup(n) ==
    /\ alive' = [alive EXCEPT ![n] = 0]
    /\ UNCHANGED <<db, api, dialed, recovery, route>>

\* the connection breaks: what is on the wire to the Agent is lost
Drop(n) ==
    /\ alive[n] # 0 /\ alive[n] < MaxConnections
    /\ Hangup(n)
    /\ task' = {t \in task : ~(t.node = n /\ t.at = "wire")}
    /\ UNCHANGED <<marked, history>>

\* the read loop ends after the control plane closed the socket
NoticeClose(n) ==
    /\ alive[n] # 0
    /\ alive[n] \in shut[n] \/ phase[n][alive[n]] \in {"guard", "done", "refused"}
    /\ Hangup(n)
    /\ task' = {t \in task : ~(t.node = n /\ t.at = "wire")}
    /\ UNCHANGED <<marked, history>>

\* the process dies with its goroutines; a switch in progress leaves a marker
AgentCrash(n) ==
    /\ used.crashes < MaxCrashes /\ Trouble /\ alive[n] < MaxConnections
    /\ Hangup(n)
    /\ task' = {t \in task : t.node = n => t.at = "claimed"}
    /\ \E m \in SUBSET {t.id : t \in {u \in task : u.node = n /\ u.at = "checking"}} :
          marked' = [marked EXCEPT ![n] = @ \union m]
    /\ used' = [used EXCEPT !.crashes = @ + 1]
    /\ UNCHANGED <<routed, overdue, crossed, excused>>

\* recoverRuntimeRouter: an uncommitted switch is reported FAILED and its
\* marker removed; then the committed routes are read.  No runtimeMu here, a
\* deployment of the previous connection may be running.
RecoverRouter(n) ==
    /\ alive[n] # 0 /\ recovery[n].pc = "router"
    /\ IF marked[n] = {}
       THEN /\ recovery' = [recovery EXCEPT ![n] =
                              [pc |-> "report", left |-> {route[n][s] : s \in Services} \ {0}]]
            /\ UNCHANGED <<inbox, marked>>
       ELSE \E d \in marked[n] :
            /\ marked' = [marked EXCEPT ![n] = @ \ {d}]
            /\ IF route[n][ServiceOf[d]] = d THEN UNCHANGED inbox
               ELSE Write(n, alive[n], Says(d, "FAILED"))
            /\ UNCHANGED recovery
    /\ UNCHANGED <<db, startup, sockets, phase, shut, txs, task, dialed, alive, route, history>>

\* each route is verified over HTTP, and reported if it answers
ReportRoute(n) ==
    /\ alive[n] # 0 /\ recovery[n].pc = "report"
    /\ IF recovery[n].left = {}
       THEN /\ recovery' = [recovery EXCEPT ![n].pc = "served"]
            /\ UNCHANGED inbox
       ELSE \E d \in recovery[n].left :
            /\ recovery' = [recovery EXCEPT ![n].left = @ \ {d}]
            /\ \/ Write(n, alive[n], [type |-> "recovered", dep |-> d])
               \/ UNCHANGED inbox
    /\ UNCHANGED <<db, startup, sockets, phase, shut, txs, task, dialed, alive, marked, route, history>>

\* the read loop starts a goroutine
ReadCommand(t) ==
    /\ t \in task /\ t.at = "wire"
    /\ Writable(t) /\ recovery[t.node].pc = "served"
    /\ task' = (task \ {t}) \union {[t EXCEPT !.at = "waiting"]}
    /\ UNCHANGED <<db, api, agent, history>>

Free(n) == ~\E t \in task : t.node = n /\ t.at \in {"building", "deploying", "checking", "routed"}

\* runDeployment says what it is about to do, and returns if it cannot say it
Proceed(t, from, to, s) ==
    /\ t \in task /\ t.kind = "deploy" /\ t.at = from
    /\ IF Writable(t)
       THEN /\ task' = (task \ {t}) \union (IF to = "end" THEN {} ELSE {[t EXCEPT !.at = to]})
            /\ Write(t.node, t.conn, Says(t.id, s))
       ELSE /\ task' = task \ {t}
            /\ UNCHANGED inbox
    /\ UNCHANGED <<db, startup, sockets, phase, shut, txs, agent, history>>

StartBuild(t) == Free(t.node) /\ Proceed(t, "waiting", "building", "BUILDING")
StartRuntime(t) == Proceed(t, "building", "deploying", "DEPLOYING")
StartHealthcheck(t) == Proceed(t, "deploying", "checking", "HEALTHCHECK")

\* Mutant: the switch fails and the deployment goes on.
SwitchRouteIgnoringFailure(t) ==
    /\ t \in task /\ t.at = "checking"
    /\ task' = (task \ {t}) \union {[t EXCEPT !.at = "routed"]}
    /\ UNCHANGED <<db, api, agent, history>>
\* the route is committed, whether or not anyone can be told
SwitchRoute(t) ==
    /\ t \in task /\ t.at = "checking"
    /\ task' = (task \ {t}) \union {[t EXCEPT !.at = "routed"]}
    /\ route' = [route EXCEPT ![t.node][ServiceOf[t.id]] = t.id]
    /\ routed' = routed \union {t.id}
    /\ UNCHANGED <<db, api, dialed, alive, recovery, marked, overdue, crossed, excused, used>>

ReportReady(t) == Proceed(t, "routed", "end", "READY")
FailDeployment(t) ==
    \/ Free(t.node) /\ Proceed(t, "waiting", "end", "FAILED")
    \/ \E from \in {"building", "deploying", "checking"} : Proceed(t, from, "end", "FAILED")

\* restarts and cleanup hold runtimeMu, qualification and update do not
RunOp(t, ok) ==
    /\ t \in task /\ t.kind # "deploy" /\ t.at = "waiting"
    /\ t.kind \in {"restart", "cleanup"} => Free(t.node)
    /\ t.kind = "restart" /\ ok => route[t.node][ServiceOf[op[t.id].dep]] = op[t.id].dep
    /\ task' = task \ {t}
    /\ IF Writable(t)
       THEN Write(t.node, t.conn, [type |-> "result", op |-> t.id, ok |-> ok])
       ELSE UNCHANGED inbox
    /\ route' = IF t.kind = "cleanup" /\ ok
                THEN [route EXCEPT ![t.node] = [s \in Services |-> 0]] ELSE route
    /\ UNCHANGED <<db, startup, sockets, phase, shut, txs, dialed, alive, recovery, marked, history>>

-----------------------------------------------------------------------------

Cleanup(n, c) ==
    \/ CloseEvent(n, c) \/ Guard(n, c) \/ GoOffline(n, c)
    \/ FailActiveDeployments(n, c) \/ FailRunningRuntimeActions(n, c)
    \/ FailRunningQualifications(n, c) \/ FailRunningNodeMaintenance(n, c) \/ ReleaseNode(n, c)
Listen(n, c) == Admit(n, c) \/ Open(n, c) \/ BeginRecord(n, c) \/ RecordResult(n, c)
Work(t) ==
    \/ ReadCommand(t) \/ StartBuild(t) \/ StartRuntime(t) \/ StartHealthcheck(t)
    \/ SwitchRoute(t) \/ ReportReady(t) \/ FailDeployment(t) \/ \E ok \in BOOLEAN : RunOp(t, ok)
Startup ==
    \/ NodesOffline \/ FailInterruptedQualifications \/ FailInterruptedActions
    \/ FailInterruptedMaintenance \/ ReleaseNodes
Reconnect(n) == Connect(n) \/ NoticeClose(n) \/ RecoverRouter(n) \/ ReportRoute(n)

Operator ==
    \/ \E d \in Deployments : CreateRollback(d) \/ \E n \in Nodes : CreateDeployment(d, n)
    \/ \E o \in Ops, n \in Nodes, c \in Conns :
          \/ Qualify(o, n, c)
          \/ \E d \in On(n) : Restart(o, d, c)
          \/ \E kind \in Maintenance : Maintain(o, n, kind, c)

Next ==
    \/ Operator
    \/ \E n \in Nodes, c \in Conns : Dispatch(n, c) \/ Cleanup(n, c) \/ Listen(n, c)
    \/ \E t \in task : FailBeforeDispatch(t) \/ GiveBack(t) \/ Send(t) \/ Work(t)
    \/ \E t \in txs : CommitRecord(t)
    \/ \E d \in Deployments : Expire(d)
    \/ \E n \in Nodes, c \in Conns : Reject(n, c)
    \/ \E n \in Nodes : Heartbeat(n) \/ Drop(n) \/ AgentCrash(n) \/ Reconnect(n)
    \/ ControlPlaneRestart
    \/ Startup

Spec == Init /\ [][Next]_vars

(* Fairness.  The server's handlers of socket events and messages advance   *)
(* whenever one of them can, and so do its dispatches and the goroutines of *)
(* an Agent, which dials again when it lost its connection (main loop);     *)
(* heartbeats every 15 s dispatch whatever can be dispatched; leases run    *)
(* out; a control plane that starts goes through its updates.  Which        *)
(* handler or goroutine advances is left open: each has finitely many       *)
(* steps.  Nothing is assumed of operators, of crashes or of connections.   *)
Handlers ==
    \/ \E n \in Nodes, c \in Conns : Cleanup(n, c) \/ Listen(n, c)
    \/ \E t \in txs : CommitRecord(t)
    \/ Startup
Agent(n) == Reconnect(n) \/ \E t \in task : t.node = n /\ Work(t)

Fairness ==
    /\ WF_vars(Handlers)
    /\ WF_vars(\E t \in task : Send(t) \/ FailBeforeDispatch(t))
    /\ \A n \in Nodes : WF_vars(Agent(n)) /\ WF_vars(Heartbeat(n)) /\ WF_vars(Dispatch(n, sockets[n]))
    /\ \A d \in Deployments : WF_vars(Expire(d))

FairSpec == Spec /\ Fairness

-----------------------------------------------------------------------------
(* Properties *)

\* "deployment dispatch is blocked while a runtime action is active": while a
\* restart is RUNNING no deployment of its node is under way, whatever was
\* sent before the restart was accepted (executeRestartOperation and
\* dispatchQueued exclude each other on the row of the node).
ActionAlone ==
    \A n \in Nodes : Running(n, {"restart"}) # {} => ~\E d \in On(n) : InFlight(d)

\* A node stays in MAINTENANCE only while a maintenance action of it is RUNNING
\* (else nothing would be dispatched to it again), and it is in MAINTENANCE as
\* long as one is, through results, takeovers, disconnects and a control plane
\* that stops at any of its updates: but for an action that started between the
\* two statements of a close handler, which may find its node released
\* (`slipped').  No deployment is under way on a node in MAINTENANCE.
MaintenanceAlone ==
    \A n \in Nodes :
        /\ startup = "up" /\ lifecycle[n] = "MAINTENANCE" => Running(n, Maintenance) # {}
        /\ Running(n, Maintenance) \subseteq slipped \/ lifecycle[n] = "MAINTENANCE"
        /\ lifecycle[n] = "MAINTENANCE" => ~\E d \in On(n) : InFlight(d)

\* infra/acceptance: "maintenance-node-excluded-then-returned-active".
\* No maintenance action runs on a node that is not in MAINTENANCE.
MaintenanceExcludes ==
    \A n \in Nodes : Running(n, Maintenance) # {} => lifecycle[n] = "MAINTENANCE"

\* Two deployments are under way on one node only if the lease of one of them
\* ran out before its Agent said anything: never through a reconnect, a
\* takeover or a status that is being recorded.
OneInFlight ==
    \A n \in Nodes : \A d, e \in On(n) :
        d # e /\ InFlight(d) /\ InFlight(e) => {d, e} \intersect overdue # {}

\* What the control plane calls READY, or once called READY, was committed to
\* the routes of a node, however its statuses were lost or delayed.
ReadyWasRouted ==
    \A d \in Deployments : status[d] \in {"READY", "ROLLED_BACK"} => d \in routed

\* A service has one current revision, whichever mix of reported and recovered
\* READY is recorded on whichever nodes, unless two of them were recorded at
\* once: neither of those transactions sees the revision of the other.
OneReady ==
    \A d, e \in Deployments :
        d # e /\ ServiceOf[d] = ServiceOf[e] /\ status[d] = "READY" /\ status[e] = "READY"
            => {d, e} \intersect crossed # {}

\* The tables agree with each other: one deployment of a node under way, one
\* revision of a service current.
Consistent == TypeOK /\ OneInFlight /\ OneReady

\* A failure that the Agent reported, or that kept the command from being sent,
\* is final: no late status and no recovered route brings the deployment back.
\* Only the failure the control plane assumed on a disconnect can be undone.
ReportedFailureIsFinal ==
    [][\A d \in Deployments :
          status[d] = "FAILED" /\ d \notin lost => status'[d] = "FAILED" /\ d \notin lost']_vars

\* An archived node serves nothing the control plane calls READY: cleanup
\* "requires zero READY deployments" on it.
ArchivedIsEmpty ==
    \A n \in Nodes : lifecycle[n] = "ARCHIVED" => ~\E d \in On(n) : status[d] = "READY"

\* What no close handler will fail holds the node: a deployment in progress that
\* a takeover or a restart of the control plane left behind, or a restart or
\* maintenance whose command went to a connection that was lost or taken over.
Blocked(n) ==
    \/ \E d \in On(n) \intersect orphans : Active(d)
    \/ Running(n, {"restart"} \union Maintenance) \intersect stranded # {}

\* bound: the control plane has closed the last connection the Agent may dial
Undialed(n) == dialed[n] = MaxConnections /\ alive[n] = 0

\* A deployment ends READY, FAILED or ROLLED_BACK, through lost commands,
\* expired leases, disconnects, takeovers and restarts of the control plane,
\* unless its node is archived, or held by what was left behind.  In particular
\* the close handler of a connection does not take from the next one its
\* deployments or its place in the map.
Settles ==
    \A d \in Deployments :
        (status[d] = "QUEUED" \/ Active(d))
            ~> (status[d] \in {"READY", "FAILED", "ROLLED_BACK"} \/ Blocked(home[d])
                \/ lifecycle[home[d]] = "ARCHIVED" \/ Undialed(home[d]))

\* A restart, a qualification or a maintenance action ends, unless its command
\* went to a connection that was lost, its connection was taken over while it
\* was RUNNING, or its node was released under it.
OpsEnd ==
    \A o \in Ops :
        (op[o].status = "RUNNING") ~> (op[o].status # "RUNNING" \/ o \in stranded \union slipped)

\* Whatever the control plane waits for ends.
Ends == Settles /\ OpsEnd

\* "the record becomes FAILED rather than remaining indefinitely active"
QualificationEnds ==
    \A o \in Ops :
        (op[o].status = "RUNNING" /\ op[o].kind = "qualify") ~> (op[o].status # "RUNNING")

-----------------------------------------------------------------------------
(* Why no deployment overtakes a restart *)

\* nobody but the table knows of the deployment: no command, no message, no
\* transaction, no route of an Agent
Fresh(d) ==
    /\ lease[d] = "none"
    /\ \A t \in task : t.kind = "deploy" => t.id # d
    /\ \A t \in txs : t.dep # d
    /\ \A n \in Nodes, c \in Conns : \A i \in DOMAIN inbox[n][c] :
          inbox[n][c][i].type # "result" => inbox[n][c][i].dep # d
    /\ \A n \in Nodes : d \notin marked[n] /\ d \notin recovery[n].left
    /\ \A n \in Nodes, s \in Services : route[n][s] # d

Held(d) ==
    \/ status[d] = "none"
    \/ status[d] = "QUEUED" /\ Running(home[d], {"restart"}) # {}

\* A deployment that waits behind a restart has not been sent, not even by a
\* dispatch that the restart overtook.
HeldIsFresh == \A d \in Deployments : Held(d) => Fresh(d)

\* Transactions that record a status hold different rows, and the row of a
\* deployment under way stays as it was read.
TxsApart ==
    /\ \A t \in txs : /\ t.dep \notin t.previous
                      /\ t.status \in InProgress => status[t.dep] \in InProgress \union {"QUEUED"}
    /\ \A t, u \in txs :
          t # u => ({t.dep} \union t.previous) \intersect ({u.dep} \union u.previous) = {}

\* A restart is alone on its node, and what waits behind it stays unsent.
RestartAlone == ActionAlone /\ HeldIsFresh /\ TxsApart
=============================================================================
