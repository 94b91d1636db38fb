----------------------------- MODULE AgentRouter -----------------------------
(***************************************************************************)
(* The runtime router of one node: how the Agent (apps/agent) promotes a   *)
(* deployment's backend behind the stable service listener, restarts it,   *)
(* drains the one it replaced, and recovers after a crash of the Agent, a  *)
(* reboot of the host, or a lost connection.                               *)
(*                                                                         *)
(* Files.  routes.json is `routes', Caddyfile is `boot' (what the router   *)
(* container reads when Docker starts it), Caddyfile.next is `next', the   *)
(* promotions/ directory is `markers'.  `live' is the configuration the    *)
(* running Caddy holds in memory.                                          *)
(*                                                                         *)
(* Processes.  Every command runs in a goroutine of its own, but they all  *)
(* hold runtimeMu from their first line to their last: `job' is the one    *)
(* that holds it, `pending' the ones that wait.  The connection (`conn')   *)
(* recovers the router on every reconnect, concurrently with a job left by *)
(* an earlier connection; runtimeRouterMu keeps it out of a route switch.  *)
(* Drains sleep in goroutines of their own and hold no lock.               *)
(***************************************************************************)
EXTENDS Naturals, FiniteSets

CONSTANTS
    Services,       \* service names on the node
    Deployments,    \* deployment ids
    Ports,          \* loopback ports Docker may publish a backend on
    ServiceOf,      \* deployment -> service
    HostPort,       \* service -> stable listener port
    Stateful,       \* services whose deployments mount persistent volumes
    NoRoute,        \* no route for a service
    Absent,         \* a file that does not exist
    MaxDeliveries,  \* bound: times one deploy command is delivered
    MaxRestarts,    \* bound: restart commands and automatic restarts
    MaxCrashes,     \* bound: crashes of the Agent process
    MaxReboots,     \* bound: reboots of the host
    MaxDrops,       \* bound: connections lost while the Agent lives
    MaxFaults,      \* bound: failed file writes and Docker calls
    MaxMishaps,     \* bound: the five kinds above together
    MaxTroubles     \* bound: those and the deployments delivered again

ASSUME PortsAssumption == Ports \subseteq Nat \ {0}
ASSUME ServiceAssumption == ServiceOf \in [Deployments -> Services]
ASSUME HostPortAssumption == HostPort \in [Services -> Nat]
ASSUME StatefulAssumption == Stateful \subseteq Services
ASSUME AbsentAssumption ==
    /\ NoRoute \notin [dep : Deployments, port : Ports] \union Deployments
    /\ Absent \notin [Services -> [dep : Deployments, port : Ports] \union {NoRoute}]
ASSUME BoundsAssumption ==
    /\ MaxDeliveries \in Nat /\ MaxRestarts \in Nat /\ MaxCrashes \in Nat
    /\ MaxReboots \in Nat /\ MaxDrops \in Nat /\ MaxFaults \in Nat /\ MaxMishaps \in Nat
    /\ MaxTroubles \in Nat

Route == [dep : Deployments, port : Ports]
Table == [Services -> Route \union {NoRoute}]
EmptyTable == [s \in Services |-> NoRoute]

VARIABLES
    routes,     \* routes.json
    boot,       \* Caddyfile
    next,       \* Caddyfile.next, or Absent
    live,       \* configuration in the memory of the running router
    router,     \* the router container: its state and its restart policy
    markers,    \* deployments with a promotion marker file
    backend,    \* state of each deployment's backend container
    port,       \* loopback port of each running backend, 0 otherwise
    job,        \* the goroutine that holds runtimeMu
    pending,    \* goroutines that wait for runtimeMu
    drains,     \* deployments whose backend a drain goroutine will remove
    conn,       \* the connection loop: none, markers, report, serving
    report,     \* routes recovery has still to verify and report
    said,       \* what the control plane was told about each deployment
    validated,  \* history: deployments whose backend passed direct health
    committed,  \* history: deployments routes.json has ever held
    used        \* how often each bounded thing has happened

files == <<routes, boot, next, markers>>
docker == <<live, router, backend, port>>
history == <<validated, committed>>
vars == <<routes, boot, next, live, router, markers, backend, port, job,
          pending, drains, conn, report, said, validated, committed, used>>

RouterPcs == {"apply", "verify", "commit", "promote", "clear", "restore",
              "rapply", "rverify"}
Pcs == {"idle", "build", "admit", "start", "health", "mark", "abort", "unstop",
        "settle", "fail", "restart", "rhealth", "rcommit"} \union RouterPcs
Kinds == {"deploy", "restart", "monitor"}

Idle == [pc |-> "idle"]
Jobs == {Idle} \union
        [pc : Pcs \ {"idle"}, kind : Kinds, dep : Deployments, linked : BOOLEAN,
         port : Ports \union {0}, previous : Route \union {NoRoute},
         stopped : Route \union {NoRoute}, first : BOOLEAN]
Commands == [kind : Kinds, dep : Deployments, linked : BOOLEAN, seq : Nat]
Counters == [deliveries : [Deployments -> Nat], restarts : Nat, crashes : Nat,
            reboots : Nat, drops : Nat, faults : Nat]

TypeOK ==
    /\ routes \in Table
    /\ boot \in Table
    /\ next \in Table \union {Absent}
    /\ live \in Table
    /\ router \in [state : {"absent", "stopped", "running"},
                   restart : {"no", "unless-stopped"}]
    /\ markers \subseteq Deployments
    /\ backend \in [Deployments -> {"absent", "running", "stopped"}]
    /\ port \in [Deployments -> Ports \union {0}]
    /\ job \in Jobs
    /\ pending \subseteq Commands
    /\ drains \subseteq Deployments
    /\ conn \in {"none", "markers", "report", "serving"}
    /\ report \subseteq Deployments
    /\ said \in [Deployments -> SUBSET {"READY", "FAILED", "RECOVERED"}]
    /\ validated \subseteq Deployments
    /\ committed \subseteq Deployments
    /\ used \in Counters

Init ==
    /\ routes = EmptyTable
    /\ boot = EmptyTable
    /\ next = Absent
    /\ live = EmptyTable
    /\ router = [state |-> "absent", restart |-> "no"]
    /\ markers = {}
    /\ backend = [d \in Deployments |-> "absent"]
    /\ port = [d \in Deployments |-> 0]
    /\ job = Idle
    /\ pending = {}
    /\ drains = {}
    /\ conn = "none"
    /\ report = {}
    /\ said = [d \in Deployments |-> {}]
    /\ validated = {}
    /\ committed = {}
    /\ used = [deliveries |-> [d \in Deployments |-> 0], restarts |-> 0,
               crashes |-> 0, reboots |-> 0, drops |-> 0, faults |-> 0]

-----------------------------------------------------------------------------
(* Helpers *)

Routed(table) == {table[s].dep : s \in {t \in Services : table[t] # NoRoute}}
RouteOf(d) == routes[ServiceOf[d]]
HasRoute(d) == RouteOf(d) # NoRoute /\ RouteOf(d).dep = d
\* Mutant: the backend port is not resolved before the route is written.
NextTableUnresolved(d) == [routes EXCEPT ![ServiceOf[d]] = [dep |-> d, port |-> 0]]
\* upsertRuntimeRoute
NextTable(d) == [routes EXCEPT ![ServiceOf[d]] = [dep |-> d, port |-> job.port]]

\* upsertRuntimeRoute refuses a stable port another service's route holds
PortConflict(d) ==
    \E s \in Services \ {ServiceOf[d]} :
        routes[s] # NoRoute /\ HostPort[s] = HostPort[ServiceOf[d]]

FreePorts(d) == Ports \ {port[e] : e \in {x \in Deployments \ {d} : backend[x] = "running"}}

\* some backend answers on the loopback port
Answers(p) == \E e \in Deployments : backend[e] = "running" /\ port[e] = p

\* Mutant: the marker header is not compared.
RoutedHealthyUnmarked(d) ==
    LET r == live[ServiceOf[d]]
    IN  /\ router.state = "running"
        /\ r # NoRoute
        /\ Answers(r.port)
\* A GET through the stable listener of d's service: the marker header is set
\* by the router's configuration, the status by whatever answers on the port.
RoutedHealthy(d) ==
    LET r == live[ServiceOf[d]]
    IN  /\ router.state = "running"
        /\ r # NoRoute
        /\ r.dep = d
        /\ Answers(r.port)

\* what the stable listener of d's service really reaches
Reaches(d) ==
    LET r == live[ServiceOf[d]]
    IN  /\ router.state = "running"
        /\ r # NoRoute
        /\ backend[d] = "running"
        /\ port[d] = r.port

\* deployments whose command came a second time, for want of an answer within
\* the dispatch lease: such a command runs like a new one, also when the first
\* has failed, or was replaced by a later deployment
Repeated == {d \in Deployments : used.deliveries[d] > 1}
Mishaps == used.restarts + used.crashes + used.reboots + used.drops + used.faults
Trouble == Mishaps + Cardinality(Repeated) < MaxTroubles
Mishap == Mishaps < MaxMishaps /\ Trouble
Fault ==
    /\ used.faults < MaxFaults /\ Mishap
    /\ used' = [used EXCEPT !.faults = @ + 1]
Goto(pc) == job' = [job EXCEPT !.pc = pc]
RouterFree == conn # "markers"
Tell(d, what) ==
    said' = IF job.linked THEN [said EXCEPT ![d] = @ \union {what}] ELSE said
StopBackend(d, how) ==
    /\ backend' = [backend EXCEPT ![d] = how]
    /\ port' = [port EXCEPT ![d] = 0]
\* docker run, start or restart; the caller reads the port Docker chose
StartBackend(d, pc) ==
    \E p \in FreePorts(d) :
        /\ backend' = [backend EXCEPT ![d] = "running"]
        /\ port' = [port EXCEPT ![d] = p]
        /\ job' = [job EXCEPT !.port = p, !.pc = pc]

\* applyCommittedRuntimeRouterState: rewrite Caddyfile, then remove, start or
\* reload the router
ApplyCommitted(table) ==
    /\ boot' = table
    /\ IF table = EmptyTable
       THEN /\ router' = [state |-> "absent", restart |-> "no"]
            /\ live' = EmptyTable
       ELSE /\ router' = [state |-> "running",
                          restart |-> IF router.state = "absent"
                                      THEN "unless-stopped" ELSE router.restart]
            /\ live' = table
\* at the write, or later: a stopped router is started on the new Caddyfile
\* before its reload fails
ApplyCommittedFails(table) ==
    /\ Fault
    /\ \/ boot' \in {boot, table} /\ UNCHANGED <<router, live>>
       \/ /\ table # EmptyTable /\ router.state = "stopped"
          /\ boot' = table /\ live' = table
          /\ router' = [router EXCEPT !.state = "running"]

-----------------------------------------------------------------------------
(* Commands arriving over the connection *)

\* The control plane has at most one deployment or runtime action in flight on
\* a node.  It re-sends a deployment that reported nothing before its dispatch
\* lease ran out: one that waits for runtimeMu while another job holds it.  Of
\* the monitor's restarts it knows nothing.
Unanswered(c) ==
    /\ c.linked /\ c.kind # "monitor"
    /\ c.kind = "deploy" => said[c.dep] \intersect {"READY", "FAILED"} = {}
Quiet ==
    /\ \A c \in pending : ~Unanswered(c)
    /\ job.pc # "idle" => ~Unanswered(job)

ReceiveDeploy(d) ==
    /\ conn = "serving"
    /\ used.deliveries[d] < MaxDeliveries
    /\ \/ Quiet /\ used.deliveries[d] = 0
       \/ /\ job.pc # "idle" /\ Trouble
          /\ \E c \in pending : Unanswered(c) /\ c.kind = "deploy" /\ c.dep = d
    /\ pending' = pending \union
         {[kind |-> "deploy", dep |-> d, linked |-> TRUE, seq |-> used.deliveries[d]]}
    /\ used' = [used EXCEPT !.deliveries[d] = @ + 1]
    /\ UNCHANGED <<files, docker, history, job, drains, conn, report, said>>

ReceiveRestart(d) ==
    /\ conn = "serving"
    /\ Quiet
    /\ said[d] \intersect {"READY", "RECOVERED"} # {}
    /\ used.restarts < MaxRestarts /\ Mishap
    /\ pending' = pending \union
         {[kind |-> "restart", dep |-> d, linked |-> TRUE, seq |-> 0]}
    /\ used' = [used EXCEPT !.restarts = @ + 1]
    /\ UNCHANGED <<files, docker, history, job, drains, conn, report, said>>

NewJob(pc, kind, d, linked) ==
    [pc |-> pc, kind |-> kind, dep |-> d, linked |-> linked, port |-> 0,
     previous |-> NoRoute, stopped |-> NoRoute, first |-> FALSE]

\* runtimeMu is free: one of the waiting goroutines takes it.  Of those whose
\* connection is gone a deployment ends at its first status, a restart of the
\* monitor at its first Docker call, and a restart command does not look.
TakeRuntimeMu(c) ==
    /\ job.pc = "idle"
    /\ c \in pending
    /\ pending' = pending \ {c}
    /\ job' = IF c.kind # "restart" /\ ~c.linked THEN Idle
              ELSE NewJob(IF c.kind = "deploy" THEN "build" ELSE "restart", c.kind, c.dep, c.linked)
    /\ UNCHANGED <<files, docker, history, drains, conn, report, said, used>>

-----------------------------------------------------------------------------
(* runDeployment and runRollback *)

\* resolve or build the image; a lost connection shows at the next status
Build ==
    /\ job.pc = "build"
    /\ \/ job.linked /\ Goto("admit")
       \/ ~job.linked /\ job' = Idle
       \/ Goto("fail")
    /\ UNCHANGED <<files, docker, history, pending, drains, conn, report, said, used>>

\* runSafeRuntime up to the start of the backend.  A deployment that is already
\* the committed route of its service is only verified.
AdmitRouted ==
    /\ job.pc = "admit"
    /\ RouterFree
    /\ HasRoute(job.dep)
    /\ Goto(IF RoutedHealthy(job.dep) THEN "settle" ELSE "fail")
    /\ UNCHANGED <<files, docker, history, pending, drains, conn, report, said, used>>

\* disk, network, volume or container ownership checks refuse the runtime
AdmitRefused ==
    /\ job.pc = "admit"
    /\ ~HasRoute(job.dep)
    /\ Goto("fail")
    /\ UNCHANGED <<files, docker, history, pending, drains, conn, report, said, used>>

\* Mutant: the previous backend is never stopped.
NeedsStopNever(d) == FALSE
\* Mutant: stateless services are stopped too.
NeedsStopAlways(d) == RouteOf(d) # NoRoute
\* the service mounts volumes and another deployment's backend holds them
NeedsStop(d) == ServiceOf[d] \in Stateful /\ RouteOf(d) # NoRoute

\* remove a stale backend of this very deployment
AdmitStateless ==
    /\ job.pc = "admit"
    /\ RouterFree
    /\ ~HasRoute(job.dep)
    /\ ~NeedsStop(job.dep)
    /\ StopBackend(job.dep, "absent")
    /\ Goto("start")
    /\ UNCHANGED <<files, live, router, history, pending, drains, conn, report, said, used>>

\* ... and stop the backend that holds the persistent volumes, which must run
AdmitStateful ==
    /\ job.pc = "admit"
    /\ RouterFree
    /\ ~HasRoute(job.dep)
    /\ NeedsStop(job.dep)
    /\ LET d == job.dep
           previous == RouteOf(d)
       IN  IF backend[previous.dep] = "running"
           THEN /\ backend' = [backend EXCEPT ![d] = "absent", ![previous.dep] = "stopped"]
                /\ port' = [port EXCEPT ![d] = 0, ![previous.dep] = 0]
                /\ job' = [job EXCEPT !.pc = "start", !.stopped = previous]
           ELSE /\ StopBackend(d, "absent")
                /\ Goto("fail")
    /\ UNCHANGED <<files, live, router, history, pending, drains, conn, report, said, used>>

\* start the backend on a loopback port and report HEALTHCHECK
Start ==
    /\ job.pc = "start"
    /\ \/ StartBackend(job.dep, IF job.linked THEN "health" ELSE "abort")
       \/ UNCHANGED <<backend, port>> /\ Goto("abort")
    /\ UNCHANGED <<files, live, router, history, pending, drains, conn, report, said, used>>

\* Mutant: the candidate is promoted although its healthcheck failed.
AfterUnhealthyPromote == "mark"
AfterUnhealthy == "abort"

\* waitForHealth on the backend itself
Health ==
    /\ job.pc = "health"
    /\ \/ /\ Answers(job.port)
          /\ Goto("mark")
          /\ validated' = validated \union {job.dep}
       \/ Goto(AfterUnhealthy) /\ UNCHANGED validated
    /\ UNCHANGED <<files, docker, committed, pending, drains, conn, report, said, used>>

-----------------------------------------------------------------------------
(* switchRuntimeRoute, under runtimeRouterMu from Mark to Clear or Restore *)

Mark ==
    /\ job.pc = "mark"
    /\ RouterFree
    /\ \/ /\ PortConflict(job.dep)
          /\ Goto("abort")
          /\ UNCHANGED <<markers, used>>
       \/ /\ ~PortConflict(job.dep)
          /\ markers' = markers \union {job.dep}
          /\ job' = [job EXCEPT !.pc = "apply", !.previous = RouteOf(job.dep)]
          /\ UNCHANGED used
       \/ ~PortConflict(job.dep) /\ Fault /\ Goto("abort") /\ UNCHANGED markers
    /\ UNCHANGED <<routes, boot, next, docker, history, pending, drains, conn, report, said>>

\* applyCandidateRuntimeRouterState: reload an existing router from
\* Caddyfile.next (a stopped one is started first, on Caddyfile), or write
\* Caddyfile and start the node's first router with Docker restart disabled
ApplyCandidate ==
    /\ job.pc = "apply"
    /\ router.state # "absent"
    /\ next' = NextTable(job.dep)
    /\ live' = NextTable(job.dep)
    /\ router' = [router EXCEPT !.state = "running"]
    /\ Goto("verify")
    /\ UNCHANGED <<routes, boot, markers, backend, port, history, pending, drains,
                   conn, report, said, used>>

\* Mutant: the first router is durable from the start.
FirstRouterDurable == [state |-> "running", restart |-> "unless-stopped"]
FirstRouter == [state |-> "running", restart |-> "no"]

ApplyFirst ==
    /\ job.pc = "apply"
    /\ router.state = "absent"
    /\ boot' = NextTable(job.dep)
    /\ live' = NextTable(job.dep)
    /\ router' = FirstRouter
    /\ job' = [job EXCEPT !.pc = "verify", !.first = TRUE]
    /\ UNCHANGED <<routes, next, markers, backend, port, history, pending, drains,
                   conn, report, said, used>>

ApplyFails ==
    /\ job.pc = "apply"
    /\ Fault
    /\ IF router.state = "absent"
       THEN boot' = NextTable(job.dep) /\ UNCHANGED <<next, live, router>>
       ELSE /\ next' = NextTable(job.dep)
            /\ live' = IF router.state = "stopped" THEN boot ELSE live
            /\ router' = [router EXCEPT !.state = "running"]
            /\ UNCHANGED boot
    /\ Goto("restore")
    /\ UNCHANGED <<routes, markers, backend, port, history, pending, drains,
                   conn, report, said>>

\* waitForRoutedHealth through the stable listener; the candidate may stop
\* answering after its direct health
Verify ==
    /\ job.pc = "verify"
    /\ \/ RoutedHealthy(job.dep) /\ Goto("commit")
       \/ Goto("restore")
    /\ UNCHANGED <<files, docker, history, pending, drains, conn, report, said, used>>

\* writeRuntimeRouterState: the commit point
Commit ==
    /\ job.pc = "commit"
    /\ \/ /\ routes' = NextTable(job.dep)
          /\ committed' = committed \union {job.dep}
          /\ Goto("promote")
          /\ UNCHANGED used
       \/ Fault /\ Goto("restore") /\ UNCHANGED <<routes, committed>>
    /\ UNCHANGED <<boot, next, markers, docker, validated, pending, drains, conn, report, said>>

\* rename Caddyfile.next over Caddyfile, then enable Docker restart
Promote ==
    /\ job.pc = "promote"
    /\ IF job.first THEN UNCHANGED <<boot, next>> ELSE boot' = next /\ next' = Absent
    /\ router' = [router EXCEPT !.restart = "unless-stopped"]
    /\ Goto("clear")
    /\ UNCHANGED <<routes, markers, live, backend, port, history, pending, drains,
                   conn, report, said, used>>

\* the rename or the docker update fails: the route and the marker stay
PromoteFails ==
    /\ job.pc = "promote"
    /\ Fault
    /\ \/ UNCHANGED <<boot, next>>
       \/ ~job.first /\ boot' = next /\ next' = Absent
    /\ Goto("settle")
    /\ UNCHANGED <<routes, markers, docker, history, pending, drains, conn, report, said>>

Clear ==
    /\ job.pc = "clear"
    /\ \/ markers' = markers \ {job.dep} /\ UNCHANGED used
       \/ Fault /\ UNCHANGED markers
    /\ Goto("settle")
    /\ UNCHANGED <<routes, boot, next, docker, history, pending, drains, conn, report, said>>

\* Mutant: the marker is forgotten although the restore failed.
RestoreFailsUnmarked == ApplyCommittedFails(routes) /\ markers' = markers \ {job.dep}
RestoreFails == ApplyCommittedFails(routes) /\ UNCHANGED markers

\* restore(): discard the candidate file, apply the committed state again and
\* only then forget the marker
Restore ==
    /\ job.pc = "restore"
    /\ next' = Absent
    /\ \/ ApplyCommitted(routes) /\ markers' = markers \ {job.dep} /\ UNCHANGED used
       \/ RestoreFails
    /\ Goto("abort")
    /\ UNCHANGED <<routes, backend, port, history, pending, drains, conn, report, said>>

-----------------------------------------------------------------------------
(* How a deployment ends *)

\* remove the candidate's backend (an error is ignored), then bring back the
\* stateful backend that was stopped for it
Abort ==
    /\ job.pc = "abort"
    /\ \/ StopBackend(job.dep, "absent") /\ UNCHANGED used
       \/ Fault /\ UNCHANGED <<backend, port>>
    /\ Goto(IF job.stopped = NoRoute THEN "fail" ELSE "unstop")
    /\ UNCHANGED <<files, live, router, history, pending, drains, conn, report, said>>

\* restoreStatefulPreviousBackend: docker start, which may fail and leave the
\* backend stopped, and direct health, then the route is committed again for
\* the new port
Unstop ==
    /\ job.pc = "unstop"
    /\ LET d == job.stopped.dep
       IN  \/ backend[d] = "stopped" /\ StartBackend(d, "rcommit")
           \/ backend[d] = "stopped" /\ StartBackend(d, "fail")
           \/ /\ backend[d] = "running"
              /\ job' = [job EXCEPT !.port = port[d], !.pc = "rcommit"]
              /\ UNCHANGED <<backend, port>>
           \/ backend[d] # "stopped" /\ Goto("fail") /\ UNCHANGED <<backend, port>>
    /\ UNCHANGED <<files, live, router, history, pending, drains, conn, report, said, used>>

UnstopFails ==
    /\ job.pc = "unstop"
    /\ Fault
    /\ Goto("fail")
    /\ UNCHANGED <<files, docker, history, pending, drains, conn, report, said>>

Fail ==
    /\ job.pc = "fail"
    /\ Tell(job.dep, "FAILED")
    /\ job' = Idle
    /\ UNCHANGED <<files, docker, history, pending, drains, conn, report, used>>

\* Mutant: no drain is scheduled.
ReplacedNever == {}
\* the deployment whose backend the switch replaced, if any
Replaced == IF job.previous # NoRoute THEN {job.previous.dep} \ {job.dep} ELSE {}

\* schedule the drain of the replaced backend and report READY
Settle ==
    /\ job.pc = "settle"
    /\ drains' = drains \union Replaced
    /\ Tell(job.dep, "READY")
    /\ job' = Idle
    /\ UNCHANGED <<files, docker, history, pending, conn, report, used>>

\* the drain goroutine wakes up; it looks at ownership, not at routes.json
Drain(d) ==
    /\ d \in drains
    /\ drains' = drains \ {d}
    /\ StopBackend(d, "absent")
    /\ UNCHANGED <<files, live, router, history, job, pending, conn, report, said, used>>

-----------------------------------------------------------------------------
(* Restart: asked for by the control plane, or by the health monitor *)

\* The monitor probes a route, which fails (three times in a row, with a
\* cooldown: the counting is left out), and waits for runtimeMu to restart it.
MonitorRestart(d) ==
    /\ conn = "serving"
    /\ \A c \in pending : c.linked => c.kind # "monitor"
    /\ job.pc # "idle" /\ job.linked => job.kind # "monitor"
    /\ HasRoute(d)
    /\ ~RoutedHealthy(d)
    /\ used.restarts < MaxRestarts /\ Mishap
    /\ pending' = pending \union
         {[kind |-> "monitor", dep |-> d, linked |-> TRUE, seq |-> 0]}
    /\ used' = [used EXCEPT !.restarts = @ + 1]
    /\ UNCHANGED <<files, docker, history, job, drains, conn, report, said>>

Restart ==
    /\ job.pc = "restart"
    /\ RouterFree
    /\ IF HasRoute(job.dep) /\ backend[job.dep] # "absent"
       THEN \/ StartBackend(job.dep, "rhealth") /\ UNCHANGED used
            \/ Fault /\ job' = Idle /\ UNCHANGED <<backend, port>>
       ELSE job' = Idle /\ UNCHANGED <<backend, port, used>>
    /\ UNCHANGED <<files, live, router, history, pending, drains, conn, report, said>>

\* Docker kept the port: routed health answers.  It changed: the backend must
\* be healthy on the new port before the route is committed.
RestartHealth ==
    /\ job.pc = "rhealth"
    /\ \/ job.port # RouteOf(job.dep).port /\ Answers(job.port) /\ Goto("rcommit")
       \/ job' = Idle
    /\ UNCHANGED <<files, docker, history, pending, drains, conn, report, said, used>>

\* the deployment whose route commitRestartRuntimeRoute rewrites
Target == IF job.kind = "deploy" THEN job.stopped.dep ELSE job.dep
EndRestart == IF job.kind = "deploy" THEN Goto("fail") ELSE job' = Idle

RestartCommit ==
    /\ job.pc = "rcommit"
    /\ RouterFree
    /\ \/ HasRoute(Target) /\ routes' = NextTable(Target) /\ Goto("rapply") /\ UNCHANGED used
       \/ ~HasRoute(Target) /\ EndRestart /\ UNCHANGED <<routes, used>>
       \/ HasRoute(Target) /\ Fault /\ EndRestart /\ UNCHANGED routes
    /\ UNCHANGED <<boot, next, markers, docker, history, pending, drains, conn, report, said>>

RestartApply ==
    /\ job.pc = "rapply"
    /\ \/ ApplyCommitted(routes) /\ Goto("rverify") /\ UNCHANGED used
       \/ ApplyCommittedFails(routes) /\ EndRestart
    /\ UNCHANGED <<routes, next, markers, backend, port, history, pending, drains,
                   conn, report, said>>

RestartVerify ==
    /\ job.pc = "rverify"
    /\ EndRestart
    /\ UNCHANGED <<files, docker, history, pending, drains, conn, report, said, used>>

-----------------------------------------------------------------------------
(* The connection: recoverRuntimeRouter runs before any command is read *)

\* connect, send hello, take runtimeRouterMu and load routes.json
Connect ==
    /\ conn = "none"
    /\ job.pc \notin RouterPcs
    /\ conn' = "markers"
    /\ UNCHANGED <<files, docker, history, job, pending, drains, report, said, used>>

MarkerCommitted(d) == HasRoute(d)

\* an uncommitted promotion loses its backend and is reported FAILED
RecoverMarker(d) ==
    /\ conn = "markers"
    /\ d \in markers
    /\ markers' = markers \ {d}
    /\ IF MarkerCommitted(d)
       THEN UNCHANGED <<backend, port, said>>
       ELSE StopBackend(d, "absent") /\ said' = [said EXCEPT ![d] = @ \union {"FAILED"}]
    /\ UNCHANGED <<routes, boot, next, live, router, history, job, pending, drains,
                   conn, report, used>>

RecoveryTable == routes

\* routes.json is authoritative: regenerate Caddyfile and reload
RecoverApply ==
    /\ conn = "markers"
    /\ markers = {}
    /\ next' = Absent
    /\ \/ /\ ApplyCommitted(RecoveryTable)
          /\ conn' = "report"
          /\ report' = Routed(routes)
          /\ UNCHANGED used
       \/ ApplyCommittedFails(RecoveryTable) /\ conn' = "none" /\ UNCHANGED report
    /\ UNCHANGED <<routes, markers, backend, port, history, job, pending, drains, said>>

\* verify one committed route for twelve seconds; report it or skip it
RecoverReport(d) ==
    /\ conn = "report"
    /\ d \in report
    /\ report' = report \ {d}
    /\ \/ /\ RoutedHealthy(d) /\ backend[d] # "absent"
          /\ said' = [said EXCEPT ![d] = @ \union {"RECOVERED"}]
       \/ UNCHANGED said
    /\ UNCHANGED <<files, docker, history, job, pending, drains, conn, used>>

Serve ==
    /\ conn = "report"
    /\ report = {}
    /\ conn' = "serving"
    /\ UNCHANGED <<files, docker, history, job, pending, drains, report, said, used>>

-----------------------------------------------------------------------------
(* Failures *)

Unlink(c) == [c EXCEPT !.linked = FALSE]

\* the connection ends; goroutines keep the writer of the closed connection
Disconnect ==
    /\ conn \in {"report", "serving"}
    /\ used.drops < MaxDrops /\ Mishap
    /\ used' = [used EXCEPT !.drops = @ + 1]
    /\ conn' = "none"
    /\ report' = {}
    /\ pending' = {Unlink(c) : c \in pending}
    /\ job' = IF job.pc = "idle" THEN job ELSE Unlink(job)
    /\ UNCHANGED <<files, docker, history, drains, said>>

AgentDies ==
    /\ job' = Idle
    /\ pending' = {}
    /\ drains' = {}
    /\ conn' = "none"
    /\ report' = {}

\* the process dies; files and containers stay
AgentCrash ==
    /\ used.crashes < MaxCrashes /\ Mishap
    /\ used' = [used EXCEPT !.crashes = @ + 1]
    /\ AgentDies
    /\ UNCHANGED <<files, docker, history, said>>

\* the host reboots: Docker starts what ran under unless-stopped, and publishes
\* every backend on a port of its choice
HostReboot ==
    /\ used.reboots < MaxReboots /\ Mishap
    /\ used' = [used EXCEPT !.reboots = @ + 1]
    /\ AgentDies
    /\ LET running == {d \in Deployments : backend[d] = "running"}
       IN  \E p \in [running -> Ports] :
               /\ \A d, e \in running : p[d] = p[e] => d = e
               /\ port' = [d \in Deployments |-> IF d \in running THEN p[d] ELSE 0]
    /\ IF router.state = "running" /\ router.restart = "unless-stopped"
       THEN live' = boot /\ UNCHANGED router
       ELSE /\ live' = EmptyTable
            /\ router' = [router EXCEPT !.state = IF @ = "absent" THEN @ ELSE "stopped"]
    /\ UNCHANGED <<files, backend, history, said>>

-----------------------------------------------------------------------------

DeployStep ==
    \/ Build
    \/ AdmitRouted \/ AdmitRefused \/ AdmitStateless \/ AdmitStateful
    \/ Start \/ Health
    \/ Mark \/ ApplyCandidate \/ ApplyFirst \/ ApplyFails \/ Verify
    \/ Commit \/ Promote \/ PromoteFails \/ Clear \/ Restore
    \/ Abort \/ Unstop \/ UnstopFails \/ Fail \/ Settle
RestartStep == Restart \/ RestartHealth \/ RestartCommit \/ RestartApply \/ RestartVerify
JobStep ==
    \/ \E c \in pending : TakeRuntimeMu(c)
    \/ DeployStep
    \/ RestartStep
ConnStep ==
    \/ Connect
    \/ \E d \in Deployments : RecoverMarker(d)
    \/ RecoverApply
    \/ \E d \in Deployments : RecoverReport(d)
    \/ Serve

Next ==
    \/ \E d \in Deployments : ReceiveDeploy(d) \/ ReceiveRestart(d)
    \/ JobStep
    \/ \E d \in Deployments : Drain(d) \/ MonitorRestart(d)
    \/ ConnStep
    \/ Disconnect \/ AgentCrash \/ HostReboot

Spec == Init /\ [][Next]_vars

\* goroutines, the reconnect loop and the drain timers are always scheduled
FairSpec ==
    /\ Spec
    /\ WF_vars(JobStep)
    /\ WF_vars(ConnStep)
    /\ \A d \in Deployments : WF_vars(Drain(d))

-----------------------------------------------------------------------------
(* Properties *)

\* what has not happened so far
NoCrash == used.crashes = 0 /\ used.reboots = 0
NoFault == used.faults = 0
NoPortChange == used.reboots = 0 /\ used.restarts = 0

Dep(r) == IF r = NoRoute THEN NoRoute ELSE r.dep

\* What Docker would start by itself holds committed routes only: neither
\* Caddyfile.next nor the Caddyfile of an uncommitted first router can become
\* the boot configuration, at whatever point Agent or host stop
\* (promoteCandidateRuntimeRouterConfig, applyCandidateRuntimeRouterState).
BootOnlyCommitted ==
    router.restart = "unless-stopped" => Routed(boot) \subseteq committed

\* A listener that stands for something else than its committed route, while
\* the Agent serves and switches nothing, still has a promotion marker that
\* tells the next recovery (switchRuntimeRoute's restore, recoverRuntimeRouter).
DivergenceIsMarked ==
    conn = "serving" /\ job.pc \notin RouterPcs =>
        \A s \in Services :
            \/ router.state = "running" /\ Dep(live[s]) = Dep(routes[s])
            \/ router.state # "running" /\ routes[s] = NoRoute
            \/ \E d \in markers : ServiceOf[d] = s

\* A deployment reported FAILED does not hold the committed route of its
\* service, whatever was interrupted, taken back or recovered before, and
\* however often other deployments were delivered.  One whose command is
\* delivered again may be routed after its failure (apps/api/src/index.ts
\* dispatches it again when its lease ran out).
FailedNotRouted ==
    \A d \in Deployments \ Repeated : "FAILED" \in said[d] => ~HasRoute(d)

\* However a switch failed, was interrupted or taken back: what was reported
\* FAILED holds no route, and a router that serves something else is marked.
FailureIsTold == FailedNotRouted /\ DivergenceIsMarked

\* Two services never share a stable listener (upsertRuntimeRoute).
ListenersDistinct ==
    \A s, t \in Services :
        routes[s] # NoRoute /\ routes[t] # NoRoute /\ HostPort[s] = HostPort[t] => s = t

\* Until something crashes, fails or is restarted, the stable listener of a
\* stateless service that has a route always reaches a running backend of that
\* service: while candidates are built, fail, are switched to or drained, and
\* across lost connections (ADR 0015, zero downtime).  The drain of a replaced
\* deployment whose command is delivered again may still be under way, so the
\* route and the candidate are taken not to be of that kind.
Reachable ==
    \A s \in Services \ Stateful :
        routes[s] # NoRoute /\ {Dep(routes[s]), Dep(live[s])} \intersect Repeated = {} =>
            \E d \in Deployments : ServiceOf[d] = s /\ Reaches(d)
Continuity == NoCrash /\ NoFault /\ NoPortChange => Reachable

\* Persistent volumes have one writer: until something crashes or fails, no two
\* backends of a stateful service run at the same time
\* (stopStatefulPreviousBackend, restorePrevious).
SingleWriter ==
    NoCrash /\ NoFault => \A d, e \in Deployments :
        /\ backend[d] = "running" /\ backend[e] = "running"
        /\ ServiceOf[d] = ServiceOf[e] /\ ServiceOf[d] \in Stateful
        => d = e

\* The drain never takes away the backend of a committed route, unless the
\* command of the replaced deployment was delivered again and routed it anew
\* (scheduleBackendDrain).
DrainSparesRoute == \A d \in drains \ Repeated : ~HasRoute(d)

\* Deployments, their failures and the drains of what they replace leave no
\* moment in which a stateless service that has a route is not reached.
ServedThroughout == Continuity /\ DrainSparesRoute

\* Services and deployments that contend for one port or one volume.
BackendsApart == ListenersDistinct /\ SingleWriter

\* runtimeRecovered is sent for a deployment only when the stable listener
\* really reaches that deployment's backend (recoverRuntimeRouter).
Reported(d) == "RECOVERED" \in said'[d] \ said[d]
RecoveredReaches == [][\A d \in Deployments : Reported(d) => Reaches(d)]_vars

\* The same for a stateless service, as long as Docker published no backend on
\* another port.  A stateful one is stopped for its candidate, and a recovery
\* that runs beside that job may hear the candidate on the freed port.
RecoveredReachesSamePorts ==
    [][NoPortChange => \A d \in Deployments :
          ServiceOf[d] \notin Stateful /\ Reported(d) => Reaches(d)]_vars

Store == INSTANCE RouteStore WITH
    NoDeployment <- NoRoute,
    active <- [s \in Services |-> Dep(routes[s])],
    healthy <- validated,
    retired <- committed \ Routed(routes),
    again <- Repeated

\* The router implements the abstract store, whatever is interrupted, delivered
\* again or recovered: routes.json goes from one validated deployment to the
\* next, and back to a replaced one only when its command came again.
RefinesRouteStore == Store!Spec

\* Whoever takes runtimeMu gives it back: no failure path leaves the node
\* unable to run its next command.
JobEnds == job.pc # "idle" ~> job.pc = "idle"

\* However often the Agent or the host stopped, the listeners end up on the
\* committed routes when no file write or Docker call fails.
Converges ==
    [] NoFault => \A s \in Services :
        <>[](Dep(live[s]) = Dep(routes[s]) /\ (routes[s] # NoRoute => router.state = "running"))

\* While the Agent process lives, a replaced backend is removed after the drain
\* window (scheduleBackendDrain, ADR 0015).
ReplacedIsRemoved ==
    [](NoCrash /\ NoFault) => \A d \in Deployments :
        (d \in committed /\ ~HasRoute(d)) ~> (backend[d] = "absent" \/ HasRoute(d))

\* What was begun is finished: the command that runs, the removal of what it
\* replaced, and the switch that a stop of the Agent or of the host interrupted.
Finishes == JobEnds /\ ReplacedIsRemoved /\ Converges
=============================================================================
