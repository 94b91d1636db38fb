# A verification of Rundea in TLA+

Rundea deploys services to servers its users own. A control plane
(`src/apps/api`, TypeScript over PostgreSQL) keeps the desired state and speaks
over one WebSocket per node to an Agent (`src/apps/agent`, Go), which builds
images, runs containers, and owns two Caddy containers on the node: the runtime
router, which stands behind the stable loopback listener of every service, and
the ingress, which serves public hostnames. Builders (`src/apps/builder`) take
build jobs from the control plane over HTTP.

This directory holds TLA+ modules of the parts where order, concurrency and
failure decide whether the system is right, the TLC configurations that check
them on small instances, and theorems about them checked by TLAPS.

    tlasany AgentRouter.tla
    tlc -config router_safety.cfg AgentRouterMC.tla
    tlapm AgentRouter_proofs.tla

## 1. The system

### Components

| Component | State it keeps | Operations | Module |
|---|---|---|---|
| Runtime router and promotion (`promotion.go`, `runtime_router.go`, `runtime_controls.go`, `runtime_port.go`) | `routes.json`, `Caddyfile`, `Caddyfile.next`, `promotions/`, containers, `runtimeMu`, `runtimeRouterMu` | deploy, restart, rollback, drain, recover | `AgentRouter`, abstract `RouteStore` |
| Agent sessions, dispatch, deployment lifecycle (`index.ts`, `runtime-operations.ts`, `runtime-controls.ts`, `node-qualification.ts`) | `deployments`, `runtime_actions`, `node_qualifications`, `nodes`, the `sockets` map, a message queue per connection | accept a connection, dispatch, record a status, record a recovery, close, start up | `NodeDispatch` |
| Node maintenance (`workspace-node-routes.ts`, `node_maintenance.go`) | `nodes.lifecycle_status`, `node_maintenance_actions` | update, cleanup, archive | `NodeDispatch`, `NodeCredentials` |
| Domains and ingress (`domains.ts`, `ingress.go`) | `service_domains`, `node_ingress_reconciliations`, the managed `Caddyfile`, `rundea-caddy` | attach, reconcile, delete, retry, move, record, apply | `DomainIngress` |
| Push pipeline and build engine (`github-autodeploy.ts`, `canonical-autodeploy.ts`, `build-engine.ts`, `apps/builder`) | `service_autodeploys`, `build_jobs`, webhook deliveries, registry | webhook, configure, claim, heartbeat, complete, fail | `BuildPipeline`, abstract `BuildQueue` |
| Operations (`operation-*.ts`) | `operation_approvals`, the audit rows | authorize, audit, consume, execute, revoke | `Operations`, abstract `ApprovalLedger` |
| MCP server and OAuth (`mcp-*.ts`) | consents, codes, refresh tokens, the signing key | register, authorize, exchange, refresh, call a tool | `McpServer`, which extends `Operations` |
| Enrolment, tickets, Agent release (`source-broker.ts`, `registry-pull-broker.ts`, `agent-release.ts`, `install.sh`, `source_bundle.go`, `registry_pull.go`) | `nodes.token_hash` and bootstrap, ticket rows, the cached release, `agent.env` | install, exchange, issue, claim, archive | `NodeCredentials`, abstract `OneShot` |
| Continuous health (`runtime_health.go`, `runtime-metrics.ts`) | `state.json`, the health columns of `deployments` | probe, count, restart, report, record | `RuntimeHealth`; its restart is in `AgentRouter` too |
| Ports, volumes, Redis (migrations 026, 027, 030, 036, `service-volumes.ts`, `managed-redis.ts`, `service-scoped-routes.ts`) | allocation rows, volumes, the addon | place a deployment, allocate, bind, attach | `Placement` |
| Variables (`service-variables.ts`, `deployment_variables`, log redaction) | `service_variables`, `deployment_variables` | write, delete, capture, copy, send | `ServiceVariables` |
| Sources (`github-project-connector.ts`, `discovery-confirmation.ts`) | `project_sources`, `service_source_configs` | inspect, store, confirm, archive | `ProjectSources` |
| Provider connections (`provider-connections.ts`, `provider-registry.ts`) | `project_provider_connections` | select, authenticate, refresh | `ProviderConnections` |
| Workspaces and what they own (`workspace-*.ts`, `service-scoped-routes.ts`) | `projects`, `services`, `nodes.workspace_id` | create, archive, deploy, attach, adopt | `WorkspaceScope` |
| Web console (`CanonicalApp.tsx`, `GitHubConnectPanel.tsx`) | state of the page, requests under way | select, refresh, watch, import, deploy | `WebConsole`, `ImportPanel` |
| Artifact retention, metrics and logs, build planning, scripts | none that these properties depend on | | not modelled, see section 7 |

### How they interact

* The control plane sends commands (`deploy`, `rollback`, `restart`,
  `qualifyNode`, `reconcileIngress`, `updateAgent`, `cleanupNode`) on the socket
  it finds in the `sockets` map, usually after it committed the transaction
  that accounts for the command. A socket that has been closed or replaced
  swallows the command.
* The Agent starts a goroutine for each command and answers with events
  (`status`, `runtimeRecovered`, `runtimeAction`, `qualification`, `ingress`,
  `nodeMaintenance`) on the connection the command came from. The control
  plane handles the events of one connection one after the other and those of
  different connections concurrently.
* PostgreSQL rows are the only state that survives a restart of the control
  plane, and files and containers the only state that survives a crash of the
  Agent. Neither side remembers which commands or events the other has seen.
* A READY deployment feeds the ingress: `reconcileServiceDomainsAfterReady`
  moves the service's domains to the node it became READY on.
* A push is turned into build jobs; builders poll for them, and a build that
  was pushed queues a deployment, which `NodeDispatch` sends. Creating a
  deployment runs triggers that give it its port, its volumes and the addon,
  and captures the variables of its service.
* A dispatch may issue a ticket, which the Agent redeems over HTTP for its source
  archive or its registry password. The Agent itself came onto the node with
  `install.sh`, which exchanged a bootstrap credential for a permanent one.
* People act through the web console, or through MCP tools; the read-only tools
  pass the Operations layer, the control tools call the HTTP API.

### What is hard, and what makes each component right

* *Router.* The switch from one backend to the next writes a marker, a candidate
  configuration, a running router, `routes.json`, and a rename, in that order;
  Agent, host or Docker may stop at every point between. Right means: after any
  stop the listener stands for a committed route or a marker tells recovery,
  Docker starts no uncommitted route by itself, a stateless service is never
  without a backend, volumes have one writer, and what was replaced goes.
* *Dispatch.* A command is claimed in one transaction and sent after it; its
  connection may have been replaced in between, its lease may run out while the
  Agent still works, its statuses may be lost, late, or contradicted by a
  recovery report. Right means: one deployment in flight per node, restarts and
  maintenance exclude deployments, READY only what a node routed, failures that
  were reported final, and every row that is in progress ends.
* *Ingress.* Reconciliations of one node are opened by requests, a timer,
  handshakes and READY reports, all of which read the rows before the
  transaction that takes them over. Right means: a row under configuration
  belongs to exactly one running reconciliation that somebody will end, late
  results decide nothing, ACTIVE is the verdict of the present node, and a row
  goes only after the removal of its route was applied.

* *Pipeline.* Deliveries are repeated, builders lose their lease, their answers
  or their lives, and services move or vanish meanwhile. Right means: a push
  triggers once, a job is ended by its owner, once, and ends; what is deployed
  is what was pushed.
* *Operations and MCP.* An approval is looked up, audited and consumed in three
  statements, each of which may fail, and beside it the approval may be revoked,
  used up or expire. Right means: no execution without a use of its own, no
  audit row that lies, no token without a consent.
* *Credentials and health.* Answers of an exchange are lost, a command is sent
  twice with two tickets, releases change between checksum and binary, and a
  cooldown is written before what it accounts for. Right means: one use each,
  nothing installed that was not listed, restarts a cooldown apart.
* *What belongs to a project.* Rows are read in one statement and relied on in a
  later one, under READ COMMITTED. Right means: ports and volumes stay where they
  are, captures are whole, confirmations are all or nothing, and a node that
  changes hands takes nobody's services along.
* *Console.* Answers come late and out of order into a page that moved on.

`PROJECT.json` lists these hazards one by one with the line where each bites and
the properties that would catch it.

## 2. Plan

Modules were written most important first, each so that it can be proved about
(constants with assumptions, one action per operation, no RECURSIVE operator).

| Step | Done |
|---|---|
| `AgentRouter` with `RouteStore`: the data path | modelled, checked; its safety and the refinement of `RouteStore` proved |
| `NodeDispatch`: what the control plane believes of it | modelled, checked; its safety proved |
| `DomainIngress`: the public path | modelled, checked; its safety proved |
| `BuildPipeline` with `BuildQueue` | modelled, checked; its safety and the refinement of `BuildQueue` proved |
| `Operations` with `ApprovalLedger`, `McpServer` | modelled, checked; the safety of both and the refinement of `ApprovalLedger` proved |
| `NodeCredentials` with `OneShot`, `RuntimeHealth` | modelled, checked; the safety of both and the refinement of `OneShot` proved |
| `Placement`, `ServiceVariables`, `ProjectSources`, `ProviderConnections`, `WorkspaceScope` | modelled, checked; the safety of all five proved |
| `WebConsole`, `ImportPanel` | the page and its import panel modelled, checked; the safety of both proved |

Left: a module for artifact retention (which image may be removed beside a running
rollback).

## 3. The modules

Everywhere: a transaction or a statement of PostgreSQL is one step, and what
happens between two of them is another's turn; requests that are refused before
anything is read, formatting and logging are left out; a definition introduced
by a comment `Mutant:` is a variant with a plausible bug, and is not used.

### AgentRouter

One node. Files: `routes` is `routes.json`, `boot` the `Caddyfile` Docker would
start the router from, `next` is `Caddyfile.next`, `markers` the promotion
directory. Docker: `router` (state and restart policy), `live` (what the
running Caddy holds), `backend`, `port`. Processes: `job` is the goroutine that
holds `runtimeMu`, with the program counter of `runDeployment`,
`runSafeRuntime`, `switchRuntimeRoute` or `runRestart`; `pending` are those that
wait for it; `drains` sleep without a lock; `conn` is the connection loop,
which recovers on every reconnect, beside a job left by an earlier connection.

| Code | Actions |
|---|---|
| `runDeployment`, `runSafeRuntime` | `TakeRuntimeMu`, `Build`, `Admit*`, `Start`, `Health`, `Abort`, `Unstop`, `UnstopFails`, `Fail`, `Settle` |
| `switchRuntimeRoute` | `Mark`, `ApplyCandidate`, `ApplyFirst`, `ApplyFails`, `Verify`, `Commit`, `Promote`, `PromoteFails`, `Clear`, `Restore` |
| `runRestart`, health monitor | `Restart`, `RestartHealth`, `RestartCommit`, `RestartApply`, `RestartVerify`; `MonitorRestart`, whose probe comes before the wait for `runtimeMu` |
| `scheduleBackendDrain` | `Drain` |
| `recoverRuntimeRouter`, connection loop | `Connect`, `RecoverMarker`, `RecoverApply`, `RecoverReport`, `Serve`, `Disconnect` |
| failures | `AgentCrash`, `HostReboot`, and a failing disjunct of every write and Docker call, counted by `MaxFaults` |

`RouteStore` is what the router promises: a service has at most one active
deployment, it was healthy first, the switch is one step, and what was replaced
comes back only when it was asked for again. `RefinesRouteStore` maps `active`
to `routes.json` and `again` to the deployments whose command was delivered
twice (`Repeated`).

Simplifications: a backend that answered its healthcheck goes on answering as
long as it runs and its port is its own; health and routed verification fail
only where the model says so; image builds are one step that may fail; a probe of
the monitor and the beginning of its wait for `runtimeMu` are one step
(`RuntimeHealth` has them apart).

### NodeDispatch

The tables are `status`, `home`, `lease` and `lost` (deployments), `op`
(restarts, qualifications, maintenance), `lifecycle` and `online` (nodes). The
API process is `sockets`, the `phase` of every connection's handler, `shut`,
`inbox`, and `txs`, the status transactions begun and not committed. `task`
follows a command from the claim in the database to the goroutine that carries
it out. Agents are an environment that keeps the promises of `AgentRouter` the
control plane relies on: goroutines under `runtimeMu`, a durable route per
service, recovery before commands.

A transaction is one step except in two places. Those that record a status meet
`FOR UPDATE SKIP LOCKED` in `dispatchQueued` and each other, so they begin and
commit separately; a dispatch passes over a row that is locked. And
`failRunningNodeMaintenanceForNode` fails the action and releases the node in
two statements that see different snapshots and lock nothing of the node before
the second: `FailRunningNodeMaintenance` leaves the handler `holding` the row of
the action it fails, which a result must wait for, or in `release` when it found
none, and `ReleaseNode` is the second statement with the commit. A deployment
that is dispatched, and the send that follows, are separate steps, as the code
awaits in between. `Cleanup` goes through the close handler one await at a time.
`ControlPlaneRestart` drops every socket, queue and transaction; `startup` then
goes through the UPDATEs of `index.ts:82-87` that concern these tables, one at a
time, and the control plane may stop again between any two. A transaction that records READY makes the
revisions it can see ROLLED_BACK; another one of the same service that is still
open is not among them. `crossed` holds the deployments recorded beside such a
one, and `OneReady` speaks of the others.

Simplifications: aborted transactions (also by a deadlock that PostgreSQL
resolves) and failing databases are left out; one
frame of a connection may be unread at a time (`MaxUnread`), while statuses
already read wait in `txs`; logs, metrics and artifact events change nothing.

### DomainIngress

`domain` and `run` are the two tables, `ready` the node of a service's READY
deployment, `sockets`, `conn` and `call` the API process, `queue`, `broken`,
`link` and `waiting` what is on the wire and at the Agent, `file` and `live` the
Caddyfile and what Caddy serves. `call` has one entry per concurrent activity:
requests of users, the retry timer, and one per connection for its handshake
and its serial message queue. Each entry holds what that activity read before
its last await, because that is what it will act on.

| Code | Actions |
|---|---|
| `reconcileNodeIngress` | `ReadRows`, `Transact`, `Send`, `NotConnected`, `FailBeforeSend` |
| routes under `/v0/domains` | `CreateDomain`, `InsertDomain`, `ReconcileDomain`, `DeleteDomain` |
| `reconcileDueDomainRetries` | `RetryTick` |
| `reconcileServiceDomainsAfterReady` | `RecordReady`, `MoveDomains` |
| `recordIngressResult` | `ReadResult`, `RecordResult`, `LoseResult` |
| connection handler, `failRunningIngressForNode` | `Connect`, `AbandonOpen`, `DropEvent`, `NoticeClose`, `FailRunningIngress` |
| `runIngressReconciliation` | `ApplyRoutes`, `RemoveCaddy`, `DockerFails` |
| failures | `LoseConnection`, `CrashAgent` (also host reboot), `RestartControlPlane` |

`ingressMu` lets one command at a time write, reload and verify, and nothing
else touches those files, so a command's work is one step; commands of one node
take the mutex in any order, because each has a goroutine of its own.

Simplifications: a hostname is attached once; ports are constant per service
and node, so that a route is the name of its domain; `RetryDelays` is 1 instead
of the five delays listed; a node is ONLINE exactly while it is in the map; the
read and the update of `/reconcile` are one step, and so are the two statements
with which a move begins; the reserved routes of the control plane's own
hostname, fixed by the environment of the Agent, are left out.

### BuildPipeline and BuildQueue

`autodeploy`, `source`, `pushes`, `jobs` and `deployments` are rows; `builder` is
where each builder process is in its loop and with which job; `registry` what
was pushed. A request of a builder and its answer are one step with two
outcomes, `heard` or not: a request that is not heard is carried out all the
same. A lease is the number of heartbeat periods it has left.

| Code | Actions |
|---|---|
| `canonical-autodeploy.ts`, `PUT /v0/services/:name/autodeploy` | `AskAutodeploy`, `ConfigureAutodeploy`, `RefuseAutodeploy`, `DeleteAutodeploy`, `ConfigureLegacy` |
| `POST /v0/github/webhook` | `Deliver`, `DeliverFails` |
| `build-engine.ts` | `RequestBuild`, `Claim`, `Start`, `DownloadSource`, `Heartbeat`, `Complete`, `CompleteRefused`, `Fail` |
| `apps/builder` | `RunBuild`, and the order of the requests above |
| failures | `FailLost`, `BuilderCrash`, answers that are not heard, `Pass` (time), `ArchiveService`, `NodeChanges` |

`BuildQueue`: a build that was queued ends once, failed without a deployment or
pushed with at most one, made in the step that ends it. `RefinesBuildQueue` maps
each job to its end.

### Operations, ApprovalLedger and McpServer

`Operations` is `executeAuthorizedOperation` one statement at a time
(`Ask`, `Resolve`, `Deny`, `Begin`, `Consume`, `Execute`, `Succeed`,
`FailOperation`), each of which may fail with its effect or without. Beside it
approvals are issued (`IssueExplicit`, `IssueSessionPolicy`), revoked and expire.
`ApprovalLedger` has no statements: an execution spends a use of an approval
that allows one. `RefinesApprovalLedger` maps `spent` to the `uses` of the row.

Production wires only read-only operations through this layer, so what the
properties say of writes holds for the layer and its callers to come; the MCP
control tools bypass it and call the HTTP API with the control token.

`McpServer` adds the authentication modes, the built-in authorization server
(`Register`, `Authorize`, `Exchange`, `StoreRefresh`, `Refresh`: codes and the
signing key in memory, refresh tokens as rows), the read-only tools (`ReadTool`,
an `Ask` after the grant was looked up) and the control tools (`ControlTool`).
A request may claim any client, redirect, code and verifier. In `clients` the
tools read in every mode, what is granted and what is not. What an external
issuer signs is left to it.

### NodeCredentials and OneShot

`row` and `ticket` are tables; `host` is where `install.sh` is on a machine and
what it left there; `proc` and `link` the Agent; `exchanges` are requests on
their way; `provider` is the cached release of the control plane; `attempts` are
commands under way with the ticket each carries.

| Code | Actions |
|---|---|
| `install.sh` | `StartInstall`, `AskRelease`, `TakeSum`, `TakeBinary`, `Prepare`, `SendExchange`, `Enable`, `Poll`, `Interrupt` |
| `source-broker.ts` | `Exchange`, `Issue` (`Reissued`), `Claim` (`Honoured`) |
| `registry-pull-broker.ts` | the same for images, with `SameRegistry` |
| `agent-release.ts` | `LoadManifest`, `LoadBinary`; `Publish` is the release being replaced |
| `workspace-node-routes.ts` | `CreateNode`, `Archive`, `CleanUp` |
| connections | `Dial`, `CheckToken`, `Hello`, `Disconnect`, `RestartAgent` |
| a deployment | `CreateDeployment`, `Dispatch`, `LeaseExpires`, `Refuse`, `SendCommand`, `BeginAttempt`, `FinishAttempt`, `RecordBuilding`, `RecordOutcome`, `Promote` |

`OneShot`: a credential is issued, which replaces the one before, or it lapses,
or it is used, once and while it is the live one. Nodes hold bootstrap
credentials and deployments hold tickets. A node rejected at `Hello` is marked
OFFLINE even while an older connection of it is open, as in the code.
An installation with `RUNDEA_AGENT_URL` takes its binary from elsewhere and is
left out.

### RuntimeHealth

A `loop` per connection, each with the copy of `state.json` it began with:
`Collect`, `Probe` (which advances the trackers, and charges and writes a
cooldown before the restart), `Lock`, `RestartRuntime`, `Finish`, `Report`. The
control plane reads which deployments are eligible (`ReadEligible`) and updates
the health columns if the report is newer (`RecordHealth`). Deployments replace
each other under `runtimeMu` (`BeginDeployment`, `EndDeployment`).

`RestartsAreSpaced` says nothing of loops that overlap (`overlapped`): the loop
of a lost connection may wait for `runtimeMu`, which ignores cancellation, and
the loop of the next connection writes back a `state.json` from before the
charge. A collection cancelled with its connection counts as failed probes and
may charge a restart that is not carried out; the charge is what is spaced. The
Agent's clock is taken to be monotone.

### Placement, ServiceVariables, ProjectSources, ProviderConnections, WorkspaceScope

* `Placement`: the transactions that insert a deployment (`Place`, `PlaceBuild`,
  `PlaceRollback` with `Write` and its triggers, `Commit`, `Abort`), against
  those that create a volume (`CountVolumes`, `ChooseVolumeNode`,
  `CommitVolume`), the addon (`AskAddon`, `CommitAddon`) and autodeploy's port
  (`Configure`), on to the dispatch and READY. A volume committed between the
  two triggers of one insertion is mounted before it is bound: `slipped` names
  it, and `MountedWhereBound` excludes it. The legacy `POST /v0/deployments`,
  which takes any host port, is left out here. `CountVolumes` joins the two
  SELECTs at `service-volumes.ts:129` and `:133`.
* `ServiceVariables`: a write upserts its keys in the order of the request
  (`BeginWrite`, `WriteVariable`, `CommitWrite`, `FailWrite`) against deletion,
  capture, copying by a rollback, dispatch and the redaction of log lines. The
  fallback for deployments from before migration 005 is left out, and so are
  the variables of a managed Redis, which are read anew at each dispatch
  (`service-variables.ts:242`, `managed-redis.ts:122`): two dispatches of one
  deployment may differ in those, so `SentAsCaptured` speaks of the service's own.
* `ProjectSources`: inspection reads the branch three times (`ReadRevision`,
  `ReadRoot`, `ReadTree`) while it moves; a confirmation locks, takes its paths
  one by one and commits, against creation and archival of services and of the
  project. `ReadRoot` is one read of the branch for the listing and for the files
  at the root, which the code asks for one by one (`github-app-source.ts:304`).
* `ProviderConnections`: every request marks, asks and writes in separate
  statements; requests overlap and the control plane may stop. The functions
  are complete, though no route calls them yet.
* `WorkspaceScope`: requests that resolve a service and write later, against the
  adoption of a legacy node, archival, and the moves of domains. The legacy
  `POST /v0/deployments` is here (`InsertLegacy`).

### WebConsole and ImportPanel

`WebConsole`: `page` is the React state, `calls` the requests under way, each
with the ids it was asked with. An answer holds what the server had when it was
asked and sets the state of the page of now, unless the effect that asked was
cancelled. `ImportPanel`: `deployService` as three requests with a compensating
fourth, each of which may fail with its effect, and `deployAll` around it.
Only `CanonicalApp` and its panels are modelled: `main.tsx` renders nothing of
`App.tsx`. The volumes panel and the state of the verification button are left
out.

### The MC modules

`AgentRouterMC`, `NodeDispatchMC` and `DomainIngressMC` give constants their
values. `BuildPipelineMC` begins with configured services and gives each
behaviour one kind of trouble. `ClientsMC`, `NodesMC` and `ProjectsMC` join
modules that share no state: a variable `focus`, chosen at the beginning, says
which of them moves, so that one run asks about all of them without multiplying
their states. They also evaluate the assumptions of the modules they instantiate.

## 4. Runs

| Run | Question |
|---|---|
| `router_safety` | Does any interleaving with two mishaps, or one and a command delivered twice, put an uncommitted or failed deployment behind a listener, interrupt a stateless service, drain a live backend, or break the refinement of `RouteStore`? |
| `router_liveness` | With duplicate deliveries, a stateful service and a contested port: do jobs end, listeners converge, replaced backends go, and is there one writer? |
| `dispatch_safety` | Two deployments, two connections, a lease that runs out, an Agent crash: one in flight, READY only what was routed, reported failures final |
| `dispatch_ops` | A restart against two deployments and a rollback, with a takeover and a restart of the control plane: do they exclude each other? |
| `dispatch_liveness` | Do deployments, restarts, qualifications and maintenance end after a lost connection, a takeover or a restart of the control plane, and does MAINTENANCE last as long as its action? |
| `ingress_safety` | One domain, a service that moves between two nodes, both of which may reconnect, any three events: ownership, verdicts, removal |
| `ingress_liveness` | Two domains in every reconciliation, a lost connection after another: does CONFIGURING end? |
| `ingress_applied` | finding: applied is reported for a configuration Caddy never loaded |
| `pipeline` | Two builders, a push and builds asked for by hand, in trouble, while things change, or with two services: what is deployed, what triggers, who ends a job, and does it end? |
| `clients` | Two requests under one approval; calls of MCP tools and their tokens; the page of the console; its import panel |
| `nodes` | The enrolment of a machine; a deployment sent twice with its tickets; the health loops of two connections |
| `projects` | Ports, addon, volumes, variables, a source, provider connections, and nodes that change hands, one at a time |

A property that is a conjunction has its parts, each with a comment, above it:
`FailureIsTold` is `FailedNotRouted` and `DivergenceIsMarked`;
`ServedThroughout` is `Continuity` and `DrainSparesRoute`; `BackendsApart` is
`ListenersDistinct` and `SingleWriter`; `Finishes` is `JobEnds`,
`ReplacedIsRemoved` and `Converges`; `RestartAlone` is `ActionAlone` and what it
rests on; `Ends` is `Settles` and `OpsEnd`; `DecidedByItsRun` is
`OnlyRunningDecides` and `RemovedWasApplied`; `McpAllowed` is
`TokensWereGranted` and `CallsWereAllowed`; `AdmittedRightly` is
`DoneWasAdmitted` and `RevokedStaysOut`; `TicketsServe` is `RefusedForAReason`
and `PulledFromItsRegistry`. `Consistent` is in each module its type invariant
with the agreement of its tables. `ConsoleHolds`, `HealthHolds` and the
properties of `ProjectsMC` collect those of the modules they instantiate.

### Bounds, and why they are enough

*Router.* Three deployments of two services: a first promotion, a replacement,
and a neighbour that shares the router. Three ports let Docker swap two of them
after a reboot. In `router_safety` each kind of mishap may happen once, two of them together: the
second strikes during the recovery from the first. Both runs deliver commands
twice, because a deployment that reported nothing before its dispatch lease ran
out is sent again (`index.ts:174`, `:197`); a deployment that is delivered again
takes the place of a mishap there (`MaxTroubles`), and comes beside one in
`router_liveness`, where two deployments may. A command that came twice runs twice:
the Agent remembers no command identity. What that changes for the deployment
itself is excepted by name in the properties (`Repeated`), and by nothing else:
they hold for the others, beside it.

*Dispatch.* One node, because nothing in the dispatch code relates two nodes but
the rows of a service that moves (the theorems are about any nodes). Two
deployments are the smallest number that can be in flight together; two
connections the smallest number for a takeover; one lease that runs out yields
both copies of a command (after the command was sent: before, `Expire` takes a
second mishap, which the theorems include and the runs do not). The Agent crashes once in
`dispatch_safety`, instead of the lease that runs out (`MaxTroubles`); the control
plane restarts once in `dispatch_ops` and `dispatch_liveness`, while an Agent can
dial again, and what goes on at the Agents falls between any of its startup
statements. When both connections an Agent may dial are gone nothing more can
happen on its node: `Undialed` names that bound in `Settles`. Operations are one
at a time: the table allows one per kind and node. `dispatch_ops` explores a restart against three deployments, the
third of which only a rollback may create (`Rollbacks`); `dispatch_liveness`
explores the kinds with one deployment. Cleanup stands for both kinds of
maintenance there: an update differs from it by what it does not do (it ignores
READY deployments, needs no lock of the Agent and archives nothing).

*Ingress.* `ingress_safety` lets two user requests overlap each other, the
timer, the handshakes and the message queues of two nodes; every kind of event
may be among the three, after which all consequences are followed to the end.
The first is a request (`BeginsWithRequest`), because before one there is no row to
do anything to.
`ingress_liveness` has the second domain that `ingress_safety` lacks and
allows two mishaps, so that a connection is lost during the handshake that
follows the loss of another.

*Pipeline.* The run begins with configured services (`ConfiguredInit`), which the
requests of `canonical-autodeploy.ts` lead to; the theorems begin with `Init`,
where nothing is configured. Two builders, so that one takes over what the other lost; two builds,
so that a push and a request, or the two services of a push, meet. One mishap
(crash, unheard answer or lease) and one change of configuration are tried
apart: what a mishap leads to is followed for as long as the lease lets it.

*Clients.* Two requests are what one use of an approval can be contended by. One
consent gives up to two access tokens, around one restart. The console has two
projects with a service each (`ProjectIds`, `ServiceIds`), three requests under way and three events of the
user, the timers and the server (`MaxAsked`, `MaxEvents`), so that an answer may
overtake two others. The panel deploys each service at most twice in all
(`MaxRuns`), with the answers of either lost. The requests of the Operations
layer are interchangeable, hence the symmetry; no liveness is checked there.

*Nodes.* Two runs of the script on a machine, two dispatches of a deployment, two
releases: the second is what replaces, repeats or races the first. Two faults,
among runs interrupted, answers lost and restarts (`MaxFaults`); one mishap of
the health loops (`MaxTroubles`). The cooldown is one tick, the
threshold is the one of the code. While "probing", reports are lost; while
"reporting", backends answer, no time passes and one connection ends: the two
parts share only which deployments exist.

*Projects.* Two services and two nodes for ports and for the addon; two volumes of
one service; three deployments, so that a rollback has a target and a current
revision. What is interchangeable is taken in order (`FirstUse`, `Comes`). Four
requests about a source, of which the second PUT follows the first (`Numbered`);
three commits of the branch, which lose and gain applications. Four provider
requests and one crash. Three requests on workspaces.

Deadlock is not checked: every instance stops when its bounds are used up and
all work is done. That work gets done is what the liveness properties say.

### Fairness

Weak fairness only, and only of what the runtime schedules: goroutines that can
run and hold or can get their mutex, the handlers of Node's event loop, the
Agent's reconnect loop (`main`), the 15 s heartbeat that dispatches what can
be dispatched, drains, and leases running out. Nothing is assumed of operators,
crashes, lost connections, or commands that time out. In `DomainIngress` a call
or a connection is one sequential process and has one fairness condition; in
`NodeDispatch` the handlers of the server share one, and so do the goroutines of
an Agent, because some step of theirs must happen but not a chosen one. In
`BuildPipeline` each builder's loop goes on (`Work(b)`) and leases run out
(`Pass(j)`); that an answer is heard again after a mishap is no assumption of
its own, because mishaps are bounded. The other modules state safety only.

## 5. Findings

`ingress_applied` (`ingress.go:127`) is kept as a run. The Caddyfile is replaced
before it is validated and reloaded. When either fails, the next reconciliation
with the same routes finds the file unchanged, reloads nothing and reports
`applied=true`. The control plane then deletes rows whose route is still served.

The following disagreements with a document or a comment are each shown by a
configuration of their own, which TLC refutes in seconds
(`tlc -config router_misroute.cfg AgentRouterMC.tla`, and so on):

| Configuration, module | Property | What the code does |
|---|---|---|
| `router_misroute`, `AgentRouterMC` | `RecoveredReaches` | `runtime_router.go:555`: after a reboot Docker may publish a backend on another port than `routes.json` records. Routed verification looks at a header the router itself adds, so recovery reports `runtimeRecovered` for a deployment the listener does not reach. |
| `dispatch_qualification`, `NodeDispatchMC` | `QualificationEnds` | `index.ts:875`: the close handler of a connection that was replaced returns before it fails the node's qualification, which stays RUNNING and, by the unique index, blocks every later one until the control plane restarts. |
| `dispatch_archive`, `NodeDispatchMC` | `ArchivedIsEmpty` | `workspace-node-routes.ts:205`: cleanup counts READY deployments once. A `runtimeRecovered` event queued before makes one READY afterwards; the node is archived with it. |
| `dispatch_maintenance`, `NodeDispatchMC` | `MaintenanceExcludes` | `workspace-node-routes.ts:147`: the close handler of an older connection finds no maintenance to fail, an update or cleanup starts on the next connection, and the handler's second statement makes the node ACTIVE under it: deployments are dispatched to a node that `infra/acceptance/node-maintenance-e2e.mjs:174` calls excluded. |
| `ingress_deletion`, `DomainIngressMC` | `DeletionIsFinal` | `domains.ts:135`: a reconciliation takes over every row it read, whatever its status is by now: a DELETE that was answered with 202 is undone and the hostname goes on being served. |
| `pipeline_legacy`, `BuildPipelineMC` | `CanonicalUsesBuildEngine` | `github-autodeploy.ts:410`: a service with a confirmed source whose autodeploy names another branch than the source is deployed directly, so that the Agent builds, against ADR 0010 ("No canonical GitHub push may cause a production Agent to run `docker build`"). |
| `credentials_archive`, `NodesMC` | `ArchivedIsRevoked` | `source-broker.ts:217`: the bootstrap credential of a node that is archived before it connected still enrols it: the archived node gets a permanent credential, against ADR 0021 ("Archive revokes the stored node credential"). |
| `placement_redis`, `ProjectsMC` | `AddonReadyWasMade` | `027_managed_redis.sql:76`: a deployment that was sent before the addon was bound to its node makes the addon READY when it becomes READY itself, though no Agent was told to make it. |
| `clients_static`, `ClientsMC` | `OnlyStaticChanges` | `docs/MCP_OPERATOR.md:12` says the static token is the only mode with tools that change something; `mcp-http.ts` offers them to the operator scope of the built-in OAuth too. |

Gaps the documents admit, or say nothing about, are in the model and excluded
from the properties by name:

* Router: a backend left behind by a crash during direct health, and a drain
  lost with the Agent process (`ReplacedIsRemoved` speaks of Agents that live);
  the moment in recovery between the removal of a candidate's backend and the
  reload (`Continuity` excludes crashes); a deployment whose command is delivered
  again after it failed, which may be routed then (`FailedNotRouted`), or after it
  was replaced, which routes it again although the drain of its backend is still
  under way (`DrainSparesRoute`, `Continuity`; `RouteStore` has `AskAgain` for
  it). A recovery that runs beside
  a job on a stateful service, which stops the old backend for the candidate, may
  hear the candidate on the freed port: `RecoveredReachesSamePorts` speaks of
  stateless services.
* Dispatch: what no close handler fails. A takeover leaves the deployments in
  progress and the RUNNING actions of its node, and a restart of the control plane
  the deployments (`orphans`); a command sent on a connection that is gone leaves
  its action (`stranded`). Those may never end, and what waits behind them on the
  node (`Blocked`) does not either; everything else does (`Settles`, `OpsEnd`). A
  close handler between its two statements may release the node of an action that
  has started since (`slipped`): the action then runs on an ACTIVE node, and a
  cleanup that succeeds is refused (`workspace-node-routes.ts:113`) and stays
  RUNNING. A deployment whose
  environment cannot be loaded is tried again at each heartbeat and those behind
  it wait. Two revisions of a service whose READY is recorded at once, by two
  nodes or by two connections of one, stay READY both (`crossed` in `OneReady`).
* Ingress: a result that names a row that is not on its node any more, because
  it was deleted or moved after the rows were read, is refused as a whole
  (`ConfiguringAttended`, `ConfiguringEnds`); the other rows it names stay
  CONFIGURING until the next reconciliation of the node.
* Pipeline: builders that share an id (the default is `builder-<pid>`) can end
  each other's jobs (`OnlyTheOwnerEnds` is checked for ids of their own). Builds
  of two pushes queue their deployments in the order in which they end.
* Credentials: a deployment that was sent twice can be FAILED for the replaced
  ticket of its first command while the second is carried out.
* Health: loops that overlap (section 3).
* Placement: a volume that slipped between two triggers. Workspaces: between the
  look at what blocks an adoption and its commit a FAILED deployment may recover
  to READY (`AdoptedEmpty` names it); a service created while its project is
  archived stays ACTIVE in it.
* Sources: two PUTs that overlap are stored in the order in which they end, and
  the source may be of an older commit until it is connected again. Providers: a
  refresh that read a credential before a selection cleared it stores it again.
* Console: the answers of `refreshServiceScope` and `refreshProjectScope` are not
  dropped, so until the next refresh the page may show the data of a service
  that is no longer selected, or list another project's services; `busy` may be
  reset by an earlier action than the one under way; `verifyingDomainId` stays
  when its domain vanishes. Panel: a lost answer of PUT push-autodeploy, or a
  failed DELETE, leaves autodeploy on while FAILED is shown; a late confirmation
  shows services of the project that was left; and a run that fails after its
  service was deployed again removes what the later run configured
  (`overtaken`).

## 6. Proofs

Each for every value of the constants, from the assumptions the module states
about them, with all bounds left open.

`AgentRouter_proofs`:

* `TypeCorrect`: `Spec => []TypeOK`.
* `BootSafe`: `Spec => []BootOnlyCommitted`.
* `ListenersAndVolumesApart`: `Spec => []BackendsApart`.
* `DivergenceMarked`: `Spec => []DivergenceIsMarked`.
* `FailuresTold`: `Spec => []FailureIsTold`.
* `RoutesServed`: `Spec => []ServedThroughout`.
* `RecoveredServes`: `Spec => RecoveredReachesSamePorts`.
* `ImplementsRouteStore`: `Spec => RefinesRouteStore`.

None of them assumes anything about the bounds: a deploy command may be
delivered any number of times. The control plane delivers again what was not
answered within the dispatch lease, and the second delivery runs like the first.
So a deployment can be FAILED in one run and hold the route after the other, and
the second run can bring back a deployment that was replaced and whose backend a
drain is about to remove. The properties except such deployments (`Repeated`)
where that shows, and the proofs show that it shows nowhere else: a repeated
command disturbs no other deployment, no other service, and not what recovery
reports.

`BootOnlyCommitted` is not inductive. What Docker would start comes from `boot`
under the restart policy `unless-stopped`, and `boot` gets its contents from
`next` when `Promote` renames it, or from the first router that `Commit` makes
durable. So the invariant has to say what a candidate configuration may hold
while its switch is under way (`CandidateInv`: the committed routes and that of
the job, and the job's route is committed before it is renamed), which stage
carries which fields (`JobInv`), that recovery cannot rewrite `Caddyfile.next`
under a switch (`LockInv`, the mutex `runtimeRouterMu`), that a removed router
has lost its policy (`AbsentInv`), that running backends have ports (`PortInv`)
and that `routes.json` holds nothing it has not held (`RoutesInv`). `IInv` is
their conjunction. One lemma per conjunct shows that every action preserves it
(`TypeStep`, `JobInvStep`, `PortStep`, `LockStep`, `CommitStep`), with one step
per action; `InitInv`, `StutterInv` and `Invariance` put them together.

For the other theorems what a step can do is said once, in lemmas about any step:
how the job moves from stage to stage and what it carries (`Moved`), what is
written to `routes.json` (`RoutesMove`), who starts and who stops a backend
(`BackendMove`), what happens to the running configuration, the markers and the
connection (`ConfigMove`), to waiting commands, reports and drains
(`CommandMove`, `SaidMove`, `DrainMove`). Each invariant follows from those.
`BackendsApart` needs that a candidate on trial has no route, and that the
backend which holds the route of its stateful service is down meanwhile and is
remembered by the job that has to bring it back (`WriterInv`, `StoppedInv`).
`DivergenceIsMarked` needs that a switch keeps its marker from before the router
changes until `routes.json` and the router agree again (`DivInv`). Unless it was
delivered again, a command that waits has left no trace and a deployment that
runs has not failed or been committed before (`OnceInv`); therefore what a drain
removes is never what a commit routes (`DrainInv`), nothing can take the backend
of such a candidate or route away (`ServeInv`, from which `Continuity` follows),
and `Commit` is `Promote` of the store: its candidate is healthy (`ValidInv`) and
was never retired, or was asked for again.

What recovery reports it found in `routes.json`, whose rows are on the ports
their backends run on (`KeptInv`, until a reboot or a restart moves one). While
it goes through them a job of the old connection may still change the router,
but only to a table with the same rows for what is left to report: the job was
taken before the connection was lost, since a command that waits has lost its
writer (`LinkInv`) and ends at its first status; so it is not to commit anything
recovery still reports (`BesideInv`), and it starts no backend that has a route
(`StartInv`). The backend of a stateless service is never kept stopped
(`NotStoppedInv`). `ReportInv` is the five; `RecoveredServes` follows.

`DomainIngress_proofs`:

* `IngressInvariant`: `Spec => []IngressInv`, the inductive invariant.
* `DomainsAgree`: `Spec => []Consistent`, which has the types, the agreement of
  `service_domains` and `node_ingress_reconciliations`, and
  `ConfiguringAttended`.
* `ActiveVerified`: `Spec => []ActiveWasVerified`.
* `ResultsDecideTheirOwn`: `Spec => DecidedByItsRun`.

`Consistent` speaks of rows; what changes rows is what calls, commands and events
say, so `IngressInv` has to say what each of them knows. `Linked`: a row that
names a reconciliation is one of its routes, on its node (`RowsInv`); a call
about to send, a command on the wire, and an event on the way back name the
reconciliation they stem from with its node and routes (`CallsInv`,
`WaitingInv`, `QueueInv`), and a result that was checked and not yet recorded
belongs to a reconciliation that still runs or owns nothing but what is being
deleted (`Owes`): that is why a result may be recorded although it was checked
an await earlier. `RunningInv`: a RUNNING reconciliation owns its routes on its node, or somebody
is on the way to supersede it (`Renewed`: a call that has the node on its list,
a handshake or a close handler to come). `AttendedInv`: a domain under
configuration has somebody who will end that. For both, each action is shown
to keep what was coming (`Kept`), or to end what it was coming for. The action
property follows from `IngressInv` and one lemma per way to decide:
no step but a result decides (`OnlyResultsDecide`), and a result does so
rightly (`ResultDecides`).

The proof corrected the model's exception. `ConfiguringAttended` used to except
deleted rows only, which the instances TLC explores agree with; with a second domain and a
second node a row that *moves* after the rows were read has the same effect. It
had also overlooked the later nodes on a call's list.

`BuildPipeline_proofs`:

* `PipelineTypeCorrect`: `Spec => []TypeOK`.
* `TriggersOnce`: `Spec => []PushTriggersOnce`.
* `TablesAgree`, `OwnerEndsBuilds`, `Refines_BuildQueue`: `Consistent`,
  `OnlyTheOwnerEnds` and `RefinesBuildQueue`, where `DistinctIds`.

`TypeInv` adds to the types that a builder at work has a job, and one that
completes it has pushed its image. `PushInv` is what makes a push trigger once:
builds and deployments of a push exist only once its delivery is recorded, and
one per service. `LinkInv`: a deployment and its job name each other.
`DistinctIds`, that builders have ids of their own, is what `RUNDEA_BUILDER_ID`
is for and what the code does not enforce: with equal ids a builder can end the
job of another (section 5). The first two theorems do not need it.

`Operations_proofs`:

* `TypeCorrect`: `OperationsSpec => []OperationsTypeOK`.
* `Approved_Execution`: `OperationsSpec => []ExecutedWasApproved`.
* `True_Audit`: `OperationsSpec => []AuditIsTrue`.
* `Refines_Ledger`: `OperationsSpec => RefinesApprovalLedger`.

The first three follow from `IInv`: the types, and for each request what its
program counter knows of its approval (`ApprovalFollows`: past the policy the
approval covers the call, past `Consume` it has been used) and of its audit row
(`AuditFollows`). An approval covers later what it covered once, because its
scope and its expiry never change and the clock of a request is fixed when it
asks. The refinement needs a count: an execution happens some statements after
its use was spent, so `LedgerInv` says that the requests that were executed or
may still be under an approval, `Owing(a)`, are no more than its `uses`. Consuming
adds one to both sides; whatever ends a request without executing it makes the
left side smaller.

`ClientsMC_proofs`, about the MCP server with the `Operations` it extends, and about
the console that `ClientsMC` runs beside it:

* `McpTypeCorrect`: `Spec => []TypeOK`.
* `AllowsRightly`: `Spec => []McpAllowed`.
* `ApprovedUnderTools`, `TrueUnderTools`: `Spec => []ExecutedWasApproved` and
  `Spec => []AuditIsTrue`, the theorems about the operation layer, for the server.
* `WebConsoleIsHeld`, `ImportPanelIsHeld`: the types and the safety of `WebConsole`
  and of `ImportPanel`, each for its own specification.
* `ConsoleIsHeld`: `FocusedSpec => ConsoleHolds`, the same of what `ClientsMC` runs.

`TokenInv` says where a code is: in the map, or in one exchange, or in one refresh
token, never in two of them, and each carries the client and the challenge of its
consent. `CallInv` says of each control call under which token it was made,
and that a request for a resource that was not granted ends denied or lost. Steps
of the server leave the variables of `Operations` alone or are steps of it, so
`IInv` of `Operations_proofs` carries over.

That a page shows one service at a time depends on the requests it has under way,
so `PageInv` speaks of them: each has what its kind needs, and a list asked for a
service is a list of that service (`AskedInv`), whichever service the page has
moved on to. Watches under way are of what the page observes now (`WatchInv`);
`WatchStep`, which the invariant gives of every step, is `WatchesOne`. The proof
leaves projects, services and the bounds open; it assumes that 1 is the id of a
project and of a service, and that three requests can be under way, which is
what one page load sends (`IdsAreNumbers`, `ConsoleBounds`). In the panel `ImportInv` follows a run
of `deployService` answer by answer: unless a second run of the service overtook
it there is one run at most (`OneRun`), which asks for the deployment only after push
autodeploy was configured (`PostInv`), and none is left once the service is shown
as queued (`QueuedInv`). It assumes finitely many services.

`NodesMC_proofs`, about `NodeCredentials` and about the `RuntimeHealth` that
`NodesMC` runs beside it:

* `TypeCorrect`: `Spec => []TypeOK`.
* `Refines_OneShot`: `Spec => RefinesOneShot`.
* `InstallsTheListed`: `Spec => []InstalledWasListed`.
* `AdmitsRightly`: `Spec => []AdmittedRightly`.
* `CredentialsAgree`: `Spec => []Consistent`.
* `TicketsServeTheAgent`: `Spec => []TicketsServe`.
* `RuntimeHealthIsHeld`: the types, `RestartsAreSpaced`, `ReplacedStaysDown` and
  the action property `HealthNeverOlder`, for the specification of `RuntimeHealth`.
* `HealthIsHeld`: `AllSpec => HealthHolds`, the same of what `NodesMC` runs.

`TypeOK` needs that a run of the script under way has a number (`RunInv`). The
refinement needs that what is issued was never issued before: tickets issued
are numbered by dispatches that happened, a command that has not issued its
ticket yet has a number nobody issued, and commands have numbers of their own
(`TicketInv`); a node that does not exist yet was given nothing (`BootInv`). One lemma per group of actions (`LifecycleRefines`,
`InstallRefines`, `ConnectionRefines`, `DeploymentRefines`, `AttemptRefines`,
`OthersRefine`) maps its steps to an issue, a lapse, a use or a stutter.
The others rest on: a checksum a script holds was listed in a manifest it was
served (`ListInv`); a node is online, or an Agent let in, only under a credential the
row had (`OnlineInv`), and what was revoked is no row's (`RevokedInv`); where the
script is with its exchange decides whether the row's token and `agent.env` can
differ (`CommitInv`); a ticket an Agent asks with is live, or something is known
of why not (`AskInv`, with `Valid` and `Reason`).

Restarts are a cooldown apart although a tracker is forgotten when its route goes
away, is read back from `state.json` after the Agent restarts, and moves with the
collection that holds it. `HealthInv` therefore says of every place a wait can be
how much of it is left: a deployment that was never routed has not been
restarted within two cooldowns (`UnroutedInv`), what was restarted and what is saved of the wait make
up a cooldown unless the deployment is retired (`SavedInv`), and so does the
tracker in memory, with the age of the collection taken off (`LoopInv`). One
collection at a time is needed for that (`OneCollects`), which is why the property
excepts overlapping ones; `SpacingInv` is the part that holds until two overlap,
types and `CountInv` (the restarts a report counts are no more than its time) hold
throughout. The proof assumes that the first deployment may be
replaced, as the runs have it.

`NodeDispatch_proofs`:

* `DispatchTypeCorrect`: `Spec => []TypeOK`.
* `TablesAgree`: `Spec => []Consistent` (types, `OneInFlight`, `OneReady`).
* `ReadyRouted`: `Spec => []ReadyWasRouted`.
* `RestartsAlone`: `Spec => []RestartAlone`.
* `MaintenanceIsAlone`: `Spec => []MaintenanceAlone`.
* `FailureIsFinal`: `Spec => ReportedFailureIsFinal`.

What the control plane believes and what Agents do are related by what is on its
way between them, so the invariant `DispatchInv` speaks of that. `RoutesFirst`:
whatever says READY (a message, a transaction, a goroutine about to report, a
route to be recovered) comes after the route was committed. `TxInv`: what a
transaction read of its rows stays true while it holds them, except that
deployments in `crossed` may have become READY. `UnsentInv`: of a deployment that
waits behind a restart or a maintenance action, and of one whose lease is gone
without having run out early, nobody knows but the table (`Fresh`); and one that
is claimed is known to its sender only (`OneClaim`). From this follows that
nothing can become in flight but by a dispatch, which looks at the node first
(`InFlightMoves`), or after a lease that ran out early, and hence `StillInv` and
`OneInFlight`. `Alone` ties MAINTENANCE to the one running action: an action that runs beside a
handler in `release` is among `slipped`, and while the control plane starts there
is no handler (`Quiet`) and no action runs any more when the nodes are released. The steps are
analysed once, in lemmas on how any of them moves the messages (`HeardMoves`),
the Agents (`AgentMoves`), the commands (`TaskMoves`), the transactions
(`TxMoves`), a row (`RowOf`) and the actions (`OpMoves`); each part of the
invariant follows from those.

`ProjectsMC_proofs`, about the five modules that `ProjectsMC` instantiates:

* `PlacementIsHeld`: `Spec => []PlacementHolds`.
* `CapturesAreHeld`: `Spec => []CapturedAndKept`.
* `ConfirmationsAreHeld`: `Spec => []ConfirmedAsShown`.
* `ConnectionsAreHeld`: `Spec => []ConnectionsHold`.
* `ScopesAreHeld`: `Spec => []ScopesHold`.
* `NothingGoesBack`: `Spec => NeverGoesBack`.

Services, nodes, volumes, ports, keys, requests, providers, selections and all
bounds are left open; what a run fixes is fixed here too where `ProjectsMC`
defines it: the three commits of `Tree`, the `Plans`, and of workspaces, projects,
domains and deployments in `WorkspaceScope` those of `Home`, `In` and its
INSTANCE. The lemmas about the steps of a module (`PlacementStep`,
`VariablesStep`, `SourcesStep`, `ConnectionsStep`, `ScopesStep`) are about all of
its `Next`, not only about the steps `ProjectsMC` takes of it. They assume that
there is a service, a port and a provider, that the value for "nothing" is no
node, workspace or project, that there are finitely many requests, that
selections are sequences, and that the services and the deployments the moves
name exist (`MovesConstants`). Every part has its own invariant, and a module
that rests keeps it (`OneMoves`, the lemmas `...Rested`).

* `Placement` (`PlacementInv`). The port of a deployment is read in one
  transaction and allocated when it commits, so the invariant says that until
  then no row has come in the way of it (`Fits`, in `MayUse`): a transaction that
  adds a row to a node is alone there, but for builds, which add none (`Apart`);
  rows agree about ports and services (`OneEach`). What an insertion holds is
  there, unbound or bound to its node, and nobody else holds it (`MountsInv`);
  a deployment that was asked about the addon was asked when there was one, and
  one that runs it is on its node (`AddonInv`). Steps are of six shapes
  (`PlacementMove`); each part is preserved by the shape.
* `ServiceVariables` (`VariablesInv`). Of each write a capture has a variable of,
  it has every variable as that write or a later one left it, or it was deleted
  since (`Intact`, `Whole`); the same holds of what is stored, for every write that
  committed (`CommitsInv`). That no commit overtakes the ones before needs the
  clock, which has a tick left for each write that may commit (`ClockInv`).
* `ProjectSources` (`SourcesInv`). A confirmation that is under way has the source
  as it is and holds it alone, and what it took it either inserts, under a slug
  nobody has, or holds active with the same path (`Holds`, `TakenBy`); what is
  confirmed was in its revision (`ConfigInv`) and stays as it was confirmed
  (`ConfirmedInv`). The generation of the source counts stored discoveries.
* `ProviderConnections` (`ConnectionsInv`): what was answered was accepted
  (`AskedInv`).
* `WorkspaceScope` (`ScopesInv`). What a request knows of its service and its node
  stays true (`PlacingInv`): an adoption changes a node only while it holds it
  alone (`HoldsAlone`), when whatever was there is over or was looked at
  (`AdoptionInv`).

Every invariant and every action property of the passing runs is stated by one of
these theorems. With TLC only: what holds under fairness (`Finishes`, `Ends`,
`ConfiguringEnds`, `JobsEnd`), since liveness and ENABLED are beyond the prover, as is
induction over data.

## 7. Not modelled, and why

* Artifact retention: it removes images and caches that no container uses, which
  docker ensures; nothing modelled here depends on an image without a container.
  A rollback to an image that is gone fails like any build.
* Metrics (CPU, memory, disk) and logs: observations no other part depends on.
  What log redaction hides is in `ServiceVariables`.
* Build planning, environment files, resource limits, checkout of a public
  repository, the probes of a qualification: functions of a command and of
  files; for the state they are a step of the Agent or of a builder that may
  fail.
* Renaming of projects and services and creation of workspaces: single statements
  under unique constraints. The functions named `...ForActor` of
  `workspace-projects.ts` and `project-sources.ts` are called by no route.
* In the console what is drawn, the volumes panel, the verification button, the
  panel's list of repositories, and `App.tsx`, which is not rendered.
* The scripts and end-to-end tests under `infra`, other than `install.sh`.
