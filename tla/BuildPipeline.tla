---------------------------- MODULE BuildPipeline ---------------------------
(***************************************************************************)
(* From a push to a queued deployment: the signed GitHub webhook           *)
(* (github-autodeploy.ts), the configuration it looks at                   *)
(* (canonical-autodeploy.ts), the build jobs and their leases              *)
(* (build-engine.ts), and the builders that take them over HTTP            *)
(* (apps/builder).  What becomes of a queued deployment is NodeDispatch.   *)
(*                                                                         *)
(* Every request is answered by one transaction or one statement, which is *)
(* one action here, except the configuration of autodeploy, which reads    *)
(* the confirmed source before its transaction (`asked').  A builder is a  *)
(* sequential process; each of its requests may be carried out and its     *)
(* answer be lost.  A lease is the number of heartbeat periods it has left *)
(* (0: none, or it ran out).                                               *)
(*                                                                         *)
(* Malformed requests, which are refused before anything is read, are left *)
(* out; so are the images themselves: an artifact is the job it was built  *)
(* for and the builder that built it, which is what its digest identifies. *)
(***************************************************************************)
EXTENDS Naturals, Sequences, FiniteSets

CONSTANTS
    Services,
    Nodes,
    Branches,
    NoBranch,
    Builders,
    WorkerId,       \* builder -> RUNDEA_BUILDER_ID, or builder-<pid>
    MaxPushes,      \* bound: events GitHub sends
    MaxBuilds,      \* bound: build jobs
    MaxChanges,     \* bound: changes of configuration, of services and of nodes
    MaxMishaps      \* bound: crashes, lost answers, leases that run out under a working builder

ASSUME BranchAssumption == NoBranch \notin Branches
ASSUME WorkerAssumption == DOMAIN WorkerId = Builders
ASSUME ServicesAssumption == IsFiniteSet(Services)
ASSUME BuildBoundsAssumption ==
    /\ MaxPushes \in Nat /\ MaxBuilds \in Nat /\ MaxChanges \in Nat /\ MaxMishaps \in Nat

VARIABLES
    active,         \* services whose status is ACTIVE
    online,         \* nodes that are ACTIVE and ONLINE
    source,         \* service -> branch of its service_source_configs row, or NoBranch
    autodeploy,     \* service -> its service_autodeploys row
    asked,          \* requests to configure autodeploy that have read the source
    pushes,         \* push events, with the status of their delivery
    jobs,           \* build_jobs in the order of created_at
    builder,        \* builder -> where its process is, and with which job
    registry,       \* artifacts pushed
    deployments,    \* deployments in the order they were queued
    used            \* changes and mishaps so far

config == <<active, online, source, autodeploy, asked>>
vars == <<config, pushes, jobs, builder, registry, deployments, used>>

Lease == 2          \* leaseSeconds in periods without a heartbeat that it survives
Open == {"QUEUED", "CLAIMED", "BUILDING"}
Idle == [pc |-> "idle", job |-> 0]
NoTarget == [branch |-> NoBranch]
Artifact(j, b) == [job |-> j, by |-> b]

TypeOK ==
    /\ active \subseteq Services /\ online \subseteq Nodes
    /\ source \in [Services -> Branches \union {NoBranch}]
    /\ autodeploy \in
          [Services -> {NoTarget} \union [branch : Branches, node : Nodes, enabled : BOOLEAN]]
    /\ asked \subseteq [service : Services, branch : Branches]
    /\ pushes \in Seq([branch : Branches, deletes : BOOLEAN,
                       status : {"none", "TRIGGERED", "IGNORED", "error"}])
    /\ Len(pushes) <= MaxPushes
    /\ jobs \in Seq([service : Services, push : 0..MaxPushes, after : BOOLEAN,
                     status : Open \union {"PUSHED", "FAILED"}, lease : 0..Lease,
                     by : Builders \union {"nobody"}, deployment : Nat])
    /\ Len(jobs) <= MaxBuilds
    /\ builder \in [Builders ->
          [pc : {"idle", "start", "source", "build", "complete", "fail"}, job : 0..MaxBuilds]]
    /\ registry \subseteq [job : 1..MaxBuilds, by : Builders]
    /\ deployments \in Seq([service : Services, job : 0..MaxBuilds, push : 0..MaxPushes,
                            artifact : [job : 0..MaxBuilds, by : Builders \union {"nobody"}],
                            node : Nodes, canonical : BOOLEAN])
    /\ used \in [changes : 0..MaxChanges, mishaps : 0..MaxMishaps]

Init ==
    /\ active = Services /\ online = Nodes
    /\ source = [s \in Services |-> NoBranch]
    /\ autodeploy = [s \in Services |-> NoTarget]
    /\ asked = {}
    /\ pushes = <<>> /\ jobs = <<>> /\ registry = {} /\ deployments = <<>>
    /\ builder = [b \in Builders |-> Idle]
    /\ used = [changes |-> 0, mishaps |-> 0]

-----------------------------------------------------------------------------
(* Configuration *)

Change ==
    /\ used.changes < MaxChanges
    /\ used' = [used EXCEPT !.changes = @ + 1]
    /\ UNCHANGED <<pushes, jobs, builder, registry, deployments>>

\* a discovery is confirmed: the service follows the branch of its project's source
ConfirmSource(s, branch) ==
    /\ Change
    /\ s \in active
    /\ source' = [source EXCEPT ![s] = branch]
    /\ UNCHANGED <<active, online, autodeploy, asked>>

\* PUT push-autodeploy, up to its transaction ...
AskAutodeploy(s) ==
    /\ Change
    /\ s \in active /\ source[s] # NoBranch
    /\ asked' = asked \union {[service |-> s, branch |-> source[s]]}
    /\ UNCHANGED <<active, online, source, autodeploy>>

\* ... and the transaction, which asks for a node that is up and writes what was read
ConfigureAutodeploy(r, n, enabled) ==
    /\ r \in asked
    /\ asked' = asked \ {r}
    /\ n \in online
    /\ autodeploy' = [autodeploy EXCEPT ![r.service] =
          [branch |-> r.branch, node |-> n, enabled |-> enabled]]
    /\ UNCHANGED <<active, online, source, pushes, jobs, builder, registry, deployments, used>>

\* ... or there is no such node, or a build argument is unknown or a secret
RefuseAutodeploy(r) ==
    /\ r \in asked
    /\ asked' = asked \ {r}
    /\ UNCHANGED <<active, online, source, autodeploy, pushes, jobs, builder, registry, deployments, used>>

\* PUT /v0/services/:serviceName/autodeploy, of before projects had sources: any
\* service name, branch and node
ConfigureLegacy(s, branch, n, enabled) ==
    /\ Change
    /\ autodeploy' = [autodeploy EXCEPT ![s] = [branch |-> branch, node |-> n, enabled |-> enabled]]
    /\ UNCHANGED <<active, online, source, asked>>

\* either DELETE
DeleteAutodeploy(s) ==
    /\ Change
    /\ autodeploy[s] # NoTarget
    /\ autodeploy' = [autodeploy EXCEPT ![s] = NoTarget]
    /\ UNCHANGED <<active, online, source, asked>>

\* archiving touches nothing but the status of the service
ArchiveService(s) ==
    /\ Change
    /\ s \in active
    /\ active' = active \ {s}
    /\ UNCHANGED <<online, source, autodeploy, asked>>

\* a node leaves or comes back: sessions and maintenance are NodeDispatch
NodeChanges(n) ==
    /\ Change
    /\ online' = IF n \in online THEN online \ {n} ELSE online \union {n}
    /\ UNCHANGED <<active, source, autodeploy, asked>>

-----------------------------------------------------------------------------
(* Queueing builds *)

Queued(s, push, after) ==
    [service |-> s, push |-> push, after |-> after, status |-> "QUEUED", lease |-> 0,
     by |-> "nobody", deployment |-> 0]

\* rows of one transaction share created_at, so their order is arbitrary
Orders(S) == {f \in [1..Cardinality(S) -> S] : \A i, j \in DOMAIN f : f[i] = f[j] => i = j}

\* enqueueBuildJob wants an active service with a confirmed source
Buildable(s) == s \in active /\ source[s] # NoBranch

\* POST /v0/services/:serviceId/builds
RequestBuild(s, after) ==
    /\ Len(jobs) < MaxBuilds
    /\ Buildable(s)
    /\ jobs' = Append(jobs, Queued(s, 0, after))
    /\ UNCHANGED <<config, pushes, builder, registry, deployments, used>>

\* somebody pushes to, or deletes, a branch
Push(branch, deletes) ==
    /\ Len(pushes) < MaxPushes
    /\ pushes' = Append(pushes, [branch |-> branch, deletes |-> deletes, status |-> "none"])
    /\ UNCHANGED <<config, jobs, builder, registry, deployments, used>>

Matching(branch) ==
    {s \in Services : autodeploy[s] # NoTarget /\ autodeploy[s].enabled /\ autodeploy[s].branch = branch}
Canonical(branch) == {s \in Matching(branch) : source[s] = branch}

\* Mutant: a delivery is recognised only when nothing came of it.
DeliveredIgnored(p) == pushes[p].status = "IGNORED"
\* the delivery id or the body is in github_webhook_deliveries
Delivered(p) == pushes[p].status \in {"TRIGGERED", "IGNORED"}

Direct(s, p) ==
    [service |-> s, job |-> 0, push |-> p, artifact |-> Artifact(0, "nobody"),
     node |-> autodeploy[s].node, canonical |-> source[s] # NoBranch]

\* POST /v0/github/webhook, for the first or a later time: one transaction
\* records the delivery and queues what it triggers, or nothing at all.
Deliver(p) ==
    LET push == pushes[p]
        built == IF push.deletes THEN {} ELSE Canonical(push.branch)
        direct == IF push.deletes THEN {} ELSE Matching(push.branch) \ built
        status == IF built \union direct = {} THEN "IGNORED" ELSE "TRIGGERED"
    IN  /\ ~Delivered(p)
        /\ \A s \in built : Buildable(s)
        /\ Len(jobs) + Cardinality(built) <= MaxBuilds
        /\ pushes' = [pushes EXCEPT ![p].status = status]
        /\ \E f \in Orders(built) : jobs' = jobs \o [i \in DOMAIN f |-> Queued(f[i], p, TRUE)]
        /\ \E f \in Orders(direct) : deployments' = deployments \o [i \in DOMAIN f |-> Direct(f[i], p)]
        /\ UNCHANGED <<config, builder, registry, used>>

\* enqueueBuildJob throws for a service that was archived: 500, rolled back
DeliverFails(p) ==
    /\ ~Delivered(p) /\ pushes[p].status # "error"
    /\ ~pushes[p].deletes /\ \E s \in Canonical(pushes[p].branch) : ~Buildable(s)
    /\ pushes' = [pushes EXCEPT ![p].status = "error"]
    /\ UNCHANGED <<config, jobs, builder, registry, deployments, used>>

-----------------------------------------------------------------------------
(* Builders and their requests *)

Goto(b, pc) == builder' = [builder EXCEPT ![b].pc = pc]

\* an answer that is lost looks to the builder like a failed request
Heard(heard) ==
    IF heard THEN UNCHANGED used
    ELSE /\ used.mishaps < MaxMishaps
         /\ used' = [used EXCEPT !.mishaps = @ + 1]

\* Mutant: a lease that ran out is not taken over.
ClaimableQueued(j) == jobs[j].status = "QUEUED"
\* Mutant: a job that failed is tried again.
ClaimableFailed(j) ==
    \/ jobs[j].status \in {"QUEUED", "FAILED"}
    \/ jobs[j].status \in {"CLAIMED", "BUILDING"} /\ jobs[j].lease = 0
Claimable(j) ==
    \/ jobs[j].status = "QUEUED"
    \/ jobs[j].status \in {"CLAIMED", "BUILDING"} /\ jobs[j].lease = 0

\* jobs/claim: the oldest job that waits, or whose lease ran out
Claim(b, heard) ==
    /\ builder[b] = Idle
    /\ \E j \in DOMAIN jobs :
          /\ Claimable(j) /\ \A i \in 1..(j - 1) : ~Claimable(i)
          /\ jobs' = [jobs EXCEPT ![j].status = "CLAIMED", ![j].by = b, ![j].lease = Lease]
          /\ builder' = [builder EXCEPT ![b] = IF heard THEN [pc |-> "start", job |-> j] ELSE Idle]
    /\ Heard(heard)
    /\ UNCHANGED <<config, pushes, registry, deployments>>

\* Mutant: the worker's id is not asked for.
OwnsAny(b, j) == jobs[j].by # "nobody"
\* worker_id = $2: what tells builders apart is the id they were started with
Owns(b, j) == jobs[j].by # "nobody" /\ WorkerId[jobs[j].by] = WorkerId[b]
Holds(b, j, statuses) == Owns(b, j) /\ jobs[j].status \in statuses /\ jobs[j].lease > 0

Start(b, heard) ==
    LET j == builder[b].job
        ok == Holds(b, j, {"CLAIMED"})
    IN  /\ builder[b].pc = "start"
        /\ jobs' = IF ok THEN [jobs EXCEPT ![j].status = "BUILDING", ![j].lease = Lease] ELSE jobs
        /\ Goto(b, IF ok /\ heard THEN "source" ELSE "fail")
        /\ Heard(heard)
        /\ UNCHANGED <<config, pushes, registry, deployments>>

\* the archive is served to the holder of the lease; GitHub may not answer
DownloadSource(b) ==
    /\ builder[b].pc = "source"
    /\ \/ Holds(b, builder[b].job, {"CLAIMED", "BUILDING"}) /\ Goto(b, "build")
       \/ Goto(b, "fail")
    /\ UNCHANGED <<config, pushes, jobs, registry, deployments, used>>

\* every 30 s while docker build runs; a refusal is ignored
Heartbeat(b) ==
    LET j == builder[b].job
    IN  /\ builder[b].pc = "build"
        /\ Holds(b, j, {"CLAIMED", "BUILDING"}) /\ jobs[j].lease < Lease
        /\ jobs' = [jobs EXCEPT ![j].lease = Lease]
        /\ UNCHANGED <<config, pushes, builder, registry, deployments, used>>

\* docker build and docker push, or either fails or takes too long.  The push
\* blocks the process, and with it the heartbeats.
RunBuild(b) ==
    /\ builder[b].pc = "build"
    /\ \/ registry' = registry \union {Artifact(builder[b].job, b)} /\ Goto(b, "complete")
       \/ UNCHANGED registry /\ Goto(b, "fail")
    /\ UNCHANGED <<config, pushes, jobs, deployments, used>>

-----------------------------------------------------------------------------
(* The end of a build *)

\* the target is that of the moment, not that of the push
Target(s) ==
    {n \in online : s \in active /\ autodeploy[s] # NoTarget /\ autodeploy[s].enabled /\ autodeploy[s].node = n}

Handoff(j, n, artifact) ==
    [service |-> jobs[j].service, job |-> j, push |-> jobs[j].push, artifact |-> artifact, node |-> n,
     canonical |-> TRUE]

\* Mutant: a deployment is queued whether it was asked for or not.
NeedsDeploymentAlways(j) == jobs[j].deployment = 0
NeedsDeployment(j) == jobs[j].after /\ jobs[j].deployment = 0

Pushed(j, d) == [jobs EXCEPT ![j].status = "PUSHED", ![j].lease = 0, ![j].deployment = d]

\* jobs/complete: the deployment is queued and the job PUSHED in one
\* transaction, which locks the job.  A dispatch that throws, like a lost
\* answer, makes the builder report a failure afterwards.
Complete(b, heard) ==
    LET j == builder[b].job
    IN  /\ builder[b].pc = "complete"
        /\ Holds(b, j, {"BUILDING"})
        /\ \/ /\ ~NeedsDeployment(j)
              /\ jobs' = Pushed(j, jobs[j].deployment)
              /\ UNCHANGED deployments
           \/ /\ NeedsDeployment(j)
              /\ \E n \in Target(jobs[j].service) :
                    deployments' = Append(deployments, Handoff(j, n, Artifact(j, b)))
              /\ jobs' = Pushed(j, Len(deployments) + 1)
        /\ builder' = [builder EXCEPT ![b] = IF heard THEN Idle ELSE [@ EXCEPT !.pc = "fail"]]
        /\ Heard(heard)
        /\ UNCHANGED <<config, pushes, registry>>

\* 409 without the lease, 400 without a target: rolled back
CompleteRefused(b) ==
    LET j == builder[b].job
    IN  /\ builder[b].pc = "complete"
        /\ \/ ~Holds(b, j, {"BUILDING"})
           \/ NeedsDeployment(j) /\ Target(jobs[j].service) = {}
        /\ Goto(b, "fail")
        /\ UNCHANGED <<config, pushes, jobs, registry, deployments, used>>

\* jobs/fail looks at the worker and the status, not at the lease
MayFail(b, j) == Owns(b, j) /\ jobs[j].status \in {"CLAIMED", "BUILDING"}

Fail(b) ==
    LET j == builder[b].job
    IN  /\ builder[b].pc = "fail"
        /\ jobs' = IF MayFail(b, j) THEN [jobs EXCEPT ![j].status = "FAILED", ![j].lease = 0] ELSE jobs
        /\ builder' = [builder EXCEPT ![b] = Idle]
        /\ UNCHANGED <<config, pushes, registry, deployments, used>>

\* the request of fail does not arrive: it is not repeated
FailLost(b) ==
    /\ builder[b].pc = "fail" /\ Heard(FALSE)
    /\ builder' = [builder EXCEPT ![b] = Idle]
    /\ UNCHANGED <<config, pushes, jobs, registry, deployments>>

\* the builder's process or host dies; it is started again
BuilderCrash(b) ==
    /\ builder[b] # Idle /\ Heard(FALSE)
    /\ builder' = [builder EXCEPT ![b] = Idle]
    /\ UNCHANGED <<config, pushes, jobs, registry, deployments>>

\* A heartbeat period passes.  Whether a lease runs out under the builder that
\* works with it (heartbeats were lost, or the push took too long) is a mishap.
Pass(j) ==
    /\ jobs[j].lease > 0
    /\ jobs' = [jobs EXCEPT ![j].lease = @ - 1]
    /\ Heard(jobs[j].lease > 1 \/ ~\E b \in Builders : builder[b].job = j /\ jobs[j].by = b)
    /\ UNCHANGED <<config, pushes, builder, registry, deployments>>

-----------------------------------------------------------------------------

Configure ==
    \/ \E s \in Services : AskAutodeploy(s) \/ DeleteAutodeploy(s) \/ ArchiveService(s)
    \/ \E s \in Services, branch \in Branches : ConfirmSource(s, branch)
    \/ \E r \in asked : RefuseAutodeploy(r) \/ \E n \in Nodes, e \in BOOLEAN : ConfigureAutodeploy(r, n, e)
    \/ \E n \in Nodes : NodeChanges(n)
    \/ \E s \in Services, branch \in Branches, n \in Nodes, e \in BOOLEAN : ConfigureLegacy(s, branch, n, e)
GitHub ==
    \/ \E branch \in Branches, deletes \in BOOLEAN : Push(branch, deletes)
    \/ \E p \in DOMAIN pushes : Deliver(p) \/ DeliverFails(p)
Work(b) ==
    \/ Claim(b, TRUE) \/ Start(b, TRUE) \/ DownloadSource(b) \/ RunBuild(b)
    \/ Complete(b, TRUE) \/ CompleteRefused(b) \/ Fail(b)
Trouble(b) == Claim(b, FALSE) \/ Start(b, FALSE) \/ Complete(b, FALSE) \/ FailLost(b) \/ BuilderCrash(b)

Next ==
    \/ Configure \/ GitHub
    \/ \E s \in Services, after \in BOOLEAN : RequestBuild(s, after)
    \/ \E b \in Builders : Work(b) \/ Trouble(b) \/ Heartbeat(b)
    \/ \E j \in DOMAIN jobs : Pass(j)

Spec == Init /\ [][Next]_vars

(* Fairness: a builder's loop goes on, and time passes. *)
Fairness ==
    /\ \A b \in Builders : WF_vars(Work(b))
    /\ \A j \in 1..MaxBuilds : WF_vars(j \in DOMAIN jobs /\ Pass(j))
FairSpec == Spec /\ Fairness
-----------------------------------------------------------------------------
(* Properties *)

\* What a build hands to the Node is what was pushed: the deployment is the one
\* its job names, the job is PUSHED for the same service and push, and the image
\* is one its builder pushed while it owned the job (complete, ADR 0023).  A
\* job that failed has none, however its end raced with another builder's.
DeployedWasPushed ==
    /\ \A d \in DOMAIN deployments :
          LET job == jobs[deployments[d].job]
          IN  deployments[d].job # 0 =>
                /\ job.status = "PUSHED" /\ job.deployment = d /\ job.after
                /\ job.service = deployments[d].service /\ job.push = deployments[d].push
                /\ deployments[d].artifact = Artifact(deployments[d].job, job.by)
                /\ deployments[d].artifact \in registry
    /\ \A j \in DOMAIN jobs :
          IF jobs[j].status = "PUSHED" THEN jobs[j].after <=> jobs[j].deployment # 0
          ELSE jobs[j].deployment = 0

\* The tables of jobs, deployments and the registry agree.
Consistent == TypeOK /\ DeployedWasPushed

\* GitHub repeats a delivery, and a failed one is repeated by hand: a push still
\* starts at most one build or deployment of a service (ADR 0010).
PushTriggersOnce ==
    \A p \in DOMAIN pushes, s \in Services :
        Cardinality({j \in DOMAIN jobs : jobs[j].push = p /\ jobs[j].service = s})
        + Cardinality({d \in DOMAIN deployments : deployments[d].job = 0 /\ deployments[d].push = p
                                                 /\ deployments[d].service = s}) <= 1

\* Where builders have ids of their own, one that lost its lease cannot end the
\* build of the one that has the job now, whatever it still sends: a job ends by
\* the hand of the builder that claimed it last (build-engine.ts).
OnlyTheOwnerEnds ==
    [][\A j \in DOMAIN jobs :
          jobs[j].status \in Open /\ jobs'[j].status \notin Open =>
             builder[jobs[j].by].job = j /\ builder'[jobs[j].by] # builder[jobs[j].by]]_vars

\* Every build that was queued ends: builders that crash, lose answers or lose
\* their lease do not leave it CLAIMED or BUILDING for ever, as the lease hands
\* it to the next builder (claim).
JobsEnd ==
    \A j \in 1..MaxBuilds :
        (j \in DOMAIN jobs /\ jobs[j].status \in Open) ~> (j \in DOMAIN jobs /\ jobs[j].status \notin Open)

\* The jobs as the Build Engine promises them.
Handed(j) == {d \in DOMAIN deployments : deployments[d].job = j}
EndOf(j) ==
    IF jobs[j].status \in Open THEN IF Handed(j) = {} THEN "open" ELSE "deployed early"
    ELSE IF jobs[j].status = "FAILED" THEN IF Handed(j) = {} THEN "failed" ELSE "failed and deployed"
    ELSE CASE Cardinality(Handed(j)) = 0 -> "pushed"
           [] Cardinality(Handed(j)) = 1 -> "deployed"
           [] OTHER -> "deployed twice"
Queue == INSTANCE BuildQueue WITH build <- [j \in DOMAIN jobs |-> EndOf(j)]

\* Claims, leases, lost answers and crashes are how the promise of BuildQueue is
\* kept: a build that ended never ends again, and is deployed at most once.
RefinesBuildQueue == Queue!Spec

\* "No canonical GitHub push may cause a production Agent to run docker build"
\* (docs/architecture/0010-github-push-autodeploy.md): what a push starts for a
\* service with a confirmed source is a build of the Build Engine.
CanonicalUsesBuildEngine ==
    \A d \in DOMAIN deployments : deployments[d].job = 0 => ~deployments[d].canonical

=============================================================================
