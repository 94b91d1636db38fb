------------------------- MODULE BuildPipeline_proofs -------------------------
(***************************************************************************)
(* Proofs about BuildPipeline, for any services, pushes, builders and      *)
(* builds: the tables agree, a push triggers once, a build ends by the     *)
(* hand of who claimed it last, and the builds keep the promise of         *)
(* BuildQueue.                                                             *)
(***************************************************************************)
EXTENDS BuildPipeline, SequenceTheorems, FiniteSetTheorems, TLAPS

\* RUNDEA_BUILDER_ID is set, and set to something else, for every builder.
DistinctIds == \A a, b \in Builders : WorkerId[a] = WorkerId[b] => a = b

JobType ==
    [service : Services, push : 0..MaxPushes, after : BOOLEAN,
     status : Open \union {"PUSHED", "FAILED"}, lease : 0..Lease,
     by : Builders \union {"nobody"}, deployment : Nat]
DeploymentType ==
    [service : Services, job : 0..MaxBuilds, push : 0..MaxPushes,
     artifact : [job : 0..MaxBuilds, by : Builders \union {"nobody"}],
     node : Nodes, canonical : BOOLEAN]
PushType == [branch : Branches, deletes : BOOLEAN, status : {"none", "TRIGGERED", "IGNORED", "error"}]
TargetType == {NoTarget} \union [branch : Branches, node : Nodes, enabled : BOOLEAN]
BuilderType == [pc : {"idle", "start", "source", "build", "complete", "fail"}, job : 0..MaxBuilds]

ConfigOK ==
    /\ active \subseteq Services /\ online \subseteq Nodes
    /\ source \in [Services -> Branches \union {NoBranch}]
    /\ autodeploy \in [Services -> TargetType]
    /\ asked \subseteq [service : Services, branch : Branches]
UsedOK == used \in [changes : 0..MaxChanges, mishaps : 0..MaxMishaps]
PushesOK == pushes \in Seq(PushType) /\ Len(pushes) <= MaxPushes
JobsOK == jobs \in Seq(JobType) /\ Len(jobs) <= MaxBuilds
DeploymentsOK == deployments \in Seq(DeploymentType)
RegistryOK == registry \subseteq [job : 1..MaxBuilds, by : Builders]

\* A builder at work has a job, and one that completes it has pushed its image.
BuildersOK ==
    /\ builder \in [Builders -> BuilderType]
    /\ \A b \in Builders :
          /\ builder[b].pc = "idle" => builder[b] = Idle
          /\ builder[b].pc # "idle" => builder[b].job \in DOMAIN jobs
          /\ builder[b].pc = "complete" => Artifact(builder[b].job, b) \in registry

TypeInv ==
    ConfigOK /\ UsedOK /\ PushesOK /\ JobsOK /\ DeploymentsOK /\ RegistryOK /\ BuildersOK

\* What came of a push: builds and deployments only once its delivery is
\* recorded, and one for each service.
Recorded == {p \in DOMAIN pushes : Delivered(p)}
DirectFor(d) == deployments[d].job = 0
PushInv ==
    /\ \A j \in DOMAIN jobs : jobs[j].push # 0 => jobs[j].push \in Recorded
    /\ \A d \in DOMAIN deployments : DirectFor(d) => deployments[d].push \in Recorded
    /\ \A i, j \in DOMAIN jobs :
          jobs[i].push # 0 /\ jobs[i].push = jobs[j].push /\ jobs[i].service = jobs[j].service => i = j
    /\ \A d, e \in DOMAIN deployments :
          DirectFor(d) /\ DirectFor(e) /\ deployments[d].push = deployments[e].push
          /\ deployments[d].service = deployments[e].service => d = e
    /\ \A j \in DOMAIN jobs, d \in DOMAIN deployments :
          ~(DirectFor(d) /\ deployments[d].push = jobs[j].push /\ deployments[d].service = jobs[j].service)

\* A deployment and the job it is of name each other.
LinkInv ==
    /\ DeployedWasPushed
    /\ \A j \in DOMAIN jobs : jobs[j].deployment # 0 =>
          jobs[j].deployment \in DOMAIN deployments /\ deployments[jobs[j].deployment].job = j
    /\ \A d \in DOMAIN deployments : deployments[d].job # 0 => deployments[d].job \in DOMAIN jobs

-----------------------------------------------------------------------------
(* Sequences *)

LEMMA EditSeq ==
    ASSUME NEW S, NEW s \in Seq(S), NEW i \in DOMAIN s, NEW e \in S
    PROVE  /\ [s EXCEPT ![i] = e] \in Seq(S) /\ DOMAIN [s EXCEPT ![i] = e] = DOMAIN s
           /\ Len([s EXCEPT ![i] = e]) = Len(s)
           /\ \A k \in DOMAIN s : [s EXCEPT ![i] = e][k] = IF k = i THEN e ELSE s[k]
BY ExceptSeq, LenProperties

LEMMA Grows ==
    ASSUME NEW S, NEW s \in Seq(S), NEW e \in S
    PROVE  /\ Append(s, e) \in Seq(S)
           /\ Len(Append(s, e)) = Len(s) + 1 /\ Len(s) \in Nat
           /\ DOMAIN s = 1..Len(s) /\ DOMAIN Append(s, e) = 1..(Len(s) + 1)
           /\ Append(s, e)[Len(s) + 1] = e
           /\ \A i \in DOMAIN s : Append(s, e)[i] = s[i] /\ i \in DOMAIN Append(s, e)
           /\ \A i \in DOMAIN Append(s, e) : i \in DOMAIN s \/ i = Len(s) + 1
<1>1. /\ Append(s, e) \in Seq(S) /\ Len(Append(s, e)) = Len(s) + 1 /\ Len(s) \in Nat
      /\ DOMAIN s = 1..Len(s)
      /\ \A i \in 1..Len(s) : Append(s, e)[i] = s[i]
      /\ Append(s, e)[Len(s) + 1] = e
  BY AppendProperties, LenProperties
<1>2. DOMAIN Append(s, e) = 1..(Len(s) + 1)
  BY <1>1, LenProperties
<1>3. QED
  BY <1>1, <1>2

LEMMA FunctionIsSeq ==
    ASSUME NEW S, NEW n \in Nat, NEW g \in [1..n -> S]
    PROVE  g \in Seq(S) /\ Len(g) = n /\ DOMAIN g = 1..n
<1>1. g \in Seq(S)
  BY SeqDef
<1>2. DOMAIN g = 1..Len(g) /\ Len(g) \in Nat
  BY <1>1, LenProperties
<1>3. QED
  BY <1>1, <1>2

\* What a transaction adds to a table for each of the services it found.
LEMMA GrowsBy ==
    ASSUME NEW S, NEW s \in Seq(S), NEW n \in Nat, NEW g \in [1..n -> S]
    PROVE  /\ s \o g \in Seq(S) /\ Len(s \o g) = Len(s) + n /\ Len(s) \in Nat
           /\ DOMAIN s = 1..Len(s) /\ DOMAIN (s \o g) = 1..(Len(s) + n)
           /\ \A i \in DOMAIN s : (s \o g)[i] = s[i] /\ i \in DOMAIN (s \o g)
           /\ \A i \in DOMAIN (s \o g) \ DOMAIN s : i - Len(s) \in 1..n /\ (s \o g)[i] = g[i - Len(s)]
<1>1. g \in Seq(S) /\ Len(g) = n
  BY FunctionIsSeq
<1>2. /\ s \o g \in Seq(S) /\ Len(s \o g) = Len(s) + n
      /\ \A i \in 1..(Len(s) + n) : (s \o g)[i] = IF i <= Len(s) THEN s[i] ELSE g[i - Len(s)]
  BY <1>1, ConcatProperties
<1>3. DOMAIN s = 1..Len(s) /\ Len(s) \in Nat /\ DOMAIN (s \o g) = 1..(Len(s) + n)
  BY <1>2, LenProperties
<1>4. QED
  BY <1>2, <1>3

\* The services of one transaction, in any order, each once.
LEMMA OrdersAre ==
    ASSUME NEW S, IsFiniteSet(S), NEW f \in Orders(S)
    PROVE  /\ Cardinality(S) \in Nat /\ f \in [1..Cardinality(S) -> S]
           /\ DOMAIN f = 1..Cardinality(S)
           /\ \A i, j \in DOMAIN f : f[i] = f[j] => i = j
BY FS_CardinalityType DEF Orders

LEMMA AtMostOne ==
    ASSUME NEW S, \A x, y \in S : x = y
    PROVE  IsFiniteSet(S) /\ Cardinality(S) = (IF S = {} THEN 0 ELSE 1)
<1>1. CASE S = {}
  BY <1>1, FS_EmptySet
<1>2. CASE S # {}
  <2>1. PICK x \in S : S = {x}
    BY <1>2
  <2>2. QED
    BY <2>1, FS_Singleton
<1>3. QED
  BY <1>1, <1>2

-----------------------------------------------------------------------------
(* Types *)

LEMMA TypeParts ==
    /\ TypeInv => TypeOK
    /\ TypeInv => /\ jobs \in Seq(JobType) /\ DOMAIN jobs = 1..Len(jobs) /\ Len(jobs) \in Nat
                  /\ Len(jobs) <= MaxBuilds
                  /\ \A j \in DOMAIN jobs : jobs[j] \in JobType
                  /\ DOMAIN deployments = 1..Len(deployments) /\ Len(deployments) \in Nat
                  /\ \A d \in DOMAIN deployments : deployments[d] \in DeploymentType
                  /\ DOMAIN pushes = 1..Len(pushes) /\ Len(pushes) \in Nat
                  /\ \A p \in DOMAIN pushes : pushes[p] \in PushType /\ p \in 1..MaxPushes
<1>1. TypeInv => TypeOK
  BY DEF TypeInv, TypeOK, ConfigOK, UsedOK, PushesOK, JobsOK, DeploymentsOK, RegistryOK, BuildersOK,
         JobType, DeploymentType, PushType, TargetType, BuilderType
<1>2. ASSUME NEW S, NEW s \in Seq(S)
      PROVE  DOMAIN s = 1..Len(s) /\ Len(s) \in Nat /\ \A i \in DOMAIN s : s[i] \in S
  BY LenProperties, ElementOfSeq
<1>3. ASSUME TypeInv
      PROVE  /\ jobs \in Seq(JobType) /\ Len(jobs) <= MaxBuilds
             /\ deployments \in Seq(DeploymentType)
             /\ pushes \in Seq(PushType) /\ Len(pushes) <= MaxPushes
  BY <1>3 DEF TypeInv, JobsOK, DeploymentsOK, PushesOK
<1>4. ASSUME TypeInv
      PROVE  /\ DOMAIN jobs = 1..Len(jobs) /\ Len(jobs) \in Nat /\ \A j \in DOMAIN jobs : jobs[j] \in JobType
             /\ DOMAIN deployments = 1..Len(deployments) /\ Len(deployments) \in Nat
             /\ \A d \in DOMAIN deployments : deployments[d] \in DeploymentType
             /\ DOMAIN pushes = 1..Len(pushes) /\ Len(pushes) \in Nat
             /\ \A p \in DOMAIN pushes : pushes[p] \in PushType
  BY <1>3, <1>2, <1>4
<1>5. ASSUME TypeInv PROVE \A p \in DOMAIN pushes : p \in 1..MaxPushes
  BY <1>3, <1>4, <1>5, BuildBoundsAssumption
<1>6. QED
  BY <1>1, <1>3, <1>4, <1>5

\* A job that is edited keeps what it is of.
LEMMA EditJob ==
    ASSUME TypeInv, NEW j \in DOMAIN jobs, NEW e \in JobType, jobs' = [jobs EXCEPT ![j] = e]
    PROVE  /\ JobsOK' /\ DOMAIN jobs' = DOMAIN jobs
           /\ \A i \in DOMAIN jobs : jobs'[i] = IF i = j THEN e ELSE jobs[i]
BY TypeParts, EditSeq DEF JobsOK
\* What a builder does next has a job, as what it did before.
LEMMA BuildersGoOn ==
    ASSUME TypeInv, DOMAIN jobs \subseteq DOMAIN jobs', registry \subseteq registry'
    PROVE  /\ builder' = builder => BuildersOK'
           /\ \A b \in Builders, e \in BuilderType :
                 builder' = [builder EXCEPT ![b] = e]
                 /\ (e.pc = "idle" => e = Idle) /\ (e.pc # "idle" => e.job \in DOMAIN jobs)
                 /\ (e.pc = "complete" => Artifact(e.job, b) \in registry') => BuildersOK'
BY DEF TypeInv, BuildersOK

LEMMA IdleType == Idle \in BuilderType /\ Idle.pc = "idle" /\ Idle.job = 0
BY BuildBoundsAssumption DEF Idle, BuilderType

LEMMA BuilderGoes ==
    ASSUME TypeInv, NEW b \in Builders, NEW pc \in {"source", "build", "complete", "fail"}, Goto(b, pc),
           builder[b].pc # "idle",
           DOMAIN jobs \subseteq DOMAIN jobs', registry \subseteq registry',
           pc = "complete" => Artifact(builder[b].job, b) \in registry'
    PROVE  BuildersOK'
<1> DEFINE e == [builder[b] EXCEPT !.pc = pc]
<1>1. builder[b] \in BuilderType /\ builder \in [Builders -> BuilderType] /\ builder[b].job \in DOMAIN jobs
  BY DEF TypeInv, BuildersOK
<1>2. builder' = [builder EXCEPT ![b] = e]
  BY <1>1 DEF Goto
<1>3. e \in BuilderType /\ e.pc = pc /\ e.job = builder[b].job
  BY <1>1 DEF BuilderType
<1> HIDE DEF e
<1>4. QED
  BY <1>1, <1>2, <1>3, BuildersGoOn

LEMMA BuilderRests ==
    ASSUME TypeInv, NEW b \in Builders, builder' = [builder EXCEPT ![b] = Idle],
           DOMAIN jobs \subseteq DOMAIN jobs', registry \subseteq registry'
    PROVE  BuildersOK'
BY IdleType, BuildersGoOn

LEMMA UsedStays ==
    /\ UsedOK /\ (\E h \in BOOLEAN : Heard(h)) => UsedOK'
    /\ UsedOK /\ Change => UsedOK'
<1>1. ASSUME NEW r \in [changes : 0..MaxChanges, mishaps : 0..MaxMishaps]
      PROVE  /\ r.mishaps < MaxMishaps =>
                  [r EXCEPT !.mishaps = @ + 1] \in [changes : 0..MaxChanges, mishaps : 0..MaxMishaps]
             /\ r.changes < MaxChanges =>
                  [r EXCEPT !.changes = @ + 1] \in [changes : 0..MaxChanges, mishaps : 0..MaxMishaps]
  BY BuildBoundsAssumption
<1>2. QED
  BY <1>1 DEF UsedOK, Heard, Change

\* What most steps do: no job is added or ends, nothing is handed over, no
\* image and no delivery is forgotten.
JobsKept ==
    /\ JobsOK' /\ DOMAIN jobs' = DOMAIN jobs
    /\ \A i \in DOMAIN jobs :
          /\ jobs'[i].service = jobs[i].service /\ jobs'[i].push = jobs[i].push
          /\ jobs'[i].after = jobs[i].after /\ jobs'[i].deployment = jobs[i].deployment
          /\ \/ jobs'[i].status = jobs[i].status /\ jobs'[i].by = jobs[i].by
             \/ jobs[i].status \in Open /\ jobs'[i].status \in Open \union {"FAILED"}
NobodyEnds == \A i \in DOMAIN jobs : jobs[i].status \in Open => jobs'[i].status \in Open
Kept ==
    /\ JobsKept /\ UNCHANGED deployments /\ registry \subseteq registry'
    /\ Recorded \subseteq Recorded'
Quiet == Kept /\ NobodyEnds

\* What claiming, starting and failing write to a job.
SameTask(e, r) ==
    /\ e \in JobType /\ e.service = r.service /\ e.push = r.push /\ e.after = r.after
    /\ e.deployment = r.deployment

Taken(r, status, by, lease) == [r EXCEPT !.status = status, !.by = by, !.lease = lease]
Moved(r, status, lease) == [r EXCEPT !.status = status, !.lease = lease]

LEMMA JobWritten ==
    ASSUME NEW r \in JobType, NEW status \in Open \union {"FAILED"}, NEW lease \in 0..Lease
    PROVE  /\ SameTask(Moved(r, status, lease), r)
           /\ Moved(r, status, lease).status = status
           /\ \A by \in Builders \union {"nobody"} :
                 /\ SameTask(Taken(r, status, by, lease), r)
                 /\ Taken(r, status, by, lease).status = status
<1>1. ASSUME NEW t \in JobType
      PROVE  /\ SameTask([t EXCEPT !.status = status], t) /\ [t EXCEPT !.status = status].status = status
             /\ SameTask([t EXCEPT !.lease = lease], t) /\ [t EXCEPT !.lease = lease].status = t.status
  BY DEF JobType, SameTask
<1>2. ASSUME NEW t \in JobType, NEW by \in Builders \union {"nobody"}
      PROVE  SameTask([t EXCEPT !.by = by], t) /\ [t EXCEPT !.by = by].status = t.status
  BY DEF JobType, SameTask
<1>3. ASSUME NEW by \in Builders \union {"nobody"}
      PROVE  /\ Taken(r, status, by, lease)
                    = [[[r EXCEPT !.status = status] EXCEPT !.by = by] EXCEPT !.lease = lease]
             /\ Moved(r, status, lease) = [[r EXCEPT !.status = status] EXCEPT !.lease = lease]
  BY DEF JobType, Taken, Moved
<1> DEFINE r1 == [r EXCEPT !.status = status]
<1>4. SameTask(r1, r) /\ r1.status = status
  BY <1>1
<1>5. SameTask([r1 EXCEPT !.lease = lease], r1) /\ [r1 EXCEPT !.lease = lease].status = status
  BY <1>1, <1>4 DEF SameTask
<1>6. ASSUME NEW by \in Builders \union {"nobody"}
      PROVE  /\ SameTask(Taken(r, status, by, lease), r)
             /\ Taken(r, status, by, lease).status = status
  <2> DEFINE r2 == [r1 EXCEPT !.by = by]
  <2>1. SameTask(r2, r1) /\ r2.status = status
    BY <1>2, <1>4 DEF SameTask
  <2>2. SameTask([r2 EXCEPT !.lease = lease], r2) /\ [r2 EXCEPT !.lease = lease].status = status
    BY <1>1, <2>1 DEF SameTask
  <2>3. Taken(r, status, by, lease) = [r2 EXCEPT !.lease = lease]
    BY <1>3
  <2> HIDE DEF r1, r2
  <2>4. QED
    BY <1>4, <2>1, <2>2, <2>3 DEF SameTask
<1>7. \E by : by \in Builders \union {"nobody"}
  OBVIOUS
<1>8. Moved(r, status, lease) = [r1 EXCEPT !.lease = lease]
  BY <1>3, <1>7
<1> HIDE DEF r1
<1>9. QED
  BY <1>4, <1>5, <1>6, <1>8 DEF SameTask

\* One job is worked on.
LEMMA WorkOn ==
    ASSUME TypeInv, NEW j \in DOMAIN jobs, NEW e, jobs' = [jobs EXCEPT ![j] = e],
           SameTask(e, jobs[j]),
           \/ e.status = jobs[j].status /\ e.by = jobs[j].by
           \/ jobs[j].status \in Open /\ e.status \in Open \union {"FAILED"}
    PROVE  JobsKept /\ (e.status \in Open \/ e.status = jobs[j].status => NobodyEnds)
<1>1. /\ JobsOK' /\ DOMAIN jobs' = DOMAIN jobs
      /\ \A i \in DOMAIN jobs : jobs'[i] = IF i = j THEN e ELSE jobs[i]
  BY EditJob DEF SameTask
<1>2. QED
  BY <1>1 DEF JobsKept, NobodyEnds, SameTask

LEMMA JobsStay == TypeInv /\ jobs' = jobs => JobsKept /\ NobodyEnds
BY DEF TypeInv, JobsOK, JobsKept, NobodyEnds

LEMMA PushesStay == pushes' = pushes => Recorded \subseteq Recorded'
BY DEF Recorded, Delivered

-----------------------------------------------------------------------------
(* Each step: types, and what is kept *)

LEMMA ConfigureStep == TypeInv /\ Configure => TypeInv' /\ Quiet
<1> SUFFICES ASSUME TypeInv, Configure PROVE TypeInv' /\ Quiet
  OBVIOUS
<1>1. UNCHANGED <<pushes, jobs, builder, registry, deployments>> /\ (UsedOK')
  <2>1. (Change \/ UNCHANGED <<pushes, jobs, builder, registry, deployments, used>>)
    BY DEF Configure, AskAutodeploy, DeleteAutodeploy, ArchiveService, ConfirmSource, RefuseAutodeploy,
           ConfigureAutodeploy, NodeChanges, ConfigureLegacy
  <2>2. QED
    BY <2>1, UsedStays DEF Change, TypeInv, UsedOK
<1>2. ASSUME NEW s \in Services, NEW e \in TargetType PROVE [autodeploy EXCEPT ![s] = e] \in [Services -> TargetType]
  BY DEF TypeInv, ConfigOK
<1>3. ConfigOK'
  <2>0. ConfigOK /\ NoTarget \in TargetType
    BY DEF TypeInv, TargetType
  <2>1. ASSUME NEW s \in Services, AskAutodeploy(s) PROVE ConfigOK'
    BY <2>0, <2>1 DEF AskAutodeploy, ConfigOK
  <2>2. ASSUME NEW s \in Services, DeleteAutodeploy(s) PROVE ConfigOK'
    BY <2>0, <2>2, <1>2 DEF DeleteAutodeploy, ConfigOK
  <2>3. ASSUME NEW s \in Services, ArchiveService(s) PROVE ConfigOK'
    BY <2>0, <2>3 DEF ArchiveService, ConfigOK
  <2>4. ASSUME NEW s \in Services, NEW branch \in Branches, ConfirmSource(s, branch) PROVE ConfigOK'
    BY <2>0, <2>4 DEF ConfirmSource, ConfigOK
  <2>5. ASSUME NEW r \in asked, RefuseAutodeploy(r) PROVE ConfigOK'
    BY <2>0, <2>5 DEF RefuseAutodeploy, ConfigOK
  <2>6. ASSUME NEW r \in asked, NEW n \in Nodes, NEW e \in BOOLEAN, ConfigureAutodeploy(r, n, e) PROVE ConfigOK'
    <3>1. r.service \in Services /\ [branch |-> r.branch, node |-> n, enabled |-> e] \in TargetType
      BY <2>0 DEF ConfigOK, TargetType
    <3>2. autodeploy' \in [Services -> TargetType]
      BY <2>6, <3>1, <1>2 DEF ConfigureAutodeploy
    <3>3. QED
      BY <2>0, <2>6, <3>2 DEF ConfigureAutodeploy, ConfigOK
  <2>7. ASSUME NEW n \in Nodes, NodeChanges(n) PROVE ConfigOK'
    BY <2>0, <2>7 DEF NodeChanges, ConfigOK
  <2>8. ASSUME NEW s \in Services, NEW branch \in Branches, NEW n \in Nodes, NEW e \in BOOLEAN,
               ConfigureLegacy(s, branch, n, e)
        PROVE  ConfigOK'
    <3>1. [branch |-> branch, node |-> n, enabled |-> e] \in TargetType
      BY DEF TargetType
    <3>2. autodeploy' \in [Services -> TargetType]
      BY <2>8, <3>1, <1>2 DEF ConfigureLegacy
    <3>3. QED
      BY <2>0, <2>8, <3>2 DEF ConfigureLegacy, ConfigOK
  <2>9. QED
    BY <2>1, <2>2, <2>3, <2>4, <2>5, <2>6, <2>7, <2>8 DEF Configure
<1>4. TypeInv'
  <2>1. PushesOK' /\ JobsOK' /\ DeploymentsOK' /\ RegistryOK'
    BY <1>1 DEF TypeInv, PushesOK, JobsOK, DeploymentsOK, RegistryOK
  <2>2. BuildersOK'
    BY <1>1, BuildersGoOn
  <2>3. QED
    BY <1>1, <1>3, <2>1, <2>2 DEF TypeInv
<1>5. QED
  BY <1>1, <1>4, JobsStay, PushesStay DEF Quiet, Kept

\* The parts that a step leaves alone.
LEMMA Stay ==
    ASSUME TypeInv
    PROVE  /\ UNCHANGED config => ConfigOK'
           /\ UNCHANGED pushes => PushesOK'
           /\ UNCHANGED jobs => JobsOK'
           /\ UNCHANGED deployments => DeploymentsOK'
           /\ UNCHANGED registry => RegistryOK'
           /\ UNCHANGED used => UsedOK'
BY DEF TypeInv, ConfigOK, PushesOK, JobsOK, DeploymentsOK, RegistryOK, UsedOK, config

LEMMA PushStep ==
    ASSUME TypeInv, NEW branch \in Branches, NEW deletes \in BOOLEAN, Push(branch, deletes)
    PROVE  TypeInv' /\ Quiet
<1> DEFINE e == [branch |-> branch, deletes |-> deletes, status |-> "none"]
<1>1. pushes \in Seq(PushType) /\ e \in PushType /\ pushes' = Append(pushes, e) /\ Len(pushes) < MaxPushes
  BY DEF TypeInv, PushesOK, PushType, Push
<1>2. /\ pushes' \in Seq(PushType) /\ Len(pushes') = Len(pushes) + 1 /\ Len(pushes) \in Nat
      /\ \A p \in DOMAIN pushes : pushes'[p] = pushes[p] /\ p \in DOMAIN pushes'
  BY <1>1, Grows
<1>3. PushesOK'
  BY <1>1, <1>2, BuildBoundsAssumption DEF PushesOK
<1>4. Recorded \subseteq Recorded'
  BY <1>2 DEF Recorded, Delivered
<1>5. BuildersOK'
  BY BuildersGoOn DEF Push
<1>6. TypeInv'
  BY <1>3, <1>5, Stay DEF TypeInv, Push
<1>7. QED
  BY <1>2, <1>4, <1>6, JobsStay DEF Quiet, Kept, Push

LEMMA DeliverFailsStep ==
    ASSUME TypeInv, NEW p \in DOMAIN pushes, DeliverFails(p)
    PROVE  TypeInv' /\ Quiet
<1> DEFINE e == [pushes[p] EXCEPT !.status = "error"]
<1>1. pushes \in Seq(PushType) /\ e \in PushType /\ pushes' = [pushes EXCEPT ![p] = e]
  BY TypeParts DEF TypeInv, PushesOK, PushType, DeliverFails
<1> HIDE DEF e
<1>2. /\ pushes' \in Seq(PushType) /\ Len(pushes') = Len(pushes) /\ DOMAIN pushes' = DOMAIN pushes
      /\ \A q \in DOMAIN pushes : pushes'[q] = IF q = p THEN e ELSE pushes[q]
  BY <1>1, EditSeq
<1>3. PushesOK'
  BY <1>2 DEF PushesOK, TypeInv
<1>4. Recorded \subseteq Recorded'
  BY <1>2 DEF Recorded, Delivered, DeliverFails
<1>5. BuildersOK'
  BY BuildersGoOn DEF DeliverFails
<1>6. TypeInv'
  BY <1>3, <1>5, Stay DEF TypeInv, DeliverFails
<1>7. QED
  BY <1>2, <1>4, <1>6, JobsStay DEF Quiet, Kept, DeliverFails

LEMMA ClaimStep ==
    ASSUME TypeInv, NEW b \in Builders, NEW heard \in BOOLEAN, Claim(b, heard)
    PROVE  TypeInv' /\ Quiet
<1>1. PICK j \in DOMAIN jobs :
         /\ Claimable(j)
         /\ jobs' = [jobs EXCEPT ![j].status = "CLAIMED", ![j].by = b, ![j].lease = Lease]
         /\ builder' = [builder EXCEPT ![b] = IF heard THEN [pc |-> "start", job |-> j] ELSE Idle]
  BY DEF Claim
<1> DEFINE e == Taken(jobs[j], "CLAIMED", b, Lease)
<1>2. jobs[j] \in JobType /\ j \in 0..MaxBuilds
  BY TypeParts, BuildBoundsAssumption
<1>3. jobs' = [jobs EXCEPT ![j] = e]
  BY <1>1 DEF Taken
<1>4. SameTask(e, jobs[j]) /\ e.status \in Open
  <2>1. "CLAIMED" \in Open /\ Lease \in 0..Lease
    BY DEF Open, Lease
  <2>2. QED
    BY <1>2, <2>1, JobWritten DEF Open
<1> HIDE DEF e
<1>5. JobsKept /\ NobodyEnds
  BY <1>1, <1>3, <1>4, WorkOn DEF Claimable, Open
<1>6. BuildersOK'
  <2>1. CASE heard
    <3> DEFINE w == [pc |-> "start", job |-> j]
    <3>1. w \in BuilderType /\ w.pc = "start" /\ w.job = j /\ builder' = [builder EXCEPT ![b] = w]
      BY <1>1, <1>2, <2>1 DEF BuilderType
    <3> HIDE DEF w
    <3>2. QED
      BY <1>5, <3>1, BuildersGoOn DEF JobsKept, Claim
  <2>2. CASE ~heard
    BY <1>1, <1>5, <2>2, BuilderRests DEF JobsKept, Claim
  <2>3. QED
    BY <2>1, <2>2
<1>7. TypeInv'
  BY <1>5, <1>6, Stay, UsedStays DEF TypeInv, Claim, JobsKept
<1>8. QED
  BY <1>5, <1>7, PushesStay DEF Quiet, Kept, Claim

LEMMA StartStep ==
    ASSUME TypeInv, NEW b \in Builders, NEW heard \in BOOLEAN, Start(b, heard)
    PROVE  TypeInv' /\ Quiet
<1> DEFINE j == builder[b].job
           e == Moved(jobs[j], "BUILDING", Lease)
<1>1. j \in DOMAIN jobs /\ builder[b].pc # "idle"
  BY DEF TypeInv, BuildersOK, Start
<1>2. jobs[j] \in JobType
  BY <1>1, TypeParts
<1>3. JobsKept /\ NobodyEnds
  <2>1. CASE Holds(b, j, {"CLAIMED"})
    <3>1. jobs' = [jobs EXCEPT ![j] = e]
      BY <1>1, <2>1 DEF Start, Moved
    <3>2. SameTask(e, jobs[j]) /\ e.status \in Open
      <4>1. "BUILDING" \in Open /\ Lease \in 0..Lease
        BY DEF Open, Lease
      <4>2. QED
        BY <1>2, <4>1, JobWritten DEF Open
    <3>3. jobs[j].status \in Open
      BY <2>1 DEF Holds, Open
    <3> HIDE DEF e
    <3>4. QED
      BY <1>1, <3>1, <3>2, <3>3, WorkOn
  <2>2. CASE ~Holds(b, j, {"CLAIMED"})
    BY <2>2, JobsStay DEF Start
  <2>3. QED
    BY <2>1, <2>2
<1>4. \E pc \in {"source", "fail"} : Goto(b, pc)
  BY DEF Start
<1>5. BuildersOK'
  BY <1>1, <1>3, <1>4, BuilderGoes DEF JobsKept, Start
<1>6. TypeInv'
  BY <1>3, <1>5, Stay, UsedStays DEF TypeInv, Start, JobsKept
<1>7. QED
  BY <1>3, <1>6, PushesStay DEF Quiet, Kept, Start

LEMMA DownloadSourceStep ==
    ASSUME TypeInv, NEW b \in Builders, DownloadSource(b)
    PROVE  TypeInv' /\ Quiet
<1>1. \E pc \in {"build", "fail"} : Goto(b, pc)
  BY DEF DownloadSource
<1>2. BuildersOK'
  BY <1>1, BuilderGoes DEF DownloadSource
<1>3. TypeInv'
  BY <1>2, Stay DEF TypeInv, DownloadSource
<1>4. QED
  BY <1>3, JobsStay, PushesStay DEF Quiet, Kept, DownloadSource

LEMMA HeartbeatStep ==
    ASSUME TypeInv, NEW b \in Builders, Heartbeat(b)
    PROVE  TypeInv' /\ Quiet
<1> DEFINE j == builder[b].job
           e == [jobs[j] EXCEPT !.lease = Lease]
<1>1. j \in DOMAIN jobs
  BY DEF TypeInv, BuildersOK, Heartbeat
<1>2. jobs[j] \in JobType /\ jobs' = [jobs EXCEPT ![j] = e]
  BY <1>1, TypeParts DEF Heartbeat
<1>3. SameTask(e, jobs[j]) /\ e.status = jobs[j].status /\ e.by = jobs[j].by
  BY <1>2 DEF JobType, Lease, SameTask
<1> HIDE DEF e
<1>4. JobsKept /\ NobodyEnds
  BY <1>1, <1>2, <1>3, WorkOn
<1>5. BuildersOK'
  BY <1>4, BuildersGoOn DEF JobsKept, Heartbeat
<1>6. TypeInv'
  BY <1>4, <1>5, Stay DEF TypeInv, Heartbeat, JobsKept
<1>7. QED
  BY <1>4, <1>6, PushesStay DEF Quiet, Kept, Heartbeat

LEMMA RunBuildStep ==
    ASSUME TypeInv, NEW b \in Builders, RunBuild(b)
    PROVE  TypeInv' /\ Quiet
<1>1. builder[b].pc # "idle" /\ builder[b].job \in DOMAIN jobs
  BY DEF TypeInv, BuildersOK, RunBuild
<1>2. Artifact(builder[b].job, b) \in [job : 1..MaxBuilds, by : Builders]
  BY <1>1, TypeParts, BuildBoundsAssumption DEF Artifact
<1>3. RegistryOK' /\ registry \subseteq registry'
  BY <1>2 DEF RunBuild, TypeInv, RegistryOK
<1>4. BuildersOK'
  BY <1>1, <1>3, BuilderGoes DEF RunBuild
<1>5. TypeInv'
  BY <1>3, <1>4, Stay DEF TypeInv, RunBuild
<1>6. QED
  BY <1>3, <1>5, JobsStay, PushesStay DEF Quiet, Kept, RunBuild

LEMMA CompleteRefusedStep ==
    ASSUME TypeInv, NEW b \in Builders, CompleteRefused(b)
    PROVE  TypeInv' /\ Quiet
<1>1. BuildersOK'
  BY BuilderGoes DEF CompleteRefused
<1>2. TypeInv'
  BY <1>1, Stay DEF TypeInv, CompleteRefused
<1>3. QED
  BY <1>2, JobsStay, PushesStay DEF Quiet, Kept, CompleteRefused

\* A failure ends at most the job of the builder that reports it.
FailsOwn(b) ==
    Kept /\ \A i \in DOMAIN jobs : jobs[i].status \in Open /\ jobs'[i].status \notin Open =>
        /\ i = builder[b].job /\ Owns(b, i) /\ builder' = [builder EXCEPT ![b] = Idle] /\ builder[b] # Idle

LEMMA FailStep ==
    ASSUME TypeInv, NEW b \in Builders, Fail(b)
    PROVE  TypeInv' /\ FailsOwn(b)
<1> DEFINE j == builder[b].job
           e == Moved(jobs[j], "FAILED", 0)
<1>1. j \in DOMAIN jobs /\ builder[b] # Idle
  BY DEF TypeInv, BuildersOK, Fail, Idle
<1>2. jobs[j] \in JobType
  BY <1>1, TypeParts
<1>3. /\ JobsKept
      /\ \A i \in DOMAIN jobs : jobs[i].status \in Open /\ jobs'[i].status \notin Open => i = j /\ Owns(b, i)
  <2>1. CASE MayFail(b, j)
    <3>1. jobs' = [jobs EXCEPT ![j] = e]
      BY <1>1, <2>1 DEF Fail, Moved
    <3>2. SameTask(e, jobs[j]) /\ e.status = "FAILED"
      <4>1. 0 \in 0..Lease
        BY DEF Lease
      <4>2. QED
        BY <1>2, <4>1, JobWritten DEF Open
    <3>3. jobs[j].status \in Open /\ Owns(b, j)
      BY <2>1 DEF MayFail, Open
    <3> HIDE DEF e
    <3>4. JobsKept
      BY <1>1, <3>1, <3>2, <3>3, WorkOn
    <3>5. QED
      BY <1>1, <3>1, <3>2, <3>3, <3>4, EditJob DEF SameTask
  <2>2. CASE ~MayFail(b, j)
    BY <2>2, JobsStay DEF Fail, NobodyEnds
  <2>3. QED
    BY <2>1, <2>2
<1>4. BuildersOK'
  BY <1>3, BuilderRests DEF JobsKept, Fail
<1>5. TypeInv'
  BY <1>3, <1>4, Stay DEF TypeInv, Fail, JobsKept
<1>6. QED
  BY <1>1, <1>3, <1>5, PushesStay DEF FailsOwn, Kept, Fail

LEMMA FailLostStep ==
    ASSUME TypeInv, NEW b \in Builders, FailLost(b) \/ BuilderCrash(b)
    PROVE  TypeInv' /\ Quiet
<1>1. /\ UNCHANGED <<config, pushes, jobs, registry, deployments>>
      /\ Heard(FALSE) /\ builder' = [builder EXCEPT ![b] = Idle]
  BY DEF FailLost, BuilderCrash
<1>2. BuildersOK'
  BY <1>1, BuilderRests
<1>3. TypeInv'
  BY <1>1, <1>2, Stay, UsedStays DEF TypeInv
<1>4. QED
  BY <1>1, <1>3, JobsStay, PushesStay DEF Quiet, Kept

LEMMA PassStep ==
    ASSUME TypeInv, NEW j \in DOMAIN jobs, Pass(j)
    PROVE  TypeInv' /\ Quiet
<1> DEFINE e == [jobs[j] EXCEPT !.lease = @ - 1]
<1>1. jobs[j] \in JobType /\ jobs' = [jobs EXCEPT ![j] = e]
  BY TypeParts DEF Pass
<1>2. SameTask(e, jobs[j]) /\ e.status = jobs[j].status /\ e.by = jobs[j].by
  BY <1>1 DEF JobType, Lease, Pass, SameTask
<1> HIDE DEF e
<1>3. JobsKept /\ NobodyEnds
  BY <1>1, <1>2, WorkOn
<1>4. BuildersOK' /\ UsedOK'
  <2>1. \E h \in BOOLEAN : Heard(h)
    BY DEF Pass
  <2>2. QED
    BY <1>3, <2>1, BuildersGoOn, UsedStays DEF JobsKept, Pass, TypeInv
<1>5. TypeInv'
  BY <1>3, <1>4, Stay DEF TypeInv, Pass, JobsKept
<1>6. QED
  BY <1>3, <1>5, PushesStay DEF Quiet, Kept, Pass

\* The end of a build: its job alone changes, and at most a deployment of it is added.
Completes(b, j) ==
    /\ j \in DOMAIN jobs /\ j = builder[b].job /\ Owns(b, j) /\ jobs[j].status = "BUILDING"
    /\ Artifact(j, b) \in registry /\ registry' = registry /\ pushes' = pushes
    /\ builder'[b] # builder[b]
    /\ JobsOK' /\ DOMAIN jobs' = DOMAIN jobs
    /\ \A i \in DOMAIN jobs \ {j} : jobs'[i] = jobs[i]
    /\ jobs'[j].service = jobs[j].service /\ jobs'[j].push = jobs[j].push
    /\ jobs'[j].after = jobs[j].after /\ jobs'[j].by = jobs[j].by
    /\ jobs'[j].status = "PUSHED"
HandsOver(b, j) ==
    \/ /\ ~NeedsDeployment(j) /\ deployments' = deployments
       /\ jobs'[j].deployment = jobs[j].deployment
    \/ LET d == Len(deployments) + 1
       IN  /\ NeedsDeployment(j)
           /\ DeploymentsOK' /\ DOMAIN deployments = 1..Len(deployments) /\ Len(deployments) \in Nat
           /\ DOMAIN deployments' = 1..d
           /\ \A c \in DOMAIN deployments : deployments'[c] = deployments[c]
           /\ deployments'[d].job = j /\ deployments'[d].service = jobs[j].service
           /\ deployments'[d].push = jobs[j].push /\ deployments'[d].artifact = Artifact(j, b)
           /\ jobs'[j].deployment = d

PushedJob(r, d) == [[[r EXCEPT !.status = "PUSHED"] EXCEPT !.lease = 0] EXCEPT !.deployment = d]

LEMMA JobPushed ==
    ASSUME NEW r \in JobType, NEW d \in Nat
    PROVE  LET e == PushedJob(r, d)
           IN  /\ e \in JobType /\ e.service = r.service /\ e.push = r.push /\ e.after = r.after
               /\ e.by = r.by /\ e.status = "PUSHED" /\ e.deployment = d
<1> DEFINE r1 == [r EXCEPT !.status = "PUSHED"]
           r2 == [r1 EXCEPT !.lease = 0]
<1>1. /\ r1 \in JobType /\ r1.service = r.service /\ r1.push = r.push /\ r1.after = r.after
      /\ r1.by = r.by /\ r1.status = "PUSHED"
  BY DEF JobType
<1>2. PushedJob(r, d) = [r2 EXCEPT !.deployment = d]
  BY DEF PushedJob
<1>3. /\ r2 \in JobType /\ r2.service = r.service /\ r2.push = r.push /\ r2.after = r.after
      /\ r2.by = r.by /\ r2.status = "PUSHED"
  <2> HIDE DEF r1
  <2>1. QED
    BY <1>1 DEF JobType, Lease
<1> HIDE DEF r2
<1>4. QED
  BY <1>2, <1>3 DEF JobType

LEMMA HandoffType ==
    ASSUME TypeInv, NEW j \in DOMAIN jobs, NEW n \in Nodes, NEW b \in Builders
    PROVE  /\ Handoff(j, n, Artifact(j, b)) \in DeploymentType
           /\ Handoff(j, n, Artifact(j, b)).job = j /\ Handoff(j, n, Artifact(j, b)).service = jobs[j].service
           /\ Handoff(j, n, Artifact(j, b)).push = jobs[j].push
           /\ Handoff(j, n, Artifact(j, b)).artifact = Artifact(j, b)
<1>1. jobs[j].service \in Services /\ jobs[j].push \in 0..MaxPushes /\ j \in 0..MaxBuilds
  BY TypeParts, BuildBoundsAssumption DEF JobType
<1>2. Artifact(j, b) \in [job : 0..MaxBuilds, by : Builders \union {"nobody"}]
  BY <1>1 DEF Artifact
<1>3. QED
  BY <1>1, <1>2 DEF Handoff, DeploymentType

LEMMA CompleteStep ==
    ASSUME TypeInv, NEW b \in Builders, NEW heard \in BOOLEAN, Complete(b, heard)
    PROVE  TypeInv' /\ Completes(b, builder[b].job) /\ HandsOver(b, builder[b].job)
<1> DEFINE j == builder[b].job
<1>1. /\ j \in DOMAIN jobs /\ builder[b].pc = "complete" /\ Artifact(j, b) \in registry
      /\ Owns(b, j) /\ jobs[j].status = "BUILDING" /\ builder[b] \in BuilderType
      /\ builder \in [Builders -> BuilderType]
  BY DEF TypeInv, BuildersOK, Complete, Holds
<1>2. jobs[j] \in JobType /\ jobs \in Seq(JobType)
  BY <1>1, TypeParts
<1>3. ASSUME NEW d \in Nat, jobs' = Pushed(j, d)
      PROVE  /\ JobsOK' /\ DOMAIN jobs' = DOMAIN jobs
             /\ \A i \in DOMAIN jobs \ {j} : jobs'[i] = jobs[i]
             /\ jobs'[j].service = jobs[j].service /\ jobs'[j].push = jobs[j].push
             /\ jobs'[j].after = jobs[j].after /\ jobs'[j].by = jobs[j].by
             /\ jobs'[j].status = "PUSHED" /\ jobs'[j].deployment = d
  <2>1. jobs' = [jobs EXCEPT ![j] = PushedJob(jobs[j], d)]
    BY <1>1, <1>2, <1>3 DEF Pushed, PushedJob, JobType
  <2>2. PICK r : r = PushedJob(jobs[j], d)
    OBVIOUS
  <2>3. /\ r \in JobType /\ r.service = jobs[j].service /\ r.push = jobs[j].push /\ r.after = jobs[j].after
        /\ r.by = jobs[j].by /\ r.status = "PUSHED" /\ r.deployment = d
    BY <1>2, <2>2, JobPushed
  <2>4. jobs' = [jobs EXCEPT ![j] = r]
    BY <2>1, <2>2
  <2>5. QED
    BY <1>1, <2>3, <2>4, EditJob
<1>4. /\ DOMAIN deployments = 1..Len(deployments) /\ Len(deployments) \in Nat
      /\ deployments \in Seq(DeploymentType) /\ jobs[j].deployment \in Nat
  BY <1>2, TypeParts DEF TypeInv, DeploymentsOK, JobType
<1>5. HandsOver(b, j) /\ DeploymentsOK' /\ \E d \in Nat : jobs' = Pushed(j, d)
  <2>1. CASE ~NeedsDeployment(j)
    <3>1. deployments' = deployments /\ jobs' = Pushed(j, jobs[j].deployment)
      BY <2>1 DEF Complete
    <3>2. QED
      BY <1>3, <1>4, <2>1, <3>1 DEF HandsOver, DeploymentsOK
  <2>2. CASE NeedsDeployment(j)
    <3>1. PICK n \in Target(jobs[j].service) : deployments' = Append(deployments, Handoff(j, n, Artifact(j, b)))
      BY <2>2 DEF Complete
    <3>2. n \in Nodes /\ jobs' = Pushed(j, Len(deployments) + 1)
      BY <2>2, <3>1 DEF Complete, Target, TypeInv, ConfigOK
    <3>3. PICK h : h = Handoff(j, n, Artifact(j, b))
      OBVIOUS
    <3>4. /\ h \in DeploymentType /\ h.job = j /\ h.service = jobs[j].service
          /\ h.push = jobs[j].push /\ h.artifact = Artifact(j, b)
      BY <1>1, <3>2, <3>3, HandoffType
    <3>5. /\ deployments' \in Seq(DeploymentType) /\ DOMAIN deployments' = 1..(Len(deployments) + 1)
          /\ deployments'[Len(deployments) + 1] = h
          /\ \A c \in DOMAIN deployments : deployments'[c] = deployments[c]
      BY <1>4, <3>1, <3>3, <3>4, Grows
    <3>6. jobs'[j].deployment = Len(deployments) + 1 /\ Len(deployments) + 1 \in Nat
      BY <1>3, <1>4, <3>2
    <3>7. QED
      BY <1>4, <2>2, <3>2, <3>4, <3>5, <3>6 DEF HandsOver, DeploymentsOK
  <2>3. QED
    BY <2>1, <2>2
<1>6. Completes(b, j)
  <2>1. builder'[b] # builder[b]
    BY <1>1 DEF Complete, BuilderType, Idle
  <2>2. QED
    BY <1>1, <1>3, <1>5, <2>1 DEF Completes, Complete
<1>7. TypeInv'
  <2>1. BuildersOK'
    <3>0. DOMAIN jobs' = DOMAIN jobs /\ registry' = registry
      BY <1>6 DEF Completes
    <3>1. CASE heard
      BY <3>0, <3>1, BuilderRests DEF Complete
    <3>2. CASE ~heard
      <4>1. Goto(b, "fail")
        BY <1>1, <3>2 DEF Complete, Goto
      <4>2. QED
        BY <1>1, <3>0, <4>1, BuilderGoes
    <3>3. QED
      BY <3>1, <3>2
  <2>2. QED
    BY <1>5, <1>6, <2>1, Stay, UsedStays DEF TypeInv, Complete, Completes
<1>8. QED
  BY <1>5, <1>6, <1>7

\* What is queued: builds, and deployments that no build hands over, for
\* services that are each other's only once if a push asked for them.
JobsQueued(p) ==
    /\ JobsOK' /\ DOMAIN jobs \subseteq DOMAIN jobs' /\ Len(jobs') \in Nat /\ Len(jobs) <= Len(jobs')
    /\ \A i \in DOMAIN jobs : jobs'[i] = jobs[i]
    /\ \A i \in DOMAIN jobs' \ DOMAIN jobs :
          jobs'[i].status = "QUEUED" /\ jobs'[i].deployment = 0 /\ jobs'[i].push = p
    /\ p # 0 => \A i, k \in DOMAIN jobs' \ DOMAIN jobs : jobs'[i].service = jobs'[k].service => i = k
DirectQueued(p) ==
    /\ DeploymentsOK' /\ DOMAIN deployments \subseteq DOMAIN deployments'
    /\ \A d \in DOMAIN deployments : deployments'[d] = deployments[d]
    /\ \A d \in DOMAIN deployments' \ DOMAIN deployments : deployments'[d].job = 0 /\ deployments'[d].push = p
    /\ \A d, e \in DOMAIN deployments' \ DOMAIN deployments :
          deployments'[d].service = deployments'[e].service => d = e
Queues(p) ==
    /\ JobsQueued(p) /\ DirectQueued(p) /\ registry' = registry
    /\ \A i \in DOMAIN jobs' \ DOMAIN jobs, d \in DOMAIN deployments' \ DOMAIN deployments :
          deployments'[d].service # jobs'[i].service
    /\ Recorded \subseteq Recorded'
    /\ IF p = 0 THEN deployments' = deployments ELSE p \notin Recorded /\ p \in Recorded'

LEMMA QueuedType ==
    ASSUME NEW s \in Services, NEW p \in 0..MaxPushes, NEW after \in BOOLEAN
    PROVE  LET e == Queued(s, p, after)
           IN  /\ e \in JobType /\ e.status = "QUEUED" /\ e.deployment = 0 /\ e.push = p /\ e.service = s
BY DEF Queued, JobType, Open, Lease

LEMMA DirectType ==
    ASSUME TypeInv, NEW s \in Services, autodeploy[s] # NoTarget, NEW p \in 0..MaxPushes
    PROVE  LET e == Direct(s, p)
           IN  /\ e \in DeploymentType /\ e.job = 0 /\ e.push = p /\ e.service = s
<1>1. autodeploy[s] \in TargetType
  BY DEF TypeInv, ConfigOK
<1>2. autodeploy[s].node \in Nodes
  BY <1>1 DEF TargetType
<1>3. Artifact(0, "nobody") \in [job : 0..MaxBuilds, by : Builders \union {"nobody"}]
  BY BuildBoundsAssumption DEF Artifact
<1>4. QED
  BY <1>2, <1>3, BuildBoundsAssumption DEF Direct, DeploymentType

LEMMA RequestBuildStep ==
    ASSUME TypeInv, NEW s \in Services, NEW after \in BOOLEAN, RequestBuild(s, after)
    PROVE  TypeInv' /\ Queues(0)
<1>1. PICK e : e = Queued(s, 0, after)
  OBVIOUS
<1>2. e \in JobType /\ e.status = "QUEUED" /\ e.deployment = 0 /\ e.push = 0
  BY <1>1, QueuedType, BuildBoundsAssumption
<1>3. jobs' = Append(jobs, e) /\ jobs \in Seq(JobType) /\ Len(jobs) < MaxBuilds
  BY <1>1, TypeParts DEF RequestBuild
<1>4. /\ jobs' \in Seq(JobType) /\ Len(jobs') = Len(jobs) + 1 /\ Len(jobs) \in Nat
      /\ DOMAIN jobs = 1..Len(jobs) /\ DOMAIN jobs' = 1..(Len(jobs) + 1) /\ jobs'[Len(jobs) + 1] = e
      /\ \A i \in DOMAIN jobs : jobs'[i] = jobs[i] /\ i \in DOMAIN jobs'
      /\ \A i \in DOMAIN jobs' : i \in DOMAIN jobs \/ i = Len(jobs) + 1
  BY <1>2, <1>3, Grows
<1>5. JobsQueued(0)
  <2>1. JobsOK' /\ Len(jobs') \in Nat /\ Len(jobs) <= Len(jobs') /\ DOMAIN jobs \subseteq DOMAIN jobs'
    BY <1>3, <1>4, BuildBoundsAssumption DEF JobsOK
  <2>2. ASSUME NEW i \in DOMAIN jobs' \ DOMAIN jobs
        PROVE jobs'[i].status = "QUEUED" /\ jobs'[i].deployment = 0 /\ jobs'[i].push = 0
    BY <1>2, <1>4
  <2>3. QED
    BY <1>4, <2>1, <2>2 DEF JobsQueued
<1>6. DirectQueued(0) /\ deployments' = deployments
  BY DEF RequestBuild, DirectQueued, TypeInv, DeploymentsOK
<1>7. BuildersOK'
  BY <1>4, BuildersGoOn DEF RequestBuild
<1>8. TypeInv'
  BY <1>5, <1>6, <1>7, Stay DEF TypeInv, RequestBuild, JobsQueued
<1>9. QED
  BY <1>5, <1>6, <1>8, PushesStay DEF Queues, RequestBuild

LEMMA DeliverStep ==
    ASSUME TypeInv, NEW p \in DOMAIN pushes, Deliver(p)
    PROVE  TypeInv' /\ Queues(p)
<1>0. PICK built \in SUBSET Services, direct \in SUBSET Services :
         /\ built \intersect direct = {} /\ \A s \in direct : autodeploy[s] # NoTarget
         /\ \E f \in Orders(built) : jobs' = jobs \o [i \in DOMAIN f |-> Queued(f[i], p, TRUE)]
         /\ \E g \in Orders(direct) : deployments' = deployments \o [i \in DOMAIN g |-> Direct(g[i], p)]
         /\ Len(jobs) + Cardinality(built) <= MaxBuilds
         /\ ~Delivered(p) /\ \E status \in {"IGNORED", "TRIGGERED"} : pushes' = [pushes EXCEPT ![p].status = status]
  <2> DEFINE B == IF pushes[p].deletes THEN {} ELSE Canonical(pushes[p].branch)
             D == IF pushes[p].deletes THEN {} ELSE Matching(pushes[p].branch) \ B
  <2>1. B \in SUBSET Services /\ D \in SUBSET Services /\ \A s \in D : autodeploy[s] # NoTarget
    BY DEF Canonical, Matching
  <2>2. B \intersect D = {}
    OBVIOUS
  <2>3. /\ \E f \in Orders(B) : jobs' = jobs \o [i \in DOMAIN f |-> Queued(f[i], p, TRUE)]
        /\ \E g \in Orders(D) : deployments' = deployments \o [i \in DOMAIN g |-> Direct(g[i], p)]
        /\ Len(jobs) + Cardinality(B) <= MaxBuilds
        /\ ~Delivered(p) /\ \E status \in {"IGNORED", "TRIGGERED"} : pushes' = [pushes EXCEPT ![p].status = status]
    BY DEF Deliver
  <2> HIDE DEF B, D
  <2>4. QED
    BY <2>1, <2>2, <2>3
<1>1. PICK f \in Orders(built), g \in Orders(direct) :
         /\ jobs' = jobs \o [i \in DOMAIN f |-> Queued(f[i], p, TRUE)]
         /\ deployments' = deployments \o [i \in DOMAIN g |-> Direct(g[i], p)]
  BY <1>0
<1>2. p \in 1..MaxPushes /\ pushes[p] \in PushType /\ pushes \in Seq(PushType)
  BY TypeParts DEF TypeInv, PushesOK
<1>3. IsFiniteSet(built) /\ IsFiniteSet(direct)
  BY <1>0, ServicesAssumption, FS_Subset
<1> DEFINE n == Cardinality(built)
           m == Cardinality(direct)
<1>4. /\ n \in Nat /\ f \in [1..n -> built] /\ DOMAIN f = 1..n /\ \A i, j \in 1..n : f[i] = f[j] => i = j
      /\ m \in Nat /\ g \in [1..m -> direct] /\ DOMAIN g = 1..m /\ \A i, j \in 1..m : g[i] = g[j] => i = j
  BY <1>3, OrdersAre
<1> HIDE DEF n, m
<1>5. PICK q : q = [i \in 1..n |-> Queued(f[i], p, TRUE)]
  OBVIOUS
<1>6. PICK h : h = [i \in 1..m |-> Direct(g[i], p)]
  OBVIOUS
<1>7. ASSUME NEW i \in 1..n
      PROVE  /\ q[i] \in JobType /\ q[i].status = "QUEUED" /\ q[i].deployment = 0 /\ q[i].push = p
             /\ q[i].service = f[i]
  <2>1. f[i] \in Services /\ p \in 0..MaxPushes /\ q[i] = Queued(f[i], p, TRUE)
    BY <1>0, <1>2, <1>4, <1>5
  <2>2. QED
    BY <2>1 DEF Queued, JobType, Open, Lease
<1>8. ASSUME NEW i \in 1..m
      PROVE  h[i] \in DeploymentType /\ h[i].job = 0 /\ h[i].push = p /\ h[i].service = g[i]
  <2>1. g[i] \in Services /\ autodeploy[g[i]] # NoTarget /\ p \in 0..MaxPushes /\ h[i] = Direct(g[i], p)
    BY <1>0, <1>2, <1>4, <1>6
  <2>2. QED
    BY <2>1, DirectType
<1>9. q \in [1..n -> JobType] /\ h \in [1..m -> DeploymentType]
  BY <1>5, <1>6, <1>7, <1>8
<1>10. jobs' = jobs \o q /\ deployments' = deployments \o h
  BY <1>1, <1>4, <1>5, <1>6
<1>11. /\ jobs' \in Seq(JobType) /\ Len(jobs') = Len(jobs) + n /\ Len(jobs) \in Nat
       /\ DOMAIN jobs = 1..Len(jobs) /\ DOMAIN jobs' = 1..(Len(jobs) + n)
       /\ \A i \in DOMAIN jobs : jobs'[i] = jobs[i] /\ i \in DOMAIN jobs'
       /\ \A i \in DOMAIN jobs' \ DOMAIN jobs : i - Len(jobs) \in 1..n /\ jobs'[i] = q[i - Len(jobs)]
  BY <1>4, <1>9, <1>10, GrowsBy, TypeParts
<1>12. /\ deployments' \in Seq(DeploymentType) /\ Len(deployments) \in Nat
       /\ DOMAIN deployments = 1..Len(deployments) /\ DOMAIN deployments' = 1..(Len(deployments) + m)
       /\ \A i \in DOMAIN deployments : deployments'[i] = deployments[i] /\ i \in DOMAIN deployments'
       /\ \A i \in DOMAIN deployments' \ DOMAIN deployments :
             i - Len(deployments) \in 1..m /\ deployments'[i] = h[i - Len(deployments)]
  <2>1. deployments \in Seq(DeploymentType)
    BY DEF TypeInv, DeploymentsOK
  <2>2. LET t == deployments \o h
        IN  /\ t \in Seq(DeploymentType) /\ Len(deployments) \in Nat
            /\ DOMAIN deployments = 1..Len(deployments) /\ DOMAIN t = 1..(Len(deployments) + m)
            /\ \A i \in DOMAIN deployments : t[i] = deployments[i] /\ i \in DOMAIN t
            /\ \A i \in DOMAIN t \ DOMAIN deployments :
                  i - Len(deployments) \in 1..m /\ t[i] = h[i - Len(deployments)]
    BY <1>4, <1>9, <2>1, GrowsBy
  <2>3. QED
    BY <1>10, <2>2
<1>13. JobsQueued(p)
  <2>1. JobsOK' /\ Len(jobs') \in Nat /\ Len(jobs) <= Len(jobs') /\ DOMAIN jobs \subseteq DOMAIN jobs'
    <3>1. Len(jobs) + n <= MaxBuilds
      BY <1>0 DEF n
    <3>2. QED
      BY <1>4, <1>11, <3>1, BuildBoundsAssumption DEF JobsOK
  <2>2. ASSUME NEW i \in DOMAIN jobs' \ DOMAIN jobs
        PROVE jobs'[i].status = "QUEUED" /\ jobs'[i].deployment = 0 /\ jobs'[i].push = p
    BY <1>7, <1>11
  <2>3. ASSUME NEW i \in DOMAIN jobs' \ DOMAIN jobs, NEW k \in DOMAIN jobs' \ DOMAIN jobs,
               jobs'[i].service = jobs'[k].service
        PROVE  i = k
    <3>1. f[i - Len(jobs)] = f[k - Len(jobs)]
      BY <1>7, <1>11, <2>3
    <3>2. i - Len(jobs) = k - Len(jobs) /\ i \in Nat /\ k \in Nat
      BY <1>4, <1>11, <3>1
    <3>3. QED
      BY <1>11, <3>2
  <2>4. QED
    BY <1>11, <2>1, <2>2, <2>3 DEF JobsQueued
<1>14. DirectQueued(p)
  <2>1. ASSUME NEW i \in DOMAIN deployments' \ DOMAIN deployments
        PROVE  deployments'[i].job = 0 /\ deployments'[i].push = p
    BY <1>8, <1>12
  <2>2. ASSUME NEW i \in DOMAIN deployments' \ DOMAIN deployments,
               NEW k \in DOMAIN deployments' \ DOMAIN deployments,
               deployments'[i].service = deployments'[k].service
        PROVE  i = k
    <3>1. g[i - Len(deployments)] = g[k - Len(deployments)]
      BY <1>8, <1>12, <2>2
    <3>2. i - Len(deployments) = k - Len(deployments) /\ i \in Nat /\ k \in Nat
      BY <1>4, <1>12, <3>1
    <3>3. QED
      BY <1>12, <3>2
  <2>3. QED
    BY <1>12, <2>1, <2>2 DEF DirectQueued, DeploymentsOK
<1>15. ASSUME NEW i \in DOMAIN jobs' \ DOMAIN jobs, NEW d \in DOMAIN deployments' \ DOMAIN deployments
       PROVE  deployments'[d].service # jobs'[i].service
  <2>1. jobs'[i].service \in built
    BY <1>4, <1>7, <1>11
  <2>2. deployments'[d].service \in direct
    BY <1>4, <1>8, <1>12
  <2>3. QED
    BY <1>0, <2>1, <2>2
<1>16. PushesOK' /\ p \notin Recorded /\ p \in Recorded' /\ Recorded \subseteq Recorded'
  <2>1. PICK status \in {"IGNORED", "TRIGGERED"} : pushes' = [pushes EXCEPT ![p].status = status]
    BY <1>0
  <2>2. PICK e : e = [pushes[p] EXCEPT !.status = status]
    OBVIOUS
  <2>3. e \in PushType /\ e.status = status /\ pushes' = [pushes EXCEPT ![p] = e]
    BY <1>2, <2>1, <2>2 DEF PushType
  <2>4. /\ pushes' \in Seq(PushType) /\ Len(pushes') = Len(pushes) /\ DOMAIN pushes' = DOMAIN pushes
        /\ \A k \in DOMAIN pushes : pushes'[k] = IF k = p THEN e ELSE pushes[k]
    BY <1>2, <2>3, EditSeq
  <2>5. QED
    BY <1>0, <2>3, <2>4 DEF PushesOK, TypeInv, Recorded, Delivered
<1>17. BuildersOK'
  BY <1>11, BuildersGoOn DEF Deliver
<1>18. TypeInv'
  BY <1>13, <1>14, <1>16, <1>17, Stay DEF TypeInv, Deliver, JobsQueued, DirectQueued
<1>19. registry' = registry /\ p # 0
  BY <1>2 DEF Deliver
<1>20. QED
  BY <1>0, <1>13, <1>14, <1>15, <1>16, <1>18, <1>19 DEF Queues

-----------------------------------------------------------------------------
(* Types, and the four kinds of steps *)

LEMMA TypeInit == Init => TypeInv
<1> SUFFICES ASSUME Init PROVE TypeInv
  OBVIOUS
<1>1. ASSUME NEW S PROVE <<>> \in Seq(S) /\ Len(<<>>) = 0
  BY EmptySeq
<1>2. PushesOK /\ JobsOK /\ DeploymentsOK
  BY <1>1, BuildBoundsAssumption DEF Init, PushesOK, JobsOK, DeploymentsOK
<1>3. ConfigOK /\ UsedOK /\ RegistryOK
  BY BuildBoundsAssumption DEF Init, ConfigOK, UsedOK, RegistryOK, TargetType
<1>4. BuildersOK
  BY IdleType DEF Init, BuildersOK
<1>5. QED
  BY <1>2, <1>3, <1>4 DEF TypeInv

StepKind ==
    \/ Quiet
    \/ \E b \in Builders : FailsOwn(b)
    \/ \E b \in Builders : Completes(b, builder[b].job) /\ HandsOver(b, builder[b].job)
    \/ \E p \in Nat : Queues(p)

LEMMA Steps == TypeInv /\ [Next]_vars => TypeInv' /\ StepKind
<1> SUFFICES ASSUME TypeInv, [Next]_vars PROVE TypeInv' /\ StepKind
  OBVIOUS
<1>1. CASE Configure
  BY <1>1, ConfigureStep DEF StepKind
<1>2. CASE GitHub
  <2>1. ASSUME NEW p \in DOMAIN pushes, Deliver(p) PROVE TypeInv' /\ StepKind
    <3>1. p \in Nat
      BY TypeParts, BuildBoundsAssumption
    <3>2. QED
      BY <2>1, <3>1, DeliverStep DEF StepKind
  <2>2. QED
    BY <1>2, <2>1, PushStep, DeliverFailsStep DEF StepKind, GitHub
<1>3. CASE \E s \in Services, after \in BOOLEAN : RequestBuild(s, after)
  BY <1>3, RequestBuildStep DEF StepKind
<1>4. ASSUME NEW b \in Builders, Work(b) PROVE TypeInv' /\ StepKind
  <2>1. TRUE \in BOOLEAN
    OBVIOUS
  <2>2. Claim(b, TRUE) => TypeInv' /\ Quiet
    BY <2>1, ClaimStep
  <2>3. Start(b, TRUE) => TypeInv' /\ Quiet
    BY <2>1, StartStep
  <2>4. Complete(b, TRUE) => TypeInv' /\ Completes(b, builder[b].job) /\ HandsOver(b, builder[b].job)
    BY <2>1, CompleteStep
  <2>5. QED
    BY <1>4, <2>2, <2>3, <2>4, DownloadSourceStep, RunBuildStep, CompleteRefusedStep, FailStep DEF Work, StepKind
<1>5. ASSUME NEW b \in Builders, Trouble(b) PROVE TypeInv' /\ StepKind
  <2>1. FALSE \in BOOLEAN
    OBVIOUS
  <2>2. Claim(b, FALSE) => TypeInv' /\ Quiet
    BY <2>1, ClaimStep
  <2>3. Start(b, FALSE) => TypeInv' /\ Quiet
    BY <2>1, StartStep
  <2>4. Complete(b, FALSE) => TypeInv' /\ Completes(b, builder[b].job) /\ HandsOver(b, builder[b].job)
    BY <2>1, CompleteStep
  <2>5. QED
    BY <1>5, <2>2, <2>3, <2>4, FailLostStep DEF Trouble, StepKind
<1>6. ASSUME NEW b \in Builders, Heartbeat(b) PROVE TypeInv' /\ StepKind
  BY <1>6, HeartbeatStep DEF StepKind
<1>7. CASE \E j \in DOMAIN jobs : Pass(j)
  BY <1>7, PassStep DEF StepKind
<1>8. CASE UNCHANGED vars
  <2>1. /\ UNCHANGED config /\ UNCHANGED pushes /\ UNCHANGED jobs /\ UNCHANGED builder
        /\ UNCHANGED registry /\ UNCHANGED deployments /\ UNCHANGED used
    BY <1>8 DEF vars
  <2>2. BuildersOK'
    BY <2>1, BuildersGoOn
  <2>3. TypeInv'
    BY <2>1, <2>2, Stay DEF TypeInv
  <2>4. QED
    BY <2>1, <2>3, JobsStay, PushesStay DEF Quiet, Kept, StepKind
<1>9. QED
  BY <1>1, <1>2, <1>3, <1>4, <1>5, <1>6, <1>7, <1>8 DEF Next

\* Every variable keeps its type: a job, a deployment or an image is never
\* half a row, and a builder at work has a job of the table (build-engine.ts).
THEOREM PipelineTypeCorrect == Spec => []TypeOK
BY TypeInit, Steps, TypeParts, PTL DEF Spec

-----------------------------------------------------------------------------
(* A push triggers once *)

LEMMA KeptIs ==
    ASSUME StepKind
    PROVE  Kept \/ (\E b \in Builders : Completes(b, builder[b].job) /\ HandsOver(b, builder[b].job))
           \/ \E p \in Nat : Queues(p)
BY DEF StepKind, Quiet, FailsOwn

\* No step but a delivery adds something for a push.
LEMMA PushKept ==
    ASSUME PushInv,
           DOMAIN jobs' = DOMAIN jobs,
           \A i \in DOMAIN jobs : jobs'[i].push = jobs[i].push /\ jobs'[i].service = jobs[i].service,
           DOMAIN deployments \subseteq DOMAIN deployments',
           \A d \in DOMAIN deployments : deployments'[d] = deployments[d],
           \A d \in DOMAIN deployments' \ DOMAIN deployments : deployments'[d].job # 0,
           Recorded \subseteq Recorded'
    PROVE  PushInv'
<1>1. ASSUME NEW d \in DOMAIN deployments', deployments'[d].job = 0
      PROVE  d \in DOMAIN deployments /\ DirectFor(d) /\ deployments'[d] = deployments[d]
  BY <1>1 DEF DirectFor
<1>2. \A j \in DOMAIN jobs' : jobs'[j].push # 0 => jobs'[j].push \in Recorded'
  BY DEF PushInv
<1>3. \A d \in DOMAIN deployments' : deployments'[d].job = 0 => deployments'[d].push \in Recorded'
  BY <1>1 DEF PushInv
<1>4. \A i, j \in DOMAIN jobs' :
         jobs'[i].push # 0 /\ jobs'[i].push = jobs'[j].push /\ jobs'[i].service = jobs'[j].service => i = j
  BY DEF PushInv
<1>5. \A d, e \in DOMAIN deployments' :
         deployments'[d].job = 0 /\ deployments'[e].job = 0 /\ deployments'[d].push = deployments'[e].push
         /\ deployments'[d].service = deployments'[e].service => d = e
  BY <1>1 DEF PushInv
<1>6. \A j \in DOMAIN jobs', d \in DOMAIN deployments' :
         ~(deployments'[d].job = 0 /\ deployments'[d].push = jobs'[j].push
           /\ deployments'[d].service = jobs'[j].service)
  BY <1>1 DEF PushInv
<1>7. QED
  BY <1>2, <1>3, <1>4, <1>5, <1>6 DEF PushInv, DirectFor

LEMMA PushQueued ==
    ASSUME TypeInv, PushInv, NEW p \in Nat, Queues(p)
    PROVE  PushInv'
<1> DEFINE NewJob(i) == i \in DOMAIN jobs' \ DOMAIN jobs
           NewDirect(d) == d \in DOMAIN deployments' \ DOMAIN deployments
<1>0. 0 \notin DOMAIN pushes
  BY TypeParts
<1>1. /\ \A i \in DOMAIN jobs' : NewJob(i) \/ (i \in DOMAIN jobs /\ jobs'[i] = jobs[i])
      /\ \A i : NewJob(i) => jobs'[i].push = p
      /\ p # 0 => \A i, k : NewJob(i) /\ NewJob(k) /\ jobs'[i].service = jobs'[k].service => i = k
  BY DEF Queues, JobsQueued
<1>2. /\ \A d \in DOMAIN deployments' : NewDirect(d) \/ (d \in DOMAIN deployments /\ deployments'[d] = deployments[d])
      /\ \A d : NewDirect(d) => deployments'[d].job = 0 /\ deployments'[d].push = p /\ p # 0
      /\ \A d, e : NewDirect(d) /\ NewDirect(e) /\ deployments'[d].service = deployments'[e].service => d = e
  BY DEF Queues, DirectQueued
<1>3. \A i, d : NewJob(i) /\ NewDirect(d) => deployments'[d].service # jobs'[i].service
  BY DEF Queues
<1>4. Recorded \subseteq Recorded' /\ 0 \notin Recorded /\ (p # 0 => p \notin Recorded /\ p \in Recorded')
  BY <1>0 DEF Queues, Recorded
<1> HIDE DEF NewJob, NewDirect
<1>5. /\ \A j \in DOMAIN jobs : jobs[j].push = p => p = 0
      /\ \A d \in DOMAIN deployments : DirectFor(d) => deployments[d].push # p
  BY <1>0, <1>4 DEF PushInv
<1>6. \A j \in DOMAIN jobs' : jobs'[j].push # 0 => jobs'[j].push \in Recorded'
  BY <1>1, <1>4 DEF PushInv
<1>7. \A d \in DOMAIN deployments' : deployments'[d].job = 0 => deployments'[d].push \in Recorded'
  BY <1>2, <1>4 DEF PushInv, DirectFor
<1>8. \A i, j \in DOMAIN jobs' :
         jobs'[i].push # 0 /\ jobs'[i].push = jobs'[j].push /\ jobs'[i].service = jobs'[j].service => i = j
  BY <1>1, <1>5 DEF PushInv
<1>9. \A d, e \in DOMAIN deployments' :
         deployments'[d].job = 0 /\ deployments'[e].job = 0 /\ deployments'[d].push = deployments'[e].push
         /\ deployments'[d].service = deployments'[e].service => d = e
  BY <1>2, <1>5 DEF PushInv, DirectFor
<1>10. \A j \in DOMAIN jobs', d \in DOMAIN deployments' :
         ~(deployments'[d].job = 0 /\ deployments'[d].push = jobs'[j].push
           /\ deployments'[d].service = jobs'[j].service)
  BY <1>1, <1>2, <1>3, <1>5 DEF PushInv, DirectFor
<1>11. QED
  BY <1>6, <1>7, <1>8, <1>9, <1>10 DEF PushInv, DirectFor

LEMMA PushStepInv == TypeInv /\ PushInv /\ [Next]_vars => PushInv'
<1> SUFFICES ASSUME TypeInv, PushInv, [Next]_vars PROVE PushInv'
  OBVIOUS
<1>1. StepKind
  BY Steps
<1>2. CASE Kept
  BY <1>2, PushKept DEF Kept, JobsKept
<1>3. ASSUME NEW b \in Builders, Completes(b, builder[b].job), HandsOver(b, builder[b].job) PROVE PushInv'
  <2> DEFINE j == builder[b].job
  <2>1. /\ DOMAIN jobs' = DOMAIN jobs /\ pushes' = pushes
        /\ \A i \in DOMAIN jobs : jobs'[i].push = jobs[i].push /\ jobs'[i].service = jobs[i].service
    BY <1>3 DEF Completes
  <2>2. j # 0
    BY <1>3, TypeParts DEF Completes
  <2>3. /\ DOMAIN deployments \subseteq DOMAIN deployments'
        /\ \A d \in DOMAIN deployments : deployments'[d] = deployments[d]
        /\ \A d \in DOMAIN deployments' \ DOMAIN deployments : deployments'[d].job # 0
    BY <1>3, <2>2 DEF HandsOver
  <2>4. QED
    BY <2>1, <2>3, PushKept, PushesStay
<1>4. QED
  BY <1>1, <1>2, <1>3, PushQueued, KeptIs

LEMMA PushInductive == Spec => [](TypeInv /\ PushInv)
<1>1. Init => PushInv
  BY DEF Init, PushInv
<1>2. QED
  BY <1>1, TypeInit, Steps, PushStepInv, PTL DEF Spec

LEMMA OnceFollows == TypeInv /\ PushInv => PushTriggersOnce
<1> SUFFICES ASSUME TypeInv, PushInv, NEW p \in DOMAIN pushes, NEW s \in Services
      PROVE  Cardinality({j \in DOMAIN jobs : jobs[j].push = p /\ jobs[j].service = s})
             + Cardinality({d \in DOMAIN deployments : deployments[d].job = 0 /\ deployments[d].push = p
                                                      /\ deployments[d].service = s}) <= 1
  BY DEF PushTriggersOnce
<1> DEFINE J == {j \in DOMAIN jobs : jobs[j].push = p /\ jobs[j].service = s}
           D == {d \in DOMAIN deployments : deployments[d].job = 0 /\ deployments[d].push = p
                                            /\ deployments[d].service = s}
<1>1. p # 0
  BY TypeParts
<1>2. \A i, j \in J : i = j
  BY <1>1 DEF PushInv
<1>3. \A d, e \in D : d = e
  BY DEF PushInv, DirectFor
<1>4. J = {} \/ D = {}
  BY DEF PushInv, DirectFor
<1> HIDE DEF J, D
<1>5. /\ Cardinality(J) = (IF J = {} THEN 0 ELSE 1)
      /\ Cardinality(D) = (IF D = {} THEN 0 ELSE 1)
  BY <1>2, <1>3, AtMostOne
<1>6. QED
  BY <1>4, <1>5 DEF J, D

\* However often GitHub delivers a push, and whatever is configured meanwhile,
\* a service gets one build or one deployment of it (github-autodeploy.ts).
THEOREM TriggersOnce == Spec => []PushTriggersOnce
BY OnceFollows, PushInductive, PTL

-----------------------------------------------------------------------------
(* What is deployed was pushed *)

LEMMA LinkKept == ASSUME TypeInv, LinkInv, Kept PROVE LinkInv'
<1>1. /\ DOMAIN jobs' = DOMAIN jobs /\ deployments' = deployments /\ registry \subseteq registry'
      /\ \A i \in DOMAIN jobs :
            /\ jobs'[i].service = jobs[i].service /\ jobs'[i].push = jobs[i].push
            /\ jobs'[i].after = jobs[i].after /\ jobs'[i].deployment = jobs[i].deployment
            /\ jobs[i].status = "PUSHED" => jobs'[i].status = "PUSHED" /\ jobs'[i].by = jobs[i].by
            /\ jobs[i].status # "PUSHED" => jobs'[i].status # "PUSHED"
  BY DEF Kept, JobsKept, Open
<1>2. \A d \in DOMAIN deployments : deployments[d].job # 0 => deployments[d].job \in DOMAIN jobs
  BY DEF LinkInv
<1>3. DeployedWasPushed'
  BY <1>1, <1>2 DEF LinkInv, DeployedWasPushed
<1>4. QED
  BY <1>1, <1>3 DEF LinkInv

LEMMA LinkQueued ==
    ASSUME TypeInv, LinkInv, NEW p \in Nat, Queues(p)
    PROVE  LinkInv'
<1>1. /\ DOMAIN jobs \subseteq DOMAIN jobs' /\ registry' = registry
      /\ \A i \in DOMAIN jobs' : \/ i \in DOMAIN jobs /\ jobs'[i] = jobs[i]
                                 \/ jobs'[i].status = "QUEUED" /\ jobs'[i].deployment = 0
      /\ \A i \in DOMAIN jobs : jobs'[i] = jobs[i]
  BY DEF Queues, JobsQueued
<1>2. /\ DOMAIN deployments \subseteq DOMAIN deployments'
      /\ \A d \in DOMAIN deployments' : \/ d \in DOMAIN deployments /\ deployments'[d] = deployments[d]
                                        \/ deployments'[d].job = 0
      /\ \A d \in DOMAIN deployments : deployments'[d] = deployments[d]
  BY DEF Queues, DirectQueued
<1>3. \A d \in DOMAIN deployments' : deployments'[d].job # 0 => deployments'[d].job \in DOMAIN jobs
  BY <1>2 DEF LinkInv
<1>4. DeployedWasPushed'
  BY <1>1, <1>2, <1>3 DEF LinkInv, DeployedWasPushed
<1>5. \A j \in DOMAIN jobs' : jobs'[j].deployment # 0 =>
         jobs'[j].deployment \in DOMAIN deployments' /\ deployments'[jobs'[j].deployment].job = j
  BY <1>1, <1>2 DEF LinkInv
<1>6. QED
  BY <1>1, <1>3, <1>4, <1>5 DEF LinkInv

LEMMA LinkCompleted ==
    ASSUME DistinctIds, TypeInv, LinkInv, NEW b \in Builders, NEW j, Completes(b, j), HandsOver(b, j)
    PROVE  LinkInv'
<1>1. /\ j \in DOMAIN jobs /\ jobs[j].by = b /\ jobs[j].status = "BUILDING"
      /\ Artifact(j, b) \in registry /\ registry' = registry
      /\ DOMAIN jobs' = DOMAIN jobs /\ \A i \in DOMAIN jobs \ {j} : jobs'[i] = jobs[i]
      /\ jobs'[j].service = jobs[j].service /\ jobs'[j].push = jobs[j].push
      /\ jobs'[j].after = jobs[j].after /\ jobs'[j].by = b /\ jobs'[j].status = "PUSHED"
  <2>1. j \in DOMAIN jobs /\ Owns(b, j)
    BY DEF Completes
  <2>2. jobs[j].by \in Builders
    BY <2>1, TypeParts DEF Owns, JobType
  <2>3. jobs[j].by = b
    BY <2>1, <2>2 DEF Owns, DistinctIds
  <2>4. QED
    BY <2>3 DEF Completes
<1>2. jobs[j].deployment = 0 /\ j # 0
  BY <1>1, TypeParts DEF LinkInv, DeployedWasPushed
<1>3. \A d \in DOMAIN deployments : deployments[d].job # j
  BY <1>1, <1>2 DEF LinkInv, DeployedWasPushed
<1>4. \A d \in DOMAIN deployments : deployments[d].job # 0 => deployments[d].job \in DOMAIN jobs
  BY DEF LinkInv
<1>5. CASE ~NeedsDeployment(j)
  <2>1. deployments' = deployments /\ jobs'[j].deployment = 0 /\ ~jobs[j].after
    BY <1>2, <1>5 DEF HandsOver, NeedsDeployment
  <2>2. DeployedWasPushed'
    BY <1>1, <1>3, <1>4, <2>1 DEF LinkInv, DeployedWasPushed
  <2>3. QED
    BY <1>1, <2>1, <2>2 DEF LinkInv
<1>6. CASE NeedsDeployment(j)
  <2> DEFINE c == Len(deployments) + 1
  <2>1. /\ c \in Nat /\ c # 0 /\ c \notin DOMAIN deployments /\ c \in DOMAIN deployments'
        /\ DOMAIN deployments \subseteq DOMAIN deployments'
        /\ \A d \in DOMAIN deployments' : d \in DOMAIN deployments \/ d = c
        /\ \A d \in DOMAIN deployments : deployments'[d] = deployments[d]
        /\ deployments'[c].job = j /\ deployments'[c].service = jobs[j].service
        /\ deployments'[c].push = jobs[j].push /\ deployments'[c].artifact = Artifact(j, b)
        /\ jobs'[j].deployment = c /\ jobs[j].after
    BY <1>6 DEF HandsOver, NeedsDeployment
  <2> HIDE DEF c
  <2>2. ASSUME NEW d \in DOMAIN deployments', deployments'[d].job # 0
        PROVE  LET job == jobs'[deployments'[d].job]
               IN  /\ job.status = "PUSHED" /\ job.deployment = d /\ job.after
                   /\ job.service = deployments'[d].service /\ job.push = deployments'[d].push
                   /\ deployments'[d].artifact = Artifact(deployments'[d].job, job.by)
                   /\ deployments'[d].artifact \in registry'
    <3>1. CASE d = c
      BY <1>1, <2>1, <3>1
    <3>2. CASE d \in DOMAIN deployments
      BY <1>1, <1>3, <1>4, <2>1, <2>2, <3>2 DEF LinkInv, DeployedWasPushed
    <3>3. QED
      BY <2>1, <3>1, <3>2
  <2>3. \A i \in DOMAIN jobs' : IF jobs'[i].status = "PUSHED" THEN jobs'[i].after <=> jobs'[i].deployment # 0
                                ELSE jobs'[i].deployment = 0
    <3>1. jobs'[j].after = jobs[j].after /\ jobs[j].after /\ jobs'[j].status = "PUSHED" /\ jobs'[j].deployment # 0
      BY <1>1, <2>1
    <3>2. jobs'[j].after
      BY <3>1
    <3>3. \A i \in DOMAIN jobs \ {j} : IF jobs[i].status = "PUSHED" THEN jobs[i].after <=> jobs[i].deployment # 0
                                       ELSE jobs[i].deployment = 0
      BY DEF LinkInv, DeployedWasPushed
    <3>4. \A i \in DOMAIN jobs \ {j} : IF jobs'[i].status = "PUSHED" THEN jobs'[i].after <=> jobs'[i].deployment # 0
                                       ELSE jobs'[i].deployment = 0
      BY <1>1, <3>3
    <3>5. QED
      BY <1>1, <3>1, <3>2, <3>4
  <2>4. DeployedWasPushed'
    BY <2>2, <2>3 DEF DeployedWasPushed
  <2>5. \A i \in DOMAIN jobs' : jobs'[i].deployment # 0 =>
           jobs'[i].deployment \in DOMAIN deployments' /\ deployments'[jobs'[i].deployment].job = i
    BY <1>1, <2>1 DEF LinkInv
  <2>6. \A d \in DOMAIN deployments' : deployments'[d].job # 0 => deployments'[d].job \in DOMAIN jobs'
    BY <1>1, <1>4, <2>1
  <2>7. QED
    BY <2>4, <2>5, <2>6 DEF LinkInv
<1>7. QED
  BY <1>5, <1>6

LEMMA LinkStep == ASSUME DistinctIds PROVE TypeInv /\ LinkInv /\ [Next]_vars => LinkInv'
<1> SUFFICES ASSUME TypeInv, LinkInv, [Next]_vars PROVE LinkInv'
  OBVIOUS
<1>1. StepKind
  BY Steps
<1>2. QED
  BY <1>1, KeptIs, LinkKept, LinkQueued, LinkCompleted

LEMMA LinkInductive == ASSUME DistinctIds PROVE Spec => [](TypeInv /\ LinkInv)
<1>1. Init => LinkInv
  BY DEF Init, LinkInv, DeployedWasPushed
<1>2. TypeInv /\ LinkInv /\ [Next]_vars => LinkInv'
  BY LinkStep
<1>3. QED
  BY <1>1, <1>2, TypeInit, Steps, PTL DEF Spec

\* Where builders have ids of their own, the tables agree: what is deployed is
\* the image that the builder of its job pushed, and a job that failed has no
\* deployment, however leases ran out and answers were lost (build-engine.ts).
THEOREM TablesAgree == ASSUME DistinctIds PROVE Spec => []Consistent
<1>1. TypeInv /\ LinkInv => Consistent
  BY TypeParts DEF LinkInv, Consistent
<1>2. QED
  BY <1>1, LinkInductive, PTL

-----------------------------------------------------------------------------
(* The end of a build *)

OwnerEnds ==
    \A j \in DOMAIN jobs :
        jobs[j].status \in Open /\ jobs'[j].status \notin Open =>
            builder[jobs[j].by].job = j /\ builder'[jobs[j].by] # builder[jobs[j].by]

LEMMA OwnerStep == ASSUME DistinctIds PROVE TypeInv /\ [Next]_vars => [OwnerEnds]_vars
<1> SUFFICES ASSUME TypeInv, [Next]_vars, NEW j \in DOMAIN jobs, jobs[j].status \in Open, jobs'[j].status \notin Open
      PROVE  builder[jobs[j].by].job = j /\ builder'[jobs[j].by] # builder[jobs[j].by]
  BY DEF OwnerEnds
<1>1. StepKind
  BY Steps
<1>2. ASSUME NEW b \in Builders, Owns(b, j) PROVE jobs[j].by = b
  <2>1. jobs[j].by \in Builders
    BY <1>2, TypeParts DEF Owns, JobType
  <2>2. QED
    BY <1>2, <2>1 DEF Owns, DistinctIds
<1>3. CASE Quiet
  BY <1>3 DEF Quiet, NobodyEnds
<1>4. ASSUME NEW b \in Builders, FailsOwn(b)
      PROVE  builder[jobs[j].by].job = j /\ builder'[jobs[j].by] # builder[jobs[j].by]
  <2>1. /\ j = builder[b].job /\ Owns(b, j) /\ builder' = [builder EXCEPT ![b] = Idle] /\ builder[b] # Idle
    BY <1>4 DEF FailsOwn
  <2>2. b \in DOMAIN builder
    BY DEF TypeInv, BuildersOK
  <2>3. QED
    BY <1>2, <2>1, <2>2
<1>5. ASSUME NEW b \in Builders, Completes(b, builder[b].job)
      PROVE  builder[jobs[j].by].job = j /\ builder'[jobs[j].by] # builder[jobs[j].by]
  BY <1>2, <1>5 DEF Completes
<1>6. ASSUME NEW p \in Nat, Queues(p) PROVE FALSE
  BY <1>6 DEF Queues, JobsQueued
<1>7. QED
  BY <1>1, <1>3, <1>4, <1>5, <1>6 DEF StepKind

\* A builder that lost its lease cannot end the build of the one that has the
\* job now, for any number of builders with ids of their own (build-engine.ts).
THEOREM OwnerEndsBuilds == ASSUME DistinctIds PROVE Spec => OnlyTheOwnerEnds
<1>1. TypeInv /\ [Next]_vars => [OwnerEnds]_vars
  BY OwnerStep
<1>2. Spec => [][OwnerEnds]_vars
  BY <1>1, TypeInit, Steps, PTL DEF Spec
<1>3. QED
  BY <1>2 DEF OnlyTheOwnerEnds, OwnerEnds

-----------------------------------------------------------------------------
(* The promise of the Build Engine *)

\* How far a job is, for who waits for its end.
EndIs(j) ==
    IF jobs[j].status \in Open THEN "open"
    ELSE IF jobs[j].status = "FAILED" THEN "failed"
    ELSE IF jobs[j].deployment = 0 THEN "pushed" ELSE "deployed"

LEMMA EndOfIs ==
    ASSUME TypeInv, LinkInv
    PROVE  \A j \in DOMAIN jobs : EndOf(j) = EndIs(j)
<1> SUFFICES ASSUME NEW j \in DOMAIN jobs PROVE EndOf(j) = EndIs(j)
  OBVIOUS
<1>1. j # 0 /\ jobs[j].status \in Open \union {"PUSHED", "FAILED"} /\ jobs[j] \in JobType
  BY TypeParts DEF JobType
<1>2. Handed(j) = IF jobs[j].deployment = 0 THEN {} ELSE {jobs[j].deployment}
  BY <1>1 DEF Handed, LinkInv, DeployedWasPushed
<1>3. Cardinality({}) = 0 /\ Cardinality({jobs[j].deployment}) = 1
  BY FS_EmptySet, FS_Singleton
<1>4. jobs[j].status # "PUSHED" => jobs[j].deployment = 0
  BY DEF LinkInv, DeployedWasPushed
<1>5. CASE jobs[j].status \in Open
  BY <1>2, <1>4, <1>5 DEF EndOf, EndIs, Open
<1>6. CASE jobs[j].status = "FAILED"
  BY <1>2, <1>4, <1>6 DEF EndOf, EndIs, Open
<1>7. CASE jobs[j].status = "PUSHED" /\ jobs[j].deployment = 0
  <2>1. Cardinality(Handed(j)) = 0
    BY <1>2, <1>3, <1>7
  <2>2. QED
    BY <1>7, <2>1 DEF EndOf, EndIs, Open
<1>8. CASE jobs[j].status = "PUSHED" /\ jobs[j].deployment # 0
  <2>1. Cardinality(Handed(j)) = 1
    BY <1>2, <1>3, <1>8
  <2>2. QED
    BY <1>8, <2>1 DEF EndOf, EndIs, Open
<1>9. QED
  BY <1>1, <1>5, <1>6, <1>7, <1>8

Ends == [j \in DOMAIN jobs |-> EndOf(j)]
EndsAre == [j \in DOMAIN jobs |-> EndIs(j)]

LEMMA EndsEqual ==
    /\ TypeInv /\ LinkInv => Ends = EndsAre
    /\ (TypeInv /\ LinkInv)' => Ends' = EndsAre'
<1>1. TypeInv /\ LinkInv => Ends = EndsAre
  BY EndOfIs DEF Ends, EndsAre
<1>2. (TypeInv /\ LinkInv => Ends = EndsAre)'
  BY <1>1, PTL
<1>3. QED
  BY <1>1, <1>2

LEMMA EndsSeq ==
    ASSUME TypeInv PROVE Len(EndsAre) = Len(jobs) /\ DOMAIN EndsAre = 1..Len(jobs) /\ Len(jobs) \in Nat
<1>1. DOMAIN jobs = 1..Len(jobs) /\ Len(jobs) \in Nat
  BY TypeParts
<1>2. EndsAre \in [1..Len(jobs) -> {"open", "failed", "pushed", "deployed"}]
  BY <1>1 DEF EndsAre, EndIs
<1>3. QED
  BY <1>1, <1>2, FunctionIsSeq

LEMMA QueueStep ==
    ASSUME DistinctIds, TypeInv, LinkInv, [Next]_vars, TypeInv', LinkInv'
    PROVE  [Queue!Next]_Ends
<1>0. Ends = EndsAre /\ Ends' = EndsAre'
  BY EndsEqual
<1>1. StepKind
  BY Steps
<1>2. /\ DOMAIN jobs = 1..Len(jobs) /\ Len(jobs) \in Nat /\ Len(jobs') \in Nat /\ Len(jobs') <= MaxBuilds
      /\ DOMAIN jobs' = 1..Len(jobs') /\ Len(EndsAre) = Len(jobs) /\ DOMAIN EndsAre = DOMAIN jobs
  <2>1. /\ DOMAIN jobs = 1..Len(jobs) /\ Len(jobs) \in Nat /\ Len(EndsAre) = Len(jobs)
        /\ DOMAIN EndsAre = 1..Len(jobs)
    BY TypeParts, EndsSeq
  <2>2. jobs' \in Seq(JobType) /\ Len(jobs') <= MaxBuilds
    BY DEF TypeInv, JobsOK
  <2>3. QED
    BY <2>1, <2>2, LenProperties
<1>3. ASSUME Kept, NEW j,
             \A i \in DOMAIN jobs : jobs[i].status \in Open /\ jobs'[i].status \notin Open => i = j
      PROVE  [Queue!Next]_Ends
  <2>1. \A i \in DOMAIN jobs : i # j => EndIs(i)' = EndIs(i)
    BY <1>3 DEF Kept, JobsKept, EndIs, Open
  <2>2. DOMAIN jobs' = DOMAIN jobs
    BY <1>3 DEF Kept, JobsKept
  <2>3. CASE j \in DOMAIN jobs /\ jobs[j].status \in Open /\ jobs'[j].status \notin Open
    <3>1. EndIs(j) = "open" /\ EndIs(j)' = "failed"
      BY <1>3, <2>3 DEF Kept, JobsKept, EndIs, Open
    <3>2. EndsAre' = [EndsAre EXCEPT ![j] = "failed"] /\ EndsAre[j] = "open"
      BY <2>1, <2>2, <2>3, <3>1 DEF EndsAre
    <3>3. Queue!End(j, "failed")
      BY <1>0, <3>2 DEF Queue!End, Ends
    <3>4. QED
      BY <1>0, <1>2, <2>3, <3>3 DEF Queue!Next, Ends
  <2>4. CASE ~(j \in DOMAIN jobs /\ jobs[j].status \in Open /\ jobs'[j].status \notin Open)
    <3>1. \A i \in DOMAIN jobs : EndIs(i)' = EndIs(i)
      BY <1>3, <2>1, <2>4 DEF Kept, JobsKept, EndIs, Open
    <3>2. EndsAre' = EndsAre
      BY <2>2, <3>1 DEF EndsAre
    <3>3. QED
      BY <1>0, <3>2
  <2>5. QED
    BY <2>3, <2>4
<1>4. CASE Quiet
  BY <1>3, <1>4 DEF Quiet, NobodyEnds
<1>5. ASSUME NEW b \in Builders, FailsOwn(b) PROVE [Queue!Next]_Ends
  BY <1>3, <1>5 DEF FailsOwn
<1>6. ASSUME NEW b \in Builders, NEW j, Completes(b, j) PROVE [Queue!Next]_Ends
  <2>1. /\ j \in DOMAIN jobs /\ jobs[j].status = "BUILDING" /\ jobs'[j].status = "PUSHED"
        /\ DOMAIN jobs' = DOMAIN jobs /\ \A i \in DOMAIN jobs \ {j} : jobs'[i] = jobs[i]
    BY <1>6 DEF Completes
  <2>2. \A i \in DOMAIN jobs : i # j => EndIs(i)' = EndIs(i)
    BY <2>1 DEF EndIs
  <2>3. EndIs(j) = "open" /\ EndIs(j)' \in {"pushed", "deployed"}
    BY <2>1 DEF EndIs, Open
  <2>4. PICK outcome \in {"pushed", "deployed"} : EndIs(j)' = outcome
    BY <2>3
  <2>5. EndsAre' = [EndsAre EXCEPT ![j] = outcome] /\ EndsAre[j] = "open"
    BY <2>1, <2>2, <2>3, <2>4 DEF EndsAre
  <2>6. Queue!End(j, outcome)
    BY <1>0, <2>5 DEF Queue!End, Ends
  <2>7. QED
    BY <1>0, <1>2, <2>1, <2>6 DEF Queue!Next, Ends
<1>7. ASSUME NEW p \in Nat, Queues(p) PROVE [Queue!Next]_Ends
  <2>1. /\ Len(jobs) <= Len(jobs') /\ \A i \in DOMAIN jobs : jobs'[i] = jobs[i]
        /\ \A i \in DOMAIN jobs' \ DOMAIN jobs : jobs'[i].status = "QUEUED"
    BY <1>7 DEF Queues, JobsQueued
  <2>2. PICK n \in Nat : Len(jobs) + n = Len(jobs') /\ n <= MaxBuilds
    <3>1. Len(jobs') - Len(jobs) \in Nat /\ Len(jobs') - Len(jobs) <= MaxBuilds
          /\ Len(jobs) + (Len(jobs') - Len(jobs)) = Len(jobs')
      BY <1>2, <2>1, BuildBoundsAssumption
    <3>2. QED
      BY <3>1
  <2>3. /\ \A i \in DOMAIN jobs : EndIs(i)' = EndsAre[i]
        /\ \A i \in DOMAIN jobs' \ DOMAIN jobs : EndIs(i)' = "open"
    BY <2>1 DEF EndsAre, EndIs, Open
  <2>4. EndsAre' = [i \in 1..(Len(jobs) + n) |-> IF i <= Len(jobs) THEN EndsAre[i] ELSE "open"]
    <3>1. EndsAre' = [i \in 1..(Len(jobs) + n) |-> EndIs(i)']
      BY <1>2, <2>2 DEF EndsAre
    <3>2. \A i \in 1..(Len(jobs) + n) : EndIs(i)' = IF i <= Len(jobs) THEN EndsAre[i] ELSE "open"
      BY <1>2, <2>2, <2>3
    <3>3. QED
      BY <3>1, <3>2
  <2>5. CASE n = 0
    <3>1. EndsAre' = EndsAre
      <4>0. Len(jobs') = Len(jobs)
        <5>1. \A k \in Nat : k + 0 = k
          OBVIOUS
        <5>2. Len(jobs) + 0 = Len(jobs')
          BY <2>2, <2>5
        <5>3. QED
          BY <1>2, <5>1, <5>2
      <4>1. DOMAIN jobs' = DOMAIN jobs
        BY <1>2, <4>0
      <4>2. QED
        BY <2>3, <4>1 DEF EndsAre
    <3>2. QED
      BY <1>0, <3>1
  <2>6. CASE n # 0
    <3>1. n \in 1..MaxBuilds
      BY <2>2, <2>6, BuildBoundsAssumption
    <3>2. Queue!Enqueue(n)
      BY <1>0, <1>2, <2>2, <2>4 DEF Queue!Enqueue, Ends
    <3>3. QED
      BY <3>1, <3>2 DEF Queue!Next
  <2>7. QED
    BY <2>5, <2>6
<1>8. QED
  BY <1>1, <1>4, <1>5, <1>6, <1>7 DEF StepKind

\* Where builders have ids of their own, claims, leases, lost answers and
\* crashes keep the promise of the queue: a build that was queued ends once and
\* is handed to at most one deployment, in the step that ends it (build-engine.ts).
THEOREM Refines_BuildQueue == ASSUME DistinctIds PROVE Spec => RefinesBuildQueue
<1>1. Init => Queue!Init
  BY DEF Init, Queue!Init
<1>2. TypeInv /\ LinkInv /\ [Next]_vars => (TypeInv /\ LinkInv)' /\ [Queue!Next]_Ends
  BY Steps, LinkStep, QueueStep
<1>3. Spec => [](TypeInv /\ LinkInv)
  BY LinkInductive
<1>4. TypeInv /\ LinkInv /\ [Next]_vars => [Queue!Next]_([j \in DOMAIN jobs |-> EndOf(j)])
  BY <1>2 DEF Ends
<1>5. QED
  BY <1>1, <1>3, <1>4, PTL DEF Spec, RefinesBuildQueue, Queue!Spec
=============================================================================
