-------------------------- MODULE AgentRouter_proofs --------------------------
(***************************************************************************)
(* Theorems about AgentRouter, for every set of services, deployments and  *)
(* ports and whatever the bounds are: types; what Docker starts by itself  *)
(* after a reboot never holds an uncommitted route; listeners and volumes  *)
(* have one owner; a router that diverges from routes.json is marked; what *)
(* failed holds no route; routed services are reached throughout; the node *)
(* implements RouteStore; what recovery reports is reached.  Where it      *)
(* makes a difference that a deploy command is delivered a second time,    *)
(* they speak of the other deployments, beside any number of such commands *)
(* (Repeated).                                                             *)
(*                                                                         *)
(* The first invariant goes through the actions one by one.  The others    *)
(* rest on lemmas that say once, for every step, how the job moves on      *)
(* (Moved) and what may happen to routes.json (RoutesMove), to backends    *)
(* (BackendMove), to the router and the markers (ConfigMove), to waiting   *)
(* commands (CommandMove), reports and drains.                             *)
(***************************************************************************)
EXTENDS AgentRouter, TLAPS

-----------------------------------------------------------------------------
(* The inductive invariant *)

\* A job carries what its stage needs: the port Docker chose, the route whose
\* stateful backend has to come back.
JobInv ==
    /\ job.pc \in {"health", "mark", "apply", "verify", "commit", "rhealth", "rcommit"}
       => job.port \in Ports
    /\ job.pc \in {"unstop", "rcommit", "rapply", "rverify"} /\ job.kind = "deploy"
       => job.stopped # NoRoute
    /\ job.pc \notin {"idle", "restart", "rhealth", "rcommit", "rapply", "rverify"}
       => job.kind = "deploy"
    /\ job.pc \in {"restart", "rhealth"} => job.kind # "deploy"

\* A running backend has a port.
PortInv == \A d \in Deployments : backend[d] = "running" => port[d] \in Ports

\* runtimeRouterMu: recovery touches the router only when no switch does.
LockInv == conn = "markers" => job.pc \notin RouterPcs

\* A removed router has lost its restart policy.
AbsentInv == router.state = "absent" => router.restart = "no"

\* routes.json holds only what it has held
RoutesInv == Routed(routes) \subseteq committed

\* While a candidate is switched to, Caddyfile.next, or the Caddyfile of a first
\* router, adds the candidate's route to the committed ones, and nothing else.
CandidateInv ==
    /\ job.pc \in {"verify", "commit", "promote"} /\ ~job.first =>
        /\ next # Absent
        /\ Routed(next) \subseteq committed \union {job.dep}
    /\ job.pc \in {"verify", "commit", "promote"} /\ job.first =>
        /\ router.restart = "no"
        /\ Routed(boot) \subseteq committed \union {job.dep}
    /\ job.pc = "promote" => job.dep \in committed
    /\ job.pc \in {"verify", "commit", "promote"} => router.state = "running"
    /\ job.pc \in {"build", "admit", "start", "health", "mark", "apply"} => ~job.first

IInv ==
    /\ TypeOK
    /\ JobInv
    /\ PortInv
    /\ LockInv
    /\ AbsentInv
    /\ RoutesInv
    /\ CandidateInv
    /\ BootOnlyCommitted

-----------------------------------------------------------------------------
(* Types of what the helpers of AgentRouter write *)

\* the fields of the job that holds runtimeMu
LEMMA JobFields ==
    ASSUME job \in Jobs, job.pc # "idle"
    PROVE  /\ job \in Jobs \ {Idle}
           /\ job.pc \in Pcs /\ job.kind \in Kinds /\ job.dep \in Deployments
           /\ job.linked \in BOOLEAN /\ job.first \in BOOLEAN
           /\ job.port \in Ports \union {0}
           /\ job.previous \in Route \union {NoRoute}
           /\ job.stopped \in Route \union {NoRoute}
BY DEF Jobs, Idle

LEMMA GotoType ==
    ASSUME job \in Jobs, job.pc # "idle", NEW pc \in Pcs \ {"idle"}, Goto(pc)
    PROVE  job' \in Jobs
BY DEF Jobs, Idle, Goto

LEMMA FaultType ==
    ASSUME used \in Counters, Fault
    PROVE  used' \in Counters
BY DEF Fault, Counters

\* a table with the resolved port of the running job is a table
LEMMA NextTableType ==
    ASSUME routes \in Table, NEW d \in Deployments, job.port \in Ports
    PROVE  NextTable(d) \in Table
BY ServiceAssumption DEF NextTable, Table, Route

LEMMA StopType ==
    ASSUME TypeOK, NEW d \in Deployments, NEW how \in {"absent", "stopped"}, StopBackend(d, how)
    PROVE  /\ backend' \in [Deployments -> {"absent", "running", "stopped"}]
           /\ port' \in [Deployments -> Ports \union {0}]
BY DEF TypeOK, StopBackend

LEMMA StartType ==
    ASSUME TypeOK, job.pc # "idle", NEW d \in Deployments, NEW pc \in Pcs \ {"idle"},
           StartBackend(d, pc)
    PROVE  /\ backend' \in [Deployments -> {"absent", "running", "stopped"}]
           /\ port' \in [Deployments -> Ports \union {0}]
           /\ job' \in Jobs
           /\ job'.port \in Ports
<1>1. PICK p \in Ports : /\ backend' = [backend EXCEPT ![d] = "running"]
                         /\ port' = [port EXCEPT ![d] = p]
                         /\ job' = [job EXCEPT !.port = p, !.pc = pc]
  BY DEF StartBackend, FreePorts
<1>2. job' \in Jobs /\ job'.port = p
  BY <1>1, JobFields DEF TypeOK, Jobs, Idle
<1> QED
  BY <1>1, <1>2 DEF TypeOK

LEMMA ApplyType ==
    ASSUME TypeOK, NEW table \in Table, ApplyCommitted(table)
    PROVE  /\ boot' \in Table /\ live' \in Table
           /\ router' \in [state : {"absent", "stopped", "running"},
                           restart : {"no", "unless-stopped"}]
<1>1. EmptyTable \in Table
  BY DEF EmptyTable, Table
<1>2. CASE table = EmptyTable
  BY <1>1, <1>2 DEF TypeOK, ApplyCommitted
<1>3. CASE table # EmptyTable
  BY <1>3 DEF TypeOK, ApplyCommitted
<1> QED
  BY <1>2, <1>3

LEMMA ApplyFailsType ==
    ASSUME TypeOK, NEW table \in Table, ApplyCommittedFails(table)
    PROVE  /\ boot' \in Table /\ live' \in Table
           /\ router' \in [state : {"absent", "stopped", "running"},
                           restart : {"no", "unless-stopped"}]
           /\ used' \in Counters
BY FaultType DEF TypeOK, ApplyCommittedFails

LEMMA RouteOfType ==
    ASSUME routes \in Table, NEW d \in Deployments
    PROVE  /\ RouteOf(d) \in Route \union {NoRoute}
           /\ RouteOf(d) # NoRoute => RouteOf(d) \in Route /\ RouteOf(d).dep \in Deployments
BY ServiceAssumption DEF RouteOf, Table, Route

\* the other ways a stage changes the job
LEMMA JobEdits ==
    ASSUME job \in Jobs, job.pc # "idle", NEW pc \in Pcs \ {"idle"},
           NEW r \in Route \union {NoRoute}, NEW p \in Ports \union {0}
    PROVE  /\ [job EXCEPT !.pc = pc, !.stopped = r] \in Jobs
           /\ [job EXCEPT !.pc = pc, !.previous = r] \in Jobs
           /\ [job EXCEPT !.port = p, !.pc = pc] \in Jobs
<1> DEFINE Running == [pc : Pcs \ {"idle"}, kind : Kinds, dep : Deployments, linked : BOOLEAN,
         port : Ports \union {0}, previous : Route \union {NoRoute},
         stopped : Route \union {NoRoute}, first : BOOLEAN]
<1>1. job \in Running
  BY DEF Jobs, Idle
<1>2. [job EXCEPT !.pc = pc, !.stopped = r] \in Running
  BY <1>1
<1>3. [job EXCEPT !.pc = pc, !.previous = r] \in Running
  BY <1>1
<1>4. [job EXCEPT !.port = p, !.pc = pc] \in Running
  BY <1>1
<1> QED
  BY <1>2, <1>3, <1>4 DEF Jobs

LEMMA JobFlags ==
    ASSUME job \in Jobs, job.pc # "idle", NEW pc \in Pcs \ {"idle"}
    PROVE  /\ [job EXCEPT !.pc = pc, !.first = TRUE] \in Jobs
           /\ [job EXCEPT !.linked = FALSE] \in Jobs
<1>1. /\ TRUE \in BOOLEAN /\ FALSE \in BOOLEAN
  OBVIOUS
<1> DEFINE Running == [pc : Pcs \ {"idle"}, kind : Kinds, dep : Deployments, linked : BOOLEAN,
         port : Ports \union {0}, previous : Route \union {NoRoute},
         stopped : Route \union {NoRoute}, first : BOOLEAN]
<1>2. job \in Running
  BY DEF Jobs, Idle
<1>3. [job EXCEPT !.pc = pc, !.first = TRUE] \in Running
  BY <1>1, <1>2
<1>4. [job EXCEPT !.linked = FALSE] \in Running
  BY <1>1, <1>2
<1> QED
  BY <1>3, <1>4 DEF Jobs

\* what a job keeps when it starts a backend, and when it goes on
LEMMA StartJob ==
    ASSUME job \in Jobs, job.pc # "idle", NEW d, NEW pc, StartBackend(d, pc)
    PROVE  /\ job'.pc = pc /\ job'.port \in Ports
           /\ job'.kind = job.kind /\ job'.dep = job.dep /\ job'.stopped = job.stopped
           /\ job'.first = job.first
BY DEF StartBackend, FreePorts, Jobs, Idle

LEMMA GotoJob ==
    ASSUME job \in Jobs, job.pc # "idle", NEW pc, Goto(pc)
    PROVE  /\ job'.pc = pc /\ job'.port = job.port
           /\ job'.kind = job.kind /\ job'.dep = job.dep /\ job'.stopped = job.stopped
           /\ job'.first = job.first
BY DEF Goto, Jobs, Idle

LEMMA EditJob ==
    ASSUME job \in Jobs, job.pc # "idle", NEW pc, NEW r,
           \/ job' = [job EXCEPT !.pc = pc, !.stopped = r]
           \/ job' = [job EXCEPT !.pc = pc, !.previous = r]
    PROVE  /\ job'.pc = pc /\ job'.port = job.port
           /\ job'.kind = job.kind /\ job'.dep = job.dep /\ job'.first = job.first
<1>1. CASE job' = [job EXCEPT !.pc = pc, !.stopped = r]
  BY <1>1 DEF Jobs, Idle
<1>2. CASE job' = [job EXCEPT !.pc = pc, !.previous = r]
  BY <1>2 DEF Jobs, Idle
<1> QED
  BY <1>1, <1>2

LEMMA AdmitStatefulJob ==
    ASSUME job \in Jobs, AdmitStateful
    PROVE  job'.pc \in {"start", "fail"} /\ job'.kind = job.kind /\ job'.first = job.first
<1> DEFINE previous == RouteOf(job.dep)
<1>1. CASE job' = [job EXCEPT !.pc = "start", !.stopped = previous]
  BY <1>1, EditJob DEF AdmitStateful
<1>2. CASE Goto("fail")
  BY <1>2, GotoJob DEF AdmitStateful
<1> QED
  BY <1>1, <1>2 DEF AdmitStateful

LEMMA UnstopJob ==
    ASSUME job \in Jobs, Unstop
    PROVE  job'.pc \in {"rcommit", "fail"}
<1> DEFINE d == job.stopped.dep
<1>1. CASE \E pc \in {"rcommit", "fail"} : StartBackend(d, pc)
  BY <1>1, StartJob DEF Unstop
<1>2. CASE job' = [job EXCEPT !.port = port[d], !.pc = "rcommit"]
  BY <1>2 DEF Unstop, Jobs, Idle
<1>3. CASE Goto("fail")
  BY <1>3, GotoJob DEF Unstop
<1> QED
  BY <1>1, <1>2, <1>3 DEF Unstop

\* the candidate's table adds the candidate to the committed deployments
LEMMA RoutedNext ==
    ASSUME routes \in Table, NEW d \in Deployments
    PROVE  Routed(NextTable(d)) \subseteq Routed(routes) \union {d}
<1>1. ASSUME NEW s \in Services, NextTable(d)[s] # NoRoute
      PROVE  NextTable(d)[s].dep \in Routed(routes) \union {d}
  <2>1. CASE s = ServiceOf[d]
    BY <2>1 DEF NextTable, Table
  <2>2. CASE s # ServiceOf[d]
    <3>1. NextTable(d)[s] = routes[s]
      BY <2>2 DEF NextTable, Table
    <3> QED
      BY <1>1, <3>1 DEF Routed
  <2> QED
    BY <2>1, <2>2
<1> QED
  BY <1>1 DEF Routed

\* every step keeps the types
LEMMA TypeStep ==
    ASSUME IInv, Next
    PROVE  TypeOK'
<1> USE DEF IInv, JobInv
<1>1. ASSUME Build PROVE TypeOK'
  BY <1>1 DEF Build, Route, Table, files, docker, history, RouterPcs, Pcs,
        Kinds, Idle, Jobs, Commands, Counters, TypeOK, Goto
<1>2. ASSUME AdmitRouted PROVE TypeOK'
  <2>1. job' \in Jobs
    BY <1>2, GotoType DEF AdmitRouted, TypeOK, Pcs
  <2> QED
    BY <1>2, <2>1 DEF AdmitRouted, TypeOK, files, docker, history
<1>3. ASSUME AdmitRefused PROVE TypeOK'
  <2>1. job' \in Jobs
    BY <1>3, GotoType DEF AdmitRefused, TypeOK, Pcs
  <2> QED
    BY <1>3, <2>1 DEF AdmitRefused, TypeOK, files, docker, history
<1>4. ASSUME AdmitStateless PROVE TypeOK'
  BY <1>4 DEF AdmitStateless, Route, Table, files, history, RouterPcs, Pcs,
        Kinds, Idle, Jobs, Commands, Counters, TypeOK, RouteOf, HasRoute, Goto,
        RouterFree, StopBackend, NeedsStop
<1>5. ASSUME AdmitStateful PROVE TypeOK'
  <2> DEFINE previous == RouteOf(job.dep)
  <2>1. job.dep \in Deployments /\ previous \in Route /\ previous.dep \in Deployments
    BY <1>5, JobFields, RouteOfType DEF AdmitStateful, NeedsStop, TypeOK
  <2>2. CASE backend[previous.dep] = "running"
    <3>1. job' \in Jobs
      <4>1. job' = [job EXCEPT !.pc = "start", !.stopped = previous]
        BY <1>5, <2>2 DEF AdmitStateful
      <4>2. job \in Jobs /\ job.pc # "idle" /\ "start" \in Pcs \ {"idle"}
        BY <1>5 DEF AdmitStateful, TypeOK, Pcs
      <4> QED
        BY <2>1, <4>1, <4>2, JobEdits
    <3> QED
      BY <1>5, <2>1, <2>2, <3>1 DEF AdmitStateful, TypeOK, files, history
  <2>3. CASE backend[previous.dep] # "running"
    <3>1. job' \in Jobs
      BY <1>5, <2>3, GotoType DEF AdmitStateful, TypeOK, Pcs
    <3> QED
      BY <1>5, <2>1, <2>3, <3>1, StopType DEF AdmitStateful, TypeOK, files, history
  <2> QED
    BY <2>2, <2>3
<1>6. ASSUME Start PROVE TypeOK'
  <2>1. CASE StartBackend(job.dep, IF job.linked THEN "health" ELSE "abort")
    BY <1>6, <2>1, JobFields, StartType DEF Start, TypeOK, Pcs, files, history
  <2>2. CASE UNCHANGED <<backend, port>> /\ Goto("abort")
    BY <1>6, <2>2, GotoType DEF Start, TypeOK, Pcs, files, history
  <2> QED
    BY <1>6, <2>1, <2>2 DEF Start
<1>7. ASSUME Health PROVE TypeOK'
  BY <1>7 DEF Health, Route, Table, files, docker, RouterPcs, Pcs, Kinds, Idle,
        Jobs, Commands, Counters, TypeOK, Answers, Goto, AfterUnhealthy
<1>8. ASSUME Mark PROVE TypeOK'
  <2>1. job.dep \in Deployments /\ RouteOf(job.dep) \in Route \union {NoRoute}
    BY <1>8, JobFields, RouteOfType DEF Mark, TypeOK
  <2>2. job' \in Jobs
    <3>1. CASE Goto("abort")
      BY <1>8, <3>1, GotoType DEF Mark, TypeOK, Pcs
    <3>2. CASE job' = [job EXCEPT !.pc = "apply", !.previous = RouteOf(job.dep)]
      BY <1>8, <3>2, <2>1, JobEdits DEF Mark, TypeOK, Pcs, RouterPcs
    <3> QED
      BY <1>8, <3>1, <3>2 DEF Mark
  <2>3. used' \in Counters
    BY <1>8, FaultType DEF Mark, TypeOK
  <2>4. markers' \subseteq Deployments
    BY <1>8, <2>1 DEF Mark, TypeOK
  <2> QED
    BY <1>8, <2>2, <2>3, <2>4 DEF Mark, TypeOK, docker, history
<1>9. ASSUME ApplyCandidate PROVE TypeOK'
  <2>1. NextTable(job.dep) \in Table
    BY <1>9, JobFields, NextTableType DEF ApplyCandidate, TypeOK
  <2>2. job' \in Jobs
    BY <1>9, GotoType DEF ApplyCandidate, TypeOK, Pcs, RouterPcs
  <2> QED
    BY <1>9, <2>1, <2>2 DEF ApplyCandidate, TypeOK, history
<1>10. ASSUME ApplyFirst PROVE TypeOK'
  <2>1. NextTable(job.dep) \in Table
    BY <1>10, JobFields, NextTableType DEF ApplyFirst, TypeOK
  <2>2. job' \in Jobs
    BY <1>10, JobFlags DEF ApplyFirst, TypeOK, Pcs, RouterPcs
  <2> QED
    BY <1>10, <2>1, <2>2 DEF ApplyFirst, TypeOK, FirstRouter, history
<1>11. ASSUME ApplyFails PROVE TypeOK'
  <2>1. NextTable(job.dep) \in Table
    BY <1>11, JobFields, NextTableType DEF ApplyFails, TypeOK
  <2>2. job' \in Jobs /\ used' \in Counters
    BY <1>11, GotoType, FaultType DEF ApplyFails, TypeOK, Pcs, RouterPcs
  <2> QED
    BY <1>11, <2>1, <2>2 DEF ApplyFails, TypeOK, history
<1>12. ASSUME Verify PROVE TypeOK'
  BY <1>12 DEF Verify, Route, Table, files, docker, history, RouterPcs, Pcs,
        Kinds, Idle, Jobs, Commands, Counters, TypeOK, Answers, RoutedHealthy,
        Goto
<1>13. ASSUME Commit PROVE TypeOK'
  <2>1. NextTable(job.dep) \in Table /\ job.dep \in Deployments
    BY <1>13, JobFields, NextTableType DEF Commit, TypeOK
  <2>2. job' \in Jobs /\ used' \in Counters
    BY <1>13, GotoType, FaultType DEF Commit, TypeOK, Pcs, RouterPcs
  <2> QED
    BY <1>13, <2>1, <2>2 DEF Commit, TypeOK, docker
<1>14. ASSUME Promote PROVE TypeOK'
  <2>1. job' \in Jobs
    BY <1>14, GotoType DEF Promote, TypeOK, Pcs, RouterPcs
  <2>2. boot' \in Table /\ next' \in Table \union {Absent}
    BY <1>14 DEF Promote, TypeOK, CandidateInv
  <2> QED
    BY <1>14, <2>1, <2>2 DEF Promote, TypeOK, history
<1>15. ASSUME PromoteFails PROVE TypeOK'
  <2>1. job' \in Jobs /\ used' \in Counters
    BY <1>15, GotoType, FaultType DEF PromoteFails, TypeOK, Pcs
  <2>2. boot' \in Table /\ next' \in Table \union {Absent}
    BY <1>15 DEF PromoteFails, TypeOK, CandidateInv
  <2> QED
    BY <1>15, <2>1, <2>2 DEF PromoteFails, TypeOK, docker, history
<1>16. ASSUME Clear PROVE TypeOK'
  <2>1. job' \in Jobs /\ used' \in Counters
    BY <1>16, GotoType, FaultType DEF Clear, TypeOK, Pcs
  <2> QED
    BY <1>16, <2>1 DEF Clear, TypeOK, docker, history
<1>17. ASSUME Restore PROVE TypeOK'
  <2>1. job' \in Jobs
    BY <1>17, GotoType DEF Restore, TypeOK, Pcs
  <2>2. CASE ApplyCommitted(routes) /\ markers' = markers \ {job.dep} /\ UNCHANGED used
    BY <1>17, <2>1, <2>2, ApplyType DEF Restore, TypeOK, history
  <2>3. CASE RestoreFails
    BY <1>17, <2>1, <2>3, ApplyFailsType DEF Restore, RestoreFails, TypeOK, history
  <2> QED
    BY <1>17, <2>2, <2>3 DEF Restore
<1>18. ASSUME Abort PROVE TypeOK'
  <2>1. job' \in Jobs /\ job.dep \in Deployments
    BY <1>18, GotoType, JobFields DEF Abort, TypeOK, Pcs
  <2>2. used' \in Counters
    BY <1>18, FaultType DEF Abort, TypeOK
  <2>3. /\ backend' \in [Deployments -> {"absent", "running", "stopped"}]
        /\ port' \in [Deployments -> Ports \union {0}]
    BY <1>18, <2>1, StopType DEF Abort, TypeOK
  <2> QED
    BY <1>18, <2>1, <2>2, <2>3 DEF Abort, TypeOK, files, history
<1>19. ASSUME Unstop PROVE TypeOK'
  <2> DEFINE d == job.stopped.dep
  <2>1. d \in Deployments /\ port[d] \in Ports \union {0}
    BY <1>19, JobFields DEF Unstop, TypeOK, Route
  <2>2. ASSUME NEW pc \in {"rcommit", "fail"}, StartBackend(d, pc)
        PROVE  TypeOK'
    BY <1>19, <2>1, <2>2, StartType DEF Unstop, TypeOK, Pcs, files, history
  <2>3. CASE job' = [job EXCEPT !.port = port[d], !.pc = "rcommit"] /\ UNCHANGED <<backend, port>>
    <3>1. job' \in Jobs
      BY <1>19, <2>1, <2>3, JobEdits DEF Unstop, TypeOK, Pcs
    <3> QED
      BY <1>19, <2>3, <3>1 DEF Unstop, TypeOK, files, history
  <2>4. CASE Goto("fail") /\ UNCHANGED <<backend, port>>
    BY <1>19, <2>4, GotoType DEF Unstop, TypeOK, Pcs, files, history
  <2> QED
    BY <1>19, <2>2, <2>3, <2>4 DEF Unstop
<1>20. ASSUME Fail PROVE TypeOK'
  BY <1>20 DEF Fail, Route, Table, files, docker, history, RouterPcs, Pcs,
        Kinds, Idle, Jobs, Commands, Counters, TypeOK, Tell
<1>21. ASSUME Settle PROVE TypeOK'
  BY <1>21 DEF Settle, Route, Table, files, docker, history, RouterPcs, Pcs,
        Kinds, Idle, Jobs, Commands, Counters, TypeOK, Tell, Replaced
<1>22. ASSUME Restart PROVE TypeOK'
  <2>1. job.dep \in Deployments
    BY <1>22, JobFields DEF Restart, TypeOK
  <2>2. CASE StartBackend(job.dep, "rhealth") /\ UNCHANGED used
    BY <1>22, <2>1, <2>2, StartType DEF Restart, TypeOK, Pcs, files, history
  <2>3. CASE job' = Idle /\ UNCHANGED <<backend, port>>
    BY <1>22, <2>3, FaultType DEF Restart, TypeOK, Jobs, files, history
  <2> QED
    BY <1>22, <2>2, <2>3 DEF Restart
<1>23. ASSUME RestartHealth PROVE TypeOK'
  BY <1>23 DEF RestartHealth, Route, Table, files, docker, history, RouterPcs,
        Pcs, Kinds, Idle, Jobs, Commands, Counters, TypeOK, RouteOf, Answers,
        Goto
<1>24. ASSUME RestartCommit PROVE TypeOK'
  <2>1. Target \in Deployments
    BY <1>24, JobFields DEF RestartCommit, Target, TypeOK, Route
  <2>2. NextTable(Target) \in Table
    BY <1>24, <2>1, NextTableType DEF RestartCommit, TypeOK
  <2>3. job' \in Jobs
    BY <1>24, GotoType DEF RestartCommit, EndRestart, TypeOK, Jobs, Pcs, RouterPcs
  <2>4. used' \in Counters
    BY <1>24, FaultType DEF RestartCommit, TypeOK
  <2> QED
    BY <1>24, <2>2, <2>3, <2>4 DEF RestartCommit, TypeOK, docker, history
<1>25. ASSUME RestartApply PROVE TypeOK'
  <2>1. job' \in Jobs
    BY <1>25, GotoType DEF RestartApply, EndRestart, TypeOK, Jobs, Pcs, RouterPcs
  <2>2. CASE ApplyCommitted(routes) /\ UNCHANGED used
    BY <1>25, <2>1, <2>2, ApplyType DEF RestartApply, TypeOK, history
  <2>3. CASE ApplyCommittedFails(routes)
    BY <1>25, <2>1, <2>3, ApplyFailsType DEF RestartApply, TypeOK, history
  <2> QED
    BY <1>25, <2>2, <2>3 DEF RestartApply
<1>26. ASSUME RestartVerify PROVE TypeOK'
  BY <1>26 DEF RestartVerify, Route, Table, files, docker, history, RouterPcs,
        Pcs, Kinds, Idle, Jobs, Commands, Counters, TypeOK, Goto, EndRestart
<1>27. ASSUME Connect PROVE TypeOK'
  BY <1>27 DEF Connect, Route, Table, files, docker, history, RouterPcs, Pcs,
        Kinds, Idle, Jobs, Commands, Counters, TypeOK
<1>28. ASSUME RecoverApply PROVE TypeOK'
  <2>1. Routed(routes) \subseteq Deployments
    BY DEF Routed, TypeOK, Table, Route
  <2>2. CASE /\ ApplyCommitted(routes)
             /\ conn' = "report" /\ report' = Routed(routes) /\ UNCHANGED used
    BY <1>28, <2>1, <2>2, ApplyType DEF RecoverApply, TypeOK, history
  <2>3. CASE ApplyCommittedFails(routes) /\ conn' = "none" /\ UNCHANGED report
    BY <1>28, <2>3, ApplyFailsType DEF RecoverApply, TypeOK, history
  <2> QED
    BY <1>28, <2>2, <2>3 DEF RecoverApply, RecoveryTable
<1>29. ASSUME Serve PROVE TypeOK'
  BY <1>29 DEF Serve, Route, Table, files, docker, history, RouterPcs, Pcs,
        Kinds, Idle, Jobs, Commands, Counters, TypeOK
<1>30. ASSUME Disconnect PROVE TypeOK'
  <2>1. job' \in Jobs
    <3>1. CASE job.pc = "idle"
      BY <1>30, <3>1 DEF Disconnect, TypeOK
    <3>2. CASE job.pc # "idle"
      BY <1>30, <3>2, JobFlags DEF Disconnect, Unlink, TypeOK, Pcs
    <3> QED
      BY <3>1, <3>2
  <2>2. pending' \subseteq Commands
    <3>1. \A c \in Commands : Unlink(c) \in Commands
      BY DEF Unlink, Commands
    <3> QED
      BY <1>30, <3>1 DEF Disconnect, TypeOK
  <2>3. used' \in Counters
    BY <1>30 DEF Disconnect, TypeOK, Counters
  <2> QED
    BY <1>30, <2>1, <2>2, <2>3 DEF Disconnect, TypeOK, files, docker, history
<1>31. ASSUME AgentCrash PROVE TypeOK'
  BY <1>31 DEF AgentCrash, Route, Table, files, docker, history, RouterPcs,
        Pcs, Kinds, Idle, Jobs, Commands, Counters, TypeOK, AgentDies
<1>32. ASSUME HostReboot PROVE TypeOK'
  BY <1>32 DEF HostReboot, Route, Table, EmptyTable, files, history, RouterPcs,
        Pcs, Kinds, Idle, Jobs, Commands, Counters, TypeOK, AgentDies
<1>33. ASSUME NEW d \in Deployments, ReceiveDeploy(d) PROVE TypeOK'
  <2>1. used.deliveries \in [Deployments -> Nat] /\ used' \in Counters
    BY <1>33 DEF ReceiveDeploy, TypeOK, Counters
  <2>2. pending' \subseteq Commands
    <3>1. used.deliveries[d] \in Nat
      BY <2>1
    <3>2. [kind |-> "deploy", dep |-> d, linked |-> TRUE, seq |-> used.deliveries[d]] \in Commands
      BY <3>1 DEF Commands, Kinds
    <3> QED
      BY <1>33, <3>2 DEF ReceiveDeploy, TypeOK
  <2> QED
    BY <1>33, <2>1, <2>2 DEF ReceiveDeploy, TypeOK, files, docker, history
<1>34. ASSUME NEW d \in Deployments, ReceiveRestart(d) PROVE TypeOK'
  <2>1. used' \in Counters
    BY <1>34 DEF ReceiveRestart, TypeOK, Counters
  <2>2. pending' \subseteq Commands
    <3>1. [kind |-> "restart", dep |-> d, linked |-> TRUE, seq |-> 0] \in Commands
      BY DEF Commands, Kinds
    <3> QED
      BY <1>34, <3>1 DEF ReceiveRestart, TypeOK
  <2> QED
    BY <1>34, <2>1, <2>2 DEF ReceiveRestart, TypeOK, files, docker, history
<1>35. ASSUME NEW d \in Deployments, Drain(d) PROVE TypeOK'
  BY <1>35 DEF Drain, Route, Table, files, history, RouterPcs, Pcs, Kinds,
        Idle, Jobs, Commands, Counters, TypeOK, StopBackend
<1>36. ASSUME NEW d \in Deployments, MonitorRestart(d) PROVE TypeOK'
  <2>1. used' \in Counters
    BY <1>36 DEF MonitorRestart, TypeOK, Counters
  <2>2. pending' \subseteq Commands
    <3>1. [kind |-> "monitor", dep |-> d, linked |-> TRUE, seq |-> 0] \in Commands
      BY DEF Commands, Kinds
    <3> QED
      BY <1>36, <3>1 DEF MonitorRestart, TypeOK
  <2> QED
    BY <1>36, <2>1, <2>2 DEF MonitorRestart, TypeOK, files, docker, history
<1>37. ASSUME NEW d \in Deployments, RecoverMarker(d) PROVE TypeOK'
  BY <1>37 DEF RecoverMarker, Route, Table, history, RouterPcs, Pcs, Kinds,
        Idle, Jobs, Commands, Counters, TypeOK, RouteOf, HasRoute, StopBackend,
        MarkerCommitted
<1>38. ASSUME NEW d \in Deployments, RecoverReport(d) PROVE TypeOK'
  BY <1>38 DEF RecoverReport, Route, Table, files, docker, history, RouterPcs,
        Pcs, Kinds, Idle, Jobs, Commands, Counters, TypeOK, Answers,
        RoutedHealthy
<1>39. ASSUME NEW c \in pending, TakeRuntimeMu(c) PROVE TypeOK'
  BY <1>39 DEF TakeRuntimeMu, Route, Table, files, docker, history, RouterPcs,
        Pcs, Kinds, Idle, Jobs, Commands, Counters, TypeOK, NewJob
<1>40. ASSUME UnstopFails PROVE TypeOK'
  BY <1>40, GotoType, FaultType DEF UnstopFails, TypeOK, Pcs, files, docker, history
<1> QED
  BY <1>1, <1>2, <1>3, <1>4, <1>5, <1>6, <1>7, <1>8, <1>9, <1>10, <1>11, <1>12,
     <1>13, <1>14, <1>15, <1>16, <1>17, <1>18, <1>19, <1>20, <1>21, <1>22,
     <1>23, <1>24, <1>25, <1>26, <1>27, <1>28, <1>29, <1>30, <1>31, <1>32,
     <1>33, <1>34, <1>35, <1>36, <1>37, <1>38, <1>39, <1>40
  DEF
      Next, JobStep, DeployStep, RestartStep, ConnStep

\* every stage hands the next one what it needs
LEMMA JobInvStep ==
    ASSUME IInv, Next
    PROVE  JobInv'
<1> USE DEF IInv
<1>1. ASSUME Build PROVE JobInv'
  BY <1>1 DEF Build, files, docker, history, RouterPcs, Idle, Jobs, TypeOK,
        Goto, JobInv
<1>2. ASSUME AdmitRouted PROVE JobInv'
  BY <1>2 DEF AdmitRouted, files, docker, history, RouterPcs, Idle, Jobs,
        TypeOK, Goto, RouterFree, JobInv
<1>3. ASSUME AdmitRefused PROVE JobInv'
  BY <1>3 DEF AdmitRefused, files, docker, history, RouterPcs, Idle, Jobs,
        TypeOK, Goto, JobInv
<1>4. ASSUME AdmitStateless PROVE JobInv'
  BY <1>4 DEF AdmitStateless, files, history, RouterPcs, Idle, Jobs, TypeOK,
        Goto, RouterFree, StopBackend, JobInv
<1>5. ASSUME AdmitStateful PROVE JobInv'
  <2>1. job'.pc \in {"start", "fail"} /\ job'.kind = "deploy"
    BY <1>5, AdmitStatefulJob DEF AdmitStateful, TypeOK, JobInv
  <2> QED
    BY <2>1 DEF JobInv
<1>6. ASSUME Start PROVE JobInv'
  <2>1. /\ job'.pc \in {"health", "abort"} /\ job'.kind = "deploy"
        /\ job'.pc = "health" => job'.port \in Ports
    BY <1>6, StartJob, GotoJob DEF Start, TypeOK, JobInv
  <2> QED
    BY <2>1 DEF JobInv
<1>7. ASSUME Health PROVE JobInv'
  BY <1>7 DEF Health, files, docker, RouterPcs, Idle, Jobs, TypeOK, Goto,
        AfterUnhealthy, JobInv
<1>8. ASSUME Mark PROVE JobInv'
  <2>1. job.port \in Ports /\ job.kind = "deploy"
    BY <1>8 DEF Mark, JobInv
  <2>2. job'.pc \in {"apply", "abort"} /\ job'.port = job.port /\ job'.kind = job.kind
    BY <1>8, EditJob, GotoJob DEF Mark, TypeOK
  <2> QED
    BY <2>1, <2>2 DEF JobInv
<1>9. ASSUME ApplyCandidate PROVE JobInv'
  BY <1>9 DEF ApplyCandidate, history, RouterPcs, Idle, Jobs, TypeOK, Goto,
        JobInv
<1>10. ASSUME ApplyFirst PROVE JobInv'
  BY <1>10 DEF ApplyFirst, history, RouterPcs, Idle, Jobs, TypeOK, FirstRouter,
        JobInv
<1>11. ASSUME ApplyFails PROVE JobInv'
  BY <1>11 DEF ApplyFails, history, RouterPcs, Idle, Jobs, TypeOK, Goto, JobInv
<1>12. ASSUME Verify PROVE JobInv'
  BY <1>12 DEF Verify, files, docker, history, RouterPcs, Idle, Jobs, TypeOK,
        Goto, JobInv
<1>13. ASSUME Commit PROVE JobInv'
  BY <1>13 DEF Commit, docker, RouterPcs, Idle, Jobs, TypeOK, Goto, JobInv
<1>14. ASSUME Promote PROVE JobInv'
  BY <1>14 DEF Promote, history, RouterPcs, Idle, Jobs, TypeOK, Goto, JobInv
<1>15. ASSUME PromoteFails PROVE JobInv'
  BY <1>15 DEF PromoteFails, docker, history, RouterPcs, Idle, Jobs, TypeOK,
        Goto, JobInv
<1>16. ASSUME Clear PROVE JobInv'
  BY <1>16 DEF Clear, docker, history, RouterPcs, Idle, Jobs, TypeOK, Goto,
        JobInv
<1>17. ASSUME Restore PROVE JobInv'
  BY <1>17 DEF Restore, history, RouterPcs, Idle, Jobs, TypeOK, Goto,
        ApplyCommitted, ApplyCommittedFails, RestoreFails, JobInv
<1>18. ASSUME Abort PROVE JobInv'
  <2>1. CASE job.stopped = NoRoute
    <3>1. job'.pc = "fail" /\ job'.kind = "deploy"
      BY <1>18, <2>1, GotoJob DEF Abort, TypeOK, JobInv
    <3> QED
      BY <3>1 DEF JobInv
  <2>2. CASE job.stopped # NoRoute
    <3>1. job'.pc = "unstop" /\ job'.kind = "deploy" /\ job'.stopped # NoRoute
      BY <1>18, <2>2, GotoJob DEF Abort, TypeOK, JobInv
    <3> QED
      BY <3>1 DEF JobInv
  <2> QED
    BY <2>1, <2>2
<1>19. ASSUME Unstop PROVE JobInv'
  <2>1. job.kind = "deploy" /\ job.stopped # NoRoute /\ job.stopped.dep \in Deployments
    BY <1>19, JobFields DEF Unstop, JobInv, TypeOK, Route
  <2>2. CASE \E pc \in {"rcommit", "fail"} : StartBackend(job.stopped.dep, pc)
    <3>1. /\ job'.pc \in {"rcommit", "fail"} /\ job'.port \in Ports
          /\ job'.kind = "deploy" /\ job'.stopped # NoRoute
      BY <1>19, <2>1, <2>2, StartJob DEF Unstop, TypeOK
    <3> QED
      BY <3>1 DEF JobInv
  <2>3. CASE /\ backend[job.stopped.dep] = "running"
             /\ job' = [job EXCEPT !.port = port[job.stopped.dep], !.pc = "rcommit"]
    <3>1. port[job.stopped.dep] \in Ports
      BY <1>19, <2>1, <2>3 DEF PortInv
    <3>2. /\ job'.pc = "rcommit" /\ job'.port \in Ports
          /\ job'.kind = "deploy" /\ job'.stopped # NoRoute
      BY <1>19, <2>1, <2>3, <3>1 DEF Unstop, TypeOK, Jobs, Idle
    <3> QED
      BY <3>2 DEF JobInv
  <2>4. CASE Goto("fail")
    BY <1>19, <2>4, GotoJob DEF Unstop, TypeOK, JobInv
  <2> QED
    BY <1>19, <2>2, <2>3, <2>4 DEF Unstop
<1>20. ASSUME Fail PROVE JobInv'
  BY <1>20 DEF Fail, files, docker, history, RouterPcs, Idle, Jobs, TypeOK,
        JobInv
<1>21. ASSUME Settle PROVE JobInv'
  BY <1>21 DEF Settle, files, docker, history, RouterPcs, Idle, Jobs, TypeOK,
        JobInv
<1>22. ASSUME Restart PROVE JobInv'
  <2>1. CASE StartBackend(job.dep, "rhealth")
    <3>1. job'.pc = "rhealth" /\ job'.port \in Ports /\ job'.kind # "deploy"
      BY <1>22, <2>1, StartJob DEF Restart, TypeOK, JobInv
    <3> QED
      BY <3>1 DEF JobInv
  <2>2. CASE job' = Idle
    BY <2>2 DEF JobInv, Idle
  <2> QED
    BY <1>22, <2>1, <2>2 DEF Restart
<1>23. ASSUME RestartHealth PROVE JobInv'
  BY <1>23 DEF RestartHealth, files, docker, history, RouterPcs, Idle, Jobs,
        TypeOK, Goto, JobInv
<1>24. ASSUME RestartCommit PROVE JobInv'
  BY <1>24 DEF RestartCommit, docker, history, RouterPcs, Idle, Jobs, TypeOK,
        Goto, RouterFree, Target, EndRestart, JobInv
<1>25. ASSUME RestartApply PROVE JobInv'
  BY <1>25 DEF RestartApply, history, RouterPcs, Idle, Jobs, TypeOK, Goto,
        ApplyCommitted, ApplyCommittedFails, EndRestart, JobInv
<1>26. ASSUME RestartVerify PROVE JobInv'
  BY <1>26 DEF RestartVerify, files, docker, history, RouterPcs, Idle, Jobs,
        TypeOK, Goto, EndRestart, JobInv
<1>27. ASSUME Connect PROVE JobInv'
  BY <1>27 DEF Connect, files, docker, history, RouterPcs, Idle, Jobs, TypeOK,
        JobInv
<1>28. ASSUME RecoverApply PROVE JobInv'
  BY <1>28 DEF RecoverApply, history, RouterPcs, Idle, Jobs, TypeOK,
        ApplyCommitted, ApplyCommittedFails, JobInv
<1>29. ASSUME Serve PROVE JobInv'
  BY <1>29 DEF Serve, files, docker, history, RouterPcs, Idle, Jobs, TypeOK,
        JobInv
<1>30. ASSUME Disconnect PROVE JobInv'
  BY <1>30 DEF Disconnect, files, docker, history, RouterPcs, Idle, Jobs,
        TypeOK, Unlink, JobInv
<1>31. ASSUME AgentCrash PROVE JobInv'
  BY <1>31 DEF AgentCrash, files, docker, history, RouterPcs, Idle, Jobs,
        TypeOK, AgentDies, JobInv
<1>32. ASSUME HostReboot PROVE JobInv'
  BY <1>32 DEF HostReboot, files, history, RouterPcs, Idle, Jobs, TypeOK,
        AgentDies, JobInv
<1>33. ASSUME NEW d \in Deployments, ReceiveDeploy(d) PROVE JobInv'
  BY <1>33 DEF ReceiveDeploy, files, docker, history, RouterPcs, Idle, Jobs,
        TypeOK, Unanswered, Quiet, JobInv
<1>34. ASSUME NEW d \in Deployments, ReceiveRestart(d) PROVE JobInv'
  BY <1>34 DEF ReceiveRestart, files, docker, history, RouterPcs, Idle, Jobs,
        TypeOK, Unanswered, Quiet, JobInv
<1>35. ASSUME NEW d \in Deployments, Drain(d) PROVE JobInv'
  BY <1>35 DEF Drain, files, history, RouterPcs, Idle, Jobs, TypeOK,
        StopBackend, JobInv
<1>36. ASSUME NEW d \in Deployments, MonitorRestart(d) PROVE JobInv'
  BY <1>36 DEF MonitorRestart, files, docker, history, RouterPcs, Idle, Jobs,
        TypeOK, NewJob, JobInv
<1>37. ASSUME NEW d \in Deployments, RecoverMarker(d) PROVE JobInv'
  BY <1>37 DEF RecoverMarker, history, RouterPcs, Idle, Jobs, TypeOK,
        StopBackend, MarkerCommitted, JobInv
<1>38. ASSUME NEW d \in Deployments, RecoverReport(d) PROVE JobInv'
  BY <1>38 DEF RecoverReport, files, docker, history, RouterPcs, Idle, Jobs,
        TypeOK, JobInv
<1>39. ASSUME NEW c \in pending, TakeRuntimeMu(c) PROVE JobInv'
  <2>1. \/ job'.pc = "idle"
        \/ job'.pc = "build" /\ job'.kind = "deploy"
        \/ job'.pc = "restart" /\ job'.kind # "deploy"
    BY <1>39 DEF TakeRuntimeMu, NewJob, Idle
  <2> QED
    BY <2>1 DEF JobInv
<1>40. ASSUME UnstopFails PROVE JobInv'
  BY <1>40, GotoJob DEF UnstopFails, TypeOK, JobInv
<1> QED
  BY <1>1, <1>2, <1>3, <1>4, <1>5, <1>6, <1>7, <1>8, <1>9, <1>10, <1>11, <1>12,
     <1>13, <1>14, <1>15, <1>16, <1>17, <1>18, <1>19, <1>20, <1>21, <1>22,
     <1>23, <1>24, <1>25, <1>26, <1>27, <1>28, <1>29, <1>30, <1>31, <1>32,
     <1>33, <1>34, <1>35, <1>36, <1>37, <1>38, <1>39, <1>40
  DEF
      Next, JobStep, DeployStep, RestartStep, ConnStep

\* a backend runs on the port Docker gave it
LEMMA PortStep ==
    ASSUME IInv, Next
    PROVE  PortInv'
<1> USE DEF IInv
<1>1. ASSUME Build PROVE PortInv'
  BY <1>1 DEF Build, files, docker, history, Idle, TypeOK, FreePorts, Goto,
        PortInv
<1>2. ASSUME AdmitRouted PROVE PortInv'
  BY <1>2 DEF AdmitRouted, files, docker, history, TypeOK, FreePorts, Goto,
        RouterFree, PortInv
<1>3. ASSUME AdmitRefused PROVE PortInv'
  BY <1>3 DEF AdmitRefused, files, docker, history, TypeOK, FreePorts, Goto,
        PortInv
<1>4. ASSUME AdmitStateless PROVE PortInv'
  BY <1>4 DEF AdmitStateless, files, history, TypeOK, FreePorts, Goto,
        RouterFree, StopBackend, PortInv
<1>5. ASSUME AdmitStateful PROVE PortInv'
  BY <1>5 DEF AdmitStateful, files, history, TypeOK, FreePorts, Goto,
        RouterFree, StopBackend, PortInv
<1>6. ASSUME Start PROVE PortInv'
  BY <1>6 DEF Start, files, history, TypeOK, FreePorts, Goto, StartBackend,
        PortInv
<1>7. ASSUME Health PROVE PortInv'
  BY <1>7 DEF Health, files, docker, TypeOK, FreePorts, Goto, AfterUnhealthy,
        PortInv
<1>8. ASSUME Mark PROVE PortInv'
  BY <1>8 DEF Mark, docker, history, TypeOK, FreePorts, Goto, RouterFree,
        PortInv
<1>9. ASSUME ApplyCandidate PROVE PortInv'
  BY <1>9 DEF ApplyCandidate, history, TypeOK, FreePorts, Goto, PortInv
<1>10. ASSUME ApplyFirst PROVE PortInv'
  BY <1>10 DEF ApplyFirst, history, TypeOK, FreePorts, FirstRouter, PortInv
<1>11. ASSUME ApplyFails PROVE PortInv'
  BY <1>11 DEF ApplyFails, history, TypeOK, FreePorts, Goto, PortInv
<1>12. ASSUME Verify PROVE PortInv'
  BY <1>12 DEF Verify, files, docker, history, TypeOK, FreePorts, Goto, PortInv
<1>13. ASSUME Commit PROVE PortInv'
  BY <1>13 DEF Commit, docker, TypeOK, FreePorts, Goto, PortInv
<1>14. ASSUME Promote PROVE PortInv'
  BY <1>14 DEF Promote, history, TypeOK, FreePorts, Goto, PortInv
<1>15. ASSUME PromoteFails PROVE PortInv'
  BY <1>15 DEF PromoteFails, docker, history, TypeOK, FreePorts, Goto, PortInv
<1>16. ASSUME Clear PROVE PortInv'
  BY <1>16 DEF Clear, docker, history, TypeOK, FreePorts, Goto, PortInv
<1>17. ASSUME Restore PROVE PortInv'
  BY <1>17 DEF Restore, history, TypeOK, FreePorts, Goto, ApplyCommitted,
        ApplyCommittedFails, RestoreFails, PortInv
<1>18. ASSUME Abort PROVE PortInv'
  BY <1>18 DEF Abort, files, history, TypeOK, FreePorts, Goto, StopBackend,
        PortInv
<1>19. ASSUME Unstop PROVE PortInv'
  BY <1>19 DEF Unstop, files, history, TypeOK, FreePorts, Goto, StartBackend,
        PortInv
<1>20. ASSUME Fail PROVE PortInv'
  BY <1>20 DEF Fail, files, docker, history, Idle, TypeOK, FreePorts, PortInv
<1>21. ASSUME Settle PROVE PortInv'
  BY <1>21 DEF Settle, files, docker, history, Idle, TypeOK, FreePorts, PortInv
<1>22. ASSUME Restart PROVE PortInv'
  BY <1>22 DEF Restart, files, history, Idle, TypeOK, FreePorts, RouterFree,
        StartBackend, PortInv
<1>23. ASSUME RestartHealth PROVE PortInv'
  BY <1>23 DEF RestartHealth, files, docker, history, Idle, TypeOK, FreePorts,
        Goto, PortInv
<1>24. ASSUME RestartCommit PROVE PortInv'
  BY <1>24 DEF RestartCommit, docker, history, Idle, TypeOK, FreePorts, Goto,
        RouterFree, Target, EndRestart, PortInv
<1>25. ASSUME RestartApply PROVE PortInv'
  BY <1>25 DEF RestartApply, history, Idle, TypeOK, FreePorts, Goto,
        ApplyCommitted, ApplyCommittedFails, EndRestart, PortInv
<1>26. ASSUME RestartVerify PROVE PortInv'
  BY <1>26 DEF RestartVerify, files, docker, history, Idle, TypeOK, FreePorts,
        Goto, EndRestart, PortInv
<1>27. ASSUME Connect PROVE PortInv'
  BY <1>27 DEF Connect, files, docker, history, RouterPcs, TypeOK, FreePorts,
        PortInv
<1>28. ASSUME RecoverApply PROVE PortInv'
  BY <1>28 DEF RecoverApply, history, TypeOK, FreePorts, ApplyCommitted,
        ApplyCommittedFails, PortInv
<1>29. ASSUME Serve PROVE PortInv'
  BY <1>29 DEF Serve, files, docker, history, TypeOK, FreePorts, PortInv
<1>30. ASSUME Disconnect PROVE PortInv'
  BY <1>30 DEF Disconnect, files, docker, history, TypeOK, FreePorts, Unlink,
        PortInv
<1>31. ASSUME AgentCrash PROVE PortInv'
  BY <1>31 DEF AgentCrash, files, docker, history, Idle, TypeOK, FreePorts,
        AgentDies, PortInv
<1>32. ASSUME HostReboot PROVE PortInv'
  BY <1>32 DEF HostReboot, files, history, Idle, TypeOK, FreePorts, AgentDies,
        PortInv
<1>33. ASSUME NEW d \in Deployments, ReceiveDeploy(d) PROVE PortInv'
  BY <1>33 DEF ReceiveDeploy, files, docker, history, TypeOK, FreePorts,
        Unanswered, Quiet, PortInv
<1>34. ASSUME NEW d \in Deployments, ReceiveRestart(d) PROVE PortInv'
  BY <1>34 DEF ReceiveRestart, files, docker, history, TypeOK, FreePorts,
        Unanswered, Quiet, PortInv
<1>35. ASSUME NEW d \in Deployments, Drain(d) PROVE PortInv'
  BY <1>35 DEF Drain, files, history, TypeOK, FreePorts, StopBackend, PortInv
<1>36. ASSUME NEW d \in Deployments, MonitorRestart(d) PROVE PortInv'
  BY <1>36 DEF MonitorRestart, files, docker, history, TypeOK, FreePorts,
        NewJob, PortInv
<1>37. ASSUME NEW d \in Deployments, RecoverMarker(d) PROVE PortInv'
  BY <1>37 DEF RecoverMarker, history, TypeOK, FreePorts, StopBackend,
        MarkerCommitted, PortInv
<1>38. ASSUME NEW d \in Deployments, RecoverReport(d) PROVE PortInv'
  BY <1>38 DEF RecoverReport, files, docker, history, TypeOK, FreePorts, PortInv
<1>39. ASSUME NEW c \in pending, TakeRuntimeMu(c) PROVE PortInv'
  BY <1>39 DEF TakeRuntimeMu, files, docker, history, Idle, TypeOK, FreePorts,
        NewJob, PortInv
<1>40. ASSUME UnstopFails PROVE PortInv'
  BY <1>40 DEF UnstopFails, docker, PortInv
<1> QED
  BY <1>1, <1>2, <1>3, <1>4, <1>5, <1>6, <1>7, <1>8, <1>9, <1>10, <1>11, <1>12,
     <1>13, <1>14, <1>15, <1>16, <1>17, <1>18, <1>19, <1>20, <1>21, <1>22,
     <1>23, <1>24, <1>25, <1>26, <1>27, <1>28, <1>29, <1>30, <1>31, <1>32,
     <1>33, <1>34, <1>35, <1>36, <1>37, <1>38, <1>39, <1>40
  DEF
      Next, JobStep, DeployStep, RestartStep, ConnStep

\* recovery and route switches exclude each other, and a removed router has no policy
LEMMA LockStep ==
    ASSUME IInv, Next
    PROVE  LockInv' /\ AbsentInv'
<1> USE DEF IInv
<1>1. ASSUME Build PROVE LockInv' /\ AbsentInv'
  BY <1>1 DEF Build, files, docker, history, RouterPcs, Idle, Jobs, TypeOK,
        Goto, LockInv, AbsentInv
<1>2. ASSUME AdmitRouted PROVE LockInv' /\ AbsentInv'
  BY <1>2 DEF AdmitRouted, files, docker, history, RouterPcs, Idle, Jobs,
        TypeOK, Goto, RouterFree, LockInv, AbsentInv
<1>3. ASSUME AdmitRefused PROVE LockInv' /\ AbsentInv'
  BY <1>3 DEF AdmitRefused, files, docker, history, RouterPcs, Idle, Jobs,
        TypeOK, Goto, LockInv, AbsentInv
<1>4. ASSUME AdmitStateless PROVE LockInv' /\ AbsentInv'
  BY <1>4 DEF AdmitStateless, files, history, RouterPcs, Idle, Jobs, TypeOK,
        Goto, RouterFree, StopBackend, LockInv, AbsentInv
<1>5. ASSUME AdmitStateful PROVE LockInv' /\ AbsentInv'
  BY <1>5 DEF AdmitStateful, files, history, RouterPcs, Idle, Jobs, TypeOK,
        Goto, RouterFree, StopBackend, LockInv, AbsentInv
<1>6. ASSUME Start PROVE LockInv' /\ AbsentInv'
  <2>1. job'.pc \in {"health", "abort"}
    BY <1>6, StartJob, GotoJob DEF Start, TypeOK
  <2> QED
    BY <1>6, <2>1 DEF Start, LockInv, AbsentInv, RouterPcs, files
<1>7. ASSUME Health PROVE LockInv' /\ AbsentInv'
  BY <1>7 DEF Health, files, docker, RouterPcs, Idle, Jobs, TypeOK, Goto,
        AfterUnhealthy, LockInv, AbsentInv
<1>8. ASSUME Mark PROVE LockInv' /\ AbsentInv'
  BY <1>8 DEF Mark, docker, history, RouterPcs, Idle, Jobs, TypeOK, Goto,
        RouterFree, LockInv, AbsentInv
<1>9. ASSUME ApplyCandidate PROVE LockInv' /\ AbsentInv'
  BY <1>9 DEF ApplyCandidate, history, RouterPcs, Idle, Jobs, TypeOK, Goto,
        LockInv, AbsentInv
<1>10. ASSUME ApplyFirst PROVE LockInv' /\ AbsentInv'
  BY <1>10 DEF ApplyFirst, history, RouterPcs, Idle, Jobs, TypeOK, FirstRouter,
        LockInv, AbsentInv
<1>11. ASSUME ApplyFails PROVE LockInv' /\ AbsentInv'
  BY <1>11 DEF ApplyFails, history, RouterPcs, Idle, Jobs, TypeOK, Goto,
        LockInv, AbsentInv
<1>12. ASSUME Verify PROVE LockInv' /\ AbsentInv'
  BY <1>12 DEF Verify, files, docker, history, RouterPcs, Idle, Jobs, TypeOK,
        Goto, LockInv, AbsentInv
<1>13. ASSUME Commit PROVE LockInv' /\ AbsentInv'
  BY <1>13 DEF Commit, docker, RouterPcs, Idle, Jobs, TypeOK, Goto, LockInv,
        AbsentInv
<1>14. ASSUME Promote PROVE LockInv' /\ AbsentInv'
  <2>1. router.state = "running" /\ router'.state = router.state
    BY <1>14 DEF Promote, CandidateInv, TypeOK
  <2>2. conn # "markers" /\ UNCHANGED conn
    BY <1>14 DEF Promote, LockInv, RouterPcs
  <2> QED
    BY <2>1, <2>2 DEF LockInv, AbsentInv
<1>15. ASSUME PromoteFails PROVE LockInv' /\ AbsentInv'
  BY <1>15 DEF PromoteFails, docker, history, RouterPcs, Idle, Jobs, TypeOK,
        Goto, LockInv, AbsentInv
<1>16. ASSUME Clear PROVE LockInv' /\ AbsentInv'
  BY <1>16 DEF Clear, docker, history, RouterPcs, Idle, Jobs, TypeOK, Goto,
        LockInv, AbsentInv
<1>17. ASSUME Restore PROVE LockInv' /\ AbsentInv'
  BY <1>17 DEF Restore, history, RouterPcs, Idle, Jobs, TypeOK, Goto,
        ApplyCommitted, ApplyCommittedFails, RestoreFails, LockInv, AbsentInv
<1>18. ASSUME Abort PROVE LockInv' /\ AbsentInv'
  BY <1>18 DEF Abort, files, history, RouterPcs, Idle, Jobs, TypeOK, Goto,
        StopBackend, LockInv, AbsentInv
<1>19. ASSUME Unstop PROVE LockInv' /\ AbsentInv'
  <2>1. job'.pc \in {"rcommit", "fail"}
    BY <1>19, UnstopJob DEF TypeOK
  <2> QED
    BY <1>19, <2>1 DEF Unstop, LockInv, AbsentInv, RouterPcs, files
<1>20. ASSUME Fail PROVE LockInv' /\ AbsentInv'
  BY <1>20 DEF Fail, files, docker, history, RouterPcs, Idle, Jobs, TypeOK,
        LockInv, AbsentInv
<1>21. ASSUME Settle PROVE LockInv' /\ AbsentInv'
  BY <1>21 DEF Settle, files, docker, history, RouterPcs, Idle, Jobs, TypeOK,
        LockInv, AbsentInv
<1>22. ASSUME Restart PROVE LockInv' /\ AbsentInv'
  BY <1>22 DEF Restart, files, history, RouterPcs, Idle, Jobs, TypeOK,
        RouterFree, StartBackend, LockInv, AbsentInv
<1>23. ASSUME RestartHealth PROVE LockInv' /\ AbsentInv'
  BY <1>23 DEF RestartHealth, files, docker, history, RouterPcs, Idle, Jobs,
        TypeOK, Goto, LockInv, AbsentInv
<1>24. ASSUME RestartCommit PROVE LockInv' /\ AbsentInv'
  BY <1>24 DEF RestartCommit, docker, history, RouterPcs, Idle, Jobs, TypeOK,
        Goto, RouterFree, Target, EndRestart, LockInv, AbsentInv
<1>25. ASSUME RestartApply PROVE LockInv' /\ AbsentInv'
  BY <1>25 DEF RestartApply, history, RouterPcs, Idle, Jobs, TypeOK, Goto,
        ApplyCommitted, ApplyCommittedFails, EndRestart, LockInv, AbsentInv
<1>26. ASSUME RestartVerify PROVE LockInv' /\ AbsentInv'
  BY <1>26 DEF RestartVerify, files, docker, history, RouterPcs, Idle, Jobs,
        TypeOK, Goto, EndRestart, LockInv, AbsentInv
<1>27. ASSUME Connect PROVE LockInv' /\ AbsentInv'
  BY <1>27 DEF Connect, files, docker, history, RouterPcs, Idle, Jobs, TypeOK,
        LockInv, AbsentInv
<1>28. ASSUME RecoverApply PROVE LockInv' /\ AbsentInv'
  BY <1>28 DEF RecoverApply, history, RouterPcs, Idle, Jobs, TypeOK,
        ApplyCommitted, ApplyCommittedFails, LockInv, AbsentInv
<1>29. ASSUME Serve PROVE LockInv' /\ AbsentInv'
  BY <1>29 DEF Serve, files, docker, history, RouterPcs, Idle, Jobs, TypeOK,
        LockInv, AbsentInv
<1>30. ASSUME Disconnect PROVE LockInv' /\ AbsentInv'
  BY <1>30 DEF Disconnect, files, docker, history, RouterPcs, Idle, Jobs,
        TypeOK, Unlink, LockInv, AbsentInv
<1>31. ASSUME AgentCrash PROVE LockInv' /\ AbsentInv'
  BY <1>31 DEF AgentCrash, files, docker, history, RouterPcs, Idle, Jobs,
        TypeOK, AgentDies, LockInv, AbsentInv
<1>32. ASSUME HostReboot PROVE LockInv' /\ AbsentInv'
  BY <1>32 DEF HostReboot, files, history, RouterPcs, Idle, Jobs, TypeOK,
        AgentDies, LockInv, AbsentInv
<1>33. ASSUME NEW d \in Deployments, ReceiveDeploy(d) PROVE LockInv' /\ AbsentInv'
  BY <1>33 DEF ReceiveDeploy, files, docker, history, RouterPcs, Idle, Jobs,
        TypeOK, Unanswered, Quiet, LockInv, AbsentInv
<1>34. ASSUME NEW d \in Deployments, ReceiveRestart(d) PROVE LockInv' /\ AbsentInv'
  BY <1>34 DEF ReceiveRestart, files, docker, history, RouterPcs, Idle, Jobs,
        TypeOK, Unanswered, Quiet, LockInv, AbsentInv
<1>35. ASSUME NEW d \in Deployments, Drain(d) PROVE LockInv' /\ AbsentInv'
  BY <1>35 DEF Drain, files, history, RouterPcs, Idle, Jobs, TypeOK,
        StopBackend, LockInv, AbsentInv
<1>36. ASSUME NEW d \in Deployments, MonitorRestart(d) PROVE LockInv' /\ AbsentInv'
  BY <1>36 DEF MonitorRestart, files, docker, history, RouterPcs, Idle, Jobs,
        TypeOK, NewJob, LockInv, AbsentInv
<1>37. ASSUME NEW d \in Deployments, RecoverMarker(d) PROVE LockInv' /\ AbsentInv'
  BY <1>37 DEF RecoverMarker, history, RouterPcs, Idle, Jobs, TypeOK,
        StopBackend, MarkerCommitted, LockInv, AbsentInv
<1>38. ASSUME NEW d \in Deployments, RecoverReport(d) PROVE LockInv' /\ AbsentInv'
  BY <1>38 DEF RecoverReport, files, docker, history, RouterPcs, Idle, Jobs,
        TypeOK, LockInv, AbsentInv
<1>39. ASSUME NEW c \in pending, TakeRuntimeMu(c) PROVE LockInv' /\ AbsentInv'
  BY <1>39 DEF TakeRuntimeMu, files, docker, history, RouterPcs, Idle, Jobs,
        TypeOK, NewJob, LockInv, AbsentInv
<1>40. ASSUME UnstopFails PROVE LockInv' /\ AbsentInv'
  BY <1>40, GotoJob DEF UnstopFails, TypeOK, docker, LockInv, AbsentInv, RouterPcs
<1> QED
  BY <1>1, <1>2, <1>3, <1>4, <1>5, <1>6, <1>7, <1>8, <1>9, <1>10, <1>11, <1>12,
     <1>13, <1>14, <1>15, <1>16, <1>17, <1>18, <1>19, <1>20, <1>21, <1>22,
     <1>23, <1>24, <1>25, <1>26, <1>27, <1>28, <1>29, <1>30, <1>31, <1>32,
     <1>33, <1>34, <1>35, <1>36, <1>37, <1>38, <1>39, <1>40
  DEF
      Next, JobStep, DeployStep, RestartStep, ConnStep

\* only committed routes reach the boot configuration
LEMMA CommitStep ==
    ASSUME IInv, Next
    PROVE  RoutesInv' /\ CandidateInv' /\ BootOnlyCommitted'
<1> USE DEF IInv
<1>1. ASSUME Build PROVE RoutesInv' /\ CandidateInv' /\ BootOnlyCommitted'
  BY <1>1 DEF Build, files, docker, history, RouterPcs, Idle, Jobs, TypeOK,
        Goto, BootOnlyCommitted, LockInv, CandidateInv, RoutesInv, AbsentInv
<1>2. ASSUME AdmitRouted PROVE RoutesInv' /\ CandidateInv' /\ BootOnlyCommitted'
  BY <1>2 DEF AdmitRouted, files, docker, history, RouterPcs, Idle, Jobs,
        TypeOK, RouteOf, HasRoute, Goto, RouterFree, BootOnlyCommitted,
        CandidateInv, LockInv, RoutesInv, AbsentInv
<1>3. ASSUME AdmitRefused PROVE RoutesInv' /\ CandidateInv' /\ BootOnlyCommitted'
  BY <1>3 DEF AdmitRefused, files, docker, history, RouterPcs, Idle, Jobs,
        TypeOK, RouteOf, HasRoute, Goto, BootOnlyCommitted, AbsentInv,
        CandidateInv, LockInv, RoutesInv
<1>4. ASSUME AdmitStateless PROVE RoutesInv' /\ CandidateInv' /\ BootOnlyCommitted'
  BY <1>4 DEF AdmitStateless, files, history, RouterPcs, Idle, Jobs, TypeOK,
        RouteOf, HasRoute, Goto, RouterFree, StopBackend, BootOnlyCommitted,
        LockInv, CandidateInv, RoutesInv, AbsentInv
<1>5. ASSUME AdmitStateful PROVE RoutesInv' /\ CandidateInv' /\ BootOnlyCommitted'
  <2>1. ~job.first
    BY <1>5 DEF AdmitStateful, CandidateInv
  <2>2. job'.pc \in {"start", "fail"} /\ job'.first = job.first
    BY <1>5, AdmitStatefulJob DEF TypeOK
  <2> QED
    BY <1>5, <2>1, <2>2
    DEF AdmitStateful, RoutesInv, CandidateInv, BootOnlyCommitted, Routed, files, history
<1>6. ASSUME Start PROVE RoutesInv' /\ CandidateInv' /\ BootOnlyCommitted'
  <2>1. ~job.first
    BY <1>6 DEF Start, CandidateInv
  <2>2. job'.pc \in {"health", "abort"} /\ job'.first = job.first
    BY <1>6, StartJob, GotoJob DEF Start, TypeOK
  <2> QED
    BY <1>6, <2>1, <2>2
    DEF Start, RoutesInv, CandidateInv, BootOnlyCommitted, Routed, files, history
<1>7. ASSUME Health PROVE RoutesInv' /\ CandidateInv' /\ BootOnlyCommitted'
  <2>1. ~job.first
    BY <1>7 DEF Health, CandidateInv
  <2>2. job'.pc \in {"mark", "abort"} /\ job'.first = job.first
    BY <1>7, GotoJob DEF Health, TypeOK, AfterUnhealthy
  <2> QED
    BY <1>7, <2>1, <2>2
    DEF Health, RoutesInv, CandidateInv, BootOnlyCommitted, Routed, files, docker
<1>8. ASSUME Mark PROVE RoutesInv' /\ CandidateInv' /\ BootOnlyCommitted'
  <2>1. ~job.first
    BY <1>8 DEF Mark, CandidateInv
  <2>2. job'.pc \in {"apply", "abort"} /\ job'.first = job.first
    BY <1>8, EditJob, GotoJob DEF Mark, TypeOK
  <2> QED
    BY <1>8, <2>1, <2>2
    DEF Mark, RoutesInv, CandidateInv, BootOnlyCommitted, Routed, docker, history
<1>9. ASSUME ApplyCandidate PROVE RoutesInv' /\ CandidateInv' /\ BootOnlyCommitted'
  <2>1. NextTable(job.dep) \in Table /\ Routed(NextTable(job.dep)) \subseteq committed \union {job.dep}
    BY <1>9, JobFields, RoutedNext, NextTableType DEF ApplyCandidate, TypeOK, RoutesInv, JobInv
  <2>2. job'.pc = "verify" /\ job'.dep = job.dep /\ job'.first = job.first
    BY <1>9 DEF ApplyCandidate, Goto, TypeOK, Jobs, Idle
  <2>3. ~job.first
    BY <1>9 DEF ApplyCandidate, CandidateInv
  <2>4. router'.state = "running" /\ router'.restart = router.restart
    BY <1>9 DEF ApplyCandidate, TypeOK
  <2>5. next' # Absent
    BY <1>9, <2>1, AbsentAssumption DEF ApplyCandidate, Table, Route
  <2>6. next' = NextTable(job.dep) /\ UNCHANGED <<routes, boot, committed>>
    BY <1>9 DEF ApplyCandidate, history
  <2>7. RoutesInv' /\ BootOnlyCommitted'
    BY <2>4, <2>6 DEF RoutesInv, BootOnlyCommitted, Routed
  <2>8. Routed(next)' \subseteq committed' \union {job'.dep}
    BY <2>1, <2>2, <2>6 DEF Routed
  <2> QED
    BY <2>2, <2>3, <2>4, <2>5, <2>7, <2>8 DEF CandidateInv
<1>10. ASSUME ApplyFirst PROVE RoutesInv' /\ CandidateInv' /\ BootOnlyCommitted'
  <2>1. Routed(NextTable(job.dep)) \subseteq committed \union {job.dep}
    BY <1>10, JobFields, RoutedNext DEF ApplyFirst, TypeOK, RoutesInv
  <2>2. job'.pc = "verify" /\ job'.dep = job.dep /\ job'.first = TRUE
    BY <1>10 DEF ApplyFirst, TypeOK, Jobs, Idle
  <2> QED
    BY <1>10, <2>1, <2>2
    DEF ApplyFirst, FirstRouter, CandidateInv, BootOnlyCommitted, RoutesInv, Routed, history
<1>11. ASSUME ApplyFails PROVE RoutesInv' /\ CandidateInv' /\ BootOnlyCommitted'
  BY <1>11 DEF ApplyFails, history, RouterPcs, Idle, Jobs, TypeOK, NextTable,
        Goto, BootOnlyCommitted, LockInv, CandidateInv, RoutesInv, AbsentInv
<1>12. ASSUME Verify PROVE RoutesInv' /\ CandidateInv' /\ BootOnlyCommitted'
  BY <1>12 DEF Verify, files, docker, history, RouterPcs, Idle, Jobs, TypeOK,
        Goto, BootOnlyCommitted, CandidateInv, LockInv, RoutesInv, AbsentInv
<1>13. ASSUME Commit PROVE RoutesInv' /\ CandidateInv' /\ BootOnlyCommitted'
  <2>1. CASE Goto("restore")
    <3>1. job'.pc = "restore"
      BY <1>13, <2>1, GotoJob DEF Commit, TypeOK
    <3>2. UNCHANGED <<routes, boot, router, committed>>
      BY <1>13, <2>1, <3>1, GotoJob DEF Commit, TypeOK, docker
    <3> QED
      BY <3>1, <3>2 DEF CandidateInv, BootOnlyCommitted, RoutesInv, Routed
  <2>2. CASE /\ routes' = NextTable(job.dep)
             /\ committed' = committed \union {job.dep}
             /\ Goto("promote")
    <3>1. Routed(NextTable(job.dep)) \subseteq committed'
      BY <1>13, <2>2, JobFields, RoutedNext DEF Commit, TypeOK, RoutesInv
    <3>2. RoutesInv'
      BY <2>2, <3>1 DEF RoutesInv, Routed
    <3>3. job'.pc = "promote" /\ job'.dep = job.dep /\ job'.first = job.first
      BY <1>13, <2>2 DEF Commit, Goto, TypeOK, Jobs, Idle
    <3> QED
      BY <1>13, <2>2, <3>2, <3>3 DEF Commit, CandidateInv, BootOnlyCommitted, Routed, docker
  <2> QED
    BY <1>13, <2>1, <2>2 DEF Commit
<1>14. ASSUME Promote PROVE RoutesInv' /\ CandidateInv' /\ BootOnlyCommitted'
  BY <1>14 DEF Promote, history, RouterPcs, Idle, Jobs, TypeOK, Goto,
        BootOnlyCommitted, LockInv, CandidateInv, RoutesInv, AbsentInv
<1>15. ASSUME PromoteFails PROVE RoutesInv' /\ CandidateInv' /\ BootOnlyCommitted'
  BY <1>15 DEF PromoteFails, docker, history, RouterPcs, Idle, Jobs, TypeOK,
        Goto, BootOnlyCommitted, LockInv, CandidateInv, RoutesInv, AbsentInv
<1>16. ASSUME Clear PROVE RoutesInv' /\ CandidateInv' /\ BootOnlyCommitted'
  BY <1>16 DEF Clear, docker, history, RouterPcs, Idle, Jobs, TypeOK, Goto,
        BootOnlyCommitted, LockInv, CandidateInv, RoutesInv, AbsentInv
<1>17. ASSUME Restore PROVE RoutesInv' /\ CandidateInv' /\ BootOnlyCommitted'
  BY <1>17 DEF Restore, history, RouterPcs, Idle, Jobs, TypeOK, Goto,
        ApplyCommitted, ApplyCommittedFails, RestoreFails, BootOnlyCommitted,
        LockInv, CandidateInv, RoutesInv, AbsentInv
<1>18. ASSUME Abort PROVE RoutesInv' /\ CandidateInv' /\ BootOnlyCommitted'
  BY <1>18 DEF Abort, files, history, RouterPcs, Idle, Jobs, TypeOK, Goto,
        StopBackend, BootOnlyCommitted, CandidateInv, LockInv, RoutesInv,
        AbsentInv
<1>19. ASSUME Unstop PROVE RoutesInv' /\ CandidateInv' /\ BootOnlyCommitted'
  <2>1. job'.pc \in {"rcommit", "fail"}
    BY <1>19, UnstopJob DEF TypeOK
  <2> QED
    BY <1>19, <2>1
    DEF Unstop, RoutesInv, CandidateInv, BootOnlyCommitted, Routed, files, history
<1>20. ASSUME Fail PROVE RoutesInv' /\ CandidateInv' /\ BootOnlyCommitted'
  BY <1>20 DEF Fail, files, docker, history, RouterPcs, Idle, Jobs, TypeOK,
        BootOnlyCommitted, LockInv, CandidateInv, RoutesInv, AbsentInv
<1>21. ASSUME Settle PROVE RoutesInv' /\ CandidateInv' /\ BootOnlyCommitted'
  BY <1>21 DEF Settle, files, docker, history, RouterPcs, Idle, Jobs, TypeOK,
        BootOnlyCommitted, CandidateInv, LockInv, RoutesInv, AbsentInv
<1>22. ASSUME Restart PROVE RoutesInv' /\ CandidateInv' /\ BootOnlyCommitted'
  <2>1. job'.pc \in {"rhealth", "idle"}
    BY <1>22, StartJob DEF Restart, TypeOK, Idle
  <2> QED
    BY <1>22, <2>1 DEF Restart, RoutesInv, CandidateInv, BootOnlyCommitted, Routed, files, history
<1>23. ASSUME RestartHealth PROVE RoutesInv' /\ CandidateInv' /\ BootOnlyCommitted'
  BY <1>23 DEF RestartHealth, files, docker, history, RouterPcs, Idle, Jobs,
        TypeOK, RouteOf, Goto, BootOnlyCommitted, LockInv, CandidateInv,
        RoutesInv, AbsentInv
<1>24. ASSUME RestartCommit PROVE RoutesInv' /\ CandidateInv' /\ BootOnlyCommitted'
  <2>1. job'.pc \in {"rapply", "fail", "idle"}
    BY <1>24, GotoJob DEF RestartCommit, EndRestart, TypeOK, Idle
  <2>2. Target \in Deployments
    BY <1>24, JobFields DEF RestartCommit, Target, JobInv, TypeOK, Route
  <2>3. RoutesInv'
    <3>1. CASE UNCHANGED routes
      BY <1>24, <3>1 DEF RestartCommit, RoutesInv, Routed, history
    <3>2. CASE HasRoute(Target) /\ routes' = NextTable(Target)
      <4>1. Target \in Routed(routes)
        BY <2>2, <3>2, ServiceAssumption DEF HasRoute, RouteOf, Routed
      <4>2. Routed(NextTable(Target)) \subseteq committed
        BY <2>2, <4>1, RoutedNext DEF RoutesInv, TypeOK
      <4> QED
        BY <1>24, <3>2, <4>2 DEF RestartCommit, RoutesInv, Routed, history
    <3> QED
      BY <1>24, <3>1, <3>2 DEF RestartCommit
  <2> QED
    BY <1>24, <2>1, <2>3 DEF RestartCommit, CandidateInv, BootOnlyCommitted, Routed, docker, history
<1>25. ASSUME RestartApply PROVE RoutesInv' /\ CandidateInv' /\ BootOnlyCommitted'
  BY <1>25 DEF RestartApply, history, RouterPcs, Idle, Jobs, TypeOK, Goto,
        ApplyCommitted, ApplyCommittedFails, EndRestart, BootOnlyCommitted,
        CandidateInv, LockInv, RoutesInv, AbsentInv
<1>26. ASSUME RestartVerify PROVE RoutesInv' /\ CandidateInv' /\ BootOnlyCommitted'
  BY <1>26 DEF RestartVerify, files, docker, history, RouterPcs, Idle, Jobs,
        TypeOK, Goto, EndRestart, BootOnlyCommitted, CandidateInv, LockInv,
        RoutesInv, AbsentInv
<1>27. ASSUME Connect PROVE RoutesInv' /\ CandidateInv' /\ BootOnlyCommitted'
  BY <1>27 DEF Connect, files, docker, history, RouterPcs, Idle, Jobs, TypeOK,
        BootOnlyCommitted, LockInv, CandidateInv, RoutesInv, AbsentInv
<1>28. ASSUME RecoverApply PROVE RoutesInv' /\ CandidateInv' /\ BootOnlyCommitted'
  BY <1>28 DEF RecoverApply, history, RouterPcs, Idle, Jobs, TypeOK,
        ApplyCommitted, ApplyCommittedFails, RecoveryTable, BootOnlyCommitted,
        LockInv, AbsentInv, CandidateInv, RoutesInv
<1>29. ASSUME Serve PROVE RoutesInv' /\ CandidateInv' /\ BootOnlyCommitted'
  BY <1>29 DEF Serve, files, docker, history, RouterPcs, Idle, Jobs, TypeOK,
        BootOnlyCommitted, LockInv, CandidateInv, RoutesInv, AbsentInv
<1>30. ASSUME Disconnect PROVE RoutesInv' /\ CandidateInv' /\ BootOnlyCommitted'
  BY <1>30 DEF Disconnect, files, docker, history, RouterPcs, Idle, Jobs,
        TypeOK, Unlink, BootOnlyCommitted, LockInv, CandidateInv, RoutesInv,
        AbsentInv
<1>31. ASSUME AgentCrash PROVE RoutesInv' /\ CandidateInv' /\ BootOnlyCommitted'
  BY <1>31 DEF AgentCrash, files, docker, history, RouterPcs, Idle, Jobs,
        TypeOK, AgentDies, BootOnlyCommitted, CandidateInv, LockInv, RoutesInv,
        AbsentInv
<1>32. ASSUME HostReboot PROVE RoutesInv' /\ CandidateInv' /\ BootOnlyCommitted'
  BY <1>32 DEF HostReboot, files, history, RouterPcs, Idle, Jobs, TypeOK,
        AgentDies, BootOnlyCommitted, CandidateInv, LockInv, RoutesInv,
        AbsentInv
<1>33. ASSUME NEW d \in Deployments, ReceiveDeploy(d) PROVE RoutesInv' /\ CandidateInv' /\ BootOnlyCommitted'
  BY <1>33 DEF ReceiveDeploy, files, docker, history, RouterPcs, Idle, Jobs,
        TypeOK, Unanswered, Quiet, BootOnlyCommitted, LockInv, CandidateInv,
        RoutesInv, AbsentInv
<1>34. ASSUME NEW d \in Deployments, ReceiveRestart(d) PROVE RoutesInv' /\ CandidateInv' /\ BootOnlyCommitted'
  BY <1>34 DEF ReceiveRestart, files, docker, history, RouterPcs, Idle, Jobs,
        TypeOK, Unanswered, Quiet, BootOnlyCommitted, CandidateInv, LockInv,
        RoutesInv, AbsentInv
<1>35. ASSUME NEW d \in Deployments, Drain(d) PROVE RoutesInv' /\ CandidateInv' /\ BootOnlyCommitted'
  BY <1>35 DEF Drain, files, history, RouterPcs, Idle, Jobs, TypeOK,
        StopBackend, BootOnlyCommitted, LockInv, CandidateInv, RoutesInv,
        AbsentInv
<1>36. ASSUME NEW d \in Deployments, MonitorRestart(d) PROVE RoutesInv' /\ CandidateInv' /\ BootOnlyCommitted'
  BY <1>36 DEF MonitorRestart, files, docker, history, RouterPcs, Idle, Jobs,
        TypeOK, RouteOf, HasRoute, NewJob, BootOnlyCommitted, CandidateInv,
        LockInv, RoutesInv, AbsentInv
<1>37. ASSUME NEW d \in Deployments, RecoverMarker(d) PROVE RoutesInv' /\ CandidateInv' /\ BootOnlyCommitted'
  BY <1>37 DEF RecoverMarker, history, RouterPcs, Idle, Jobs, TypeOK, RouteOf,
        HasRoute, StopBackend, MarkerCommitted, BootOnlyCommitted, LockInv,
        CandidateInv, RoutesInv, AbsentInv
<1>38. ASSUME NEW d \in Deployments, RecoverReport(d) PROVE RoutesInv' /\ CandidateInv' /\ BootOnlyCommitted'
  BY <1>38 DEF RecoverReport, files, docker, history, RouterPcs, Idle, Jobs,
        TypeOK, BootOnlyCommitted, LockInv, CandidateInv, RoutesInv, AbsentInv
<1>39. ASSUME NEW c \in pending, TakeRuntimeMu(c) PROVE RoutesInv' /\ CandidateInv' /\ BootOnlyCommitted'
  BY <1>39 DEF TakeRuntimeMu, files, docker, history, RouterPcs, Idle, Jobs,
        TypeOK, NewJob, BootOnlyCommitted, LockInv, CandidateInv, RoutesInv,
        AbsentInv
<1>40. ASSUME UnstopFails PROVE RoutesInv' /\ CandidateInv' /\ BootOnlyCommitted'
  <2>1. job'.pc = "fail"
    BY <1>40, GotoJob DEF UnstopFails, TypeOK
  <2> QED
    BY <1>40, <2>1
    DEF UnstopFails, RoutesInv, CandidateInv, BootOnlyCommitted, Routed, files, docker, history
<1> QED
  BY <1>1, <1>2, <1>3, <1>4, <1>5, <1>6, <1>7, <1>8, <1>9, <1>10, <1>11, <1>12,
     <1>13, <1>14, <1>15, <1>16, <1>17, <1>18, <1>19, <1>20, <1>21, <1>22,
     <1>23, <1>24, <1>25, <1>26, <1>27, <1>28, <1>29, <1>30, <1>31, <1>32,
     <1>33, <1>34, <1>35, <1>36, <1>37, <1>38, <1>39, <1>40
  DEF
      Next, JobStep, DeployStep, RestartStep, ConnStep

-----------------------------------------------------------------------------
(* Types and the boot configuration *)

LEMMA InitInv == Init => IInv
BY DEF Init, IInv, TypeOK, JobInv, PortInv, LockInv, AbsentInv, RoutesInv, CandidateInv,
       BootOnlyCommitted, Table, EmptyTable, Jobs, Idle, Counters, Routed, RouterPcs

LEMMA StutterInv ==
    ASSUME IInv, UNCHANGED vars
    PROVE  IInv'
BY DEF IInv, vars, TypeOK, JobInv, PortInv, LockInv, AbsentInv, RoutesInv, CandidateInv,
       BootOnlyCommitted, Routed

LEMMA Invariance == Spec => []IInv
<1>1. IInv /\ Next => IInv'
  BY TypeStep, JobInvStep, PortStep, LockStep, CommitStep DEF IInv
<1>2. IInv /\ [Next]_vars => IInv'
  BY <1>1, StutterInv
<1> QED
  BY InitInv, <1>2, PTL DEF Spec

\* The files, containers, jobs and counters of a node have their types in every
\* reachable state: in particular every route that is written has a real port.
THEOREM TypeCorrect == Spec => []TypeOK
BY Invariance, PTL DEF IInv

\* What Docker would start by itself holds committed routes only, however the
\* Agent's promotions, restarts, crashes, reboots and recoveries interleave
\* (promoteCandidateRuntimeRouterConfig, applyCandidateRuntimeRouterState).
THEOREM BootSafe == Spec => []BootOnlyCommitted
BY Invariance, PTL DEF IInv

-----------------------------------------------------------------------------
(* How the job moves *)

\* the stages a stage may hand over to
Follows(pc, to) ==
    \/ pc = to
    \/ pc = "build" /\ to \in {"admit", "fail"}
    \/ pc = "admit" /\ to \in {"start", "settle", "fail"}
    \/ pc = "start" /\ to \in {"health", "abort"}
    \/ pc = "health" /\ to \in {"mark", "abort"}
    \/ pc = "mark" /\ to \in {"apply", "abort"}
    \/ pc = "apply" /\ to \in {"verify", "restore"}
    \/ pc = "verify" /\ to \in {"commit", "restore"}
    \/ pc = "commit" /\ to \in {"promote", "restore"}
    \/ pc = "promote" /\ to \in {"clear", "settle"}
    \/ pc = "clear" /\ to = "settle"
    \/ pc = "restore" /\ to = "abort"
    \/ pc = "abort" /\ to \in {"unstop", "fail"}
    \/ pc = "unstop" /\ to \in {"rcommit", "fail"}
    \/ pc = "restart" /\ to = "rhealth"
    \/ pc = "rhealth" /\ to = "rcommit"
    \/ pc = "rcommit" /\ to \in {"rapply", "fail"}
    \/ pc = "rapply" /\ to \in {"rverify", "fail"}
    \/ pc = "rverify" /\ to = "fail"

\* what the job carries from stage to stage
Carries ==
    /\ job'.dep = job.dep /\ job'.kind = job.kind
    /\ job.pc # "mark" => job'.previous = job.previous
    /\ job.pc = "mark" => job'.previous \in {job.previous, RouteOf(job.dep)}
    /\ job.pc # "admit" => job'.stopped = job.stopped
    /\ job.pc = "admit" => job'.stopped \in {job.stopped, RouteOf(job.dep)}
    /\ job.pc \notin {"start", "restart", "unstop"} => job'.port = job.port

\* what a stage has looked at before it hands over
Looked ==
    /\ job.pc = "mark" /\ job'.pc = "apply" => ~PortConflict(job.dep)
    /\ job.pc = "admit" /\ job'.pc = "settle" => HasRoute(job.dep)
    /\ job.pc = "admit" /\ job'.pc = "start" => ~HasRoute(job.dep)
    /\ job'.stopped # job.stopped => NeedsStop(job.dep) /\ job'.pc = "start"

Begins ==
    /\ job'.pc \in {"build", "restart"} /\ (job'.pc = "build" <=> job'.kind = "deploy")
    /\ job'.previous = NoRoute /\ job'.stopped = NoRoute

\* the stages after which a job may be over
Last == {"idle", "build", "fail", "settle", "restart", "rhealth", "rcommit", "rapply", "rverify"}

Moved ==
    \/ job'.pc = "idle" /\ (job.pc \in Last \/ ~NoCrash')
    \/ job.pc = "idle" /\ Begins
    \/ job.pc # "idle" /\ Follows(job.pc, job'.pc) /\ Carries /\ Looked

LEMMA GotoMoves ==
    ASSUME job \in Jobs, job.pc # "idle", NEW to, Goto(to), Follows(job.pc, to),
           job.pc = "mark" => to # "apply", job.pc = "admit" => to = "fail"
    PROVE  Moved
<1>1. /\ job'.pc = to /\ job'.port = job.port
      /\ job'.kind = job.kind /\ job'.dep = job.dep
      /\ job'.stopped = job.stopped /\ job'.previous = job.previous
  BY DEF Goto, Jobs, Idle
<1> QED
  BY <1>1 DEF Moved, Carries, Looked

LEMMA StartMoves ==
    ASSUME job \in Jobs, job.pc \in {"start", "restart", "unstop"}, NEW d, NEW to,
           StartBackend(d, to), Follows(job.pc, to)
    PROVE  Moved
<1>1. /\ job'.pc = to
      /\ job'.kind = job.kind /\ job'.dep = job.dep
      /\ job'.stopped = job.stopped /\ job'.previous = job.previous
  BY DEF StartBackend, Jobs, Idle
<1> QED
  BY <1>1 DEF Moved, Carries, Looked

LEMMA StayMoves ==
    ASSUME job \in Jobs, UNCHANGED job
    PROVE  Moved
BY DEF Moved, Carries, Looked, Follows, Last

LEMMA IdleMoves ==
    ASSUME job' = Idle, job.pc \in Last
    PROVE  Moved
BY DEF Moved, Idle

LEMMA JobMoves ==
    ASSUME IInv, Next
    PROVE  Moved
<1>0. job \in Jobs
  BY DEF IInv, TypeOK
<1>1. ASSUME Build PROVE Moved
  BY <1>0, <1>1, GotoMoves, IdleMoves DEF Build, Follows, Last
<1>2. ASSUME AdmitRouted PROVE Moved
  <2>1. CASE Goto("fail")
    BY <1>0, <1>2, <2>1, GotoMoves DEF AdmitRouted, Follows
  <2>2. CASE Goto("settle")
    <3>1. /\ job'.pc = "settle" /\ job'.port = job.port
          /\ job'.kind = job.kind /\ job'.dep = job.dep
          /\ job'.stopped = job.stopped /\ job'.previous = job.previous
      BY <1>0, <1>2, <2>2 DEF AdmitRouted, Goto, Jobs, Idle
    <3> QED
      BY <1>2, <3>1 DEF AdmitRouted, Moved, Carries, Looked, Follows
  <2> QED
    BY <1>2, <2>1, <2>2 DEF AdmitRouted
<1>3. ASSUME AdmitRefused PROVE Moved
  BY <1>0, <1>3, GotoMoves DEF AdmitRefused, Follows
<1>4. ASSUME AdmitStateless PROVE Moved
  <2>1. /\ job'.pc = "start" /\ job'.port = job.port
        /\ job'.kind = job.kind /\ job'.dep = job.dep
        /\ job'.stopped = job.stopped /\ job'.previous = job.previous
    BY <1>0, <1>4 DEF AdmitStateless, Goto, Jobs, Idle
  <2> QED
    BY <1>4, <2>1 DEF AdmitStateless, Moved, Carries, Looked, Follows
<1>5. ASSUME AdmitStateful PROVE Moved
  <2>1. CASE Goto("fail")
    BY <1>0, <1>5, <2>1, GotoMoves DEF AdmitStateful, Follows
  <2>2. CASE job' = [job EXCEPT !.pc = "start", !.stopped = RouteOf(job.dep)]
    <3>1. /\ job'.pc = "start" /\ job'.port = job.port
          /\ job'.kind = job.kind /\ job'.dep = job.dep
          /\ job'.stopped = RouteOf(job.dep) /\ job'.previous = job.previous
      BY <1>0, <1>5, <2>2 DEF AdmitStateful, Jobs, Idle
    <3> QED
      BY <1>5, <3>1 DEF AdmitStateful, Moved, Carries, Looked, Follows
  <2> QED
    BY <1>5, <2>1, <2>2 DEF AdmitStateful
<1>6. ASSUME Start PROVE Moved
  BY <1>0, <1>6, StartMoves, GotoMoves DEF Start, Follows
<1>7. ASSUME Health PROVE Moved
  BY <1>0, <1>7, GotoMoves DEF Health, AfterUnhealthy, Follows
<1>8. ASSUME Mark PROVE Moved
  <2>1. CASE Goto("abort")
    BY <1>0, <1>8, <2>1, GotoMoves DEF Mark, Follows
  <2>2. CASE ~PortConflict(job.dep) /\ job' = [job EXCEPT !.pc = "apply", !.previous = RouteOf(job.dep)]
    <3>1. /\ job'.pc = "apply" /\ job'.port = job.port
          /\ job'.kind = job.kind /\ job'.dep = job.dep
          /\ job'.stopped = job.stopped /\ job'.previous = RouteOf(job.dep)
      BY <1>0, <1>8, <2>2 DEF Mark, Jobs, Idle
    <3> QED
      BY <1>8, <2>2, <3>1 DEF Mark, Moved, Carries, Looked, Follows
  <2> QED
    BY <1>8, <2>1, <2>2 DEF Mark
<1>9. ASSUME ApplyCandidate \/ ApplyFails \/ Verify \/ Commit PROVE Moved
  BY <1>0, <1>9, GotoMoves DEF ApplyCandidate, ApplyFails, Verify, Commit, Follows
<1>10. ASSUME ApplyFirst PROVE Moved
  <2>1. /\ job'.pc = "verify" /\ job'.port = job.port
        /\ job'.kind = job.kind /\ job'.dep = job.dep
        /\ job'.stopped = job.stopped /\ job'.previous = job.previous
    BY <1>0, <1>10 DEF ApplyFirst, Jobs, Idle
  <2> QED
    BY <1>10, <2>1 DEF ApplyFirst, Moved, Carries, Looked, Follows
<1>11. ASSUME Promote \/ PromoteFails \/ Clear \/ Restore PROVE Moved
  BY <1>0, <1>11, GotoMoves DEF Promote, PromoteFails, Clear, Restore, Follows
<1>12. ASSUME Abort PROVE Moved
  BY <1>0, <1>12, GotoMoves DEF Abort, Follows
<1>13. ASSUME Unstop PROVE Moved
  <2>1. CASE \E to \in {"rcommit", "fail"} : StartBackend(job.stopped.dep, to)
    BY <1>0, <1>13, <2>1, StartMoves DEF Unstop, Follows
  <2>2. CASE job' = [job EXCEPT !.port = port[job.stopped.dep], !.pc = "rcommit"]
    <3>1. /\ job'.pc = "rcommit" /\ job'.kind = job.kind /\ job'.dep = job.dep
          /\ job'.stopped = job.stopped /\ job'.previous = job.previous
      BY <1>0, <1>13, <2>2 DEF Unstop, Jobs, Idle
    <3> QED
      BY <1>13, <3>1 DEF Unstop, Moved, Carries, Looked, Follows
  <2>3. CASE Goto("fail")
    BY <1>0, <1>13, <2>3, GotoMoves DEF Unstop, Follows
  <2> QED
    BY <1>13, <2>1, <2>2, <2>3 DEF Unstop
<1>14. ASSUME Fail \/ Settle PROVE Moved
  BY <1>14, IdleMoves DEF Fail, Settle, Last
<1>23. ASSUME UnstopFails PROVE Moved
  BY <1>0, <1>23, GotoMoves DEF UnstopFails, Follows
<1>15. ASSUME Restart PROVE Moved
  BY <1>0, <1>15, StartMoves, IdleMoves DEF Restart, Follows, Last
<1>16. ASSUME RestartHealth PROVE Moved
  BY <1>0, <1>16, GotoMoves, IdleMoves DEF RestartHealth, Follows, Last
<1>17. ASSUME RestartCommit \/ RestartApply \/ RestartVerify PROVE Moved
  BY <1>0, <1>17, GotoMoves, IdleMoves
  DEF RestartCommit, RestartApply, RestartVerify, EndRestart, Follows, Last
<1>18. ASSUME ConnStep \/ \E d \in Deployments : ReceiveDeploy(d) \/ ReceiveRestart(d) \/ Drain(d)
       PROVE  Moved
  BY <1>0, <1>18, StayMoves
  DEF ConnStep, Connect, RecoverMarker, RecoverApply, RecoverReport, Serve, ReceiveDeploy,
      ReceiveRestart, Drain
<1>19. ASSUME Disconnect PROVE Moved
  <2>1. CASE UNCHANGED job
    BY <1>0, <2>1, StayMoves
  <2>2. CASE job.pc # "idle" /\ job' = Unlink(job)
    <3>1. /\ job'.pc = job.pc /\ job'.port = job.port
          /\ job'.kind = job.kind /\ job'.dep = job.dep
          /\ job'.stopped = job.stopped /\ job'.previous = job.previous
      BY <1>0, <2>2 DEF Unlink, Jobs, Idle
    <3> QED
      BY <2>2, <3>1 DEF Moved, Carries, Looked, Follows
  <2> QED
    BY <1>19, <2>1, <2>2 DEF Disconnect
<1>20. ASSUME AgentCrash \/ HostReboot PROVE Moved
  BY <1>20, <1>0 DEF AgentCrash, HostReboot, AgentDies, Moved, NoCrash, IInv, TypeOK, Counters, Idle
<1>21. ASSUME NEW d \in Deployments, MonitorRestart(d) PROVE Moved
  BY <1>0, <1>21, StayMoves DEF MonitorRestart
<1>22. ASSUME NEW c \in pending, TakeRuntimeMu(c) PROVE Moved
  BY <1>22 DEF TakeRuntimeMu, NewJob, Moved, Begins, Idle, Last
<1> QED
  BY <1>1, <1>2, <1>3, <1>4, <1>5, <1>6, <1>7, <1>8, <1>9, <1>10, <1>11, <1>12,
     <1>13, <1>14, <1>15, <1>16, <1>17, <1>18, <1>19, <1>20, <1>21, <1>22, <1>23
  DEF Next, JobStep, DeployStep, RestartStep

-----------------------------------------------------------------------------
(* What a step may do to each file, container and message *)

\* routes.json is written at the commit point, and again for the new port of
\* the route a restart brought back
RoutesMove ==
    \/ UNCHANGED <<routes, committed>> /\ (job.pc = "commit" => job'.pc # "promote")
    \/ /\ job.pc = "commit" /\ job'.pc = "promote"
       /\ routes' = NextTable(job.dep) /\ committed' = committed \union {job.dep}
    \/ /\ job.pc = "rcommit" /\ job'.pc = "rapply" /\ HasRoute(Target)
       /\ routes' = NextTable(Target) /\ UNCHANGED committed

LEMMA RoutesMoves ==
    ASSUME IInv, Next
    PROVE  RoutesMove
<1>0. job \in Jobs
  BY DEF IInv, TypeOK
<1>1. ASSUME Commit PROVE RoutesMove
  BY <1>0, <1>1, GotoJob DEF Commit, RoutesMove
<1>2. ASSUME RestartCommit PROVE RoutesMove
  BY <1>0, <1>2, GotoJob DEF RestartCommit, RoutesMove, history
<1>3. ASSUME Build \/ AdmitRouted \/ AdmitRefused \/ AdmitStateless \/ AdmitStateful \/ Start \/ Health
      PROVE  RoutesMove
  BY <1>3 DEF Build, AdmitRouted, AdmitRefused, AdmitStateless, AdmitStateful, Start, Health,
     RoutesMove, files, history
<1>4. ASSUME Mark \/ ApplyCandidate \/ ApplyFirst \/ ApplyFails \/ Verify
             \/ Promote \/ PromoteFails \/ Clear \/ Restore
      PROVE  RoutesMove
  BY <1>4 DEF Mark, ApplyCandidate, ApplyFirst, ApplyFails, Verify, Promote, PromoteFails,
     Clear, Restore, RoutesMove, files, history
<1>5. ASSUME \/ Abort \/ Unstop \/ UnstopFails \/ Fail \/ Settle
             \/ Restart \/ RestartHealth \/ RestartApply \/ RestartVerify
      PROVE  RoutesMove
  BY <1>5 DEF Abort, Unstop, UnstopFails, Fail, Settle, Restart, RestartHealth, RestartApply, RestartVerify,
     RoutesMove, files, history
<1>6. ASSUME ConnStep \/ AgentCrash \/ HostReboot
      PROVE  RoutesMove
  BY <1>6 DEF ConnStep, Connect, RecoverMarker, RecoverApply, RecoverReport, Serve,
     AgentCrash, HostReboot, AgentDies, Idle, RoutesMove, files, history
<1>9. ASSUME Disconnect PROVE RoutesMove
  BY <1>0, <1>9 DEF Disconnect, Unlink, Jobs, Idle, RoutesMove, files, history
<1>7. ASSUME NEW d \in Deployments, ReceiveDeploy(d) \/ ReceiveRestart(d) \/ Drain(d) \/ MonitorRestart(d)
      PROVE  RoutesMove
  BY <1>7 DEF ReceiveDeploy, ReceiveRestart, Drain, MonitorRestart, RoutesMove, files, history
<1>8. ASSUME NEW c \in pending, TakeRuntimeMu(c) PROVE RoutesMove
  BY <1>8 DEF TakeRuntimeMu, RoutesMove, files, history
<1> QED
  BY <1>1, <1>2, <1>3, <1>4, <1>5, <1>6, <1>7, <1>8, <1>9
  DEF Next, JobStep, DeployStep, RestartStep

\* what the history of mishaps only adds to
LEMMA Monotone ==
    ASSUME IInv, Next
    PROVE  /\ NoCrash' => NoCrash
           /\ NoFault' => NoFault
           /\ NoPortChange' => NoPortChange
<1> DEFINE Q == (NoCrash' => NoCrash) /\ (NoFault' => NoFault) /\ (NoPortChange' => NoPortChange)
<1>0. used \in Counters
  BY DEF IInv, TypeOK
<1>1. ASSUME UNCHANGED used PROVE Q
  BY <1>1 DEF NoCrash, NoFault, NoPortChange
<1>2. ASSUME Fault PROVE Q
  BY <1>0, <1>2 DEF Fault, Counters, NoCrash, NoFault, NoPortChange
<1>3. ASSUME NEW d \in Deployments, ReceiveDeploy(d) \/ ReceiveRestart(d) \/ MonitorRestart(d) PROVE Q
  <2>1. CASE ReceiveDeploy(d)
    BY <1>0, <2>1 DEF ReceiveDeploy, Counters, NoCrash, NoFault, NoPortChange
  <2>2. CASE ReceiveRestart(d) \/ MonitorRestart(d)
    <3>1. used' = [used EXCEPT !.restarts = @ + 1]
      BY <2>2 DEF ReceiveRestart, MonitorRestart
    <3> QED
      BY <1>0, <3>1 DEF Counters, NoCrash, NoFault, NoPortChange
  <2> QED
    BY <1>3, <2>1, <2>2
<1>4. ASSUME Disconnect \/ AgentCrash \/ HostReboot PROVE Q
  BY <1>0, <1>4 DEF Disconnect, AgentCrash, HostReboot, Counters, NoCrash, NoFault, NoPortChange
<1>5. ASSUME DeployStep PROVE UNCHANGED used \/ Fault
  BY <1>5 DEF DeployStep, Build, AdmitRouted, AdmitRefused, AdmitStateless, AdmitStateful, Start,
     Health, Mark, ApplyCandidate, ApplyFirst, ApplyFails, Verify, Commit, Promote, PromoteFails,
     Clear, Restore, RestoreFails, ApplyCommittedFails, Abort, Unstop, UnstopFails, Fail, Settle
<1>6. ASSUME RestartStep \/ ConnStep \/ (\E d \in Deployments : Drain(d)) \/ (\E c \in pending : TakeRuntimeMu(c))
      PROVE  UNCHANGED used \/ Fault
  BY <1>6 DEF RestartStep, Restart, RestartHealth, RestartCommit, RestartApply, RestartVerify,
     ConnStep, Connect, RecoverMarker, RecoverApply, RecoverReport, Serve, ApplyCommittedFails,
     Drain, TakeRuntimeMu
<1> QED
  BY <1>1, <1>2, <1>3, <1>4, <1>5, <1>6 DEF Next, JobStep

\* which stage, goroutine or event starts a backend
Starts(d) ==
    \/ job.pc = "start" /\ d = job.dep /\ job'.pc \in {"health", "abort"} /\ port'[d] = job'.port
    \/ job.pc = "unstop" /\ d = job.stopped.dep /\ job'.pc \in {"rcommit", "fail"}
    \/ job.pc = "restart" /\ d = job.dep /\ HasRoute(d) /\ job'.pc = "rhealth"

\* ... and which stops one or gives it another port
Stops(d) ==
    \/ ~NoCrash'
    \/ d \in drains
    \/ conn = "markers" /\ d \in markers /\ ~HasRoute(d)
    \/ job.pc \in {"admit", "start", "abort"} /\ d = job.dep /\ (job.pc = "admit" => ~HasRoute(d))
    \/ job.pc = "admit" /\ NeedsStop(job.dep) /\ d = RouteOf(job.dep).dep
    \/ job.pc = "unstop" /\ d = job.stopped.dep
    \/ job.pc = "restart"

BackendMove ==
    /\ \A d \in Deployments :
         /\ backend'[d] = "running" => backend[d] = "running" \/ Starts(d)
         /\ backend[d] = "running" /\ (backend'[d] # "running" \/ port'[d] # port[d]) => Stops(d)
    /\ job.pc = "admit" /\ job'.pc = "start" /\ NeedsStop(job.dep)
         => backend'[RouteOf(job.dep).dep] # "running"
    /\ job.pc = "abort" /\ job'.pc \in {"unstop", "fail"} /\ NoFault'
         => backend'[job.dep] # "running"
    /\ job.pc = "start" /\ job'.pc = "health"
         => backend'[job.dep] = "running" /\ port'[job.dep] = job'.port

LEMMA SameBackends ==
    ASSUME UNCHANGED <<backend, port>>, job.pc \notin {"admit", "start", "abort"}
    PROVE  BackendMove
BY DEF BackendMove

LEMMA BackendMoves ==
    ASSUME IInv, Next
    PROVE  BackendMove
<1>0. /\ job \in Jobs /\ backend \in [Deployments -> {"absent", "running", "stopped"}]
      /\ port \in [Deployments -> Ports \union {0}]
  BY DEF IInv, TypeOK
<1>a. job.pc # "idle" => job.dep \in Deployments
  BY <1>0, JobFields
<1>1. ASSUME AdmitRouted \/ AdmitRefused PROVE BackendMove
  <2>1. UNCHANGED <<backend, port>> /\ job'.pc # "start" /\ job.pc = "admit"
    BY <1>0, <1>1, GotoJob DEF AdmitRouted, AdmitRefused, docker
  <2> QED
    BY <2>1 DEF BackendMove
<1>2. ASSUME AdmitStateless PROVE BackendMove
  <2>1. /\ backend' = [backend EXCEPT ![job.dep] = "absent"]
        /\ port' = [port EXCEPT ![job.dep] = 0]
        /\ job.pc = "admit" /\ ~HasRoute(job.dep) /\ ~NeedsStop(job.dep)
    BY <1>2 DEF AdmitStateless, StopBackend
  <2> QED
    BY <1>0, <1>a, <2>1 DEF BackendMove, Stops
<1>3. ASSUME AdmitStateful PROVE BackendMove
  <2> DEFINE previous == RouteOf(job.dep)
  <2>1. /\ job.pc = "admit" /\ ~HasRoute(job.dep) /\ NeedsStop(job.dep)
        /\ previous.dep \in Deployments
    BY <1>3, <1>a, RouteOfType DEF AdmitStateful, NeedsStop, IInv, TypeOK
  <2>2. CASE backend[previous.dep] = "running"
    <3>1. /\ backend' = [backend EXCEPT ![job.dep] = "absent", ![previous.dep] = "stopped"]
          /\ port' = [port EXCEPT ![job.dep] = 0, ![previous.dep] = 0]
      BY <1>3, <2>2 DEF AdmitStateful
    <3> QED
      BY <1>0, <1>a, <2>1, <3>1 DEF BackendMove, Stops
  <2>3. CASE backend[previous.dep] # "running"
    <3>1. /\ backend' = [backend EXCEPT ![job.dep] = "absent"]
          /\ port' = [port EXCEPT ![job.dep] = 0]
          /\ job'.pc = "fail"
      BY <1>0, <1>3, <2>3, GotoJob DEF AdmitStateful, StopBackend
    <3> QED
      BY <1>0, <1>a, <2>1, <3>1 DEF BackendMove, Stops
  <2> QED
    BY <2>2, <2>3
<1>4. ASSUME Start PROVE BackendMove
  <2>1. CASE UNCHANGED <<backend, port>> /\ Goto("abort")
    <3>1. job'.pc = "abort" /\ job.pc = "start"
      BY <1>0, <1>4, <2>1, GotoJob DEF Start
    <3> QED
      BY <2>1, <3>1 DEF BackendMove
  <2>2. CASE StartBackend(job.dep, IF job.linked THEN "health" ELSE "abort")
    <3>1. PICK p \in FreePorts(job.dep) :
             /\ backend' = [backend EXCEPT ![job.dep] = "running"]
             /\ port' = [port EXCEPT ![job.dep] = p]
             /\ job' = [job EXCEPT !.port = p, !.pc = IF job.linked THEN "health" ELSE "abort"]
      BY <2>2 DEF StartBackend
    <3>2. job'.port = p /\ job'.pc \in {"health", "abort"} /\ job.pc = "start"
      BY <1>0, <1>4, <3>1 DEF Start, Jobs, Idle
    <3> QED
      BY <1>0, <1>a, <3>1, <3>2 DEF BackendMove, Starts, Stops
  <2> QED
    BY <1>4, <2>1, <2>2 DEF Start
<1>5. ASSUME Abort PROVE BackendMove
  <2>1. job.pc = "abort"
    BY <1>5 DEF Abort
  <2>2. CASE StopBackend(job.dep, "absent")
    <3>1. /\ backend' = [backend EXCEPT ![job.dep] = "absent"]
          /\ port' = [port EXCEPT ![job.dep] = 0]
      BY <2>2 DEF StopBackend
    <3> QED
      BY <1>0, <1>a, <2>1, <3>1 DEF BackendMove, Stops
  <2>3. CASE Fault /\ UNCHANGED <<backend, port>>
    <3>1. ~NoFault'
      BY <2>3 DEF Fault, NoFault, IInv, TypeOK, Counters
    <3> QED
      BY <2>1, <2>3, <3>1 DEF BackendMove
  <2> QED
    BY <1>5, <2>2, <2>3 DEF Abort
<1>6. ASSUME Unstop PROVE BackendMove
  <2> DEFINE d == job.stopped.dep
  <2>1. job.pc = "unstop" /\ d \in Deployments
    BY <1>6, JobFields DEF Unstop, IInv, JobInv, TypeOK, Route
  <2>2. ASSUME NEW pc \in {"rcommit", "fail"}, StartBackend(d, pc) PROVE BackendMove
    <3>1. PICK p \in FreePorts(d) :
             /\ backend' = [backend EXCEPT ![d] = "running"]
             /\ port' = [port EXCEPT ![d] = p]
      BY <2>2 DEF StartBackend
    <3>2. job'.pc = pc
      BY <1>0, <2>1, <2>2, StartJob
    <3> QED
      BY <1>0, <2>1, <3>1, <3>2 DEF BackendMove, Starts, Stops
  <2>3. ASSUME UNCHANGED <<backend, port>> PROVE BackendMove
    BY <2>1, <2>3, SameBackends
  <2> QED
    BY <1>6, <2>2, <2>3 DEF Unstop
<1>7. ASSUME Restart PROVE BackendMove
  <2>1. CASE UNCHANGED <<backend, port>>
    BY <1>7, <2>1, SameBackends DEF Restart
  <2>2. CASE HasRoute(job.dep) /\ StartBackend(job.dep, "rhealth")
    <3>1. PICK p \in FreePorts(job.dep) :
             /\ backend' = [backend EXCEPT ![job.dep] = "running"]
             /\ port' = [port EXCEPT ![job.dep] = p]
      BY <2>2 DEF StartBackend
    <3>2. job'.pc = "rhealth" /\ job.pc = "restart"
      BY <1>0, <1>7, <2>2, StartJob DEF Restart
    <3> QED
      BY <1>0, <1>a, <2>2, <3>1, <3>2 DEF BackendMove, Starts, Stops
  <2> QED
    BY <1>7, <2>1, <2>2 DEF Restart
<1>8. ASSUME NEW d \in Deployments, Drain(d) PROVE BackendMove
  <2>1. /\ backend' = [backend EXCEPT ![d] = "absent"]
        /\ port' = [port EXCEPT ![d] = 0]
        /\ d \in drains /\ UNCHANGED job
    BY <1>8 DEF Drain, StopBackend
  <2>2. \A e \in Deployments : e # d => backend'[e] = backend[e] /\ port'[e] = port[e]
    BY <1>0, <2>1
  <2> QED
    BY <1>0, <2>1, <2>2 DEF BackendMove, Stops
<1>9. ASSUME NEW d \in Deployments, RecoverMarker(d) PROVE BackendMove
  <2>1. CASE UNCHANGED <<backend, port>>
    BY <1>9, <2>1 DEF BackendMove, RecoverMarker
  <2>2. CASE ~HasRoute(d) /\ StopBackend(d, "absent")
    <3>1. /\ backend' = [backend EXCEPT ![d] = "absent"]
          /\ port' = [port EXCEPT ![d] = 0]
          /\ conn = "markers" /\ d \in markers /\ UNCHANGED job
      BY <1>9, <2>2 DEF RecoverMarker, StopBackend
    <3> QED
      BY <1>0, <2>2, <3>1 DEF BackendMove, Stops
  <2> QED
    BY <1>9, <2>1, <2>2 DEF RecoverMarker, MarkerCommitted
<1>10. ASSUME HostReboot PROVE BackendMove
  <2>1. ~NoCrash' /\ UNCHANGED backend /\ job'.pc = "idle"
    BY <1>10 DEF HostReboot, NoCrash, IInv, TypeOK, Counters, AgentDies, Idle
  <2> QED
    BY <2>1 DEF BackendMove, Stops
<1>11. ASSUME Build \/ Health \/ Mark \/ ApplyCandidate \/ ApplyFirst \/ ApplyFails \/ Verify \/ Commit
              \/ Promote \/ PromoteFails \/ Clear \/ Restore \/ UnstopFails \/ Fail \/ Settle
       PROVE  BackendMove
  BY <1>11, SameBackends DEF Build, Health, Mark, ApplyCandidate, ApplyFirst, ApplyFails, Verify, Commit,
     Promote, PromoteFails, Clear, Restore, UnstopFails, Fail, Settle, docker
<1>12. ASSUME RestartHealth \/ RestartCommit \/ RestartApply \/ RestartVerify
       PROVE  BackendMove
  BY <1>12, SameBackends DEF RestartHealth, RestartCommit, RestartApply, RestartVerify, docker
<1>13. ASSUME Connect \/ RecoverApply \/ Serve \/ \E d \in Deployments : RecoverReport(d)
       PROVE  BackendMove
  BY <1>13 DEF Connect, RecoverApply, Serve, RecoverReport, docker, BackendMove
<1>14. ASSUME \E d \in Deployments : ReceiveDeploy(d) \/ ReceiveRestart(d) \/ MonitorRestart(d)
       PROVE  BackendMove
  BY <1>14 DEF ReceiveDeploy, ReceiveRestart, MonitorRestart, docker, BackendMove
<1>15. ASSUME Disconnect PROVE BackendMove
  <2>1. UNCHANGED <<backend, port>> /\ job'.pc = job.pc
    BY <1>0, <1>15 DEF Disconnect, docker, Unlink, Jobs, Idle
  <2> QED
    BY <2>1 DEF BackendMove
<1>16. ASSUME AgentCrash PROVE BackendMove
  BY <1>16 DEF AgentCrash, AgentDies, Idle, docker, BackendMove
<1>17. ASSUME NEW c \in pending, TakeRuntimeMu(c) PROVE BackendMove
  BY <1>17, SameBackends DEF TakeRuntimeMu, docker
<1> QED
  BY <1>1, <1>2, <1>3, <1>4, <1>5, <1>6, <1>7, <1>8, <1>9, <1>10, <1>11, <1>12, <1>13, <1>14,
     <1>15, <1>16, <1>17
  DEF Next, JobStep, DeployStep, RestartStep, ConnStep

-----------------------------------------------------------------------------
(* Listeners and volumes *)

\* A route belongs to the service it is written for, a switch that is under way
\* has found no other service on its port, and no two services share one.
RowsInv ==
    /\ \A s \in Services : routes[s] # NoRoute => ServiceOf[routes[s].dep] = s
    /\ job.pc \in {"apply", "verify", "commit"} => ~PortConflict(job.dep)
    /\ ListenersDistinct

\* The backend that was stopped for a candidate holds the route of the
\* candidate's service, until the candidate has it or the backend is back.
StoppedInv ==
    /\ job.pc \in {"build", "admit"} => job.stopped = NoRoute
    /\ job.pc # "idle" /\ job.stopped # NoRoute =>
          /\ ServiceOf[job.stopped.dep] = ServiceOf[job.dep]
          /\ ServiceOf[job.dep] \in Stateful
          /\ job.pc \notin {"promote", "clear", "settle"} => HasRoute(job.stopped.dep)

\* the stages in which a candidate's backend may run
Trial == {"health", "mark", "apply", "verify", "commit", "restore", "abort"}

\* A backend of a stateful service that runs holds the route or is on trial,
\* and while a candidate is on trial the backend that holds the route is down.
WriterInv ==
    NoCrash /\ NoFault =>
        /\ \A d \in Deployments : ServiceOf[d] \in Stateful /\ backend[d] = "running" =>
              HasRoute(d) \/ (job.pc \in Trial /\ job.dep = d)
        /\ job.pc \in Trial \union {"start"} =>
              /\ ~HasRoute(job.dep)
              /\ \A e \in Deployments :
                    ServiceOf[e] = ServiceOf[job.dep] /\ ServiceOf[e] \in Stateful /\ HasRoute(e)
                       => backend[e] # "running"

ApartInv == IInv /\ RowsInv /\ StoppedInv /\ WriterInv

\* A switch gives its service to the candidate and leaves the others alone.
LEMMA TableOf ==
    ASSUME IInv, NEW d \in Deployments, job.port \in Ports
    PROVE  /\ NextTable(d)[ServiceOf[d]] # NoRoute
           /\ NextTable(d)[ServiceOf[d]].dep = d
           /\ NextTable(d)[ServiceOf[d]].port = job.port
           /\ \A s \in Services : s # ServiceOf[d] => NextTable(d)[s] = routes[s]
<1>1. NextTable(d)[ServiceOf[d]] = [dep |-> d, port |-> job.port]
  BY ServiceAssumption DEF NextTable, IInv, TypeOK, Table
<1>2. [dep |-> d, port |-> job.port] # NoRoute
  BY AbsentAssumption
<1> QED
  BY <1>1, <1>2, ServiceAssumption DEF NextTable, IInv, TypeOK, Table

\* the deployment whose route a restart rewrites
LEMMA TargetType ==
    ASSUME IInv, job.pc \in {"rcommit", "rapply", "rverify"}
    PROVE  Target \in Deployments
BY JobFields DEF IInv, JobInv, TypeOK, Target, Route

\* who holds a route after a step: as before, or the candidate of the commit
LEMMA RouteHolders ==
    ASSUME IInv, RoutesMove, NEW d \in Deployments
    PROVE  /\ job.pc # "commit" => (HasRoute(d)' <=> HasRoute(d))
           /\ job.pc = "commit" /\ ServiceOf[d] # ServiceOf[job.dep] => (HasRoute(d)' <=> HasRoute(d))
           /\ ~UNCHANGED routes /\ job.pc = "commit" /\ ServiceOf[d] = ServiceOf[job.dep]
                => (HasRoute(d)' <=> d = job.dep)
<1>1. CASE UNCHANGED routes
  BY <1>1 DEF HasRoute, RouteOf
<1>2. CASE job.pc = "commit" /\ routes' = NextTable(job.dep)
  <2>1. job.dep \in Deployments /\ job.port \in Ports
    BY <1>2, JobFields DEF IInv, JobInv, TypeOK
  <2> QED
    BY <1>2, <2>1, TableOf, ServiceAssumption DEF HasRoute, RouteOf
<1>3. CASE job.pc = "rcommit" /\ HasRoute(Target) /\ routes' = NextTable(Target)
  <2>1. Target \in Deployments /\ job.port \in Ports
    BY <1>3, TargetType DEF IInv, JobInv
  <2> QED
    BY <1>3, <2>1, TableOf, ServiceAssumption DEF HasRoute, RouteOf
<1> QED
  BY <1>1, <1>2, <1>3 DEF RoutesMove

\* which services have a route after a step
LEMMA RoutedServices ==
    ASSUME IInv, RoutesMove, NEW s \in Services, routes'[s] # NoRoute
    PROVE  \/ routes[s] # NoRoute /\ routes'[s].dep = routes[s].dep
           \/ /\ job.pc = "commit" /\ job'.pc = "promote"
              /\ s = ServiceOf[job.dep] /\ routes'[s].dep = job.dep
<1>1. CASE UNCHANGED routes
  BY <1>1
<1>2. CASE job.pc = "commit" /\ job'.pc = "promote" /\ routes' = NextTable(job.dep)
  <2>1. job.dep \in Deployments /\ job.port \in Ports
    BY <1>2, JobFields DEF IInv, JobInv, TypeOK
  <2> QED
    BY <1>2, <2>1, TableOf
<1>3. CASE job.pc = "rcommit" /\ HasRoute(Target) /\ routes' = NextTable(Target)
  <2>1. Target \in Deployments /\ job.port \in Ports
    BY <1>3, TargetType DEF IInv, JobInv
  <2> QED
    BY <1>3, <2>1, TableOf DEF HasRoute, RouteOf
<1> QED
  BY <1>1, <1>2, <1>3 DEF RoutesMove

LEMMA RowsStep ==
    ASSUME IInv, RowsInv, Next
    PROVE  RowsInv'
<1>1. RoutesMove /\ Moved
  BY RoutesMoves, JobMoves
<1>2. ASSUME NEW s \in Services, routes'[s] # NoRoute
      PROVE  ServiceOf[routes'[s].dep] = s
  BY <1>1, <1>2, RoutedServices DEF RowsInv
<1>3. ASSUME job'.pc \in {"apply", "verify", "commit"}
      PROVE  ~PortConflict(job.dep)' /\ UNCHANGED routes
  <2>1. UNCHANGED routes
    BY <1>1, <1>3 DEF RoutesMove
  <2>2. job'.dep = job.dep /\ ~PortConflict(job.dep)
    BY <1>1, <1>3 DEF Moved, Begins, Follows, Carries, Looked, RowsInv
  <2> QED
    BY <2>1, <2>2 DEF PortConflict
<1>4. ASSUME NEW s \in Services, NEW t \in Services,
             routes'[s] # NoRoute, routes'[t] # NoRoute, HostPort[s] = HostPort[t]
      PROVE  s = t
  <2>1. CASE routes[s] # NoRoute /\ routes[t] # NoRoute
    BY <1>4, <2>1 DEF RowsInv, ListenersDistinct
  <2>2. CASE job.pc = "commit" /\ (s = ServiceOf[job.dep] \/ t = ServiceOf[job.dep])
    <3>1. /\ routes[s] # NoRoute \/ s = ServiceOf[job.dep]
          /\ routes[t] # NoRoute \/ t = ServiceOf[job.dep]
      BY <1>1, <1>4, RoutedServices
    <3>2. ~PortConflict(job.dep)
      BY <2>2 DEF RowsInv
    <3> QED
      BY <1>4, <2>2, <3>1, <3>2 DEF PortConflict
  <2> QED
    BY <1>1, <1>4, <2>1, <2>2, RoutedServices
<1> QED
  BY <1>2, <1>3, <1>4 DEF RowsInv, ListenersDistinct

LEMMA StoppedStep ==
    ASSUME IInv, RowsInv, StoppedInv, Next
    PROVE  StoppedInv'
<1>1. RoutesMove /\ Moved
  BY RoutesMoves, JobMoves
<1>2. CASE job'.pc = "idle"
  BY <1>2 DEF StoppedInv
<1>3. CASE job.pc = "idle" /\ Begins
  BY <1>3 DEF Begins, StoppedInv
<1>4. CASE job.pc # "idle" /\ Follows(job.pc, job'.pc) /\ Carries /\ Looked
  <2>1. job.dep \in Deployments /\ job.stopped \in Route \union {NoRoute}
    BY <1>4, JobFields DEF IInv, TypeOK
  <2>2. job.stopped # NoRoute => job.stopped.dep \in Deployments
    BY <2>1 DEF Route
  <2>3. CASE job'.stopped = job.stopped
    <3>1. job'.pc \in {"build", "admit"} => job'.stopped = NoRoute
      BY <1>4, <2>3 DEF Follows, StoppedInv
    <3>2. ASSUME job.stopped # NoRoute, job'.pc \notin {"promote", "clear", "settle"}
          PROVE  HasRoute(job.stopped.dep)'
      <4>1. job.pc \notin {"promote", "clear", "settle"} /\ HasRoute(job.stopped.dep)
        BY <1>4, <3>2 DEF Follows, StoppedInv
      <4>2. job.pc = "commit" => UNCHANGED routes
        BY <1>1, <3>2 DEF RoutesMove
      <4>3. HasRoute(job.stopped.dep)' <=> HasRoute(job.stopped.dep)
        BY <1>1, <2>2, <2>3, <3>2, <4>2, RouteHolders DEF HasRoute, RouteOf
      <4> QED
        BY <4>1, <4>3
    <3> QED
      BY <1>4, <2>3, <3>1, <3>2 DEF StoppedInv, Carries, HasRoute, RouteOf
  <2>4. CASE job.pc = "admit" /\ job'.stopped = RouteOf(job.dep) /\ job'.stopped # job.stopped
    <3>1. /\ RouteOf(job.dep) # NoRoute /\ ServiceOf[job.dep] \in Stateful
          /\ job'.pc = "start"
      BY <1>4, <2>4 DEF Looked, NeedsStop
    <3>2. ServiceOf[RouteOf(job.dep).dep] = ServiceOf[job.dep]
      BY <2>1, <3>1, ServiceAssumption DEF RouteOf, RowsInv
    <3>3. UNCHANGED routes
      BY <1>1, <2>4 DEF RoutesMove
    <3> QED
      BY <1>4, <2>4, <3>1, <3>2, <3>3 DEF Carries, StoppedInv, HasRoute, RouteOf
  <2> QED
    BY <1>4, <2>3, <2>4 DEF Carries
<1> QED
  BY <1>1, <1>2, <1>3, <1>4 DEF Moved

LEMMA WriterStep ==
    ASSUME ApartInv, Next
    PROVE  WriterInv'
<1> SUFFICES ASSUME NoCrash', NoFault'
             PROVE  /\ \A d \in Deployments : ServiceOf[d] \in Stateful /\ backend'[d] = "running" =>
                          HasRoute(d)' \/ (job'.pc \in Trial /\ job'.dep = d)
                    /\ job'.pc \in Trial \union {"start"} =>
                          /\ ~HasRoute(job.dep)'
                          /\ \A e \in Deployments :
                                ServiceOf[e] = ServiceOf[job'.dep] /\ ServiceOf[e] \in Stateful /\ HasRoute(e)'
                                   => backend'[e] # "running"
  BY DEF WriterInv
<1>1. IInv /\ RoutesMove /\ Moved /\ BackendMove /\ NoCrash /\ NoFault
  BY RoutesMoves, JobMoves, BackendMoves, Monotone DEF ApartInv
<1>2. job.pc # "idle" => job.dep \in Deployments
  BY <1>1, JobFields DEF IInv, TypeOK
<1>3. ASSUME NEW d \in Deployments, ServiceOf[d] \in Stateful, backend'[d] = "running"
      PROVE  HasRoute(d)' \/ (job'.pc \in Trial /\ job'.dep = d)
  <2>1. CASE backend[d] = "running" /\ HasRoute(d)
    <3>1. job.pc = "commit" /\ ServiceOf[d] = ServiceOf[job.dep] => FALSE
      BY <1>1, <1>3, <2>1 DEF ApartInv, WriterInv, Trial
    <3> QED
      BY <1>1, <2>1, <3>1, RouteHolders
  <2>2. CASE job.pc \in Trial /\ job.dep = d
    <3>1. job'.pc \in Trial \union {"promote", "unstop", "fail"} /\ job'.dep = d
      BY <1>1, <2>2 DEF Moved, Last, Follows, Carries, Trial
    <3>2. CASE job'.pc = "promote"
      <4>1. job.pc = "commit" /\ routes' = NextTable(job.dep) /\ job.port \in Ports
        BY <1>1, <2>2, <3>2 DEF RoutesMove, Moved, Follows, Trial, IInv, JobInv
      <4> QED
        BY <1>1, <1>3, <2>2, <4>1, TableOf DEF HasRoute, RouteOf
    <3>3. CASE job'.pc \in {"unstop", "fail"}
      BY <1>1, <1>3, <2>2, <3>3 DEF BackendMove, Moved, Follows, Trial
    <3> QED
      BY <3>1, <3>2, <3>3
  <2>3. CASE backend[d] # "running"
    <3>1. Starts(d)
      BY <1>1, <1>3, <2>3 DEF BackendMove
    <3>2. CASE job.pc = "start"
      BY <1>1, <3>1, <3>2 DEF Starts, Trial, Moved, Carries, Last
    <3>3. CASE job.pc \in {"unstop", "restart"}
      <4>1. HasRoute(d)
        BY <1>1, <3>1, <3>3 DEF Starts, ApartInv, StoppedInv, IInv, JobInv
      <4> QED
        BY <1>1, <3>3, <4>1, RouteHolders
    <3> QED
      BY <3>1, <3>2, <3>3 DEF Starts
  <2> QED
    BY <1>1, <1>3, <2>1, <2>2, <2>3 DEF ApartInv, WriterInv
<1>4. ASSUME job'.pc \in Trial \union {"start"}
      PROVE  /\ ~HasRoute(job.dep)'
             /\ \A e \in Deployments :
                   ServiceOf[e] = ServiceOf[job'.dep] /\ ServiceOf[e] \in Stateful /\ HasRoute(e)'
                      => backend'[e] # "running"
  <2>1. UNCHANGED routes
    BY <1>1, <1>4 DEF RoutesMove, Trial
  <2>2. /\ job.pc # "idle" /\ job'.dep = job.dep
        /\ job.pc \in Trial \union {"start"} \/ (job.pc = "admit" /\ job'.pc = "start")
    BY <1>1, <1>4 DEF Moved, Begins, Follows, Carries, Trial
  <2>3. ~HasRoute(job.dep)
    BY <1>1, <2>2 DEF Moved, Looked, ApartInv, WriterInv, Trial, Begins
  <2>4. ASSUME NEW e \in Deployments, ServiceOf[e] = ServiceOf[job.dep],
               ServiceOf[e] \in Stateful, HasRoute(e)
        PROVE  backend'[e] # "running"
    <3>1. CASE job.pc = "admit"
      BY <1>1, <2>2, <2>4, <3>1 DEF BackendMove, NeedsStop, HasRoute, RouteOf, Trial
    <3>2. CASE job.pc # "admit"
      <4>1. backend[e] # "running"
        BY <1>1, <2>2, <2>4, <3>2 DEF ApartInv, WriterInv
      <4>2. ~Starts(e)
        BY <1>1, <2>2, <2>3, <2>4, <3>2 DEF Starts, Trial
      <4> QED
        BY <1>1, <4>1, <4>2 DEF BackendMove
    <3> QED
      BY <3>1, <3>2
  <2> QED
    BY <2>1, <2>2, <2>3, <2>4 DEF HasRoute, RouteOf
<1> QED
  BY <1>3, <1>4

LEMMA WriterExclusive ==
    ASSUME ApartInv
    PROVE  BackendsApart
<1>1. ASSUME NoCrash, NoFault, NEW d \in Deployments, NEW e \in Deployments,
             backend[d] = "running", backend[e] = "running",
             ServiceOf[d] = ServiceOf[e], ServiceOf[d] \in Stateful
      PROVE  d = e
  <2>1. CASE HasRoute(d) /\ HasRoute(e)
    BY <1>1, <2>1 DEF HasRoute, RouteOf
  <2>2. CASE job.pc \in Trial /\ (job.dep = d \/ job.dep = e)
    BY <1>1, <2>2 DEF ApartInv, WriterInv
  <2> QED
    BY <1>1, <2>1, <2>2 DEF ApartInv, WriterInv
<1> QED
  BY <1>1 DEF BackendsApart, SingleWriter, ApartInv, RowsInv

LEMMA ApartInvariance == Spec => []ApartInv
<1>1. Init => ApartInv
  BY InitInv DEF Init, ApartInv, RowsInv, ListenersDistinct, StoppedInv, WriterInv, Trial, Idle, EmptyTable
<1>2. ASSUME ApartInv, [Next]_vars PROVE ApartInv'
  <2>1. CASE Next
    <3>1. IInv'
      BY <1>2, <2>1, TypeStep, JobInvStep, PortStep, LockStep, CommitStep DEF IInv, ApartInv
    <3> QED
      BY <1>2, <2>1, <3>1, RowsStep, StoppedStep, WriterStep DEF ApartInv
  <2>2. CASE UNCHANGED vars
    <3>1. IInv'
      BY <1>2, <2>2, StutterInv DEF ApartInv
    <3> QED
      BY <1>2, <2>2, <3>1 DEF ApartInv, vars, RowsInv, ListenersDistinct, PortConflict, StoppedInv,
         WriterInv, NoCrash, NoFault, HasRoute, RouteOf
  <2> QED
    BY <1>2, <2>1, <2>2
<1> QED
  BY <1>1, <1>2, PTL DEF Spec

\* No two services share a stable listener, and until something crashes or
\* fails a persistent volume has one writer, however deployments and restarts
\* of one service follow each other and whichever backend is stopped, brought
\* back or drained (upsertRuntimeRoute, stopStatefulPreviousBackend,
\* restoreStatefulPreviousBackend).
THEOREM ListenersAndVolumesApart == Spec => []BackendsApart
BY ApartInvariance, WriterExclusive, PTL

-----------------------------------------------------------------------------
(* The router and the markers *)

\* What a step does to the router's configuration, to the promotion markers and
\* to the connection: nothing, one stage of a switch, a restore or a restart
\* that applies routes.json again, one step of recovery, a stopped router that
\* is started although one of these fails, or a reboot.
Still ==
    /\ live' = live /\ router'.state = router.state /\ UNCHANGED markers
    /\ conn' \in {conn, "none", "markers"} \/ (conn = "report" /\ conn' = "serving")
    /\ job.pc = "mark" => job'.pc # "apply"
    /\ job.pc \in {"apply", "restore"} => job'.pc = job.pc \/ (job'.pc # "verify" /\ ~NoFault')
Marks ==
    /\ job.pc = "mark" /\ job'.pc = "apply" /\ markers' = markers \union {job.dep}
    /\ UNCHANGED <<routes, live, router, conn>>
Applies ==
    /\ job.pc = "apply" /\ job'.pc = "verify"
    /\ live' = NextTable(job.dep) /\ router'.state = "running"
    /\ UNCHANGED <<routes, markers, conn>>
ApplyStopped ==
    /\ job.pc = "apply" /\ job'.pc = "restore" /\ router.state = "stopped" /\ ~NoFault'
    /\ UNCHANGED <<routes, markers, conn>>
Clears ==
    /\ job.pc = "clear" /\ job'.pc = "settle" /\ markers' = markers \ {job.dep}
    /\ UNCHANGED <<routes, live, router, conn>>
Reapplies ==
    /\ \/ job.pc = "restore" /\ job'.pc = "abort" /\ markers' = markers \ {job.dep}
       \/ job.pc = "rapply" /\ job'.pc = "rverify" /\ UNCHANGED markers
    /\ ApplyCommitted(routes)
    /\ UNCHANGED <<routes, conn>>
Forgets ==
    /\ conn = "markers" /\ \E d \in markers : markers' = markers \ {d}
    /\ UNCHANGED <<routes, live, router, conn, job>>
Recovers ==
    /\ conn = "markers" /\ conn' = "report" /\ ApplyCommitted(routes)
    /\ UNCHANGED <<routes, markers, job>>
Wakes ==
    /\ router.state = "stopped" /\ router'.state = "running" /\ live' = routes /\ ~NoFault'
    /\ \/ job.pc = "restore" /\ job'.pc = "abort" /\ UNCHANGED conn
       \/ job.pc = "rapply" /\ job'.pc \in {"fail", "idle"} /\ UNCHANGED conn
       \/ conn = "markers" /\ conn' = "none" /\ UNCHANGED job
    /\ UNCHANGED <<routes, markers>>
Reboots == conn' = "none" /\ job'.pc = "idle" /\ ~NoCrash' /\ UNCHANGED <<routes, markers>>

ConfigMove ==
    \/ Still \/ Marks \/ Applies \/ ApplyStopped \/ Clears \/ Reapplies \/ Forgets \/ Recovers
    \/ Wakes \/ Reboots

\* an application of routes.json that fails leaves the router as it is, or wakes it
LEMMA FailedMoves ==
    ASSUME TypeOK, ApplyCommittedFails(routes)
    PROVE  /\ ~NoFault'
           /\ \/ live' = live /\ router' = router
              \/ router.state = "stopped" /\ router'.state = "running" /\ live' = routes
BY DEF TypeOK, Counters, ApplyCommittedFails, Fault, NoFault

LEMMA StillMoves ==
    ASSUME live' = live, router' = router, UNCHANGED <<markers, conn>>,
           job.pc \in {"mark", "apply", "restore"} => job'.pc = job.pc \/ (job.pc = "mark" /\ job'.pc # "apply")
    PROVE  ConfigMove
BY DEF ConfigMove, Still

LEMMA ConfigMoves ==
    ASSUME IInv, Next
    PROVE  ConfigMove
<1>0. job \in Jobs /\ used \in Counters
  BY DEF IInv, TypeOK
<1>a. ASSUME Fault PROVE ~NoFault'
  BY <1>0, <1>a DEF Fault, NoFault, Counters
<1>1. ASSUME Mark PROVE ConfigMove
  <2>1. CASE Goto("abort") /\ UNCHANGED markers
    <3>1. job'.pc = "abort" /\ job.pc = "mark"
      BY <1>0, <1>1, <2>1, GotoJob DEF Mark
    <3> QED
      BY <1>1, <2>1, <3>1, StillMoves DEF Mark, docker
  <2>2. CASE markers' = markers \union {job.dep} /\ job' = [job EXCEPT !.pc = "apply", !.previous = RouteOf(job.dep)]
    <3>1. job'.pc = "apply"
      BY <1>0, <1>1, <2>2 DEF Mark, Jobs, Idle
    <3> QED
      BY <1>1, <2>2, <3>1 DEF Mark, ConfigMove, Marks, docker
  <2> QED
    BY <1>1, <2>1, <2>2 DEF Mark
<1>2. ASSUME ApplyCandidate PROVE ConfigMove
  <2>1. job'.pc = "verify" /\ router'.state = "running"
    BY <1>0, <1>2, GotoJob DEF ApplyCandidate, IInv, TypeOK
  <2> QED
    BY <1>2, <2>1 DEF ApplyCandidate, ConfigMove, Applies
<1>3. ASSUME ApplyFirst PROVE ConfigMove
  <2>1. job'.pc = "verify"
    BY <1>0, <1>3 DEF ApplyFirst, Jobs, Idle
  <2> QED
    BY <1>3, <2>1 DEF ApplyFirst, ConfigMove, Applies, FirstRouter
<1>4. ASSUME ApplyFails PROVE ConfigMove
  <2>1. job'.pc = "restore" /\ job.pc = "apply" /\ ~NoFault' /\ UNCHANGED <<routes, markers, conn>>
    BY <1>0, <1>4, <1>a, GotoJob DEF ApplyFails
  <2>2. CASE router.state = "stopped"
    BY <2>1, <2>2 DEF ConfigMove, ApplyStopped
  <2>3. CASE router.state # "stopped"
    <3>1. live' = live /\ router'.state = router.state
      BY <1>4, <2>3 DEF ApplyFails, IInv, TypeOK
    <3> QED
      BY <2>1, <3>1 DEF ConfigMove, Still
  <2> QED
    BY <2>2, <2>3
<1>5. ASSUME Promote PROVE ConfigMove
  <2>1. live' = live /\ router'.state = router.state /\ UNCHANGED <<markers, conn>> /\ job.pc = "promote"
    BY <1>5 DEF Promote, IInv, TypeOK
  <2> QED
    BY <2>1 DEF ConfigMove, Still
<1>6. ASSUME Clear PROVE ConfigMove
  <2>1. job'.pc = "settle" /\ job.pc = "clear"
    BY <1>0, <1>6, GotoJob DEF Clear
  <2> QED
    BY <1>6, <2>1, StillMoves DEF Clear, ConfigMove, Clears, docker
<1>7. ASSUME Restore PROVE ConfigMove
  <2>1. job'.pc = "abort" /\ job.pc = "restore"
    BY <1>0, <1>7, GotoJob DEF Restore
  <2>2. CASE ApplyCommitted(routes) /\ markers' = markers \ {job.dep}
    BY <1>7, <2>1, <2>2 DEF Restore, ConfigMove, Reapplies
  <2>3. CASE RestoreFails
    BY <1>7, <2>1, <2>3, FailedMoves DEF Restore, RestoreFails, ConfigMove, Still, Wakes, IInv
  <2> QED
    BY <1>7, <2>2, <2>3 DEF Restore
<1>8. ASSUME RestartApply PROVE ConfigMove
  <2>1. CASE ApplyCommitted(routes) /\ Goto("rverify")
    <3>1. job'.pc = "rverify" /\ job.pc = "rapply"
      BY <1>0, <1>8, <2>1, GotoJob DEF RestartApply
    <3> QED
      BY <1>8, <2>1, <3>1 DEF RestartApply, ConfigMove, Reapplies
  <2>2. CASE ApplyCommittedFails(routes) /\ EndRestart
    <3>1. job'.pc \in {"fail", "idle"} /\ job.pc = "rapply"
      BY <1>0, <1>8, <2>2, GotoJob DEF RestartApply, EndRestart, Idle
    <3> QED
      BY <1>8, <2>2, <3>1, FailedMoves, StillMoves DEF RestartApply, ConfigMove, Wakes, IInv
  <2> QED
    BY <1>8, <2>1, <2>2 DEF RestartApply
<1>9. ASSUME Build \/ AdmitRouted \/ AdmitRefused \/ AdmitStateless \/ AdmitStateful \/ Start \/ Health
      PROVE  ConfigMove
  BY <1>9, StillMoves DEF Build, AdmitRouted, AdmitRefused, AdmitStateless, AdmitStateful, Start, Health,
     files, docker
<1>10. ASSUME Verify \/ Commit \/ PromoteFails \/ Abort \/ Unstop \/ UnstopFails \/ Fail \/ Settle
       PROVE  ConfigMove
  BY <1>10, StillMoves DEF Verify, Commit, PromoteFails, Abort, Unstop, UnstopFails, Fail, Settle,
     files, docker
<1>11. ASSUME Restart \/ RestartHealth \/ RestartCommit \/ RestartVerify
       PROVE  ConfigMove
  BY <1>11, StillMoves DEF Restart, RestartHealth, RestartCommit, RestartVerify, files, docker
<1>12. ASSUME \E d \in Deployments : ReceiveDeploy(d) \/ ReceiveRestart(d) \/ Drain(d) \/ MonitorRestart(d)
       PROVE  ConfigMove
  BY <1>12, StillMoves DEF ReceiveDeploy, ReceiveRestart, Drain, MonitorRestart, files, docker
<1>13. ASSUME \E c \in pending : TakeRuntimeMu(c) PROVE ConfigMove
  BY <1>13, StillMoves DEF TakeRuntimeMu, files, docker
<1>14. ASSUME Connect \/ Serve \/ \E d \in Deployments : RecoverReport(d)
       PROVE  ConfigMove
  BY <1>14 DEF Connect, Serve, RecoverReport, files, docker, ConfigMove, Still
<1>15. ASSUME NEW d \in Deployments, RecoverMarker(d) PROVE ConfigMove
  BY <1>15 DEF RecoverMarker, ConfigMove, Forgets
<1>16. ASSUME RecoverApply PROVE ConfigMove
  <2>1. CASE ApplyCommitted(routes) /\ conn' = "report"
    BY <1>16, <2>1 DEF RecoverApply, ConfigMove, Recovers
  <2>2. CASE ApplyCommittedFails(routes) /\ conn' = "none"
    BY <1>16, <2>2, FailedMoves DEF RecoverApply, ConfigMove, Still, Wakes, IInv
  <2> QED
    BY <1>16, <2>1, <2>2 DEF RecoverApply, RecoveryTable
<1>17. ASSUME Disconnect PROVE ConfigMove
  <2>1. job'.pc = job.pc
    BY <1>0, <1>17 DEF Disconnect, Unlink, Jobs, Idle
  <2> QED
    BY <1>17, <2>1 DEF Disconnect, files, docker, ConfigMove, Still
<1>18. ASSUME AgentCrash PROVE ConfigMove
  BY <1>0, <1>18 DEF AgentCrash, AgentDies, Idle, files, docker, ConfigMove, Reboots, NoCrash, Counters
<1>19. ASSUME HostReboot PROVE ConfigMove
  BY <1>0, <1>19 DEF HostReboot, AgentDies, Idle, files, ConfigMove, Reboots, NoCrash, Counters
<1> QED
  BY <1>1, <1>2, <1>3, <1>4, <1>5, <1>6, <1>7, <1>8, <1>9, <1>10, <1>11, <1>12, <1>13, <1>14,
     <1>15, <1>16, <1>17, <1>18, <1>19
  DEF Next, JobStep, DeployStep, RestartStep, ConnStep

\* the stages in which the router may stand for a candidate
Switching == {"apply", "verify", "commit", "promote", "clear", "restore"}
Marked(s) == \E d \in markers : ServiceOf[d] = s
Agrees(s) ==
    \/ router.state = "running" /\ Dep(live[s]) = Dep(routes[s])
    \/ router.state # "running" /\ routes[s] = NoRoute

\* A switch keeps its marker from before the router changes until the route
\* is committed or the committed one is applied again; while the connection
\* serves, a listener that disagrees with routes.json has a marker.
DivInv ==
    /\ job.pc \in Switching => job.dep \in markers
    /\ job.pc \in {"verify", "commit", "promote", "clear"} =>
          router.state = "running" /\ Dep(live[ServiceOf[job.dep]]) = job.dep
    /\ job.pc \in {"promote", "clear"} => HasRoute(job.dep)
    /\ conn \in {"report", "serving"} =>
          router.state # "stopped" /\ \A s \in Services : Agrees(s) \/ Marked(s)

\* the router that applied routes.json agrees with it
LEMMA AppliedAgrees ==
    ASSUME ApplyCommitted(routes), UNCHANGED routes
    PROVE  /\ router'.state # "stopped"
           /\ \A s \in Services : Agrees(s)'
           /\ live' = routes
           /\ \A s \in Services : routes[s] # NoRoute => router'.state = "running"
BY DEF ApplyCommitted, Agrees, EmptyTable, Dep

LEMMA DivStep ==
    ASSUME IInv, DivInv, Next
    PROVE  DivInv'
<1>1. Moved /\ RoutesMove /\ ConfigMove
  BY JobMoves, RoutesMoves, ConfigMoves
<1>2. job.pc # "idle" => job.dep \in Deployments
  BY JobFields DEF IInv, TypeOK
<1>3. conn = "markers" => job.pc \notin RouterPcs
  BY DEF IInv, LockInv
<1>4. job'.pc \in Switching => job'.dep \in markers'
  <2>1. ASSUME job'.pc \in Switching
        PROVE  /\ job.pc # "idle" /\ job'.dep = job.dep
               /\ job.pc \in Switching \/ (job.pc = "mark" /\ job'.pc = "apply")
    BY <1>1, <2>1 DEF Moved, Begins, Follows, Carries, Switching
  <2> QED
    BY <1>1, <1>3, <2>1 DEF DivInv, ConfigMove, Still, Marks, Applies, ApplyStopped, Clears, Reapplies,
       Forgets, Recovers, Wakes, Reboots, Switching, RouterPcs
<1>5. ASSUME job'.pc \in {"verify", "commit", "promote", "clear"}
      PROVE  router'.state = "running" /\ Dep(live[ServiceOf[job.dep]])' = job'.dep
  <2>1. /\ job.pc # "idle" /\ job'.dep = job.dep
        /\ job.pc \in {"verify", "commit", "promote", "clear"} \/ (job.pc = "apply" /\ job'.pc = "verify")
    BY <1>1, <1>5 DEF Moved, Begins, Follows, Carries
  <2>2. CASE Applies
    <3>1. job.port \in Ports
      BY <2>2 DEF Applies, IInv, JobInv
    <3> QED
      BY <1>2, <2>1, <2>2, <3>1, TableOf DEF Applies, Dep
  <2>3. CASE Still
    BY <1>5, <2>1, <2>3 DEF Still, Dep, DivInv
  <2> QED
    BY <1>1, <1>3, <1>5, <2>1, <2>2, <2>3
    DEF ConfigMove, Marks, ApplyStopped, Clears, Reapplies, Forgets, Recovers, Wakes, Reboots, RouterPcs
<1>6. ASSUME job'.pc \in {"promote", "clear"} PROVE HasRoute(job.dep)'
  <2>1. job'.dep = job.dep /\ job.pc \in {"commit", "promote", "clear"} /\ job.pc # "idle"
        /\ (job.pc = "commit" => job'.pc = "promote")
    BY <1>1, <1>6 DEF Moved, Begins, Follows, Carries
  <2>2. CASE job.pc = "commit"
    <3>1. routes' = NextTable(job.dep) /\ job.port \in Ports
      BY <1>1, <2>1, <2>2 DEF RoutesMove, IInv, JobInv
    <3> QED
      BY <1>2, <2>1, <3>1, TableOf DEF HasRoute, RouteOf
  <2>3. CASE job.pc # "commit"
    <3>1. UNCHANGED routes
      BY <1>1, <2>1, <2>3 DEF RoutesMove
    <3> QED
      BY <2>1, <2>3, <3>1 DEF DivInv, HasRoute, RouteOf
  <2> QED
    BY <2>2, <2>3
<1>7. ASSUME conn' \in {"report", "serving"}
      PROVE  router'.state # "stopped" /\ \A s \in Services : Agrees(s)' \/ Marked(s)'
  <2>0. \/ conn \in {"report", "serving"} /\ router.state # "stopped"
           /\ \A s \in Services : Agrees(s) \/ Marked(s)
        \/ Recovers
    BY <1>1, <1>7 DEF ConfigMove, Still, Marks, Applies, ApplyStopped, Clears, Reapplies,
       Forgets, Recovers, Wakes, Reboots, DivInv
  <2>1. CASE Recovers
    BY <2>1, AppliedAgrees DEF Recovers
  <2>2. CASE Reapplies
    BY <2>2, AppliedAgrees DEF Reapplies
  <2>3. CASE Still /\ ~Recovers
    <3>1. ASSUME NEW s \in Services, ~Marked(s) PROVE Agrees(s)'
      <4>1. Agrees(s)
        BY <2>0, <2>3, <3>1
      <4>2. CASE Dep(routes'[s]) = Dep(routes[s]) /\ (routes[s] = NoRoute => routes'[s] = NoRoute)
        BY <2>3, <4>1, <4>2 DEF Still, Agrees, Dep
      <4>3. CASE job.pc = "commit" /\ s = ServiceOf[job.dep]
        BY <3>1, <4>3 DEF DivInv, Marked, Switching
      <4>4. \/ Dep(routes'[s]) = Dep(routes[s]) /\ (routes[s] = NoRoute => routes'[s] = NoRoute)
            \/ job.pc = "commit" /\ s = ServiceOf[job.dep]
        <5>1. CASE routes'[s] # NoRoute
          BY <1>1, <5>1, RoutedServices DEF Dep
        <5>2. CASE UNCHANGED routes
          BY <5>2
        <5>3. CASE routes'[s] = NoRoute /\ ~UNCHANGED routes
          <6>1. CASE job.pc = "commit" /\ routes' = NextTable(job.dep)
            BY <1>2, <5>3, <6>1, TableOf DEF IInv, JobInv
          <6>2. CASE job.pc = "rcommit" /\ HasRoute(Target) /\ routes' = NextTable(Target)
            BY <5>3, <6>2, TableOf, TargetType DEF IInv, JobInv
          <6> QED
            BY <1>1, <5>3, <6>1, <6>2 DEF RoutesMove
        <5> QED
          BY <5>1, <5>2, <5>3
      <4> QED
        BY <4>2, <4>3, <4>4
    <3> QED
      BY <2>0, <2>3, <3>1 DEF Still, Marked
  <2>4. CASE Marks
    BY <2>0, <2>4 DEF Marks, Recovers, Agrees, Marked
  <2>5. CASE Applies
    <3>1. job.dep \in markers /\ job.port \in Ports
      BY <2>5 DEF Applies, DivInv, Switching, IInv, JobInv
    <3>2. ASSUME NEW s \in Services, s # ServiceOf[job.dep] PROVE Agrees(s)'
      BY <1>2, <2>5, <3>1, <3>2, TableOf DEF Applies, Agrees
    <3> QED
      BY <2>5, <3>1, <3>2 DEF Applies, Marked
  <2>6. CASE Clears
    <3>1. Agrees(ServiceOf[job.dep])
      BY <2>6, AbsentAssumption DEF Clears, DivInv, Agrees, HasRoute, RouteOf, Dep
    <3>2. ASSUME NEW s \in Services PROVE Agrees(s) \/ Marked(s)'
      BY <2>0, <2>6, <3>1 DEF Clears, Recovers, Marked
    <3> QED
      BY <2>0, <2>6, <3>2 DEF Clears, Recovers, Agrees
  <2> QED
    BY <1>1, <1>3, <1>7, <2>0, <2>1, <2>2, <2>3, <2>4, <2>5, <2>6
    DEF ConfigMove, ApplyStopped, Forgets, Recovers, Wakes, Reboots, DivInv
<1> QED
  BY <1>4, <1>5, <1>6, <1>7 DEF DivInv, Agrees, Marked, HasRoute, RouteOf, Dep

-----------------------------------------------------------------------------
(* Commands, reports and drains *)

\* How the commands that wait change: not at all, one arrives, one becomes the
\* job, the connection or the process they came through is gone.
Waits ==
    /\ UNCHANGED pending /\ used'.deliveries = used.deliveries
    /\ job.pc = "idle" => job'.pc = "idle"
Delivers ==
    \E d \in Deployments :
        /\ used.deliveries[d] < MaxDeliveries
        /\ used'.deliveries = [used.deliveries EXCEPT ![d] = @ + 1]
        /\ \E c : c.kind = "deploy" /\ c.dep = d /\ pending' = pending \union {c}
        /\ conn = "serving" /\ UNCHANGED <<routes, job, said, markers, validated, committed, conn>>
Asks ==
    /\ conn = "serving" /\ UNCHANGED conn
    /\ \E c : c.kind # "deploy" /\ pending' = pending \union {c}
    /\ used'.deliveries = used.deliveries /\ UNCHANGED job
    /\ ~NoPortChange'
Takes ==
    \E c \in pending :
        /\ pending' = pending \ {c} /\ used'.deliveries = used.deliveries
        /\ job.pc = "idle"
        /\ \/ job'.pc = "idle"
           \/ c.kind # "deploy" /\ job'.pc = "restart"
           \/ c.kind = "deploy" /\ job'.pc = "build" /\ job'.dep = c.dep
        /\ UNCHANGED <<said, markers, committed>>
Unlinks ==
    /\ pending' = {Unlink(c) : c \in pending} /\ used'.deliveries = used.deliveries
    /\ job'.pc = job.pc
Loses == pending' = {} /\ used'.deliveries = used.deliveries /\ job'.pc = "idle"

CommandMove == Waits \/ Delivers \/ Asks \/ Takes \/ Unlinks \/ Loses

LEMMA WaitMoves ==
    ASSUME IInv, UNCHANGED pending, UNCHANGED used \/ Fault, job.pc # "idle" \/ UNCHANGED job
    PROVE  CommandMove
<1>1. used'.deliveries = used.deliveries
  BY DEF Fault, IInv, TypeOK, Counters
<1> QED
  BY <1>1 DEF CommandMove, Waits

LEMMA CommandMoves ==
    ASSUME IInv, Next
    PROVE  CommandMove
<1>0. used \in Counters /\ job \in Jobs
  BY DEF IInv, TypeOK
<1>1. ASSUME Build \/ AdmitRouted \/ AdmitRefused \/ AdmitStateless \/ AdmitStateful \/ Start \/ Health
      PROVE  CommandMove
  BY <1>1, WaitMoves DEF Build, AdmitRouted, AdmitRefused, AdmitStateless, AdmitStateful, Start, Health
<1>2. ASSUME Mark \/ ApplyCandidate \/ ApplyFirst \/ ApplyFails \/ Verify \/ Commit
      PROVE  CommandMove
  BY <1>2, WaitMoves DEF Mark, ApplyCandidate, ApplyFirst, ApplyFails, Verify, Commit
<1>3. ASSUME \/ Promote \/ PromoteFails \/ Clear \/ Restore
             \/ Abort \/ Unstop \/ UnstopFails \/ Fail \/ Settle
      PROVE  CommandMove
  BY <1>3, WaitMoves DEF Promote, PromoteFails, Clear, Restore, RestoreFails, ApplyCommittedFails,
     Abort, Unstop, UnstopFails, Fail, Settle
<1>4. ASSUME RestartStep PROVE CommandMove
  BY <1>4, WaitMoves DEF RestartStep, Restart, RestartHealth, RestartCommit, RestartApply,
     RestartVerify, ApplyCommittedFails
<1>5. ASSUME ConnStep \/ \E d \in Deployments : Drain(d) PROVE CommandMove
  BY <1>5, WaitMoves DEF ConnStep, Connect, RecoverMarker, RecoverApply, RecoverReport, Serve,
     ApplyCommittedFails, Drain
<1>6. ASSUME NEW d \in Deployments, ReceiveDeploy(d) PROVE CommandMove
  <2> DEFINE c == [kind |-> "deploy", dep |-> d, linked |-> TRUE, seq |-> used.deliveries[d]]
  <2>1. c.kind = "deploy" /\ c.dep = d /\ pending' = pending \union {c}
    BY <1>6 DEF ReceiveDeploy
  <2>2. used'.deliveries = [used.deliveries EXCEPT ![d] = @ + 1]
    BY <1>0, <1>6 DEF ReceiveDeploy, Counters
  <2>3. \E x : x.kind = "deploy" /\ x.dep = d /\ pending' = pending \union {x}
    BY <2>1
  <2> QED
    BY <1>6, <2>2, <2>3 DEF ReceiveDeploy, files, history, CommandMove, Delivers
<1>7. ASSUME NEW d \in Deployments, ReceiveRestart(d) \/ MonitorRestart(d) PROVE CommandMove
  <2> DEFINE c(kind) == [kind |-> kind, dep |-> d, linked |-> TRUE, seq |-> 0]
  <2>1. PICK kind \in {"restart", "monitor"} : pending' = pending \union {c(kind)}
    BY <1>7 DEF ReceiveRestart, MonitorRestart
  <2>2. used'.deliveries = used.deliveries /\ ~NoPortChange'
    BY <1>0, <1>7 DEF ReceiveRestart, MonitorRestart, Counters, NoPortChange
  <2>3. c(kind).kind # "deploy"
    OBVIOUS
  <2>4. \E x : x.kind # "deploy" /\ pending' = pending \union {x}
    BY <2>1, <2>3
  <2> QED
    BY <1>7, <2>2, <2>4 DEF ReceiveRestart, MonitorRestart, CommandMove, Asks
<1>9. ASSUME NEW c \in pending, TakeRuntimeMu(c) PROVE CommandMove
  <2>2. \/ job'.pc = "idle"
        \/ c.kind # "deploy" /\ job'.pc = "restart"
        \/ c.kind = "deploy" /\ job'.pc = "build" /\ job'.dep = c.dep
    BY <1>9 DEF TakeRuntimeMu, NewJob, Idle
  <2>3. pending' = pending \ {c} /\ used'.deliveries = used.deliveries /\ job.pc = "idle"
        /\ UNCHANGED <<said, markers, committed>>
    BY <1>9 DEF TakeRuntimeMu, files, history
  <2> QED
    BY <2>2, <2>3 DEF CommandMove, Takes
<1>10. ASSUME Disconnect PROVE CommandMove
  <2>1. job'.pc = job.pc
    BY <1>0, <1>10 DEF Disconnect, Unlink, Jobs, Idle
  <2>2. used'.deliveries = used.deliveries
    BY <1>0, <1>10 DEF Disconnect, Counters
  <2> QED
    BY <1>10, <2>1, <2>2 DEF Disconnect, CommandMove, Unlinks
<1>11. ASSUME AgentCrash \/ HostReboot PROVE CommandMove
  BY <1>0, <1>11 DEF AgentCrash, HostReboot, AgentDies, Idle, Counters, CommandMove, Loses
<1> QED
  BY <1>1, <1>2, <1>3, <1>4, <1>5, <1>6, <1>7, <1>9, <1>10, <1>11
  DEF Next, JobStep, DeployStep

\* FAILED is told at the end of a deployment, and by recovery for a marker
\* without a route
SaidMove ==
    \A d \in Deployments : "FAILED" \in said'[d] =>
        \/ "FAILED" \in said[d]
        \/ job.pc = "fail" /\ job'.pc = "idle" /\ d = job.dep
        \/ conn = "markers" /\ d \in markers /\ ~HasRoute(d) /\ UNCHANGED job

\* a drain is scheduled for what the switch replaced
DrainMove ==
    \/ drains' \subseteq drains
    \/ job.pc = "settle" /\ job'.pc = "idle" /\ drains' = drains \union Replaced

LEMMA SaidMoves ==
    ASSUME IInv, Next
    PROVE  SaidMove
<1>0. said \in [Deployments -> SUBSET {"READY", "FAILED", "RECOVERED"}]
  BY DEF IInv, TypeOK
<1>a. ASSUME UNCHANGED said PROVE SaidMove
  BY <1>a DEF SaidMove
<1>1. ASSUME Fail PROVE SaidMove
  BY <1>0, <1>1 DEF Fail, Tell, Idle, SaidMove
<1>2. ASSUME Settle PROVE SaidMove
  BY <1>0, <1>2 DEF Settle, Tell, SaidMove
<1>3. ASSUME NEW d \in Deployments, RecoverMarker(d) PROVE SaidMove
  BY <1>0, <1>3 DEF RecoverMarker, MarkerCommitted, SaidMove
<1>4. ASSUME NEW d \in Deployments, RecoverReport(d) PROVE SaidMove
  BY <1>0, <1>4 DEF RecoverReport, SaidMove
<1>5. ASSUME Build \/ AdmitRouted \/ AdmitRefused \/ AdmitStateless \/ AdmitStateful \/ Start \/ Health
             \/ Mark \/ ApplyCandidate \/ ApplyFirst \/ ApplyFails \/ Verify \/ Commit
             \/ Promote \/ PromoteFails \/ Clear \/ Restore \/ Abort \/ Unstop \/ UnstopFails
      PROVE  UNCHANGED said
  BY <1>5 DEF Build, AdmitRouted, AdmitRefused, AdmitStateless, AdmitStateful, Start, Health, Mark,
     ApplyCandidate, ApplyFirst, ApplyFails, Verify, Commit, Promote, PromoteFails, Clear, Restore,
     Abort, Unstop, UnstopFails
<1>6. ASSUME RestartStep \/ Connect \/ RecoverApply \/ Serve \/ Disconnect \/ AgentCrash \/ HostReboot
      PROVE  UNCHANGED said
  BY <1>6 DEF RestartStep, Restart, RestartHealth, RestartCommit, RestartApply, RestartVerify,
     Connect, RecoverApply, Serve, Disconnect, AgentCrash, HostReboot
<1>7. ASSUME (\E c \in pending : TakeRuntimeMu(c))
             \/ \E d \in Deployments : ReceiveDeploy(d) \/ ReceiveRestart(d) \/ Drain(d) \/ MonitorRestart(d)
      PROVE  UNCHANGED said
  BY <1>7 DEF TakeRuntimeMu, ReceiveDeploy, ReceiveRestart, Drain, MonitorRestart
<1> QED
  BY <1>a, <1>1, <1>2, <1>3, <1>4, <1>5, <1>6, <1>7 DEF Next, JobStep, DeployStep, ConnStep

LEMMA DrainMoves ==
    ASSUME IInv, Next
    PROVE  DrainMove
<1>1. ASSUME Settle PROVE DrainMove
  BY <1>1 DEF Settle, Idle, DrainMove
<1>2. ASSUME \/ Build \/ AdmitRouted \/ AdmitRefused \/ AdmitStateless \/ AdmitStateful \/ Start \/ Health
             \/ Mark \/ ApplyCandidate \/ ApplyFirst \/ ApplyFails \/ Verify \/ Commit
             \/ Promote \/ PromoteFails \/ Clear \/ Restore \/ Abort \/ Unstop \/ UnstopFails \/ Fail
      PROVE  DrainMove
  BY <1>2 DEF Build, AdmitRouted, AdmitRefused, AdmitStateless, AdmitStateful, Start, Health, Mark,
     ApplyCandidate, ApplyFirst, ApplyFails, Verify, Commit, Promote, PromoteFails, Clear, Restore,
     Abort, Unstop, UnstopFails, Fail, DrainMove
<1>3. ASSUME RestartStep \/ ConnStep \/ Disconnect \/ AgentCrash \/ HostReboot
      PROVE  DrainMove
  BY <1>3 DEF RestartStep, Restart, RestartHealth, RestartCommit, RestartApply, RestartVerify, ConnStep,
     Connect, RecoverMarker, RecoverApply, RecoverReport, Serve, Disconnect, AgentCrash, HostReboot,
     AgentDies, DrainMove
<1>4. ASSUME \/ \E c \in pending : TakeRuntimeMu(c)
             \/ \E d \in Deployments : ReceiveDeploy(d) \/ ReceiveRestart(d) \/ Drain(d) \/ MonitorRestart(d)
      PROVE  DrainMove
  BY <1>4 DEF TakeRuntimeMu, ReceiveDeploy, ReceiveRestart, Drain, MonitorRestart, DrainMove
<1> QED
  BY <1>1, <1>2, <1>3, <1>4 DEF Next, JobStep, DeployStep

-----------------------------------------------------------------------------
(* Commands that are delivered again *)

\* a command that came twice stays one that came twice
LEMMA RepeatedStays ==
    ASSUME IInv, Next
    PROVE  /\ Repeated \subseteq Repeated'
           /\ \A d \in Deployments : used.deliveries[d] > 0 => used'.deliveries[d] > 0
           /\ ~Delivers => Repeated' = Repeated
<1>1. used.deliveries \in [Deployments -> Nat]
  BY DEF IInv, TypeOK, Counters
<1>2. CASE Delivers
  <2>1. PICK d \in Deployments : used'.deliveries = [used.deliveries EXCEPT ![d] = @ + 1]
    BY <1>2 DEF Delivers
  <2>2. used.deliveries[d] \in Nat
    BY <1>1
  <2> QED
    BY <1>1, <1>2, <2>1, <2>2 DEF Repeated
<1>3. CASE used'.deliveries = used.deliveries
  BY <1>3 DEF Repeated
<1> QED
  BY <1>2, <1>3, CommandMoves DEF CommandMove, Waits, Asks, Takes, Unlinks, Loses

Untouched(d) == d \notin committed /\ d \notin markers /\ "FAILED" \notin said[d]
Deploying(d) == job.pc # "idle" /\ job.kind = "deploy" /\ job.dep = d

\* Unless it was delivered again, no trace exists of a deploy command that
\* waits, and a deployment that runs has not failed, been marked or been
\* committed before.
OnceInv ==
    /\ \A c \in pending : c.kind = "deploy" =>
          /\ used.deliveries[c.dep] > 0
          /\ c.dep \notin Repeated =>
                /\ Untouched(c.dep) /\ ~Deploying(c.dep)
                /\ \A e \in pending : e.kind = "deploy" /\ e.dep = c.dep => e = c
    /\ \A d \in Deployments : Deploying(d) =>
          /\ used.deliveries[d] > 0
          /\ d \notin Repeated =>
                /\ job.pc \in {"build", "admit", "start", "health", "mark"} => Untouched(d)
                /\ job.pc \in {"apply", "verify", "commit"} => "FAILED" \notin said[d]
                /\ job.pc \notin {"promote", "clear", "settle"} => d \notin committed
    /\ \A d \in Deployments : ~Untouched(d) => used.deliveries[d] > 0
    /\ FailedNotRouted

\* only the deployment itself leaves a trace of itself
LEMMA Touch ==
    ASSUME IInv, Next, NEW d \in Deployments, Untouched(d)
    PROVE  \/ Untouched(d)'
           \/ Deploying(d) /\ job.pc \in {"mark", "commit", "fail"} /\ job'.pc # job.pc
<1>1. RoutesMove /\ ConfigMove /\ SaidMove
  BY RoutesMoves, ConfigMoves, SaidMoves
<1>2. job.pc \in {"mark", "commit", "fail"} => job.kind = "deploy"
  BY DEF IInv, JobInv
<1>3. d \in committed' => job.pc = "commit" /\ job'.pc = "promote" /\ job.dep = d
  BY <1>1 DEF RoutesMove, Untouched
<1>4. d \in markers' => job.pc = "mark" /\ job'.pc = "apply" /\ job.dep = d
  BY <1>1 DEF Untouched, ConfigMove, Still, Marks, Applies, ApplyStopped, Clears, Reapplies, Forgets,
     Recovers, Wakes, Reboots
<1>5. "FAILED" \in said'[d] => job.pc = "fail" /\ job'.pc = "idle" /\ job.dep = d
  BY <1>1 DEF SaidMove, Untouched
<1> QED
  BY <1>2, <1>3, <1>4, <1>5 DEF Untouched, Deploying

LEMMA OnceStep ==
    ASSUME IInv, OnceInv, Next
    PROVE  OnceInv'
<1>1. RoutesMove /\ ConfigMove /\ SaidMove /\ CommandMove /\ Moved
  BY RoutesMoves, ConfigMoves, SaidMoves, CommandMoves, JobMoves
<1>2. /\ pending \subseteq Commands /\ pending' \subseteq Commands
      /\ used.deliveries \in [Deployments -> Nat] /\ used'.deliveries \in [Deployments -> Nat]
  BY TypeStep DEF IInv, TypeOK, Counters
<1>3. /\ \A d \in Deployments : used.deliveries[d] > 0 => used'.deliveries[d] > 0
      /\ Repeated \subseteq Repeated'
  BY RepeatedStays
<1>4. conn = "markers" => job.pc \notin RouterPcs
  BY DEF IInv, LockInv
<1>5. \A c \in Commands : c.dep \in Deployments /\ Unlink(c).kind = c.kind /\ Unlink(c).dep = c.dep
  BY DEF Commands, Unlink
<1>6. ASSUME NEW d \in Deployments, ~Untouched(d)' PROVE used'.deliveries[d] > 0
  BY <1>3, <1>6, Touch DEF OnceInv
<1>7. ASSUME NEW d \in Deployments, d \notin Repeated', "FAILED" \in said'[d], HasRoute(d)' PROVE FALSE
  <2>1. CASE HasRoute(d)
    <3>1. d \in committed
      BY <2>1, ServiceAssumption DEF HasRoute, RouteOf, Routed, IInv, RoutesInv
    <3>2. "FAILED" \notin said[d]
      BY <1>3, <1>7, <2>1 DEF OnceInv, FailedNotRouted
    <3>3. job.pc = "fail" /\ d = job.dep /\ job.kind = "deploy"
      BY <1>1, <1>7, <2>1, <3>2 DEF SaidMove, IInv, JobInv
    <3> QED
      BY <1>3, <1>7, <3>1, <3>3 DEF OnceInv, Deploying
  <2>2. CASE ~HasRoute(d)
    <3>1. job.pc = "commit" /\ ~UNCHANGED routes /\ d = job.dep /\ job.kind = "deploy"
      BY <1>1, <1>7, <2>2, RouteHolders DEF HasRoute, RouteOf, IInv, JobInv
    <3>2. "FAILED" \notin said[d]
      BY <1>3, <1>7, <3>1 DEF OnceInv, Deploying
    <3> QED
      BY <1>1, <1>4, <1>7, <3>1, <3>2 DEF SaidMove, RouterPcs
  <2> QED
    BY <2>1, <2>2
<1>8. ASSUME NEW d \in Deployments, Deploying(d)'
      PROVE  /\ used'.deliveries[d] > 0
             /\ d \notin Repeated' =>
                  /\ job'.pc \in {"build", "admit", "start", "health", "mark"} => Untouched(d)'
                  /\ job'.pc \in {"apply", "verify", "commit"} => "FAILED" \notin said'[d]
                  /\ job'.pc \notin {"promote", "clear", "settle"} => d \notin committed'
  <2>1. CASE job.pc = "idle"
    <3>1. job'.pc = "build"
      BY <1>1, <1>8, <2>1 DEF Moved, Begins, Deploying
    <3>2. PICK c \in pending : /\ c.kind = "deploy" /\ d = c.dep
                               /\ UNCHANGED <<said, markers, committed>>
      BY <1>1, <1>8, <2>1, <3>1 DEF CommandMove, Waits, Delivers, Asks, Takes, Unlinks, Loses, Deploying
    <3>3. used.deliveries[d] > 0 /\ (d \notin Repeated => Untouched(d))
      BY <3>2 DEF OnceInv
    <3> QED
      BY <1>3, <3>1, <3>2, <3>3 DEF Untouched
  <2>2. CASE job.pc # "idle"
    <3>1. Deploying(d) /\ Follows(job.pc, job'.pc)
      BY <1>1, <1>8, <2>2 DEF Moved, Deploying, Carries
    <3>2. ASSUME d \notin Repeated', job'.pc \in {"build", "admit", "start", "health", "mark"}
          PROVE  Untouched(d)'
      <4>1. /\ job.pc \in {"build", "admit", "start", "health", "mark"}
            /\ job.pc = "mark" => job'.pc = "mark"
        BY <3>1, <3>2 DEF Follows
      <4> QED
        BY <1>3, <3>1, <3>2, <4>1, Touch DEF OnceInv
    <3>3. ASSUME d \notin Repeated', job'.pc \in {"apply", "verify", "commit"}
          PROVE  "FAILED" \notin said'[d]
      <4>1. job.pc \in {"mark", "apply", "verify", "commit"} /\ "FAILED" \notin said[d]
        BY <1>3, <3>1, <3>3 DEF Follows, OnceInv, Untouched
      <4> QED
        BY <1>1, <1>4, <3>3, <4>1 DEF SaidMove, RouterPcs
    <3>4. ASSUME d \notin Repeated', job'.pc \notin {"promote", "clear", "settle"}
          PROVE  d \notin committed'
      <4>1. job.pc \notin {"promote", "clear", "settle"} /\ d \notin committed
        BY <1>3, <3>1, <3>4 DEF Follows, OnceInv
      <4> QED
        BY <1>1, <3>4, <4>1 DEF RoutesMove
    <3> QED
      BY <1>3, <3>1, <3>2, <3>3, <3>4 DEF OnceInv
  <2> QED
    BY <2>1, <2>2
<1>9. ASSUME NEW c \in pending, c.kind = "deploy"
      PROVE  /\ c.dep \in Deployments /\ used'.deliveries[c.dep] > 0
             /\ c.dep \notin Repeated' => Untouched(c.dep) /\ ~Deploying(c.dep)
  BY <1>2, <1>3, <1>5, <1>9 DEF OnceInv
<1>10. ASSUME NEW d \in Deployments, Untouched(d), ~Deploying(d)
       PROVE  Untouched(d)' /\ (Deploying(d)' => job.pc = "idle" /\ job'.pc = "build")
  BY <1>1, <1>10, Touch DEF Moved, Begins, Carries, Deploying
<1>a. ASSUME NEW x \in pending, NEW y \in pending, x.kind = "deploy", y.kind = "deploy",
             x.dep = y.dep, x.dep \notin Repeated'
      PROVE  x = y
  BY <1>2, <1>3, <1>5, <1>a DEF OnceInv
<1>b. ASSUME NEW c \in pending', c.kind = "deploy" PROVE used'.deliveries[c.dep] > 0
  <2>1. CASE Waits \/ Asks \/ Takes \/ Loses
    <3>1. c \in pending
      BY <1>b, <2>1 DEF Waits, Asks, Takes, Loses
    <3> QED
      BY <1>9, <1>b, <3>1
  <2>2. CASE Delivers
    <3>1. PICK d \in Deployments :
             /\ used'.deliveries = [used.deliveries EXCEPT ![d] = @ + 1]
             /\ \E x : x.kind = "deploy" /\ x.dep = d /\ pending' = pending \union {x}
      BY <2>2 DEF Delivers
    <3>2. used.deliveries[d] \in Nat /\ used'.deliveries[d] > 0
      BY <1>2, <3>1
    <3> QED
      BY <1>9, <1>b, <3>1, <3>2
  <2>3. CASE Unlinks
    <3>1. PICK x \in pending : c = Unlink(x)
      BY <1>b, <2>3 DEF Unlinks
    <3>2. x.kind = "deploy" /\ x.dep = c.dep
      BY <1>2, <1>5, <1>b, <3>1
    <3> QED
      BY <1>9, <3>2
  <2> QED
    BY <1>1, <2>1, <2>2, <2>3 DEF CommandMove
<1>11. ASSUME NEW c \in pending', c.kind = "deploy", c.dep \notin Repeated'
       PROVE  /\ Untouched(c.dep)' /\ ~Deploying(c.dep)'
              /\ \A e \in pending' : e.kind = "deploy" /\ e.dep = c.dep => e = c
  <2>1. CASE Waits \/ Asks
    <3>1. /\ c \in pending
          /\ \A e \in pending' : e.kind = "deploy" => e \in pending
          /\ ~(job.pc = "idle" /\ job'.pc = "build")
      BY <1>11, <2>1 DEF Waits, Asks
    <3>2. PICK d \in Deployments : d = c.dep /\ Untouched(d) /\ ~Deploying(d)
      BY <1>9, <1>11, <3>1
    <3> QED
      BY <1>10, <1>11, <1>a, <3>1, <3>2
  <2>2. CASE Delivers
    <3>1. PICK d \in Deployments :
             /\ used'.deliveries = [used.deliveries EXCEPT ![d] = @ + 1]
             /\ \E x : x.kind = "deploy" /\ x.dep = d /\ pending' = pending \union {x}
             /\ UNCHANGED <<job, said, markers, committed>>
      BY <2>2 DEF Delivers
    <3>2. PICK x : x.kind = "deploy" /\ x.dep = d /\ pending' = pending \union {x}
      BY <3>1
    <3>3. PICK b \in Deployments : b = c.dep
      BY <1>2, <1>5
    <3>4. b = d => used.deliveries[d] = 0
      BY <1>2, <1>11, <3>1, <3>3 DEF Repeated
    <3>5. b = d => Untouched(d) /\ ~Deploying(d) /\ \A e \in pending : e.kind = "deploy" => e.dep # d
      BY <3>4 DEF OnceInv
    <3>6. Untouched(b) /\ ~Deploying(b)
      BY <1>9, <1>11, <3>2, <3>3, <3>5
    <3>7. Untouched(b)' /\ ~Deploying(b)'
      BY <3>1, <3>6 DEF Untouched, Deploying
    <3>8. \A e \in pending' : e.kind = "deploy" /\ e.dep = c.dep => e = c
      BY <1>11, <1>a, <3>2, <3>3, <3>5
    <3> QED
      BY <3>3, <3>7, <3>8
  <2>3. CASE Takes
    <3>1. PICK x \in pending :
             /\ pending' = pending \ {x}
             /\ \/ job'.pc = "idle"
                \/ x.kind # "deploy" /\ job'.pc = "restart"
                \/ x.kind = "deploy" /\ job'.pc = "build" /\ job'.dep = x.dep
      BY <2>3 DEF Takes
    <3>2. c \in pending /\ c # x
      BY <3>1
    <3>3. PICK d \in Deployments : d = c.dep /\ Untouched(d) /\ ~Deploying(d)
      BY <1>9, <1>11, <3>2
    <3>4. ~Deploying(d)'
      BY <1>10, <1>11, <1>a, <3>1, <3>2, <3>3 DEF Deploying
    <3> QED
      BY <1>10, <1>11, <1>a, <3>1, <3>2, <3>3, <3>4
  <2>4. CASE Unlinks
    <3>1. PICK x \in pending : c = Unlink(x)
      BY <2>4 DEF Unlinks
    <3>2. x.kind = "deploy" /\ x.dep = c.dep
      BY <1>2, <1>5, <1>11, <3>1
    <3>3. PICK d \in Deployments : d = c.dep /\ Untouched(d) /\ ~Deploying(d)
      BY <1>9, <1>11, <3>2
    <3>4. ~(job.pc = "idle" /\ job'.pc = "build")
      BY <2>4 DEF Unlinks
    <3>5. ASSUME NEW e \in pending', e.kind = "deploy", e.dep = c.dep PROVE e = c
      <4>1. PICK y \in pending : e = Unlink(y)
        BY <2>4 DEF Unlinks
      <4>2. y.kind = "deploy" /\ y.dep = x.dep
        BY <1>2, <1>5, <3>2, <3>5, <4>1
      <4> QED
        BY <1>11, <1>a, <3>1, <3>2, <4>1, <4>2
    <3> QED
      BY <1>10, <3>3, <3>4, <3>5
  <2>5. CASE Loses
    BY <2>5 DEF Loses
  <2> QED
    BY <1>1, <2>1, <2>2, <2>3, <2>4, <2>5 DEF CommandMove
<1>12. OnceInv' <=>
         /\ \A c \in pending' : c.kind = "deploy" =>
               /\ used'.deliveries[c.dep] > 0
               /\ c.dep \notin Repeated' =>
                     /\ Untouched(c.dep)' /\ ~Deploying(c.dep)'
                     /\ \A e \in pending' : e.kind = "deploy" /\ e.dep = c.dep => e = c
         /\ \A d \in Deployments : Deploying(d)' =>
               /\ used'.deliveries[d] > 0
               /\ d \notin Repeated' =>
                     /\ job'.pc \in {"build", "admit", "start", "health", "mark"} => Untouched(d)'
                     /\ job'.pc \in {"apply", "verify", "commit"} => "FAILED" \notin said'[d]
                     /\ job'.pc \notin {"promote", "clear", "settle"} => d \notin committed'
         /\ \A d \in Deployments : ~Untouched(d)' => used'.deliveries[d] > 0
         /\ \A d \in Deployments \ Repeated' : "FAILED" \in said'[d] => ~HasRoute(d)'
  BY DEF OnceInv, FailedNotRouted
<1> QED
  BY <1>6, <1>7, <1>8, <1>b, <1>11, <1>12

\* A switch remembers the committed deployment of the same service it replaces,
\* a switch that is over has given its candidate the route, and what a drain
\* will remove was committed and holds no route, unless it was delivered again.
DrainInv ==
    /\ job.pc # "idle" /\ job.previous # NoRoute =>
          job.previous.dep \in committed /\ ServiceOf[job.previous.dep] = ServiceOf[job.dep]
    /\ job.pc = "settle" => HasRoute(job.dep)
    /\ drains \subseteq committed
    /\ DrainSparesRoute

LEMMA DrainStep ==
    ASSUME IInv, RowsInv, DivInv, OnceInv, DrainInv, Next
    PROVE  DrainInv'
<1>1. RoutesMove /\ Moved /\ DrainMove
  BY RoutesMoves, JobMoves, DrainMoves
<1>2. job.pc # "idle" => job.dep \in Deployments /\ job.previous \in Route \union {NoRoute}
  BY JobFields DEF IInv, TypeOK
<1>3. committed \subseteq committed' /\ Routed(routes) \subseteq committed /\ drains \subseteq Deployments
  BY <1>1 DEF RoutesMove, IInv, RoutesInv, TypeOK
<1>4. ASSUME job'.pc # "idle", job'.previous # NoRoute
      PROVE  job'.previous.dep \in committed' /\ ServiceOf[job'.previous.dep] = ServiceOf[job'.dep]
  <2>1. job.pc # "idle" /\ job'.dep = job.dep /\ job'.previous \in {job.previous, RouteOf(job.dep)}
    BY <1>1, <1>4 DEF Moved, Begins, Carries
  <2>2. CASE job'.previous = job.previous
    BY <1>3, <1>4, <2>1, <2>2 DEF DrainInv
  <2>3. CASE job'.previous = RouteOf(job.dep)
    <3>1. RouteOf(job.dep) # NoRoute
      BY <1>4, <2>3
    <3>2. RouteOf(job.dep).dep \in Routed(routes)
      BY <1>2, <2>1, <3>1, ServiceAssumption DEF Routed, RouteOf
    <3>3. ServiceOf[RouteOf(job.dep).dep] = ServiceOf[job.dep]
      BY <1>2, <2>1, <3>1, ServiceAssumption DEF RowsInv, RouteOf
    <3> QED
      BY <1>3, <2>1, <2>3, <3>2, <3>3
  <2> QED
    BY <2>1, <2>2, <2>3
<1>5. ASSUME job'.pc = "settle" PROVE HasRoute(job.dep)'
  <2>1. job.pc \in {"admit", "promote", "clear", "settle"} /\ job'.dep = job.dep /\ HasRoute(job.dep)
    BY <1>1, <1>5 DEF Moved, Begins, Follows, Carries, Looked, DivInv, DrainInv
  <2>2. UNCHANGED routes
    BY <1>1, <2>1 DEF RoutesMove
  <2> QED
    BY <2>1, <2>2 DEF HasRoute, RouteOf
<1>6. ASSUME NEW d \in drains' PROVE d \in committed' /\ (d \notin Repeated' => ~HasRoute(d)')
  <2>1. CASE d \in drains
    <3>1. d \in committed /\ d \in Deployments /\ (d \notin Repeated => ~HasRoute(d))
      BY <1>3, <2>1 DEF DrainInv, DrainSparesRoute
    <3>2. d \notin Repeated => ~(job.pc = "commit" /\ d = job.dep)
      BY <3>1 DEF OnceInv, Deploying, IInv, JobInv
    <3>3. d \notin Repeated => ~HasRoute(d)'
      BY <1>1, <3>1, <3>2, RouteHolders DEF HasRoute, RouteOf
    <3> QED
      BY <1>3, <3>1, <3>3, RepeatedStays
  <2>2. CASE d \notin drains
    <3>1. job.pc = "settle" /\ d \in Replaced
      BY <1>1, <1>6, <2>2 DEF DrainMove
    <3>2. job.previous # NoRoute /\ d = job.previous.dep /\ d # job.dep
      BY <3>1 DEF Replaced
    <3>3. d \in committed /\ ServiceOf[d] = ServiceOf[job.dep] /\ HasRoute(job.dep)
      BY <3>1, <3>2 DEF DrainInv
    <3>4. ~HasRoute(d)
      BY <3>2, <3>3 DEF HasRoute, RouteOf
    <3>5. UNCHANGED routes
      BY <1>1, <3>1 DEF RoutesMove
    <3> QED
      BY <1>3, <3>3, <3>4, <3>5 DEF HasRoute, RouteOf
  <2> QED
    BY <2>1, <2>2
<1>7. DrainInv' <=>
         /\ job'.pc # "idle" /\ job'.previous # NoRoute =>
               job'.previous.dep \in committed' /\ ServiceOf[job'.previous.dep] = ServiceOf[job'.dep]
         /\ job'.pc = "settle" => HasRoute(job.dep)'
         /\ \A d \in drains' : d \in committed' /\ (d \notin Repeated' => ~HasRoute(d)')
  BY DEF DrainInv, DrainSparesRoute
<1> QED
  BY <1>4, <1>5, <1>6, <1>7

-----------------------------------------------------------------------------
(* Zero downtime *)

\* Nothing crashed, failed or was restarted so far.
Calm == NoCrash /\ NoFault /\ NoPortChange

\* Until something crashes, fails or is restarted only deployments run, the
\* router holds routes.json or, from the reload to the commit, the candidate's
\* table, and the backends of a candidate and of the routed stateless services
\* run on the ports they were given, unless they were delivered again.
ServeInv == Calm =>
    /\ job.pc # "idle" => job.kind = "deploy"
    /\ \A c \in pending : c.kind = "deploy"
    /\ job.pc \in {"health", "mark", "apply", "verify", "commit", "restore"} /\ job.dep \notin Repeated
          => backend[job.dep] = "running" /\ port[job.dep] = job.port
    /\ job.pc \in {"verify", "commit", "restore"} =>
          job.port \in Ports /\ live = NextTable(job.dep) /\ router.state = "running"
    /\ \A s \in Services \ Stateful :
          /\ routes[s] # NoRoute =>
                /\ router.state = "running"
                /\ routes[s].dep \notin Repeated =>
                      backend[routes[s].dep] = "running" /\ port[routes[s].dep] = routes[s].port
          /\ job.pc \notin {"verify", "commit", "restore"} => live[s] = routes[s]

LEMMA ServeReaches ==
    ASSUME IInv, RowsInv, ServeInv
    PROVE  Continuity
<1> SUFFICES ASSUME Calm, NEW s \in Services \ Stateful, routes[s] # NoRoute,
                    Dep(routes[s]) \notin Repeated, Dep(live[s]) \notin Repeated
             PROVE  \E d \in Deployments : ServiceOf[d] = s /\ Reaches(d)
  BY DEF Continuity, Reachable, Calm
<1>1. router.state = "running" /\ backend[routes[s].dep] = "running" /\ port[routes[s].dep] = routes[s].port
  BY DEF ServeInv, Dep
<1>2. routes[s].dep \in Deployments /\ ServiceOf[routes[s].dep] = s
  BY DEF IInv, TypeOK, Table, Route, RowsInv
<1>3. CASE live[s] = routes[s]
  BY <1>1, <1>2, <1>3 DEF Reaches
<1>4. CASE job.pc \in {"verify", "commit", "restore"}
  <2>1. /\ job.dep \in Deployments /\ job.port \in Ports /\ live = NextTable(job.dep)
        /\ job.dep \notin Repeated => backend[job.dep] = "running" /\ port[job.dep] = job.port
    BY <1>4, JobFields DEF ServeInv, IInv, TypeOK
  <2>2. CASE s = ServiceOf[job.dep]
    <3>1. live[s] # NoRoute /\ live[s].dep = job.dep /\ live[s].port = job.port
      BY <2>1, <2>2, TableOf
    <3> QED
      BY <1>1, <2>1, <2>2, <3>1 DEF Reaches, Dep
  <2>3. CASE s # ServiceOf[job.dep]
    BY <1>3, <2>1, <2>3, TableOf
  <2> QED
    BY <2>2, <2>3
<1> QED
  BY <1>3, <1>4 DEF ServeInv

LEMMA ServeStep ==
    ASSUME IInv, RowsInv, StoppedInv, DivInv, OnceInv, DrainInv, ServeInv, Next
    PROVE  ServeInv'
<1> DEFINE Ready == {"health", "mark", "apply", "verify", "commit", "restore"}
<1> DEFINE Shown == {"verify", "commit", "restore"}
<1> SUFFICES ASSUME Calm'
             PROVE  /\ job'.pc # "idle" => job'.kind = "deploy"
                    /\ \A c \in pending' : c.kind = "deploy"
                    /\ job'.pc \in Ready /\ job'.dep \notin Repeated' =>
                          backend'[job'.dep] = "running" /\ port'[job'.dep] = job'.port
                    /\ job'.pc \in Shown =>
                          job'.port \in Ports /\ live' = NextTable(job.dep)' /\ router'.state = "running"
                    /\ \A s \in Services \ Stateful :
                          /\ routes'[s] # NoRoute =>
                                /\ router'.state = "running"
                                /\ routes'[s].dep \notin Repeated' =>
                                      /\ backend'[routes'[s].dep] = "running"
                                      /\ port'[routes'[s].dep] = routes'[s].port
                          /\ job'.pc \notin Shown => live'[s] = routes'[s]
  BY DEF ServeInv
<1>1. RoutesMove /\ ConfigMove /\ CommandMove /\ BackendMove /\ Moved
  BY RoutesMoves, ConfigMoves, CommandMoves, BackendMoves, JobMoves
<1>2. NoCrash' /\ NoFault' /\ NoPortChange' /\ Calm
  BY Monotone DEF Calm
<1>a. Repeated \subseteq Repeated'
  BY RepeatedStays
<1>3. job.pc # "idle" => job.dep \in Deployments /\ job.kind = "deploy"
  BY <1>2, JobFields DEF IInv, TypeOK, ServeInv
<1>4. conn = "markers" => job.pc \notin RouterPcs
  BY DEF IInv, LockInv
<1>5. job.pc \notin {"restart", "rhealth"}
  BY <1>3 DEF IInv, JobInv
<1>6. job'.pc # "idle" => job'.kind = "deploy"
  <2>1. CASE job.pc = "idle" /\ Begins
    BY <1>1, <1>2, <2>1 DEF CommandMove, Waits, Delivers, Asks, Takes, Unlinks, Loses, ServeInv, Begins
  <2> QED
    BY <1>1, <1>3, <2>1 DEF Moved, Carries
<1>7. ASSUME NEW c \in pending' PROVE c.kind = "deploy"
  <2>1. \A x \in pending : x.kind = "deploy" /\ Unlink(x).kind = x.kind
    BY <1>2 DEF ServeInv, Unlink, IInv, TypeOK, Commands
  <2>2. CASE Delivers
    <3>1. PICK d \in Deployments : \E x : x.kind = "deploy" /\ pending' = pending \union {x}
      BY <2>2 DEF Delivers
    <3>2. PICK x : x.kind = "deploy" /\ pending' = pending \union {x}
      BY <3>1
    <3> QED
      BY <1>7, <2>1, <3>2
  <2>3. CASE Unlinks
    <3>1. PICK x \in pending : c = Unlink(x)
      BY <1>7, <2>3 DEF Unlinks
    <3> QED
      BY <2>1, <3>1
  <2>4. CASE Takes \/ Waits \/ Loses
    BY <1>7, <2>1, <2>4 DEF Takes, Waits, Loses
  <2> QED
    BY <1>1, <1>2, <2>2, <2>3, <2>4 DEF CommandMove, Asks
<1>8. ASSUME job.pc \in Ready, job.dep \notin Repeated'
      PROVE  backend'[job.dep] = "running" /\ port'[job.dep] = job.port
  <2>1. Deploying(job.dep)
    BY <1>3, <1>8 DEF Deploying
  <2>2. job.dep \notin committed /\ (job.pc \in {"health", "mark"} => job.dep \notin markers)
    BY <1>3, <1>8, <1>a, <2>1 DEF OnceInv, Untouched
  <2>3. ~Stops(job.dep)
    BY <1>2, <1>4, <1>8, <2>2 DEF Stops, DrainInv, RouterPcs
  <2> QED
    BY <1>1, <1>2, <1>3, <1>8, <1>a, <2>3 DEF BackendMove, ServeInv
<1>9. ASSUME job'.pc \in Ready, job'.dep \notin Repeated'
      PROVE  backend'[job'.dep] = "running" /\ port'[job'.dep] = job'.port
  <2>1. /\ job.pc # "idle" /\ job'.dep = job.dep
        /\ \/ job.pc = "start" /\ job'.pc = "health"
           \/ job.pc \in Ready /\ job'.port = job.port
    BY <1>1, <1>9 DEF Moved, Begins, Follows, Carries
  <2> QED
    BY <1>1, <1>8, <1>9, <2>1 DEF BackendMove
<1>10. ASSUME job'.pc \in Shown
       PROVE  job'.port \in Ports /\ live' = NextTable(job.dep)' /\ router'.state = "running"
  <2>1. /\ job.pc # "idle" /\ job'.dep = job.dep /\ job'.port = job.port
        /\ job.pc \in Shown \union {"apply"} /\ UNCHANGED routes
    BY <1>1, <1>10 DEF Moved, Begins, Follows, Carries, RoutesMove
  <2>2. job.port \in Ports
    BY <1>2, <2>1 DEF IInv, JobInv, ServeInv
  <2>3. live' = NextTable(job.dep) /\ router'.state = "running"
    BY <1>1, <1>2, <1>4, <1>10, <2>1 DEF ConfigMove, Still, Marks, Applies, ApplyStopped, Clears,
       Reapplies, Forgets, Recovers, Wakes, Reboots, ServeInv, RouterPcs
  <2> QED
    BY <2>1, <2>2, <2>3 DEF NextTable
<1>11. ASSUME NEW s \in Services \ Stateful, routes'[s] # routes[s]
       PROVE  /\ job.pc = "commit" /\ job'.pc = "promote" /\ s = ServiceOf[job.dep]
              /\ routes'[s].dep = job.dep /\ routes'[s].port = job.port
              /\ routes' = NextTable(job.dep)
  <2>1. CASE job.pc = "commit" /\ job'.pc = "promote" /\ routes' = NextTable(job.dep)
    <3>1. job.port \in Ports
      BY <1>2, <2>1 DEF ServeInv
    <3> QED
      BY <1>3, <1>11, <2>1, <3>1, TableOf
  <2>2. CASE job.pc = "rcommit" /\ HasRoute(Target) /\ routes' = NextTable(Target)
    <3>1. Target = job.stopped.dep /\ job.stopped # NoRoute /\ job.port \in Ports /\ Target \in Deployments
      BY <1>3, <2>2, TargetType DEF Target, IInv, JobInv
    <3>2. ServiceOf[Target] \in Stateful
      BY <2>2, <3>1 DEF StoppedInv
    <3> QED
      BY <1>11, <2>2, <3>1, <3>2, TableOf
  <2> QED
    BY <1>1, <1>11, <2>1, <2>2 DEF RoutesMove
<1>12. ASSUME NEW s \in Services \ Stateful, routes'[s] # NoRoute
       PROVE  /\ router'.state = "running"
              /\ routes'[s].dep \notin Repeated' =>
                    /\ backend'[routes'[s].dep] = "running"
                    /\ port'[routes'[s].dep] = routes'[s].port
  <2>1. CASE routes'[s] = routes[s]
    <3> DEFINE e == routes[s].dep
    <3>1. /\ router.state = "running"
          /\ e \notin Repeated' => /\ e \notin Repeated
                                   /\ backend[e] = "running" /\ port[e] = routes[s].port
      BY <1>2, <1>12, <1>a, <2>1 DEF ServeInv
    <3>2. e \in Deployments /\ ServiceOf[e] = s /\ HasRoute(e) /\ e \in committed
      BY <1>12, <2>1 DEF IInv, TypeOK, Table, Route, RowsInv, HasRoute, RouteOf, RoutesInv, Routed
    <3>3. e \notin Repeated => ~(job.pc \in {"start", "abort"} /\ e = job.dep)
      BY <1>3, <3>2 DEF OnceInv, Deploying
    <3>4. ~(job.pc = "admit" /\ NeedsStop(job.dep) /\ e = RouteOf(job.dep).dep)
      BY <1>3, <3>2, ServiceAssumption DEF NeedsStop, RouteOf, RowsInv
    <3>5. ~(job.pc = "unstop" /\ e = job.stopped.dep)
      BY <1>3, <3>2 DEF IInv, JobInv, StoppedInv
    <3>6. e \notin Repeated => ~Stops(e)
      BY <1>2, <1>5, <3>2, <3>3, <3>4, <3>5 DEF Stops, DrainInv, DrainSparesRoute
    <3>7. router'.state = "running"
      BY <1>1, <1>2, <1>12, <2>1, <3>1, AppliedAgrees DEF ConfigMove, Still, Marks, Applies, ApplyStopped,
         Clears, Reapplies, Forgets, Recovers, Wakes, Reboots
    <3> QED
      BY <1>1, <2>1, <3>1, <3>2, <3>6, <3>7 DEF BackendMove
  <2>2. CASE routes'[s] # routes[s]
    <3>1. /\ job.pc = "commit" /\ job'.pc = "promote"
          /\ routes'[s].dep = job.dep /\ routes'[s].port = job.port
      BY <1>11, <2>2
    <3>2. router'.state = "running"
      BY <1>1, <1>2, <1>4, <3>1 DEF ConfigMove, Still, Marks, Applies, ApplyStopped, Clears,
         Reapplies, Forgets, Recovers, Wakes, Reboots, ServeInv, RouterPcs
    <3> QED
      BY <1>3, <1>8, <3>1, <3>2
  <2> QED
    BY <2>1, <2>2
<1>13. ASSUME NEW s \in Services \ Stateful, job'.pc \notin Shown PROVE live'[s] = routes'[s]
  <2>1. CASE job.pc \notin Shown
    <3>1. live[s] = routes[s] /\ routes'[s] = routes[s]
      BY <1>2, <1>11, <2>1 DEF ServeInv
    <3> QED
      BY <1>1, <1>2, <1>13, <3>1, AppliedAgrees DEF ConfigMove, Still, Marks, Applies, ApplyStopped,
         Clears, Reapplies, Forgets, Recovers, Wakes, Reboots
  <2>2. CASE job.pc = "commit"
    <3>1. job'.pc = "promote" /\ routes' = NextTable(job.dep) /\ live = NextTable(job.dep)
      BY <1>1, <1>2, <1>13, <2>2 DEF Moved, Last, Follows, RoutesMove, ServeInv
    <3>2. live' = live
      BY <1>1, <1>4, <2>2, <3>1 DEF ConfigMove, Still, Marks, Applies, ApplyStopped,
         Clears, Reapplies, Forgets, Recovers, Wakes, Reboots, RouterPcs
    <3> QED
      BY <3>1, <3>2
  <2>3. CASE job.pc \in {"verify", "restore"}
    <3>1. job.pc = "restore" /\ job'.pc = "abort"
      BY <1>1, <1>2, <1>13, <2>3 DEF Moved, Last, Follows
    <3> QED
      BY <1>1, <1>2, <1>4, <3>1, AppliedAgrees DEF ConfigMove, Still, Marks, Applies, ApplyStopped,
         Clears, Reapplies, Forgets, Recovers, Wakes, Reboots, RouterPcs
  <2> QED
    BY <2>1, <2>2, <2>3
<1> QED
  BY <1>6, <1>7, <1>9, <1>10, <1>12, <1>13

-----------------------------------------------------------------------------
(* Failures, drains and reachable services *)

DivergenceInv == IInv /\ DivInv
SingleInv == ApartInv /\ DivInv /\ OnceInv /\ DrainInv /\ ServeInv

LEMMA StutterDiv ==
    ASSUME DivInv, UNCHANGED vars
    PROVE  DivInv'
BY DEF vars, DivInv, Switching, Marked, Agrees, Dep, HasRoute, RouteOf

LEMMA DivergenceInvariance == Spec => []DivergenceInv
<1>1. Init => DivergenceInv
  BY InitInv DEF Init, DivergenceInv, DivInv, Switching, Idle
<1>2. ASSUME DivergenceInv, [Next]_vars PROVE DivergenceInv'
  <2>1. CASE Next
    <3>1. IInv'
      BY <1>2, <2>1, TypeStep, JobInvStep, PortStep, LockStep, CommitStep DEF IInv, DivergenceInv
    <3> QED
      BY <1>2, <2>1, <3>1, DivStep DEF DivergenceInv
  <2>2. CASE UNCHANGED vars
    BY <1>2, <2>2, StutterInv, StutterDiv DEF DivergenceInv
  <2> QED
    BY <1>2, <2>1, <2>2
<1> QED
  BY <1>1, <1>2, PTL DEF Spec

LEMMA StutterSingle ==
    ASSUME OnceInv, DrainInv, ServeInv, UNCHANGED vars
    PROVE  OnceInv' /\ DrainInv' /\ ServeInv'
<1>1. OnceInv'
  BY DEF vars, OnceInv, Untouched, Deploying, FailedNotRouted, Repeated, HasRoute, RouteOf
<1>2. DrainInv'
  BY DEF vars, DrainInv, DrainSparesRoute, Repeated, HasRoute, RouteOf
<1>3. ServeInv'
  BY DEF vars, ServeInv, Calm, NoCrash, NoFault, NoPortChange, NextTable, Repeated
<1> QED
  BY <1>1, <1>2, <1>3

LEMMA SingleInvariance == Spec => []SingleInv
<1>1. Init => SingleInv
  <2> SUFFICES ASSUME Init PROVE SingleInv
    OBVIOUS
  <2>1. IInv /\ RowsInv /\ StoppedInv /\ WriterInv
    BY InitInv DEF Init, RowsInv, ListenersDistinct, StoppedInv, WriterInv, Trial, Idle, EmptyTable
  <2>2. DivInv
    BY DEF Init, DivInv, Switching, Idle
  <2>3. OnceInv
    BY ServiceAssumption DEF Init, OnceInv, Untouched, Deploying, Idle, FailedNotRouted
  <2>4. DrainInv
    BY DEF Init, DrainInv, DrainSparesRoute, Idle
  <2>5. ServeInv
    BY DEF Init, ServeInv, Idle, EmptyTable
  <2> QED
    BY <2>1, <2>2, <2>3, <2>4, <2>5 DEF SingleInv, ApartInv
<1>2. ASSUME SingleInv, [Next]_vars PROVE SingleInv'
  <2>1. CASE Next
    <3>1. IInv'
      BY <1>2, <2>1, TypeStep, JobInvStep, PortStep, LockStep, CommitStep DEF IInv, SingleInv, ApartInv
    <3>2. RowsInv' /\ StoppedInv' /\ WriterInv'
      BY <1>2, <2>1, RowsStep, StoppedStep, WriterStep DEF SingleInv, ApartInv
    <3>3. DivInv' /\ OnceInv' /\ DrainInv' /\ ServeInv'
      BY <1>2, <2>1, DivStep, OnceStep, DrainStep, ServeStep DEF SingleInv, ApartInv
    <3> QED
      BY <3>1, <3>2, <3>3 DEF SingleInv, ApartInv
  <2>2. CASE UNCHANGED vars
    <3>1. IInv' /\ DivInv' /\ OnceInv' /\ DrainInv' /\ ServeInv'
      BY <1>2, <2>2, StutterInv, StutterDiv, StutterSingle DEF SingleInv, ApartInv
    <3>2. RowsInv' /\ StoppedInv' /\ WriterInv'
      BY <1>2, <2>2 DEF SingleInv, ApartInv, vars, RowsInv, ListenersDistinct, PortConflict, StoppedInv,
         WriterInv, NoCrash, NoFault, HasRoute, RouteOf
    <3> QED
      BY <3>1, <3>2 DEF SingleInv, ApartInv
  <2> QED
    BY <1>2, <2>1, <2>2
<1> QED
  BY <1>1, <1>2, PTL DEF Spec

LEMMA DivergenceTold ==
    ASSUME DivInv
    PROVE  DivergenceIsMarked
BY DEF DivInv, DivergenceIsMarked, Agrees, Marked

\* Whatever was delivered twice, interrupted, failed or taken back: a router
\* that serves something else than routes.json, while the Agent serves and
\* switches nothing, has a promotion marker that tells the next recovery.
THEOREM DivergenceMarked == Spec => []DivergenceIsMarked
BY DivergenceInvariance, DivergenceTold, PTL DEF DivergenceInv

\* What was reported FAILED never holds a route, however its failure, commands
\* that are delivered again, the Agent's restarts and recovery interleave,
\* unless its own command was delivered again (apps/api/src/index.ts, the
\* dispatch lease); and every divergence is marked.
THEOREM FailuresTold == Spec => []FailureIsTold
<1>1. SingleInv => FailureIsTold
  BY DivergenceTold DEF SingleInv, OnceInv, FailureIsTold
<1> QED
  BY <1>1, SingleInvariance, PTL

\* No drain removes the backend of a committed route, and until something
\* crashes, fails or is restarted every routed stateless service is reached
\* through its stable listener in every state of every deployment: whatever is
\* delivered again, for the deployments whose own command was not.
THEOREM RoutesServed == Spec => []ServedThroughout
<1>1. SingleInv => ServedThroughout
  BY ServeReaches DEF SingleInv, ApartInv, DrainInv, ServedThroughout
<1> QED
  BY <1>1, SingleInvariance, PTL

-----------------------------------------------------------------------------
(* The router implements the route store *)

\* direct health is recorded when the backend answered
ValidMove ==
    /\ UNCHANGED validated \/ (job.pc = "health" /\ validated' = validated \union {job.dep})
    /\ job.pc = "health" /\ job'.pc = "mark" => job.dep \in validated'

LEMMA ValidMoves ==
    ASSUME IInv, Next
    PROVE  ValidMove
<1>0. job \in Jobs
  BY DEF IInv, TypeOK
<1>1. ASSUME Health PROVE ValidMove
  <2>1. CASE Goto("mark") /\ validated' = validated \union {job.dep}
    BY <1>1, <2>1 DEF Health, ValidMove
  <2>2. CASE Goto("abort") /\ UNCHANGED validated
    <3>1. job'.pc = "abort"
      BY <1>0, <1>1, <2>2, GotoJob DEF Health
    <3> QED
      BY <2>2, <3>1 DEF ValidMove
  <2> QED
    BY <1>1, <2>1, <2>2 DEF Health, AfterUnhealthy
<1>2. ASSUME \/ Build \/ AdmitRouted \/ AdmitRefused \/ AdmitStateless \/ AdmitStateful \/ Start
             \/ Mark \/ ApplyCandidate \/ ApplyFirst \/ ApplyFails \/ Verify \/ Commit
      PROVE  ValidMove
  BY <1>2 DEF Build, AdmitRouted, AdmitRefused, AdmitStateless, AdmitStateful, Start, Mark,
     ApplyCandidate, ApplyFirst, ApplyFails, Verify, Commit, history, ValidMove
<1>3. ASSUME \/ Promote \/ PromoteFails \/ Clear \/ Restore \/ Abort \/ Unstop \/ UnstopFails \/ Fail \/ Settle
             \/ RestartStep
      PROVE  ValidMove
  BY <1>3 DEF Promote, PromoteFails, Clear, Restore, Abort, Unstop, UnstopFails, Fail, Settle, RestartStep, Restart,
     RestartHealth, RestartCommit, RestartApply, RestartVerify, history, ValidMove
<1>4. ASSUME ConnStep \/ \E d \in Deployments : ReceiveDeploy(d) \/ ReceiveRestart(d) \/ Drain(d)
      PROVE  ValidMove
  BY <1>4 DEF ConnStep, Connect, RecoverMarker, RecoverApply, RecoverReport, Serve, ReceiveDeploy,
     ReceiveRestart, Drain, history, ValidMove
<1>5. ASSUME AgentCrash \/ HostReboot PROVE ValidMove
  BY <1>5 DEF AgentCrash, HostReboot, AgentDies, Idle, history, ValidMove
<1>6. ASSUME Disconnect PROVE ValidMove
  BY <1>0, <1>6 DEF Disconnect, Unlink, Jobs, Idle, history, ValidMove
<1>7. ASSUME (\E c \in pending : TakeRuntimeMu(c)) \/ \E d \in Deployments : MonitorRestart(d)
      PROVE  ValidMove
  BY <1>7 DEF TakeRuntimeMu, MonitorRestart, history, ValidMove
<1> QED
  BY <1>1, <1>2, <1>3, <1>4, <1>5, <1>6, <1>7 DEF Next, JobStep, DeployStep

\* A candidate that is switched to has passed direct health.
ValidInv == job.pc \in {"mark", "apply", "verify", "commit"} => job.dep \in validated

LEMMA ValidStep ==
    ASSUME IInv, ValidInv, Next
    PROVE  ValidInv'
<1>1. ValidMove /\ Moved
  BY ValidMoves, JobMoves
<1> SUFFICES ASSUME job'.pc \in {"mark", "apply", "verify", "commit"}
             PROVE  job'.dep \in validated'
  BY DEF ValidInv
<1>2. job'.dep = job.dep /\ \/ job.pc = "health" /\ job'.pc = "mark"
                            \/ job.pc \in {"mark", "apply", "verify", "commit"}
  BY <1>1 DEF Moved, Begins, Follows, Carries
<1> QED
  BY <1>1, <1>2 DEF ValidMove, ValidInv

\* the switch that commits is the store's promotion
LEMMA CommitPromotes ==
    ASSUME IInv, RowsInv, OnceInv, ValidInv, job.pc = "commit",
           routes' = NextTable(job.dep), committed' = committed \union {job.dep}, UNCHANGED validated,
           UNCHANGED Repeated
    PROVE  Store!Promote(job.dep)
<1> DEFINE d == job.dep
<1> DEFINE old == Dep(routes[ServiceOf[d]])
<1>1. d \in Deployments /\ job.port \in Ports /\ job.kind = "deploy"
  BY JobFields DEF IInv, JobInv, TypeOK
<1>2. (d \notin committed \/ d \in Repeated) /\ d \in validated
  BY <1>1 DEF OnceInv, Deploying, ValidInv
<1>3. /\ routes \in Table /\ committed \subseteq Deployments /\ NoRoute \notin Deployments
      /\ Routed(routes) \subseteq committed
  BY AbsentAssumption DEF IInv, TypeOK, RoutesInv
<1>4. ServiceOf[d] \in Services
  BY <1>1, ServiceAssumption
<1>5. \A s \in Services : Dep(routes'[s]) = IF s = ServiceOf[d] THEN d ELSE Dep(routes[s])
  BY <1>1, TableOf DEF Dep
<1>6. [s \in Services |-> Dep(routes'[s])] = [[s \in Services |-> Dep(routes[s])] EXCEPT ![ServiceOf[d]] = d]
  BY <1>4, <1>5
<1>7. \A x : x \in Routed(routes') <=> x = d \/ (x \in Routed(routes) /\ x # old)
  <2>1. ASSUME NEW x, x \in Routed(routes') PROVE x = d \/ (x \in Routed(routes) /\ x # old)
    <3>1. PICK s \in Services : routes'[s] # NoRoute /\ x = routes'[s].dep
      BY <2>1 DEF Routed
    <3>2. CASE s = ServiceOf[d]
      BY <1>1, <3>1, <3>2, TableOf
    <3>3. CASE s # ServiceOf[d]
      <4>1. routes'[s] = routes[s] /\ ServiceOf[x] = s
        BY <1>1, <3>1, <3>3, TableOf DEF RowsInv
      <4>2. x # old
        BY <1>3, <1>4, <3>1, <3>3, <4>1 DEF RowsInv, Dep, Table, Route
      <4> QED
        BY <3>1, <4>1, <4>2 DEF Routed
    <3> QED
      BY <3>2, <3>3
  <2>2. d \in Routed(routes')
    BY <1>1, <1>4, TableOf DEF Routed
  <2>3. ASSUME NEW x, x \in Routed(routes), x # old PROVE x \in Routed(routes')
    <3>1. PICK s \in Services : routes[s] # NoRoute /\ x = routes[s].dep
      BY <2>3 DEF Routed
    <3>2. s # ServiceOf[d]
      BY <2>3, <3>1 DEF Dep
    <3>3. routes'[s] = routes[s]
      BY <1>1, <3>2, TableOf
    <3> QED
      BY <3>1, <3>3 DEF Routed
  <2> QED
    BY <2>1, <2>2, <2>3
<1>8. old # NoRoute => old \in committed
  BY <1>3, <1>4 DEF Routed, Dep
<1>9. committed' \ Routed(routes') = ((committed \ Routed(routes)) \union {old}) \ {d, NoRoute}
  BY <1>3, <1>7, <1>8
<1> QED
  BY <1>2, <1>4, <1>6, <1>9 DEF Store!Promote

\* every other step leaves the store alone, records a healthy backend or that
\* a deployment was asked for again
LEMMA StoreStep ==
    ASSUME SingleInv, ValidInv, [Next]_vars
    PROVE  [Store!Next]_(Store!vars)
<1>1. CASE UNCHANGED vars
  BY <1>1 DEF vars, Store!vars, Routed, Repeated
<1>2. CASE Next
  <2>1. IInv /\ RowsInv /\ OnceInv
    BY DEF SingleInv, ApartInv
  <2>2. RoutesMove /\ ValidMove
    BY <1>2, <2>1, RoutesMoves, ValidMoves
  <2>3. job.pc # "idle" => job.dep \in Deployments
    BY <2>1, JobFields DEF IInv, TypeOK
  <2>7. CASE Delivers
    <3>1. PICK d \in Deployments : used'.deliveries = [used.deliveries EXCEPT ![d] = @ + 1]
      BY <2>7 DEF Delivers
    <3>2. UNCHANGED <<routes, committed, validated>>
      BY <2>7 DEF Delivers
    <3>3. used.deliveries \in [Deployments -> Nat] /\ used.deliveries[d] \in Nat
      BY <2>1 DEF IInv, TypeOK, Counters
    <3>4. Repeated' \in {Repeated, Repeated \union {d}}
      <4>1. CASE used.deliveries[d] = 0
        BY <3>1, <3>3, <4>1 DEF Repeated
      <4>2. CASE used.deliveries[d] # 0
        BY <3>1, <3>3, <4>2 DEF Repeated
      <4> QED
        BY <4>1, <4>2
    <3>5. CASE Repeated' = Repeated
      BY <3>2, <3>5 DEF Store!vars, Routed
    <3>6. CASE Repeated' = Repeated \union {d}
      <4>1. Store!AskAgain(d)
        BY <3>2, <3>6 DEF Store!AskAgain, Routed
      <4> QED
        BY <4>1 DEF Store!Next
    <3> QED
      BY <3>4, <3>5, <3>6
  <2>8. ~Delivers => UNCHANGED Repeated
    BY <1>2, <2>1, RepeatedStays
  <2>4. CASE UNCHANGED <<routes, committed, Repeated>>
    <3>1. CASE UNCHANGED validated
      BY <2>4, <3>1 DEF Store!vars, Routed
    <3>2. CASE job.pc = "health" /\ validated' = validated \union {job.dep}
      <4>1. Store!Validate(job.dep)
        BY <2>4, <3>2 DEF Store!Validate, Routed
      <4> QED
        BY <2>3, <3>2, <4>1 DEF Store!Next
    <3> QED
      BY <2>2, <3>1, <3>2 DEF ValidMove
  <2>5. CASE /\ job.pc = "commit" /\ routes' = NextTable(job.dep)
             /\ committed' = committed \union {job.dep} /\ UNCHANGED Repeated
    <3>1. UNCHANGED validated
      BY <2>2, <2>5 DEF ValidMove
    <3>2. Store!Promote(job.dep)
      BY <2>1, <2>5, <3>1, CommitPromotes
    <3> QED
      BY <2>3, <2>5, <3>2 DEF Store!Next
  <2>6. CASE /\ job.pc = "rcommit" /\ HasRoute(Target)
             /\ routes' = NextTable(Target) /\ UNCHANGED committed /\ UNCHANGED Repeated
    <3>1. UNCHANGED validated /\ Target \in Deployments /\ job.port \in Ports
      BY <2>1, <2>2, <2>6, TargetType DEF ValidMove, IInv, JobInv
    <3>2. \A s \in Services : Dep(routes'[s]) = Dep(routes[s]) /\ (routes'[s] = NoRoute <=> routes[s] = NoRoute)
      BY <2>1, <2>6, <3>1, TableOf DEF HasRoute, RouteOf, Dep
    <3>3. Routed(routes') = Routed(routes)
      BY <3>2 DEF Routed, Dep
    <3>4. [s \in Services |-> Dep(routes'[s])] = [s \in Services |-> Dep(routes[s])]
      BY <3>2
    <3> QED
      BY <2>6, <3>1, <3>3, <3>4 DEF Store!vars
  <2> QED
    BY <2>2, <2>4, <2>5, <2>6, <2>7, <2>8 DEF RoutesMove
<1> QED
  BY <1>1, <1>2

LEMMA StoreInit == Init => Store!Init
BY DEF Init, Store!Init, EmptyTable, Dep, Routed, Repeated

\* Files, containers, failures, crashes and recovery of a node are invisible in
\* what is active: a service goes from one healthy deployment to the next in one
\* step, and back to one that was replaced only when its command was delivered
\* again (switchRuntimeRoute, ADR 0015).
THEOREM ImplementsRouteStore == Spec => RefinesRouteStore
<1>1. Init => ValidInv
  BY DEF Init, ValidInv, Idle
<1>2. SingleInv /\ ValidInv /\ [Next]_vars => ValidInv'
  <2>1. SingleInv /\ ValidInv /\ Next => ValidInv'
    BY ValidStep DEF SingleInv, ApartInv
  <2>2. ValidInv /\ UNCHANGED vars => ValidInv'
    BY DEF vars, ValidInv
  <2> QED
    BY <2>1, <2>2
<1>3. SingleInv /\ ValidInv /\ [Next]_vars => [Store!Next]_(Store!vars)
  BY StoreStep
<1> QED
  BY <1>1, <1>2, <1>3, StoreInit, SingleInvariance, PTL DEF Spec, RefinesRouteStore, Store!Spec

-----------------------------------------------------------------------------
(* What recovery reports is reached *)

\* A backend runs on as it did, is started, or the host was rebooted; only the
\* one that holds a candidate's volumes is stopped and kept.
PortMove ==
    \A d \in Deployments :
        /\ backend'[d] = "running" =>
              \/ backend[d] = "running" /\ port'[d] = port[d]
              \/ Starts(d)
              \/ ~NoPortChange'
        /\ backend'[d] = "stopped" =>
              \/ backend[d] = "stopped"
              \/ job.pc = "admit" /\ NeedsStop(job.dep) /\ d = RouteOf(job.dep).dep

\* The rows of a configuration that name some of the deployments name them for
\* their own service, and on the port each of them runs on.
Kept(t, ds, backends, ports) ==
    \A s \in Services \ Stateful : t[s] # NoRoute /\ t[s].dep \in ds =>
        /\ ServiceOf[t[s].dep] = s
        /\ backends[t[s].dep] = "running" => ports[t[s].dep] = t[s].port

\* Goroutines that wait have the writer of the connection that serves, if any.
LinkInv == conn # "serving" => \A c \in pending : ~c.linked

\* No job starts the backend of a committed route.
StartInv == job.pc = "start" => ~HasRoute(job.dep)

\* Recovery has no route to report that a job beside it is still to commit: the
\* job is older than the recovery, which reports what routes.json held.
BesideInv == conn = "report" /\ Deploying(job.dep) /\ job.dep \in report => HasRoute(job.dep)

\* The backend of a stateless service is never kept stopped.
NotStoppedInv == \A d \in Deployments : ServiceOf[d] \notin Stateful => backend[d] # "stopped"

\* Until a reboot or a restart moves a backend to another port, whatever crashes
\* or fails: a candidate's backend, those of routes.json, and those recovery has
\* still to report, stay on the ports they were given.
KeptInv == NoPortChange =>
    /\ job.pc # "idle" => job.kind = "deploy"
    /\ \A c \in pending : c.kind = "deploy"
    /\ job.pc \in {"health", "mark", "apply", "verify", "commit"} /\ backend[job.dep] = "running"
          => port[job.dep] = job.port
    /\ Kept(routes, Deployments, backend, port)
    /\ conn = "report" => Kept(live, report, backend, port)

ReportInv == LinkInv /\ StartInv /\ BesideInv /\ NotStoppedInv /\ KeptInv

\* recovery begins to report what routes.json holds, and goes through it
ReportMove == conn' = "report" =>
    \/ conn = "report" /\ report' \subseteq report
    \/ /\ conn = "markers" /\ report' = Routed(routes) /\ live' = routes
       /\ UNCHANGED <<routes, job>>

\* a command that waits is of the connection that serves, or begins no deployment
LinkMove ==
    /\ conn' # "serving" => \/ conn # "serving" /\ pending' \subseteq pending
                            \/ \A c \in pending' : ~c.linked
    /\ job.pc = "idle" /\ job'.pc = "build" => \E c \in pending : c.linked

LEMMA ReportMoves ==
    ASSUME IInv, Next
    PROVE  ReportMove
<1>a. ASSUME UNCHANGED <<conn, report>> PROVE ReportMove
  BY <1>a DEF ReportMove
<1>1. ASSUME Build \/ AdmitRouted \/ AdmitRefused \/ AdmitStateless \/ AdmitStateful \/ Start \/ Health
             \/ Mark \/ ApplyCandidate \/ ApplyFirst \/ ApplyFails \/ Verify \/ Commit
             \/ Promote \/ PromoteFails \/ Clear \/ Restore \/ Abort \/ Unstop \/ UnstopFails
             \/ Fail \/ Settle
      PROVE  UNCHANGED <<conn, report>>
  BY <1>1 DEF Build, AdmitRouted, AdmitRefused, AdmitStateless, AdmitStateful, Start, Health, Mark,
     ApplyCandidate, ApplyFirst, ApplyFails, Verify, Commit, Promote, PromoteFails, Clear, Restore,
     Abort, Unstop, UnstopFails, Fail, Settle
<1>2. ASSUME RestartStep PROVE UNCHANGED <<conn, report>>
  BY <1>2 DEF RestartStep, Restart, RestartHealth, RestartCommit, RestartApply, RestartVerify
<1>3. ASSUME \/ \E c \in pending : TakeRuntimeMu(c)
             \/ \E d \in Deployments :
                   ReceiveDeploy(d) \/ ReceiveRestart(d) \/ Drain(d) \/ MonitorRestart(d) \/ RecoverMarker(d)
      PROVE  UNCHANGED <<conn, report>>
  BY <1>3 DEF TakeRuntimeMu, ReceiveDeploy, ReceiveRestart, Drain, MonitorRestart, RecoverMarker
<1>4. ASSUME Connect \/ Serve \/ Disconnect \/ AgentCrash \/ HostReboot PROVE ReportMove
  BY <1>4 DEF Connect, Serve, Disconnect, AgentCrash, HostReboot, AgentDies, ReportMove
<1>5. ASSUME NEW d \in Deployments, RecoverReport(d) PROVE ReportMove
  BY <1>5 DEF RecoverReport, ReportMove
<1>6. ASSUME RecoverApply PROVE ReportMove
  <2>1. CASE ApplyCommitted(routes) /\ report' = Routed(routes)
    <3>1. live' = routes
      BY <2>1 DEF ApplyCommitted
    <3> QED
      BY <1>6, <2>1, <3>1 DEF RecoverApply, ReportMove
  <2>2. CASE conn' = "none"
    BY <2>2 DEF ReportMove
  <2> QED
    BY <1>6, <2>1, <2>2 DEF RecoverApply, RecoveryTable
<1> QED
  BY <1>a, <1>1, <1>2, <1>3, <1>4, <1>5, <1>6 DEF Next, JobStep, DeployStep, ConnStep

LEMMA LinkMoves ==
    ASSUME IInv, Next
    PROVE  LinkMove
<1>0. job \in Jobs /\ pending \subseteq Commands
  BY DEF IInv, TypeOK
<1>a. ASSUME UNCHANGED <<conn, pending>>, job.pc = "idle" => job' = job PROVE LinkMove
  BY <1>a DEF LinkMove
<1>1. ASSUME Build \/ AdmitRouted \/ AdmitRefused \/ AdmitStateless \/ AdmitStateful \/ Start \/ Health
             \/ Mark \/ ApplyCandidate \/ ApplyFirst \/ ApplyFails \/ Verify \/ Commit
             \/ Promote \/ PromoteFails \/ Clear \/ Restore \/ Abort \/ Unstop \/ UnstopFails
             \/ Fail \/ Settle
      PROVE  UNCHANGED <<conn, pending>> /\ job.pc # "idle"
  BY <1>1 DEF Build, AdmitRouted, AdmitRefused, AdmitStateless, AdmitStateful, Start, Health, Mark,
     ApplyCandidate, ApplyFirst, ApplyFails, Verify, Commit, Promote, PromoteFails, Clear, Restore,
     Abort, Unstop, UnstopFails, Fail, Settle
<1>2. ASSUME RestartStep PROVE UNCHANGED <<conn, pending>> /\ job.pc # "idle"
  BY <1>2 DEF RestartStep, Restart, RestartHealth, RestartCommit, RestartApply, RestartVerify
<1>3. ASSUME \E d \in Deployments : Drain(d) \/ RecoverMarker(d) \/ RecoverReport(d)
      PROVE  UNCHANGED <<conn, pending, job>>
  BY <1>3 DEF Drain, RecoverMarker, RecoverReport
<1>4. ASSUME NEW d \in Deployments, ReceiveDeploy(d) \/ ReceiveRestart(d) \/ MonitorRestart(d)
      PROVE  LinkMove
  BY <1>4 DEF ReceiveDeploy, ReceiveRestart, MonitorRestart, LinkMove
<1>5. ASSUME NEW c \in pending, TakeRuntimeMu(c) PROVE LinkMove
  <2>1. job'.pc = "build" => c.linked
    BY <1>0, <1>5 DEF TakeRuntimeMu, NewJob, Idle, Commands, Kinds
  <2>2. UNCHANGED conn /\ pending' \subseteq pending
    BY <1>5 DEF TakeRuntimeMu
  <2> QED
    BY <2>1, <2>2 DEF LinkMove
<1>6. ASSUME Connect \/ RecoverApply \/ Serve PROVE LinkMove
  BY <1>6 DEF Connect, RecoverApply, Serve, LinkMove
<1>7. ASSUME Disconnect PROVE LinkMove
  <2>1. job.pc = "idle" => job' = job
    BY <1>7 DEF Disconnect
  <2>2. \A c \in pending' : ~c.linked
    <3>1. \A c \in pending : ~Unlink(c).linked
      BY <1>0 DEF Unlink, Commands
    <3> QED
      BY <1>7, <3>1 DEF Disconnect
  <2> QED
    BY <2>1, <2>2 DEF LinkMove
<1>8. ASSUME AgentCrash \/ HostReboot PROVE LinkMove
  BY <1>8 DEF AgentCrash, HostReboot, AgentDies, Idle, LinkMove
<1> QED
  BY <1>a, <1>1, <1>2, <1>3, <1>4, <1>5, <1>6, <1>7, <1>8 DEF Next, JobStep, DeployStep, ConnStep

LEMMA SamePorts ==
    ASSUME UNCHANGED <<backend, port>>
    PROVE  PortMove
BY DEF PortMove

\* a backend is removed
LEMMA RemovedPorts ==
    ASSUME IInv, NEW d \in Deployments, StopBackend(d, "absent")
    PROVE  PortMove
<1>1. \A e \in Deployments : /\ backend'[e] = IF e = d THEN "absent" ELSE backend[e]
                             /\ port'[e] = IF e = d THEN 0 ELSE port[e]
  BY DEF StopBackend, IInv, TypeOK
<1> QED
  BY <1>1 DEF PortMove

\* a backend is started
LEMMA StartedPorts ==
    ASSUME IInv, NEW d \in Deployments, NEW to, StartBackend(d, to), Starts(d)
    PROVE  PortMove
<1>1. \A e \in Deployments : e # d => backend'[e] = backend[e] /\ port'[e] = port[e]
  BY DEF StartBackend, IInv, TypeOK
<1>2. backend'[d] = "running"
  BY DEF StartBackend, IInv, TypeOK
<1> QED
  BY <1>1, <1>2 DEF PortMove

LEMMA StartedJob ==
    ASSUME IInv, job.pc # "idle", NEW d \in Deployments, NEW to, StartBackend(d, to)
    PROVE  job'.pc = to /\ port'[d] = job'.port
<1>1. PICK p \in Ports :
         /\ backend' = [backend EXCEPT ![d] = "running"]
         /\ port' = [port EXCEPT ![d] = p]
         /\ job' = [job EXCEPT !.port = p, !.pc = to]
  BY DEF StartBackend, FreePorts
<1>2. port'[d] = p
  BY <1>1 DEF IInv, TypeOK
<1>3. job \in Jobs
  BY DEF IInv, TypeOK
<1>4. job'.pc = to /\ job'.port = p
  BY <1>1, <1>3 DEF Jobs, Idle
<1> QED
  BY <1>2, <1>4

LEMMA PortMoves ==
    ASSUME IInv, Next
    PROVE  PortMove
<1>0. /\ job \in Jobs /\ backend \in [Deployments -> {"absent", "running", "stopped"}]
      /\ port \in [Deployments -> Ports \union {0}]
      /\ job.pc # "idle" => job.dep \in Deployments
  BY JobFields DEF IInv, TypeOK
<1>1. ASSUME Build \/ AdmitRouted \/ AdmitRefused \/ Health \/ Mark \/ ApplyCandidate \/ ApplyFirst
             \/ ApplyFails \/ Verify \/ Commit \/ Promote \/ PromoteFails \/ Clear \/ Restore
             \/ UnstopFails \/ Fail \/ Settle
      PROVE  PortMove
  <2>1. UNCHANGED <<backend, port>>
    BY <1>1 DEF Build, AdmitRouted, AdmitRefused, Health, Mark, ApplyCandidate, ApplyFirst, ApplyFails,
       Verify, Commit, Promote, PromoteFails, Clear, Restore, UnstopFails, Fail, Settle, docker
  <2> QED
    BY <2>1, SamePorts
<1>2. ASSUME AdmitStateless PROVE PortMove
  BY <1>0, <1>2, RemovedPorts DEF AdmitStateless
<1>3. ASSUME AdmitStateful PROVE PortMove
  <2> DEFINE e == RouteOf(job.dep).dep
  <2>1. job.pc = "admit" /\ NeedsStop(job.dep)
    BY <1>3 DEF AdmitStateful
  <2>2. CASE StopBackend(job.dep, "absent")
    BY <1>0, <2>1, <2>2, RemovedPorts
  <2>3. CASE /\ backend' = [backend EXCEPT ![job.dep] = "absent", ![e] = "stopped"]
             /\ port' = [port EXCEPT ![job.dep] = 0, ![e] = 0]
    <3>1. \A d \in Deployments : d # e =>
             /\ backend'[d] = IF d = job.dep THEN "absent" ELSE backend[d]
             /\ port'[d] = IF d = job.dep THEN 0 ELSE port[d]
      BY <1>0, <2>3
    <3>2. \A d \in Deployments : d = e => backend'[d] = "stopped"
      BY <1>0, <2>3
    <3> QED
      BY <2>1, <3>1, <3>2 DEF PortMove
  <2> QED
    BY <1>3, <2>2, <2>3 DEF AdmitStateful
<1>4. ASSUME Start PROVE PortMove
  <2>1. CASE UNCHANGED <<backend, port>>
    BY <2>1, SamePorts
  <2>2. CASE StartBackend(job.dep, IF job.linked THEN "health" ELSE "abort")
    <3>0. job.pc = "start" /\ (IF job.linked THEN "health" ELSE "abort") \in {"health", "abort"}
      BY <1>4 DEF Start
    <3>1. Starts(job.dep)
      BY <1>0, <2>2, <3>0, StartedJob DEF Starts
    <3> QED
      BY <1>0, <1>4, <2>2, <3>1, StartedPorts DEF Start
  <2> QED
    BY <1>4, <2>1, <2>2 DEF Start
<1>5. ASSUME Abort PROVE PortMove
  BY <1>0, <1>5, RemovedPorts, SamePorts DEF Abort
<1>6. ASSUME Unstop PROVE PortMove
  <2>1. CASE UNCHANGED <<backend, port>>
    BY <2>1, SamePorts
  <2>2. ASSUME NEW to \in {"rcommit", "fail"}, StartBackend(job.stopped.dep, to) PROVE PortMove
    <3>1. job.pc = "unstop"
      BY <1>6 DEF Unstop
    <3>2. job.stopped.dep \in Deployments
      BY <3>1, JobFields DEF IInv, JobInv, TypeOK, Route
    <3>3. Starts(job.stopped.dep)
      BY <2>2, <3>1, <3>2, StartedJob DEF Starts
    <3> QED
      BY <2>2, <3>2, <3>3, StartedPorts
  <2> QED
    BY <1>6, <2>1, <2>2 DEF Unstop
<1>7. ASSUME Restart PROVE PortMove
  <2>1. CASE UNCHANGED <<backend, port>>
    BY <2>1, SamePorts
  <2>2. CASE HasRoute(job.dep) /\ StartBackend(job.dep, "rhealth")
    <3>0. job.pc = "restart"
      BY <1>7 DEF Restart
    <3>1. Starts(job.dep)
      BY <1>0, <2>2, <3>0, StartedJob DEF Starts
    <3> QED
      BY <1>0, <1>7, <2>2, <3>1, StartedPorts DEF Restart
  <2> QED
    BY <1>7, <2>1, <2>2 DEF Restart
<1>8. ASSUME RestartHealth \/ RestartCommit \/ RestartApply \/ RestartVerify PROVE PortMove
  <2>1. UNCHANGED <<backend, port>>
    BY <1>8 DEF RestartHealth, RestartCommit, RestartApply, RestartVerify, docker
  <2> QED
    BY <2>1, SamePorts
<1>9. ASSUME NEW d \in Deployments, RecoverMarker(d) \/ Drain(d) PROVE PortMove
  BY <1>9, RemovedPorts, SamePorts DEF RecoverMarker, Drain
<1>10. ASSUME Connect \/ RecoverApply \/ Serve \/ Disconnect \/ AgentCrash
       PROVE  PortMove
  <2>1. UNCHANGED <<backend, port>>
    BY <1>10 DEF Connect, RecoverApply, Serve, Disconnect, AgentCrash, docker
  <2> QED
    BY <2>1, SamePorts
<1>11. ASSUME HostReboot PROVE PortMove
  <2>1. ~NoPortChange' /\ UNCHANGED backend
    BY <1>11 DEF HostReboot, NoPortChange, IInv, TypeOK, Counters
  <2> QED
    BY <2>1 DEF PortMove
<1>12. ASSUME \/ \E c \in pending : TakeRuntimeMu(c)
              \/ \E d \in Deployments :
                    ReceiveDeploy(d) \/ ReceiveRestart(d) \/ MonitorRestart(d) \/ RecoverReport(d)
       PROVE  PortMove
  <2>1. UNCHANGED <<backend, port>>
    BY <1>12 DEF TakeRuntimeMu, ReceiveDeploy, ReceiveRestart, MonitorRestart, RecoverReport, docker
  <2> QED
    BY <2>1, SamePorts
<1> QED
  BY <1>1, <1>2, <1>3, <1>4, <1>5, <1>6, <1>7, <1>8, <1>9, <1>10, <1>11, <1>12
  DEF Next, JobStep, DeployStep, RestartStep, ConnStep

\* who tells the control plane something
LEMMA OthersSilent ==
    ASSUME Next
    PROVE  \/ UNCHANGED said
           \/ Fail \/ Settle \/ \E e \in Deployments : RecoverMarker(e) \/ RecoverReport(e)
<1>1. ASSUME Build \/ AdmitRouted \/ AdmitRefused \/ AdmitStateless \/ AdmitStateful \/ Start \/ Health
             \/ Mark \/ ApplyCandidate \/ ApplyFirst \/ ApplyFails \/ Verify \/ Commit
             \/ Promote \/ PromoteFails \/ Clear \/ Restore \/ Abort \/ Unstop \/ UnstopFails
      PROVE  UNCHANGED said
  BY <1>1 DEF Build, AdmitRouted, AdmitRefused, AdmitStateless, AdmitStateful, Start, Health, Mark,
     ApplyCandidate, ApplyFirst, ApplyFails, Verify, Commit, Promote, PromoteFails, Clear, Restore,
     Abort, Unstop, UnstopFails
<1>2. ASSUME RestartStep \/ Connect \/ RecoverApply \/ Serve \/ Disconnect \/ AgentCrash \/ HostReboot
      PROVE  UNCHANGED said
  BY <1>2 DEF RestartStep, Restart, RestartHealth, RestartCommit, RestartApply, RestartVerify,
     Connect, RecoverApply, Serve, Disconnect, AgentCrash, HostReboot
<1>3. ASSUME (\E c \in pending : TakeRuntimeMu(c))
             \/ \E e \in Deployments : ReceiveDeploy(e) \/ ReceiveRestart(e) \/ Drain(e) \/ MonitorRestart(e)
      PROVE  UNCHANGED said
  BY <1>3 DEF TakeRuntimeMu, ReceiveDeploy, ReceiveRestart, Drain, MonitorRestart
<1> QED
  BY <1>1, <1>2, <1>3 DEF Next, JobStep, DeployStep, ConnStep

\* recovery reports what routed health has answered for
LEMMA ReportedHeard ==
    ASSUME IInv, Next, NEW d \in Deployments, Reported(d)
    PROVE  conn = "report" /\ d \in report /\ RoutedHealthy(d) /\ backend[d] # "absent"
<1>0. said \in [Deployments -> SUBSET {"READY", "FAILED", "RECOVERED"}]
  BY DEF IInv, TypeOK
<1>1. CASE \E e \in Deployments : RecoverReport(e)
  BY <1>0, <1>1 DEF RecoverReport, Reported
<1>2. CASE Fail \/ Settle \/ \E e \in Deployments : RecoverMarker(e)
  BY <1>0, <1>2 DEF Fail, Settle, Tell, RecoverMarker, Reported
<1>3. CASE UNCHANGED said
  BY <1>3 DEF Reported
<1> QED
  BY <1>1, <1>2, <1>3, OthersSilent

LEMMA NotStoppedStep ==
    ASSUME IInv, RowsInv, NotStoppedInv, Next
    PROVE  NotStoppedInv'
<1>1. PortMove
  BY PortMoves
<1> SUFFICES ASSUME NEW d \in Deployments, ServiceOf[d] \notin Stateful, backend'[d] = "stopped"
             PROVE  FALSE
  BY DEF NotStoppedInv
<1>2. job.pc = "admit" /\ NeedsStop(job.dep) /\ d = RouteOf(job.dep).dep
  BY <1>1 DEF PortMove, NotStoppedInv
<1>3. job.dep \in Deployments
  BY <1>2, JobFields DEF IInv, TypeOK
<1> QED
  BY <1>2, <1>3, ServiceAssumption DEF NeedsStop, RouteOf, RowsInv

LEMMA LinkStep ==
    ASSUME IInv, LinkInv, Next
    PROVE  LinkInv'
BY LinkMoves DEF LinkInv, LinkMove

LEMMA StartStep ==
    ASSUME IInv, StartInv, Next
    PROVE  StartInv'
<1>1. RoutesMove /\ Moved
  BY RoutesMoves, JobMoves
<1> SUFFICES ASSUME job'.pc = "start" PROVE ~HasRoute(job.dep)' /\ job'.dep = job.dep
  BY DEF StartInv, HasRoute, RouteOf
<1>2. job'.dep = job.dep /\ job.pc \in {"admit", "start"} /\ ~HasRoute(job.dep)
  BY <1>1 DEF Moved, Begins, Follows, Carries, Looked, StartInv
<1>3. UNCHANGED routes
  BY <1>1, <1>2 DEF RoutesMove
<1> QED
  BY <1>2, <1>3 DEF HasRoute, RouteOf

LEMMA BesideStep ==
    ASSUME IInv, RowsInv, LinkInv, BesideInv, Next
    PROVE  BesideInv'
<1>1. RoutesMove /\ Moved /\ ReportMove /\ LinkMove
  BY RoutesMoves, JobMoves, ReportMoves, LinkMoves
<1> SUFFICES ASSUME conn' = "report", Deploying(job.dep)', job'.dep \in report'
             PROVE  HasRoute(job.dep)'
  BY DEF BesideInv
<1>2. job'.pc # "idle" /\ job'.kind = "deploy"
  BY DEF Deploying
<1>3. CASE conn = "report" /\ report' \subseteq report
  <2>1. ~(job.pc = "idle" /\ Begins)
    BY <1>1, <1>2, <1>3 DEF Begins, LinkMove, LinkInv
  <2>2. job.pc # "idle" /\ job'.dep = job.dep /\ job.kind = "deploy"
    BY <1>1, <1>2, <2>1 DEF Moved, Carries
  <2>3. HasRoute(job.dep) /\ job.dep \in Deployments
    BY <1>3, <2>2, JobFields DEF BesideInv, Deploying, IInv, TypeOK
  <2>4. HasRoute(job.dep)' <=> (RouteOf(job.dep) # NoRoute /\ RouteOf(job.dep).dep = job.dep)'
    BY DEF HasRoute
  <2>5. routes'[ServiceOf[job.dep]] # NoRoute /\ routes'[ServiceOf[job.dep]].dep = job.dep
    <3>1. CASE UNCHANGED routes
      BY <2>3, <3>1 DEF HasRoute, RouteOf
    <3>2. CASE job.pc = "commit" /\ routes' = NextTable(job.dep)
      BY <2>3, <3>2, TableOf DEF IInv, JobInv
    <3>3. CASE job.pc = "rcommit" /\ HasRoute(Target) /\ routes' = NextTable(Target)
      <4>1. Target \in Deployments /\ job.port \in Ports
        BY <3>3, TargetType DEF IInv, JobInv
      <4>2. CASE ServiceOf[Target] = ServiceOf[job.dep]
        BY <2>3, <3>3, <4>1, <4>2, TableOf DEF HasRoute, RouteOf
      <4>3. CASE ServiceOf[Target] # ServiceOf[job.dep]
        BY <2>3, <3>3, <4>1, <4>3, TableOf, ServiceAssumption DEF HasRoute, RouteOf
      <4> QED
        BY <4>2, <4>3
    <3> QED
      BY <1>1, <3>1, <3>2, <3>3 DEF RoutesMove
  <2> QED
    BY <2>2, <2>5 DEF HasRoute, RouteOf
<1>4. CASE report' = Routed(routes) /\ UNCHANGED <<routes, job>>
  <2>1. PICK s \in Services : routes[s] # NoRoute /\ routes[s].dep = job.dep
    BY <1>4 DEF Routed
  <2>2. ServiceOf[job.dep] = s
    BY <2>1 DEF RowsInv
  <2> QED
    BY <1>4, <2>1, <2>2 DEF HasRoute, RouteOf
<1> QED
  BY <1>1, <1>3, <1>4 DEF ReportMove

\* what the backends that run on without being restarted keep
LEMMA KeptStep ==
    ASSUME IInv, RowsInv, StoppedInv, DivInv, StartInv, BesideInv, KeptInv, Next
    PROVE  KeptInv'
<1> DEFINE Ready == {"health", "mark", "apply", "verify", "commit"}
<1> SUFFICES ASSUME NoPortChange'
             PROVE  /\ job'.pc # "idle" => job'.kind = "deploy"
                    /\ \A c \in pending' : c.kind = "deploy"
                    /\ job'.pc \in Ready /\ backend'[job'.dep] = "running" => port'[job'.dep] = job'.port
                    /\ Kept(routes', Deployments, backend', port')
                    /\ conn' = "report" => Kept(live', report', backend', port')
  BY DEF KeptInv
<1>1. RoutesMove /\ ConfigMove /\ ReportMove /\ CommandMove /\ PortMove /\ Moved
  BY RoutesMoves, ConfigMoves, ReportMoves, CommandMoves, PortMoves, JobMoves
<1>2. NoPortChange
  BY Monotone
<1>3. job.pc # "idle" => job.dep \in Deployments /\ job.kind = "deploy"
  BY <1>2, JobFields DEF IInv, TypeOK, KeptInv
<1>4. job.pc \notin {"restart", "rhealth"}
  BY <1>3 DEF IInv, JobInv
<1>5. job'.pc # "idle" => job'.kind = "deploy"
  <2>1. CASE job.pc = "idle" /\ Begins
    BY <1>1, <1>2, <2>1 DEF CommandMove, Waits, Delivers, Asks, Takes, Unlinks, Loses, KeptInv, Begins
  <2> QED
    BY <1>1, <1>3, <2>1 DEF Moved, Carries
<1>6. ASSUME NEW c \in pending' PROVE c.kind = "deploy"
  <2>1. \A x \in pending : x.kind = "deploy" /\ Unlink(x).kind = x.kind
    BY <1>2 DEF KeptInv, Unlink, IInv, TypeOK, Commands
  <2>2. CASE Delivers
    <3>1. PICK d \in Deployments : \E x : x.kind = "deploy" /\ pending' = pending \union {x}
      BY <2>2 DEF Delivers
    <3>2. PICK x : x.kind = "deploy" /\ pending' = pending \union {x}
      BY <3>1
    <3> QED
      BY <1>6, <2>1, <3>2
  <2>3. CASE Unlinks
    <3>1. PICK x \in pending : c = Unlink(x)
      BY <1>6, <2>3 DEF Unlinks
    <3> QED
      BY <2>1, <3>1
  <2>4. CASE Takes \/ Waits \/ Loses
    BY <1>6, <2>1, <2>4 DEF Takes, Waits, Loses
  <2> QED
    BY <1>1, <2>2, <2>3, <2>4 DEF CommandMove, Asks
\* only the backends of a job that starts one move to another port
<1>7. ASSUME NEW d \in Deployments, backend'[d] = "running",
             ~(job.pc = "start" /\ d = job.dep), ~(job.pc = "unstop" /\ d = job.stopped.dep)
      PROVE  backend[d] = "running" /\ port'[d] = port[d]
  BY <1>1, <1>4, <1>7 DEF PortMove, Starts
<1>8. ASSUME job'.pc \in Ready, backend'[job'.dep] = "running" PROVE port'[job'.dep] = job'.port
  <2>1. /\ job.pc # "idle" /\ job'.dep = job.dep
        /\ \/ job.pc = "start" /\ job'.pc = "health"
           \/ job.pc \in Ready /\ job'.port = job.port
    BY <1>1, <1>8 DEF Moved, Begins, Follows, Carries
  <2>2. CASE job.pc = "start" /\ job'.pc = "health"
    BY <2>1, <2>2, BackendMoves DEF BackendMove
  <2>3. CASE job.pc \in Ready /\ job'.port = job.port
    <3>1. backend[job.dep] = "running" /\ port'[job.dep] = port[job.dep]
      BY <1>3, <1>7, <1>8, <2>1, <2>3
    <3> QED
      BY <1>2, <2>1, <2>3, <3>1 DEF KeptInv
  <2> QED
    BY <2>1, <2>2, <2>3
\* rows that are kept stay so
<1>9. ASSUME NEW t, NEW ds, ds \subseteq Deployments, Kept(t, ds, backend, port),
             job.pc = "start" => \A s \in Services \ Stateful : t[s] # NoRoute /\ t[s].dep \in ds => t[s].dep # job.dep
      PROVE  Kept(t, ds, backend', port')
  <2> SUFFICES ASSUME NEW s \in Services \ Stateful, t[s] # NoRoute, t[s].dep \in ds, backend'[t[s].dep] = "running"
               PROVE  port'[t[s].dep] = t[s].port
    BY <1>9 DEF Kept
  <2> DEFINE d == t[s].dep
  <2>1. d \in Deployments /\ ServiceOf[d] = s /\ (backend[d] = "running" => port[d] = t[s].port)
    BY <1>9 DEF Kept
  <2>2. ~(job.pc = "start" /\ d = job.dep)
    BY <1>9
  <2>3. ~(job.pc = "unstop" /\ d = job.stopped.dep)
    BY <1>3, <2>1 DEF IInv, JobInv, StoppedInv
  <2> QED
    BY <1>7, <2>1, <2>2, <2>3
<1>10. Kept(routes, Deployments, backend', port')
  <2>1. job.pc = "start" => \A s \in Services \ Stateful : routes[s] # NoRoute => routes[s].dep # job.dep
    BY DEF StartInv, HasRoute, RouteOf, RowsInv
  <2> QED
    BY <1>2, <1>9, <2>1 DEF KeptInv
\* so does the candidate's table
<1>11. ASSUME job.pc \in {"apply", "commit"} PROVE Kept(NextTable(job.dep), Deployments, backend', port')
  <2>1. job.dep \in Deployments /\ job.port \in Ports
    BY <1>3, <1>11 DEF IInv, JobInv
  <2> SUFFICES ASSUME NEW s \in Services \ Stateful, NextTable(job.dep)[s] # NoRoute
               PROVE  /\ NextTable(job.dep)[s].dep \in Deployments =>
                            ServiceOf[NextTable(job.dep)[s].dep] = s
                      /\ backend'[NextTable(job.dep)[s].dep] = "running" =>
                               port'[NextTable(job.dep)[s].dep] = NextTable(job.dep)[s].port
    BY DEF Kept
  <2>4. CASE s = ServiceOf[job.dep]
    <3>1. NextTable(job.dep)[s].dep = job.dep /\ NextTable(job.dep)[s].port = job.port
      BY <2>1, <2>4, TableOf
    <3>2. backend'[job.dep] = "running" => backend[job.dep] = "running" /\ port'[job.dep] = port[job.dep]
      BY <1>7, <1>11, <2>1
    <3> QED
      BY <1>2, <1>11, <2>1, <2>4, <3>1, <3>2 DEF KeptInv
  <2>5. CASE s # ServiceOf[job.dep]
    <3>1. NextTable(job.dep)[s] = routes[s] /\ routes[s] # NoRoute
      BY <2>1, <2>5, TableOf
    <3>2. routes[s].dep \in Deployments
      BY <3>1 DEF IInv, TypeOK, Table, Route
    <3> QED
      BY <1>10, <3>1, <3>2 DEF Kept
  <2> QED
    BY <2>4, <2>5
<1>12. Kept(routes', Deployments, backend', port')
  <2>1. CASE UNCHANGED routes
    BY <1>10, <2>1
  <2>2. CASE job.pc = "commit" /\ routes' = NextTable(job.dep)
    BY <1>11, <2>2
  <2>3. CASE job.pc = "rcommit" /\ HasRoute(Target) /\ routes' = NextTable(Target)
    <3>1. Target = job.stopped.dep /\ job.stopped # NoRoute /\ job.port \in Ports /\ Target \in Deployments
      BY <1>3, <2>3, TargetType DEF Target, IInv, JobInv
    <3>2. ServiceOf[Target] \in Stateful
      BY <2>3, <3>1 DEF StoppedInv
    <3>3. \A s \in Services \ Stateful : routes'[s] = routes[s]
      BY <2>3, <3>1, <3>2, TableOf
    <3> QED
      BY <1>10, <3>3 DEF Kept
  <2> QED
    BY <1>1, <2>1, <2>2, <2>3 DEF RoutesMove
\* what the router serves while recovery reports
<1>13. ASSUME conn' = "report" PROVE Kept(live', report', backend', port')
  <2>0. report' \subseteq Deployments
    BY TypeStep DEF TypeOK
  <2>a. ASSUME NEW t, Kept(t, Deployments, backend', port') PROVE Kept(t, report', backend', port')
    BY <2>0, <2>a DEF Kept
  <2>1. CASE live' = routes
    BY <1>10, <2>a, <2>1
  <2>2. CASE job.pc = "apply" /\ live' = NextTable(job.dep)
    BY <1>11, <2>a, <2>2
  <2>3. CASE conn = "report" /\ report' \subseteq report /\ live' = live
    <3>1. job.pc = "start" => job.dep \notin report
      BY <1>3, <2>3 DEF StartInv, BesideInv, Deploying
    <3>2. report \subseteq Deployments
      BY DEF IInv, TypeOK
    <3>3. Kept(live, report, backend', port')
      BY <1>2, <1>9, <2>3, <3>1, <3>2 DEF KeptInv
    <3> QED
      BY <2>3, <3>3 DEF Kept
  <2>4. CASE conn = "report" /\ report' \subseteq report
    <3>1. router.state # "stopped"
      BY <2>4 DEF DivInv
    <3>2. CASE Still \/ Marks \/ Clears
      BY <2>3, <2>4, <3>2 DEF Still, Marks, Clears
    <3>3. CASE Applies
      BY <2>2, <3>3 DEF Applies
    <3>4. CASE Reapplies
      BY <2>1, <3>4, AppliedAgrees DEF Reapplies
    <3>5. CASE ApplyStopped \/ Wakes
      BY <3>1, <3>5 DEF ApplyStopped, Wakes
    <3>6. CASE Forgets \/ Recovers \/ Reboots
      BY <1>13, <2>4, <3>6 DEF Forgets, Recovers, Reboots
    <3> QED
      BY <1>1, <3>2, <3>3, <3>4, <3>5, <3>6 DEF ConfigMove
  <2> QED
    BY <1>1, <1>13, <2>1, <2>4 DEF ReportMove
<1> QED
  BY <1>5, <1>6, <1>8, <1>12, <1>13

LEMMA ReportStep ==
    ASSUME ApartInv, DivInv, ReportInv, [Next]_vars
    PROVE  ReportInv'
<1>1. CASE Next
  BY <1>1, LinkStep, StartStep, BesideStep, NotStoppedStep, KeptStep DEF ApartInv, ReportInv
<1>2. CASE UNCHANGED vars
  <2>1. LinkInv' /\ NotStoppedInv'
    BY <1>2 DEF vars, ReportInv, LinkInv, NotStoppedInv
  <2>2. StartInv' /\ BesideInv'
    BY <1>2 DEF vars, ReportInv, StartInv, BesideInv, Deploying, HasRoute, RouteOf
  <2>3. KeptInv'
    BY <1>2 DEF vars, ReportInv, KeptInv, Kept, NoPortChange
  <2> QED
    BY <2>1, <2>2, <2>3 DEF ReportInv
<1> QED
  BY <1>1, <1>2

LEMMA ReportInit == Init => ReportInv
<1> SUFFICES ASSUME Init PROVE ReportInv
  OBVIOUS
<1>1. Kept(EmptyTable, Deployments, backend, port)
  BY DEF Kept, EmptyTable
<1>2. KeptInv
  BY <1>1 DEF Init, KeptInv, Idle
<1> QED
  BY <1>2 DEF Init, Idle, ReportInv, LinkInv, StartInv, BesideInv, NotStoppedInv

\* routed health has heard the deployment itself
LEMMA HeardReached ==
    ASSUME IInv, ReportInv, NoPortChange, NEW d \in Deployments, ServiceOf[d] \notin Stateful,
           conn = "report", d \in report, RoutedHealthy(d), backend[d] # "absent"
    PROVE  Reaches(d)
<1>1. backend[d] = "running"
  BY DEF ReportInv, NotStoppedInv, IInv, TypeOK
<1>2. live[ServiceOf[d]] # NoRoute /\ live[ServiceOf[d]].dep = d /\ router.state = "running"
  BY DEF RoutedHealthy
<1>3. port[d] = live[ServiceOf[d]].port
  BY <1>1, <1>2, ServiceAssumption DEF ReportInv, KeptInv, Kept
<1> QED
  BY <1>1, <1>2, <1>3 DEF Reaches

\* runtimeRecovered is sent for a deployment of a stateless service only when its
\* stable listener reaches that deployment's own backend, whatever was crashed,
\* dropped, failed or delivered again before, until Docker gives a backend
\* another port (recoverRuntimeRouter).
THEOREM RecoveredServes == Spec => RecoveredReachesSamePorts
<1>1. Init => ReportInv
  BY ReportInit
<1>2. ApartInv /\ DivInv /\ ReportInv /\ [Next]_vars => ReportInv'
  BY ReportStep
<1>3. ApartInv /\ DivInv /\ ReportInv /\ [Next]_vars =>
        [NoPortChange => \A d \in Deployments :
            ServiceOf[d] \notin Stateful /\ Reported(d) => Reaches(d)]_vars
  BY ReportedHeard, HeardReached DEF ApartInv
<1> QED
  BY <1>1, <1>2, <1>3, ApartInvariance, DivergenceInvariance, PTL DEF Spec, DivergenceInv, RecoveredReachesSamePorts
=============================================================================
