---------------------------- MODULE NodesMC_proofs ----------------------------
(***************************************************************************)
(* Proofs about what NodesMC puts together.  NodeCredentials, for any      *)
(* nodes, deployments, registries, runs of install.sh, dispatches,         *)
(* releases and faults; and RuntimeHealth, for any deployments,            *)
(* connections, cooldown, reports and troubles.                            *)
(***************************************************************************)
EXTENDS NodesMC, TLAPS

-----------------------------------------------------------------------------
(* Types *)

LEMMA TypeInit == Init => TypeOK
BY BoundsAssumption DEF Init, TypeOK, RowType, HostType, DepType, TicketType, NoNode, FreshHost, Runs, Releases, Steps

\* A script that was started has a number.
RunInv == \A n \in Nodes : host[n].pc # "idle" => host[n].run \in Runs

\* Records keep their types when a field is written.
LEMMA RowFields ==
    ASSUME NEW r \in RowType
    PROVE  /\ \A boot \in {"none", "live", "lapsed"} : [r EXCEPT !.boot = boot] \in RowType
           /\ \A k \in Runs : [r EXCEPT !.token = k, !.boot = "none"] \in RowType
           /\ \A online \in BOOLEAN : /\ [r EXCEPT !.online = online] \in RowType
                                      /\ [r EXCEPT !.online = online, !.seen = TRUE] \in RowType
           /\ ArchivedRow(r) \in RowType
BY DEF RowType, ArchivedRow

LEMMA Bounds ==
    /\ MaxRuns \in Nat /\ MaxTries \in Nat /\ MaxReleases \in Nat /\ MaxFaults \in Nat
    /\ MaxRuns # 0 /\ MaxTries # 0 /\ MaxReleases # 0
BY BoundsAssumption

LEMMA HostFields ==
    ASSUME NEW h \in HostType
    PROVE  /\ \A pc \in Steps : [h EXCEPT !.pc = pc] \in HostType
           /\ h.run < MaxRuns => [h EXCEPT !.pc = "sum", !.run = @ + 1, !.sum = 0] \in HostType
           /\ \A sum \in 0..MaxReleases : [h EXCEPT !.pc = "binary", !.sum = sum] \in HostType
           /\ Prepared(h) \in HostType
<1>1. \A pc \in Steps : [h EXCEPT !.pc = pc] \in HostType
  BY DEF HostType
<1>2. ASSUME h.run < MaxRuns PROVE [h EXCEPT !.pc = "sum", !.run = @ + 1, !.sum = 0] \in HostType
  <2>1. h.run \in Runs \union {0}
    BY DEF HostType
  <2>2. h.run + 1 \in Runs
    BY <1>2, <2>1, Bounds DEF Runs
  <2>3. 0 \in 0..MaxReleases /\ "sum" \in Steps
    BY Bounds DEF Steps
  <2>4. QED
    BY <2>2, <2>3 DEF HostType
<1>3. \A sum \in 0..MaxReleases : [h EXCEPT !.pc = "binary", !.sum = sum] \in HostType
  BY DEF HostType, Steps
<1>4. Prepared(h) \in HostType
  BY DEF HostType, Prepared, Steps
<1>5. QED
  BY <1>1, <1>2, <1>3, <1>4

LEMMA DepFields ==
    ASSUME NEW e \in DepType
    PROVE  /\ \A st \in {"QUEUED", "BUILT", "READY", "FAILED"} : [e EXCEPT !.st = st] \in DepType
           /\ \A st \in {"BUILDING", "FAILED"} : [e EXCEPT !.st = st, !.leased = FALSE] \in DepType
           /\ [e EXCEPT !.leased = FALSE] \in DepType
           /\ e.tries < MaxTries => [e EXCEPT !.leased = TRUE, !.tries = @ + 1] \in DepType
<1>1. /\ \A st \in {"QUEUED", "BUILT", "READY", "FAILED"} : [e EXCEPT !.st = st] \in DepType
      /\ \A st \in {"BUILDING", "FAILED"} : [e EXCEPT !.st = st, !.leased = FALSE] \in DepType
      /\ [e EXCEPT !.leased = FALSE] \in DepType
  BY DEF DepType
<1>2. ASSUME e.tries < MaxTries PROVE [e EXCEPT !.leased = TRUE, !.tries = @ + 1] \in DepType
  <2>1. e.tries + 1 \in 0..MaxTries
    BY <1>2, Bounds DEF DepType
  <2>2. QED
    BY <2>1 DEF DepType
<1>3. QED
  BY <1>1, <1>2

LEMMA AttemptFields ==
    ASSUME NEW a \in AttemptType
    PROVE  /\ \A at \in Stages : [a EXCEPT !.at = at] \in AttemptType
           /\ \A h \in Hosts \union {NoHost} : [a EXCEPT !.at = "issued", !.for = h] \in AttemptType
           /\ [a EXCEPT !.told = TRUE] \in AttemptType
BY DEF AttemptType, Stages

\* What one record of a function becomes, the function becomes with it.
LEMMA RowOf ==
    ASSUME row \in [Nodes -> RowType], NEW n \in Nodes, NEW r \in RowType
    PROVE  [row EXCEPT ![n] = r] \in [Nodes -> RowType]
OBVIOUS

LEMMA HostMoves ==
    ASSUME host \in [Nodes -> HostType], NEW n \in Nodes, NEW pc \in Steps, Moves(n, pc)
    PROVE  host' \in [Nodes -> HostType]
<1>1. host' = [host EXCEPT ![n] = [host[n] EXCEPT !.pc = pc]]
  BY DEF Moves
<1>2. [host[n] EXCEPT !.pc = pc] \in HostType
  BY HostFields
<1>3. QED
  BY <1>1, <1>2

\* the variables by the groups that an action leaves alone
LEMMA Groups ==
    /\ UNCHANGED agent <=> UNCHANGED <<proc, link>>
    /\ UNCHANGED release <=> UNCHANGED <<provider, published, listed>>
    /\ UNCHANGED tickets <=> UNCHANGED <<dep, ticket, config, attempts>>
    /\ UNCHANGED tokens <=> UNCHANGED <<issued, spent>>
    /\ UNCHANGED enrolled <=> UNCHANGED <<revoked, admitted, cut>>
    /\ UNCHANGED delivered <=> UNCHANGED <<refused, spoilt, pulled>>
BY DEF agent, release, tickets, tokens, enrolled, delivered

LEMMA LifecycleTypes ==
    ASSUME TypeOK, NEW n \in Nodes, Lifecycle(n)
    PROVE  TypeOK'
<1>0. row[n] \in RowType /\ NoNode \in RowType
  BY DEF TypeOK, NoNode, RowType
<1>1. CASE CreateNode(n)
  <2>1. [NoNode EXCEPT !.life = "ACTIVE", !.boot = "live"] \in RowType
    BY DEF NoNode, RowType
  <2>2. QED
    BY <1>1, <2>1, RowOf, Groups DEF CreateNode, TypeOK
<1>2. CASE BootstrapLapses(n)
  <2>1. row' = [row EXCEPT ![n] = [row[n] EXCEPT !.boot = "lapsed"]]
    BY <1>2 DEF BootstrapLapses
  <2>2. [row[n] EXCEPT !.boot = "lapsed"] \in RowType
    BY <1>0, RowFields
  <2>3. QED
    BY <1>2, <2>1, <2>2, RowOf, Groups DEF BootstrapLapses, TypeOK
<1>3. CASE Archive(n) \/ CleanUp(n)
  <2>1. row' = [row EXCEPT ![n] = ArchivedRow(row[n])] /\ ArchivedRow(row[n]) \in RowType
    BY <1>0, <1>3, RowFields DEF Archive, CleanUp, Revokes
  <2>2. row' \in [Nodes -> RowType]
    BY <2>1, RowOf DEF TypeOK
  <2>3. link' \in [Nodes -> {"none", "asked", "checked", "up"}]
    BY <1>3, Groups DEF Archive, CleanUp, TypeOK
  <2>4. QED
    BY <1>3, <2>2, <2>3, Groups DEF Archive, CleanUp, TypeOK
<1>4. QED
  BY <1>1, <1>2, <1>3 DEF Lifecycle

LEMMA InstallTypes ==
    ASSUME TypeOK, RunInv, NEW n \in Nodes, Install(n)
    PROVE  TypeOK'
<1> DEFINE h == host[n]
<1>0. h \in HostType /\ row[n] \in RowType
  BY DEF TypeOK
<1>1. CASE StartInstall(n)
  <2>1. host' = [host EXCEPT ![n] = [h EXCEPT !.pc = "sum", !.run = @ + 1, !.sum = 0]] /\ h.run < MaxRuns
    BY <1>1 DEF StartInstall
  <2>2. host' \in [Nodes -> HostType]
    BY <1>0, <2>1, HostFields DEF TypeOK
  <2>3. QED
    BY <1>1, <2>2, Groups DEF StartInstall, OnlyHost, TypeOK
<1>2. CASE AskRelease(n) \/ TakeBinary(n) \/ Poll(n) \/ Interrupt(n)
  <2>1. \E pc \in Steps : Moves(n, pc)
    BY <1>2 DEF AskRelease, TakeBinary, Poll, Interrupt, Steps
  <2>2. host' \in [Nodes -> HostType]
    BY <2>1, HostMoves DEF TypeOK
  <2>3. OnlyHost
    BY <1>2 DEF AskRelease, TakeBinary, Poll, Interrupt
  <2>4. QED
    BY <2>2, <2>3, Groups DEF OnlyHost, TypeOK
<1>3. CASE TakeSum(n)
  <2>1. host' = [host EXCEPT ![n] = [h EXCEPT !.pc = "binary", !.sum = provider.sum]]
        /\ provider.sum \in 0..MaxReleases
    BY <1>3 DEF TakeSum, TypeOK
  <2>2. host' \in [Nodes -> HostType]
    BY <1>0, <2>1, HostFields DEF TypeOK
  <2>3. QED
    BY <1>3, <2>2, Groups DEF TakeSum, OnlyHost, TypeOK
<1>4. CASE Prepare(n)
  <2>1. host' = [host EXCEPT ![n] = Prepared(h)] /\ Prepared(h) \in HostType
    BY <1>0, <1>4, HostFields DEF Prepare
  <2>2. host' \in [Nodes -> HostType]
    BY <2>1 DEF TypeOK
  <2>3. QED
    BY <1>4, <2>2, Groups DEF Prepare, OnlyHost, TypeOK
<1>5. CASE SendExchange(n)
  <2>1. /\ Moves(n, "await") /\ "await" \in Steps /\ h.pc = "exchange"
        /\ exchanges' = exchanges \union {<<n, h.run>>}
    BY <1>5 DEF SendExchange, Steps
  <2>2. host' \in [Nodes -> HostType]
    BY <2>1, HostMoves DEF TypeOK
  <2>3. h.run \in Runs
    BY <2>1 DEF RunInv
  <2>4. QED
    BY <1>5, <2>1, <2>2, <2>3, Groups DEF SendExchange, TypeOK
<1>6. CASE \E k \in Runs : Exchange(n, k)
  <2>1. PICK k \in Runs : Exchange(n, k)
    BY <1>6
  <2>2. exchanges' \subseteq exchanges /\ UNCHANGED <<agent, release, tickets>>
    BY <2>1 DEF Exchange
  <2>3. row' = row \/ (row' = [row EXCEPT ![n] = Exchanged(row[n], k)] /\ Exchanged(row[n], k) \in RowType)
    BY <1>0, <2>1, RowFields DEF Exchange, Exchanged
  <2>4. host' = host \/ \E pc \in Steps : Moves(n, pc)
    BY <2>1 DEF Exchange, Moves, Steps
  <2>5. host' \in [Nodes -> HostType]
    BY <2>4, HostMoves DEF TypeOK
  <2>6. QED
    BY <2>2, <2>3, <2>5, RowOf, Groups DEF TypeOK
<1>7. CASE Enable(n)
  <2>1. Moves(n, "poll") /\ "poll" \in Steps /\ h.env \in Runs \union {0}
    BY <1>0, <1>7 DEF Enable, Steps, HostType
  <2>2. host' \in [Nodes -> HostType]
    BY <2>1, HostMoves DEF TypeOK
  <2>3. proc' \in [Nodes -> Runs \union {0}]
    BY <1>7, <2>1 DEF Enable, TypeOK
  <2>4. QED
    BY <1>7, <2>2, <2>3, Groups DEF Enable, TypeOK
<1>8. QED
  BY <1>1, <1>2, <1>3, <1>4, <1>5, <1>6, <1>7 DEF Install

LEMMA ConnectionTypes ==
    ASSUME TypeOK, NEW n \in Nodes, Connection(n)
    PROVE  TypeOK'
<1> DEFINE Links == {"none", "asked", "checked", "up"}
<1>1. row[n] \in RowType /\ host[n] \in HostType
  BY DEF TypeOK
<1>2. ASSUME NEW online \in BOOLEAN
      PROVE  /\ [row EXCEPT ![n].online = online] \in [Nodes -> RowType]
             /\ [row EXCEPT ![n].online = online, ![n].seen = TRUE] \in [Nodes -> RowType]
  <2>1. /\ [row EXCEPT ![n].online = online] = [row EXCEPT ![n] = [row[n] EXCEPT !.online = online]]
        /\ [row EXCEPT ![n].online = online, ![n].seen = TRUE]
              = [row EXCEPT ![n] = [row[n] EXCEPT !.online = online, !.seen = TRUE]]
    BY DEF TypeOK
  <2>2. QED
    BY <1>1, <2>1, RowFields, RowOf DEF TypeOK
<1>3. UNCHANGED <<host, exchanges, release, tickets>>
  BY DEF Connection, RestartAgent, Dial, CheckToken, Hello, Disconnect, agent
<1>4. row' \in [Nodes -> RowType]
  BY <1>2 DEF Connection, RestartAgent, Dial, CheckToken, Hello, Disconnect, TypeOK
<1>5. link' \in [Nodes -> Links]
  BY DEF Connection, RestartAgent, Dial, CheckToken, Hello, Disconnect, TypeOK
<1>6. proc' \in [Nodes -> Runs \union {0}]
  BY <1>1 DEF Connection, RestartAgent, Dial, CheckToken, Hello, Disconnect, TypeOK, HostType
<1>7. QED
  BY <1>3, <1>4, <1>5, <1>6, Groups DEF TypeOK

LEMMA ReleaseTypes ==
    ASSUME TypeOK, LoadManifest \/ LoadBinary \/ Publish
    PROVE  TypeOK'
<1>1. CASE LoadManifest
  BY <1>1, Groups DEF LoadManifest, TypeOK, Releases
<1>2. CASE LoadBinary
  <2>1. provider' \in [st : {"empty", "loading", "ready"}, sum : 0..MaxReleases]
    BY <1>2, Bounds DEF LoadBinary, Loaded, TypeOK
  <2>2. \A n \in Nodes : [host[n] EXCEPT !.pc = "stopped"] \in HostType
    BY HostFields DEF TypeOK, Steps
  <2>3. host' \in [Nodes -> HostType]
    BY <1>2, <2>2 DEF LoadBinary, TypeOK
  <2>4. QED
    BY <1>2, <2>1, <2>3, Groups DEF LoadBinary, TypeOK
<1>3. CASE Publish
  <2>1. published' \in [sum : Releases, binary : Releases]
    BY <1>3, Bounds DEF Publish, TypeOK, Releases
  <2>2. QED
    BY <1>3, <2>1, Groups DEF Publish, TypeOK
<1>4. QED
  BY <1>1, <1>2, <1>3

LEMMA DepOf ==
    ASSUME dep \in [Deployments -> DepType], NEW d \in Deployments, NEW e \in DepType
    PROVE  [dep EXCEPT ![d] = e] \in [Deployments -> DepType]
OBVIOUS

LEMMA DeploymentTypes ==
    ASSUME TypeOK, NEW d \in Deployments, Deployment(d)
    PROVE  TypeOK'
<1>0. dep[d] \in DepType /\ ticket[d] \in TicketType
  BY DEF TypeOK
<1>1. CASE CreateDeployment(d) \/ LeaseExpires(d) \/ Promote(d)
  <2>1. \/ dep' = [dep EXCEPT ![d] = [dep[d] EXCEPT !.st = "QUEUED"]]
        \/ dep' = [dep EXCEPT ![d] = [dep[d] EXCEPT !.leased = FALSE]]
        \/ dep' = [dep EXCEPT ![d] = [dep[d] EXCEPT !.st = "READY"]]
    BY <1>1 DEF CreateDeployment, LeaseExpires, Promote
  <2>2. dep' \in [Deployments -> DepType]
    <3>1. /\ [dep[d] EXCEPT !.st = "QUEUED"] \in DepType /\ [dep[d] EXCEPT !.st = "READY"] \in DepType
          /\ [dep[d] EXCEPT !.leased = FALSE] \in DepType
      BY <1>0, DepFields
    <3>2. PICK e \in DepType : dep' = [dep EXCEPT ![d] = e]
      BY <2>1, <3>1, Zenon
    <3>3. QED
      BY <3>2 DEF TypeOK
  <2>3. UNCHANGED <<row, host, exchanges, agent, release, ticket, config, attempts>>
    BY <1>1 DEF CreateDeployment, LeaseExpires, Promote, Only
  <2>4. QED
    BY <2>2, <2>3, Groups DEF TypeOK
<1>2. CASE Dispatch(d)
  <2> DEFINE a == [dep |-> d, token |-> dep[d].tries + 1, at |-> "claimed", told |-> FALSE, for |-> NoHost]
             e == [dep[d] EXCEPT !.leased = TRUE, !.tries = @ + 1]
  <2>1. dep' = [dep EXCEPT ![d] = e] /\ dep[d].tries < MaxTries /\ attempts' = attempts \union {a}
    BY <1>2 DEF Dispatch, TypeOK
  <2>2. dep' \in [Deployments -> DepType]
    BY <1>0, <2>1, DepFields, DepOf DEF TypeOK
  <2>3. dep[d].tries + 1 \in 1..MaxTries
    BY <1>0, <2>1, Bounds DEF DepType
  <2>4. a \in AttemptType
    BY <2>3 DEF AttemptType, Stages
  <2>5. UNCHANGED <<row, host, exchanges, agent, release, ticket, config>>
    BY <1>2 DEF Dispatch, Only
  <2>6. QED
    BY <2>1, <2>2, <2>4, <2>5, Groups DEF TypeOK
<1>3. CASE TicketLapses(d)
  <2>1. ticket' = [ticket EXCEPT ![d] = [ticket[d] EXCEPT !.usable = FALSE]]
    BY <1>3 DEF TicketLapses
  <2>2. [ticket[d] EXCEPT !.usable = FALSE] \in TicketType
    BY <1>0 DEF TicketType
  <2>3. UNCHANGED <<row, host, exchanges, agent, release, dep, config, attempts>>
    BY <1>3 DEF TicketLapses, Only
  <2>4. QED
    BY <2>1, <2>2, <2>3, Groups DEF TypeOK
<1>4. QED
  BY <1>1, <1>2, <1>3 DEF Deployment

LEMMA AttemptTypes ==
    ASSUME TypeOK, NEW a \in attempts, Attempt(a)
    PROVE  TypeOK'
<1>0. /\ a \in AttemptType /\ a.dep \in Deployments /\ a.token \in 1..MaxTries
      /\ dep[a.dep] \in DepType /\ ticket[a.dep] \in TicketType
  BY DEF TypeOK, AttemptType
<1>1. UNCHANGED <<row, host, exchanges, agent, release, config>>
  BY DEF Attempt, Refuse, Issue, SendCommand, BeginAttempt, Claim, FinishAttempt, RecordBuilding,
         RecordOutcome, Only
<1>2. \/ attempts' \subseteq attempts
      \/ \E at \in Stages : attempts' = With(a, at)
      \/ \E h \in Hosts \union {NoHost} :
            attempts' = (attempts \ {a}) \union {[a EXCEPT !.at = "issued", !.for = h]}
      \/ attempts' = (attempts \ {a}) \union {[a EXCEPT !.told = TRUE]}
  <2>1. a.dep \in Images => HostOf[a.dep] \in Hosts
    BY HostsAssumption
  <2>2. CASE Issue(a)
    BY <2>1, <2>2 DEF Issue
  <2>3. CASE ~Issue(a)
    BY <2>3 DEF Attempt, Refuse, SendCommand, BeginAttempt, Claim, FinishAttempt, RecordBuilding,
         RecordOutcome, Stages
  <2>4. QED
    BY <2>2, <2>3
<1>3. attempts' \subseteq AttemptType
  <2>1. /\ \A at \in Stages : [a EXCEPT !.at = at] \in AttemptType
        /\ \A h \in Hosts \union {NoHost} : [a EXCEPT !.at = "issued", !.for = h] \in AttemptType
        /\ [a EXCEPT !.told = TRUE] \in AttemptType
    BY <1>0, AttemptFields
  <2>2. attempts' \subseteq attempts \/ \E b \in AttemptType : attempts' = (attempts \ {a}) \union {b}
    BY <1>2, <2>1, Zenon DEF With
  <2>3. QED
    BY <2>2 DEF TypeOK
<1>4. \/ dep' = dep
      \/ \E st \in {"BUILDING", "FAILED"} : dep' = [dep EXCEPT ![a.dep] = [dep[a.dep] EXCEPT !.st = st, !.leased = FALSE]]
      \/ \E st \in {"BUILT", "FAILED"} : dep' = [dep EXCEPT ![a.dep] = [dep[a.dep] EXCEPT !.st = st]]
  <2>1. CASE Refuse(a) \/ RecordBuilding(a)
    BY <1>0, <2>1 DEF Refuse, RecordBuilding, TypeOK
  <2>2. CASE RecordOutcome(a)
    BY <2>2 DEF RecordOutcome
  <2>3. CASE ~Refuse(a) /\ ~RecordBuilding(a) /\ ~RecordOutcome(a)
    BY <2>3 DEF Attempt, Issue, SendCommand, BeginAttempt, Claim, FinishAttempt, Only
  <2>4. QED
    BY <2>1, <2>2, <2>3
<1>5. dep' \in [Deployments -> DepType]
  <2>1. /\ \A st \in {"BUILDING", "FAILED"} : [dep[a.dep] EXCEPT !.st = st, !.leased = FALSE] \in DepType
        /\ \A st \in {"BUILT", "FAILED"} : [dep[a.dep] EXCEPT !.st = st] \in DepType
    BY <1>0, DepFields
  <2>2. dep' = dep \/ \E e \in DepType : dep' = [dep EXCEPT ![a.dep] = e]
    BY <1>4, <2>1, Zenon
  <2>3. QED
    BY <1>0, <2>2 DEF TypeOK
<1>6. \/ ticket' = ticket
      \/ ticket' = [ticket EXCEPT ![a.dep] = [ticket[a.dep] EXCEPT !.usable = FALSE]]
      \/ \E h \in Hosts \union {NoHost} : ticket' = [ticket EXCEPT ![a.dep] = Reissued(a.dep, a.token, h)]
  <2>1. CASE Issue(a)
    BY <2>1, HostsAssumption DEF Issue
  <2>2. CASE ~Issue(a)
    BY <2>2 DEF Attempt, Refuse, SendCommand, BeginAttempt, Claim, FinishAttempt, RecordBuilding,
         RecordOutcome, Only
  <2>3. QED
    BY <2>1, <2>2
<1>7. ticket' \in [Deployments -> TicketType]
  <2>1. \A h \in Hosts \union {NoHost} : Reissued(a.dep, a.token, h) \in TicketType
    BY <1>0 DEF Reissued, TicketType
  <2>2. [ticket[a.dep] EXCEPT !.usable = FALSE] \in TicketType
    BY <1>0 DEF TicketType
  <2>3. QED
    BY <1>0, <1>6, <2>1, <2>2 DEF TypeOK
<1>8. QED
  BY <1>1, <1>3, <1>5, <1>7, Groups DEF TypeOK

LEMMA RestartTypes == ASSUME TypeOK, RestartControlPlane PROVE TypeOK'
<1>1. /\ \A n \in Nodes : [row[n] EXCEPT !.online = FALSE] \in RowType
      /\ \A n \in Nodes : [host[n] EXCEPT !.pc = "stopped"] \in HostType
  BY RowFields, HostFields DEF TypeOK, Steps
<1>2. row' \in [Nodes -> RowType] /\ host' \in [Nodes -> HostType]
  BY <1>1 DEF RestartControlPlane, TypeOK
<1>3. provider' \in [st : {"empty", "loading", "ready"}, sum : 0..MaxReleases]
  BY Bounds DEF RestartControlPlane
<1>4. QED
  BY <1>2, <1>3 DEF RestartControlPlane, TypeOK

LEMMA RunStep ==
    ASSUME TypeOK, RunInv, [Next]_vars
    PROVE  RunInv'
<1> SUFFICES ASSUME NEW n \in Nodes, host'[n].pc # "idle" PROVE host'[n].run \in Runs
  BY DEF RunInv
<1>1. TypeOK /\ RunInv /\ host[n] \in HostType
  BY DEF TypeOK
<1>2. CASE host' = host
  BY <1>1, <1>2 DEF RunInv
<1>3. CASE \E m \in Nodes : Install(m)
  <2>1. PICK m \in Nodes : Install(m)
    BY <1>3
  <2>2. CASE StartInstall(m)
    BY <1>1, <2>2, Bounds DEF StartInstall, TypeOK, RunInv, HostType, Runs
  <2>3. CASE ~StartInstall(m)
    <3>1. host[m].pc # "idle" \/ host' = host
      BY <2>1, <2>3 DEF Install, AskRelease, TakeSum, TakeBinary, Prepare, SendExchange, Exchange,
           Enable, Poll, Interrupt, Idle
    <3>2. \/ host' = host \/ \E pc \in Steps : Moves(m, pc)
          \/ host' = [host EXCEPT ![m] = [host[m] EXCEPT !.pc = "binary", !.sum = provider.sum]]
          \/ host' = [host EXCEPT ![m] = Prepared(host[m])]
      BY <2>1, <2>3 DEF Install, AskRelease, TakeSum, TakeBinary, Prepare, SendExchange,
           Exchange, Enable, Poll, Interrupt, Moves, Steps
    <3>3. host[m] \in HostType
      BY DEF TypeOK
    <3>4. n # m => host'[n] = host[n]
      BY <3>2 DEF Moves, TypeOK
    <3>5. host'[n].run = host[n].run
      <4>1. \/ host'[m] = host[m] \/ \E pc \in Steps : host'[m] = [host[m] EXCEPT !.pc = pc]
            \/ host'[m] = [host[m] EXCEPT !.pc = "binary", !.sum = provider.sum]
            \/ host'[m] = Prepared(host[m])
        BY <3>2 DEF Moves, TypeOK
      <4>2. host'[m].run = host[m].run
        BY <3>3, <4>1 DEF Prepared, HostType
      <4>3. QED
        BY <3>4, <4>2
    <3>6. QED
      BY <3>1, <3>4, <3>5 DEF RunInv, TypeOK
  <2>4. QED
    BY <2>2, <2>3
<1>4. CASE LoadBinary \/ RestartControlPlane
  <2>1. host'[n] = host[n] \/ (host'[n] = [host[n] EXCEPT !.pc = "stopped"] /\ host[n].pc # "idle")
    BY <1>4 DEF LoadBinary, RestartControlPlane, Waiting
  <2>2. host'[n].run = host[n].run /\ host[n].pc # "idle"
    BY <1>1, <2>1 DEF HostType
  <2>3. QED
    BY <2>2 DEF RunInv
<1>5. QED
  <2>1. \/ \E m \in Nodes : Install(m)
        \/ LoadBinary \/ RestartControlPlane \/ host' = host
    BY DEF Next, vars, Lifecycle, CreateNode, BootstrapLapses, Archive, CleanUp, Connection, RestartAgent, Dial,
         CheckToken, Hello, Disconnect, LoadManifest, Publish, Deployment, CreateDeployment, Dispatch,
         LeaseExpires, TicketLapses, Promote, Attempt, Refuse, Issue, SendCommand, BeginAttempt, Claim,
         FinishAttempt, RecordBuilding, RecordOutcome, Only
  <2>2. QED
    BY <1>2, <1>3, <1>4, <2>1

LEMMA TypeStep == TypeOK /\ RunInv /\ [Next]_vars => TypeOK' /\ RunInv'
<1> SUFFICES ASSUME TypeOK, RunInv, [Next]_vars PROVE TypeOK' /\ RunInv'
  OBVIOUS
<1>1. CASE UNCHANGED vars
  BY <1>1, Groups, RunStep DEF vars, TypeOK
<1>2. CASE Next
  <2>1. TypeOK'
    BY <1>2, LifecycleTypes, InstallTypes, ConnectionTypes, ReleaseTypes, DeploymentTypes, AttemptTypes,
       RestartTypes DEF Next
  <2>2. QED
    BY <2>1, RunStep
<1>3. QED
  BY <1>1, <1>2

LEMMA TypeInvariance == Spec => [](TypeOK /\ RunInv)
<1>1. Init => TypeOK /\ RunInv
  BY TypeInit DEF Init, RunInv, FreshHost
<1>2. QED
  BY <1>1, TypeStep, PTL DEF Spec

\* Every variable keeps its type, whatever nodes, runs of install.sh and
\* dispatches there are (install.sh, source-broker.ts, index.ts).
THEOREM TypeCorrect == Spec => []TypeOK
BY TypeInvariance, PTL

-----------------------------------------------------------------------------
(* One-time credentials *)

\* A ticket is numbered by the dispatch it is of, and given once: a command that
\* waits for its ticket is the only one of its dispatch.
TicketInv ==
    /\ \A d \in Deployments : ticket[d].usable => ticket[d].token # 0
    /\ \A d \in Deployments, k \in 1..MaxTries : <<d, k>> \in issued => k <= dep[d].tries
    /\ \A a \in attempts : /\ a.token <= dep[a.dep].tries
                           /\ a.at = "claimed" => <<a.dep, a.token>> \notin issued
    /\ \A a, b \in attempts : a.dep = b.dep /\ a.token = b.token => a = b

\* A node that does not exist yet has been given nothing.
BootInv == \A n \in Nodes : row[n].life = "none" => \A t \in 1..MaxTries : <<n, t>> \notin issued

\* What a step of a command may do to tickets and commands.
LEMMA AttemptMoves ==
    ASSUME TypeOK, NEW a \in attempts, Attempt(a), ~Issue(a)
    PROVE  /\ UNCHANGED issued
           /\ \/ attempts' \subseteq attempts
              \/ \E b \in AttemptType : /\ b.dep = a.dep /\ b.token = a.token /\ b.at # "claimed"
                                        /\ attempts' = (attempts \ {a}) \union {b}
           /\ \A d \in Deployments : /\ dep'[d].tries = dep[d].tries
                                     /\ ticket'[d].token = ticket[d].token
                                     /\ ticket'[d].usable => ticket[d].usable
<1>0. /\ a \in AttemptType /\ a.dep \in Deployments
      /\ dep[a.dep] \in DepType /\ ticket[a.dep] \in TicketType
  BY DEF TypeOK, AttemptType
<1>1. UNCHANGED issued
  BY Groups DEF Attempt, Refuse, SendCommand, BeginAttempt, Claim, FinishAttempt, RecordBuilding,
         RecordOutcome, Only
<1>2. \/ attempts' \subseteq attempts
      \/ \E at \in Stages \ {"claimed"} : attempts' = With(a, at)
      \/ a.at # "claimed" /\ attempts' = (attempts \ {a}) \union {[a EXCEPT !.told = TRUE]}
  BY DEF Attempt, Refuse, SendCommand, BeginAttempt, Claim, FinishAttempt, RecordBuilding,
         RecordOutcome, Stages
<1>3. /\ \A at \in Stages \ {"claimed"} :
            LET b == [a EXCEPT !.at = at]
            IN  b \in AttemptType /\ b.dep = a.dep /\ b.token = a.token /\ b.at # "claimed"
      /\ a.at # "claimed" =>
            LET b == [a EXCEPT !.told = TRUE]
            IN  b \in AttemptType /\ b.dep = a.dep /\ b.token = a.token /\ b.at # "claimed"
  BY <1>0 DEF AttemptType
<1>4. \/ attempts' \subseteq attempts
      \/ \E b \in AttemptType : /\ b.dep = a.dep /\ b.token = a.token /\ b.at # "claimed"
                                /\ attempts' = (attempts \ {a}) \union {b}
  BY <1>2, <1>3, Zenon DEF With
<1>5. \/ dep' = dep
      \/ \E st \in {"BUILDING", "FAILED"} : dep' = [dep EXCEPT ![a.dep] = [dep[a.dep] EXCEPT !.st = st, !.leased = FALSE]]
      \/ \E st \in {"BUILT", "FAILED"} : dep' = [dep EXCEPT ![a.dep] = [dep[a.dep] EXCEPT !.st = st]]
  <2>1. CASE Refuse(a) \/ RecordBuilding(a)
    BY <1>0, <2>1 DEF Refuse, RecordBuilding, TypeOK
  <2>2. CASE RecordOutcome(a)
    BY <2>2 DEF RecordOutcome
  <2>3. CASE ~Refuse(a) /\ ~RecordBuilding(a) /\ ~RecordOutcome(a)
    BY <2>3 DEF Attempt, SendCommand, BeginAttempt, Claim, FinishAttempt, Only
  <2>4. QED
    BY <2>1, <2>2, <2>3
<1>6. \A d \in Deployments : dep'[d].tries = dep[d].tries
  <2> DEFINE Same(e) == e.tries = dep[a.dep].tries
  <2>1. /\ \A st \in {"BUILDING", "FAILED"} : Same([dep[a.dep] EXCEPT !.st = st, !.leased = FALSE])
        /\ \A st \in {"BUILT", "FAILED"} : Same([dep[a.dep] EXCEPT !.st = st])
    BY <1>0 DEF DepType
  <2> HIDE DEF Same
  <2>2. dep' = dep \/ \E e : Same(e) /\ dep' = [dep EXCEPT ![a.dep] = e]
    BY <1>5, <2>1, Zenon
  <2>3. QED
    BY <1>0, <2>2 DEF TypeOK, Same
<1>7. ticket' = ticket \/ ticket' = [ticket EXCEPT ![a.dep] = [ticket[a.dep] EXCEPT !.usable = FALSE]]
  BY DEF Attempt, Refuse, SendCommand, BeginAttempt, Claim, FinishAttempt, RecordBuilding,
         RecordOutcome, Only
<1>8. \A d \in Deployments : ticket'[d].token = ticket[d].token /\ (ticket'[d].usable => ticket[d].usable)
  BY <1>0, <1>7 DEF TypeOK, TicketType
<1>9. QED
  BY <1>1, <1>4, <1>6, <1>8

LEMMA IssueMoves ==
    ASSUME TypeOK, NEW a \in attempts, Issue(a)
    PROVE  \E b \in AttemptType, h \in Hosts \union {NoHost} :
              /\ b.dep = a.dep /\ b.token = a.token /\ b.at # "claimed"
              /\ attempts' = (attempts \ {a}) \union {b}
              /\ UNCHANGED dep
              /\ \/ UNCHANGED <<ticket, issued>>
                 \/ /\ issued' = issued \union {<<a.dep, a.token>>}
                    /\ ticket' = [ticket EXCEPT ![a.dep] = Reissued(a.dep, a.token, h)]
<1>0. a \in AttemptType /\ (a.dep \in Images => HostOf[a.dep] \in Hosts)
  BY HostsAssumption DEF TypeOK
<1>1. PICK g \in Hosts \union {NoHost}, h \in Hosts \union {NoHost} :
         /\ attempts' = (attempts \ {a}) \union {[a EXCEPT !.at = "issued", !.for = g]}
         /\ UNCHANGED dep
         /\ \/ UNCHANGED <<ticket, issued>>
            \/ /\ issued' = issued \union {<<a.dep, a.token>>}
               /\ ticket' = [ticket EXCEPT ![a.dep] = Reissued(a.dep, a.token, h)]
  BY <1>0 DEF Issue, Only
<1>2. LET b == [a EXCEPT !.at = "issued", !.for = g]
      IN  b \in AttemptType /\ b.dep = a.dep /\ b.token = a.token /\ b.at # "claimed"
  BY <1>0 DEF AttemptType, Stages
<1>3. QED
  BY <1>1, <1>2, Zenon

LEMMA TicketStepOfAttempt ==
    ASSUME TypeOK, TicketInv, NEW a \in attempts, Attempt(a)
    PROVE  TicketInv'
<1>0. a \in AttemptType /\ a.dep \in Deployments /\ a.token \in 1..MaxTries
  BY DEF TypeOK, AttemptType
<1>1. CASE Issue(a)
  <2>1. PICK b \in AttemptType, h \in Hosts \union {NoHost} :
           /\ b.dep = a.dep /\ b.token = a.token /\ b.at # "claimed"
           /\ attempts' = (attempts \ {a}) \union {b}
           /\ UNCHANGED dep
           /\ \/ UNCHANGED <<ticket, issued>>
              \/ /\ issued' = issued \union {<<a.dep, a.token>>}
                 /\ ticket' = [ticket EXCEPT ![a.dep] = Reissued(a.dep, a.token, h)]
    BY <1>1, IssueMoves
  <2>2. \A d \in Deployments : ticket'[d].usable => ticket'[d].token # 0
    BY <1>0, <2>1 DEF TicketInv, Reissued, TypeOK
  <2>3. \A d \in Deployments, k \in 1..MaxTries : <<d, k>> \in issued' => k <= dep[d].tries
    BY <1>0, <2>1 DEF TicketInv
  <2>4. \A c, e \in attempts' : c.dep = e.dep /\ c.token = e.token => c = e
    BY <2>1 DEF TicketInv
  <2>5. \A c \in attempts' : c.token <= dep[c.dep].tries /\ (c.at = "claimed" => <<c.dep, c.token>> \notin issued')
    BY <2>1 DEF TicketInv
  <2>6. QED
    BY <2>1, <2>2, <2>3, <2>4, <2>5 DEF TicketInv
<1>2. CASE ~Issue(a)
  <2>1. /\ UNCHANGED issued
        /\ \/ attempts' \subseteq attempts
           \/ \E b \in AttemptType : /\ b.dep = a.dep /\ b.token = a.token /\ b.at # "claimed"
                                     /\ attempts' = (attempts \ {a}) \union {b}
        /\ \A d \in Deployments : /\ dep'[d].tries = dep[d].tries
                                  /\ ticket'[d].token = ticket[d].token
                                  /\ ticket'[d].usable => ticket[d].usable
    BY <1>2, AttemptMoves
  <2>2. \A c \in attempts' : c.dep \in Deployments
    BY <1>0, <2>1 DEF TypeOK, AttemptType
  <2>3. \A c, e \in attempts' : c.dep = e.dep /\ c.token = e.token => c = e
    BY <2>1 DEF TicketInv
  <2>4. \A c \in attempts' : c.token <= dep'[c.dep].tries /\ (c.at = "claimed" => <<c.dep, c.token>> \notin issued)
    <3> SUFFICES ASSUME NEW c \in attempts'
                 PROVE  c.token <= dep'[c.dep].tries /\ (c.at = "claimed" => <<c.dep, c.token>> \notin issued)
      OBVIOUS
    <3>1. dep'[c.dep].tries = dep[c.dep].tries /\ dep'[a.dep].tries = dep[a.dep].tries
      BY <1>0, <2>1, <2>2
    <3>2. CASE c \in attempts
      BY <3>1, <3>2 DEF TicketInv
    <3>3. CASE c \notin attempts
      <4>1. c.dep = a.dep /\ c.token = a.token /\ c.at # "claimed"
        BY <2>1, <3>3
      <4>2. QED
        BY <3>1, <4>1 DEF TicketInv
    <3>4. QED
      BY <3>2, <3>3
  <2>5. QED
    BY <2>1, <2>3, <2>4 DEF TicketInv
<1>3. QED
  BY <1>1, <1>2

\* What the actions of nodes, of the release and of connections leave alone.
LEMMA NodesLeaveTickets ==
    ASSUME \/ \E n \in Nodes : Lifecycle(n) \/ Install(n) \/ Connection(n)
           \/ LoadManifest \/ LoadBinary \/ Publish
    PROVE  UNCHANGED <<dep, ticket, attempts, config>>
BY DEF Lifecycle, Install, Connection, LoadManifest, LoadBinary, Publish, CreateNode, BootstrapLapses, Archive,
       CleanUp, StartInstall, AskRelease, TakeSum, TakeBinary, Prepare, SendExchange, Exchange, Enable, Poll,
       Interrupt, RestartAgent, Dial, CheckToken, Hello, Disconnect, OnlyHost, tickets

LEMMA OnlyCreateNodeIssues ==
    ASSUME NEW n \in Nodes, Lifecycle(n) \/ Install(n) \/ Connection(n)
    PROVE  CreateNode(n) \/ UNCHANGED issued
BY DEF Lifecycle, Install, Connection, BootstrapLapses, Archive,
       CleanUp, StartInstall, AskRelease, TakeSum, TakeBinary, Prepare, SendExchange, Exchange, Enable, Poll,
       Interrupt, RestartAgent, Dial, CheckToken, Hello, Disconnect, OnlyHost, tokens

LEMMA DeploymentsLeaveNodes ==
    ASSUME \/ \E d \in Deployments : Deployment(d)
           \/ \E a \in attempts : Attempt(a)
    PROVE  UNCHANGED <<row, host, exchanges, agent, release>>
BY DEF Deployment, Attempt, CreateDeployment, Dispatch, LeaseExpires, TicketLapses, Promote, Refuse, Issue,
       SendCommand, BeginAttempt, Claim, FinishAttempt, RecordBuilding, RecordOutcome, Only

LEMMA TicketStepOfDeployment ==
    ASSUME TypeOK, TicketInv, NEW d \in Deployments, Deployment(d)
    PROVE  TicketInv' /\ UNCHANGED issued
<1>0. dep[d] \in DepType /\ ticket[d] \in TicketType /\ \A a \in attempts : a \in AttemptType
  BY DEF TypeOK
<1>1. UNCHANGED issued
  BY Groups DEF Deployment, CreateDeployment, Dispatch, LeaseExpires, TicketLapses, Promote, Only
<1>2. CASE Dispatch(d)
  <2> DEFINE b == [dep |-> d, token |-> dep[d].tries + 1, at |-> "claimed", told |-> FALSE, for |-> NoHost]
             e == [dep[d] EXCEPT !.leased = TRUE, !.tries = @ + 1]
  <2>1. dep' = [dep EXCEPT ![d] = e] /\ attempts' = attempts \union {b} /\ UNCHANGED ticket
    BY <1>2 DEF Dispatch, TypeOK, Only
  <2>2. dep[d].tries \in Nat /\ e.tries = dep[d].tries + 1
    BY <1>0 DEF DepType
  <2> HIDE DEF e
  <2>3. dep'[d].tries = dep[d].tries + 1 /\ \A c \in Deployments \ {d} : dep'[c] = dep[c]
    BY <2>1, <2>2 DEF TypeOK
  <2>4. \A a \in attempts : a.dep \in Deployments /\ a.token \in Nat /\ (a.dep = d => a.token <= dep[d].tries)
    <3>1. \A a \in attempts : a.dep \in Deployments /\ a.token \in 1..MaxTries
      BY <1>0 DEF AttemptType
    <3>2. \A a \in attempts : a.token <= dep[a.dep].tries
      BY DEF TicketInv
    <3>3. \A k \in 1..MaxTries : k \in Nat
      BY Bounds
    <3>4. QED
      BY <3>1, <3>2, <3>3, Zenon
  <2>5. \A a, c \in attempts' : a.dep = c.dep /\ a.token = c.token => a = c
    <3>1. \A a \in attempts : a.dep = d => a.token # b.token
      BY <2>2, <2>4
    <3>2. b.dep = d
      OBVIOUS
    <3> HIDE DEF b
    <3>3. QED
      BY <2>1, <3>1, <3>2 DEF TicketInv
  <2>6. ASSUME NEW a \in attempts'
        PROVE  a.token <= dep'[a.dep].tries /\ (a.at = "claimed" => <<a.dep, a.token>> \notin issued)
    <3>1. CASE a \in attempts
      <4>1. a.dep # d => dep'[a.dep].tries = dep[a.dep].tries
        BY <2>3, <2>4, <3>1
      <4>2. QED
        BY <2>2, <2>3, <2>4, <3>1, <4>1 DEF TicketInv
    <3>2. CASE a = b
      <4>1. dep[d].tries + 1 \in 1..MaxTries
        BY <1>2, <2>2, Bounds DEF Dispatch
      <4>2. <<d, dep[d].tries + 1>> \notin issued
        BY <2>2, <4>1 DEF TicketInv
      <4>3. QED
        BY <2>2, <2>3, <3>2, <4>2
    <3>3. QED
      BY <2>1, <3>1, <3>2
  <2>7. \A c \in Deployments, k \in 1..MaxTries : <<c, k>> \in issued => k <= dep'[c].tries
    BY <2>2, <2>3 DEF TicketInv
  <2>8. QED
    BY <1>1, <2>1, <2>5, <2>6, <2>7 DEF TicketInv
<1>3. CASE CreateDeployment(d) \/ LeaseExpires(d) \/ Promote(d)
  <2>1. \/ dep' = [dep EXCEPT ![d] = [dep[d] EXCEPT !.st = "QUEUED"]]
        \/ dep' = [dep EXCEPT ![d] = [dep[d] EXCEPT !.leased = FALSE]]
        \/ dep' = [dep EXCEPT ![d] = [dep[d] EXCEPT !.st = "READY"]]
    BY <1>3 DEF CreateDeployment, LeaseExpires, Promote
  <2>2. \A c \in Deployments : dep'[c].tries = dep[c].tries
    BY <1>0, <2>1 DEF TypeOK, DepType
  <2>3. UNCHANGED <<ticket, attempts>>
    BY <1>3 DEF CreateDeployment, LeaseExpires, Promote, Only
  <2>4. QED
    BY <1>0, <1>1, <2>2, <2>3 DEF TicketInv, AttemptType
<1>4. CASE TicketLapses(d)
  <2>1. ticket' = [ticket EXCEPT ![d] = [ticket[d] EXCEPT !.usable = FALSE]] /\ UNCHANGED <<dep, attempts>>
    BY <1>4 DEF TicketLapses, Only
  <2>2. \A c \in Deployments : ticket'[c].token = ticket[c].token /\ (ticket'[c].usable => ticket[c].usable)
    BY <1>0, <2>1 DEF TypeOK, TicketType
  <2>3. QED
    BY <1>1, <2>1, <2>2 DEF TicketInv
<1>5. QED
  BY <1>1, <1>2, <1>3, <1>4 DEF Deployment

LEMMA TicketStep == TypeOK /\ TicketInv /\ [Next]_vars => TicketInv'
<1> SUFFICES ASSUME TypeOK, TicketInv, [Next]_vars PROVE TicketInv'
  OBVIOUS
<1>1. CASE \E d \in Deployments : Deployment(d)
  BY <1>1, TicketStepOfDeployment
<1>2. CASE \E a \in attempts : Attempt(a)
  BY <1>2, TicketStepOfAttempt
<1>3. CASE \E n \in Nodes : Lifecycle(n) \/ Install(n) \/ Connection(n)
  <2>1. PICK n \in Nodes : Lifecycle(n) \/ Install(n) \/ Connection(n)
    BY <1>3
  <2>2. UNCHANGED <<dep, ticket, attempts>>
    BY <2>1, NodesLeaveTickets
  <2>3. CASE UNCHANGED issued
    BY <2>2, <2>3 DEF TicketInv
  <2>4. CASE CreateNode(n)
    <3>1. issued' = issued \union {<<n, 1>>} /\ n \notin Deployments
      BY <2>4, HoldersAssumption DEF CreateNode
    <3>2. \A d \in Deployments, k \in 1..MaxTries : <<d, k>> \in issued' <=> <<d, k>> \in issued
      BY <3>1
    <3>3. \A a \in attempts : <<a.dep, a.token>> \in issued' <=> <<a.dep, a.token>> \in issued
      BY <3>2 DEF TypeOK, AttemptType
    <3>4. QED
      BY <2>2, <3>2, <3>3 DEF TicketInv
  <2>5. QED
    BY <2>1, <2>3, <2>4, OnlyCreateNodeIssues
<1>4. CASE LoadManifest \/ LoadBinary \/ Publish
  <2>1. UNCHANGED <<dep, ticket, attempts>> /\ UNCHANGED issued
    BY <1>4, NodesLeaveTickets, Groups DEF LoadManifest, LoadBinary, Publish
  <2>2. QED
    BY <2>1 DEF TicketInv
<1>5. CASE RestartControlPlane
  <2>1. attempts' \subseteq attempts /\ UNCHANGED <<dep, ticket>> /\ UNCHANGED issued
    BY <1>5, Groups DEF RestartControlPlane
  <2>2. QED
    BY <2>1 DEF TicketInv
<1>6. CASE UNCHANGED vars
  <2>1. UNCHANGED <<dep, ticket, attempts>> /\ UNCHANGED issued
    BY <1>6, Groups DEF vars
  <2>2. QED
    BY <2>1 DEF TicketInv
<1>7. QED
  BY <1>1, <1>2, <1>3, <1>4, <1>5, <1>6 DEF Next

\* a bootstrap credential that counts: the node never had an Agent connected
Enrolling(n) == row[n].boot = "live" /\ ~row[n].online /\ ~row[n].seen

\* How the row of a node may change.
LEMMA RowMoves ==
    ASSUME TypeOK, [Next]_vars, NEW m \in Nodes
    PROVE  \/ row'[m] = row[m]
           \/ CreateNode(m)
           \/ BootstrapLapses(m)
           \/ row[m].life = "ACTIVE" /\ (Archive(m) \/ CleanUp(m)) /\ row'[m] = ArchivedRow(row[m])
           \/ \E k \in Runs : Exchange(m, k) /\ Enrolling(m) /\ row'[m] = Exchanged(row[m], k)
           \/ row'[m] = [row[m] EXCEPT !.online = FALSE]
           \/ Hello(m)
<1>1. CASE \E n \in Nodes : Lifecycle(n)
  BY <1>1 DEF Lifecycle, CreateNode, BootstrapLapses, Archive, CleanUp, Revokes, TypeOK
<1>2. CASE \E n \in Nodes : Install(n)
  <2>1. PICK n \in Nodes : Install(n)
    BY <1>2
  <2>2. CASE \E k \in Runs : Exchange(n, k)
    BY <2>2 DEF Exchange, Enrolling, TypeOK
  <2>3. CASE ~\E k \in Runs : Exchange(n, k)
    BY <2>1, <2>3 DEF Install, StartInstall, AskRelease, TakeSum, TakeBinary, Prepare, SendExchange, Enable,
         Poll, Interrupt, OnlyHost
  <2>4. QED
    BY <2>2, <2>3
<1>3. CASE \E n \in Nodes : Connection(n)
  <2>1. PICK n \in Nodes : Connection(n)
    BY <1>3
  <2>2. \/ Hello(n) \/ row' = row
        \/ row' = [row EXCEPT ![n] = [row[n] EXCEPT !.online = FALSE]]
    BY <2>1 DEF Connection, RestartAgent, Dial, CheckToken, Disconnect
  <2>3. CASE n = m
    BY <2>2, <2>3 DEF TypeOK
  <2>4. CASE n # m
    BY <2>2, <2>4 DEF TypeOK, Hello
  <2>5. QED
    BY <2>3, <2>4
<1>4. CASE (\E d \in Deployments : Deployment(d)) \/ \E a \in attempts : Attempt(a)
  BY <1>4, DeploymentsLeaveNodes
<1>5. CASE LoadManifest \/ LoadBinary \/ Publish \/ UNCHANGED vars
  BY <1>5 DEF LoadManifest, LoadBinary, Publish, vars
<1>6. CASE RestartControlPlane
  BY <1>6 DEF RestartControlPlane
<1>7. QED
  BY <1>1, <1>2, <1>3, <1>4, <1>5, <1>6 DEF Next

\* Only a node that is made, and a command that gets its ticket, are given one.
LEMMA IssuedMoves ==
    ASSUME TypeOK, [Next]_vars
    PROVE  \/ UNCHANGED issued
           \/ \E n \in Nodes : CreateNode(n)
           \/ \E a \in attempts : Issue(a) /\ issued' = issued \union {<<a.dep, a.token>>}
<1>1. CASE \E n \in Nodes : Lifecycle(n) \/ Install(n) \/ Connection(n)
  BY <1>1, OnlyCreateNodeIssues
<1>2. CASE (\E d \in Deployments : Deployment(d))
  BY <1>2, Groups DEF Deployment, CreateDeployment, Dispatch, LeaseExpires, TicketLapses, Promote, Only
<1>3. CASE \E a \in attempts : Attempt(a)
  BY <1>3, AttemptMoves DEF Issue
<1>4. CASE LoadManifest \/ LoadBinary \/ Publish \/ RestartControlPlane \/ UNCHANGED vars
  BY <1>4, Groups DEF LoadManifest, LoadBinary, Publish, RestartControlPlane, vars
<1>5. QED
  BY <1>1, <1>2, <1>3, <1>4 DEF Next

LEMMA BootStep == TypeOK /\ TypeOK' /\ BootInv /\ [Next]_vars => BootInv'
<1> SUFFICES ASSUME TypeOK, TypeOK', BootInv, [Next]_vars, NEW m \in Nodes, row'[m].life = "none",
                    NEW t \in 1..MaxTries
             PROVE  <<m, t>> \notin issued'
  BY DEF BootInv
<1>0. row[m] \in RowType /\ row'[m] \in RowType
  BY DEF TypeOK
<1>1. ~CreateNode(m)
  <2> SUFFICES ASSUME CreateNode(m) PROVE FALSE
    OBVIOUS
  <2>1. row'[m] = [NoNode EXCEPT !.life = "ACTIVE", !.boot = "live"]
    BY DEF CreateNode, TypeOK
  <2>2. QED
    BY <2>1 DEF NoNode
<1>2. row[m].life = "none"
  <2>1. \/ row'[m] = row[m] \/ row'[m] = [row[m] EXCEPT !.boot = "lapsed"]
        \/ row'[m] = ArchivedRow(row[m]) \/ \E k \in Runs : row'[m] = Exchanged(row[m], k)
        \/ \E b \in BOOLEAN : \/ row'[m] = [row[m] EXCEPT !.online = b]
                              \/ row'[m] = [row[m] EXCEPT !.online = b, !.seen = TRUE]
    <3>1. BootstrapLapses(m) => row'[m] = [row[m] EXCEPT !.boot = "lapsed"]
      BY DEF BootstrapLapses, TypeOK
    <3>2. Hello(m) => \E b \in BOOLEAN : row'[m] = [row[m] EXCEPT !.online = b, !.seen = TRUE]
      BY DEF Hello, TypeOK
    <3>3. \/ row'[m] = row[m] \/ BootstrapLapses(m) \/ row'[m] = ArchivedRow(row[m])
          \/ \E k \in Runs : row'[m] = Exchanged(row[m], k)
          \/ row'[m] = [row[m] EXCEPT !.online = FALSE] \/ Hello(m)
      BY <1>1, RowMoves
    <3>4. QED
      BY <3>1, <3>2, <3>3
  <2>2. QED
    BY <1>0, <2>1 DEF ArchivedRow, Exchanged, RowType
<1>3. <<m, t>> \notin issued
  BY <1>2 DEF BootInv
<1>4. \A n \in Nodes : CreateNode(n) => issued' = issued \union {<<n, 1>>}
  BY DEF CreateNode
<1>5. \A a \in attempts : a.dep # m
  BY HoldersAssumption DEF TypeOK, AttemptType
<1>6. QED
  BY <1>1, <1>3, <1>4, <1>5, IssuedMoves

\* What counts, as OneShot sees it.
LiveToken(h) ==
    IF h \in Nodes THEN IF row[h].boot = "live" THEN 1 ELSE 0
    ELSE IF ticket[h].usable THEN ticket[h].token ELSE 0
Holders == Nodes \union Deployments

LEMMA OneShotStarts == Init => OneShotCredentials!Init
<1> SUFFICES ASSUME Init PROVE OneShotCredentials!Init
  OBVIOUS
<1>1. \A h \in Holders : LiveToken(h) = 0
  BY DEF Init, LiveToken, NoNode, Holders
<1>2. QED
  BY <1>1 DEF Init, OneShotCredentials!Init, LiveToken, Holders

LEMMA OneShotStutters ==
    ASSUME UNCHANGED <<issued, spent>>, \A h \in Holders : LiveToken(h)' = LiveToken(h)
    PROVE  UNCHANGED OneShotCredentials!vars
BY DEF OneShotCredentials!vars, LiveToken, Holders

LEMMA IsIssued ==
    ASSUME NEW h \in Holders, NEW t \in 1..MaxTries, <<h, t>> \notin issued,
           issued' = issued \union {<<h, t>>}, UNCHANGED spent,
           LiveToken(h)' = t, \A g \in Holders \ {h} : LiveToken(g)' = LiveToken(g)
    PROVE  OneShotCredentials!Next
<1>1. [g \in Holders |-> LiveToken(g)]' = [[g \in Holders |-> LiveToken(g)] EXCEPT ![h] = t]
  BY DEF Holders
<1>2. OneShotCredentials!Issue(h, t)
  BY <1>1 DEF OneShotCredentials!Issue, LiveToken, Holders
<1>3. QED
  BY <1>2 DEF OneShotCredentials!Next, Holders

LEMMA IsHonoured ==
    ASSUME NEW h \in Holders, LiveToken(h) # 0, UNCHANGED issued,
           spent' = spent \union {<<h, LiveToken(h)>>},
           LiveToken(h)' = 0, \A g \in Holders \ {h} : LiveToken(g)' = LiveToken(g)
    PROVE  OneShotCredentials!Next
<1>1. [g \in Holders |-> LiveToken(g)]' = [[g \in Holders |-> LiveToken(g)] EXCEPT ![h] = 0]
  <2>1. \A g \in Holders : LiveToken(g)' = IF g = h THEN 0 ELSE LiveToken(g)
    OBVIOUS
  <2>2. QED
    BY <2>1 DEF Holders
<1>2. [g \in Holders |-> LiveToken(g)][h] = LiveToken(h)
  OBVIOUS
<1>3. OneShotCredentials!Honour(h)
  BY <1>1, <1>2 DEF OneShotCredentials!Honour, LiveToken, Holders
<1>4. QED
  BY <1>3 DEF OneShotCredentials!Next, Holders

LEMMA HasRunOut ==
    ASSUME NEW h \in Holders, UNCHANGED <<issued, spent>>,
           LiveToken(h)' = 0, \A g \in Holders \ {h} : LiveToken(g)' = LiveToken(g)
    PROVE  OneShotCredentials!Next
<1>1. [g \in Holders |-> LiveToken(g)]' = [[g \in Holders |-> LiveToken(g)] EXCEPT ![h] = 0]
  BY DEF Holders
<1>2. OneShotCredentials!RunOut(h)
  BY <1>1 DEF OneShotCredentials!RunOut, LiveToken, Holders
<1>3. QED
  BY <1>2 DEF OneShotCredentials!Next, Holders

LEMMA LifecycleRefines ==
    ASSUME TypeOK, TypeOK', BootInv, NEW n \in Nodes, Lifecycle(n)
    PROVE  OneShotCredentials!Next \/ UNCHANGED OneShotCredentials!vars
<1>0. n \in Holders /\ n \notin Deployments /\ \A g \in Holders \ Nodes : g \in Deployments
  BY HoldersAssumption DEF Holders
<1>1. UNCHANGED ticket /\ UNCHANGED spent
  BY NodesLeaveTickets, Groups
     DEF Lifecycle, CreateNode, BootstrapLapses, Archive, CleanUp
<1>2. CASE CreateNode(n)
  <2>1. /\ row'[n] = [NoNode EXCEPT !.life = "ACTIVE", !.boot = "live"] /\ row[n].life = "none"
        /\ \A m \in Nodes \ {n} : row'[m] = row[m]
        /\ issued' = issued \union {<<n, 1>>}
    BY <1>2 DEF CreateNode, TypeOK
  <2>2. 1 \in 1..MaxTries
    BY Bounds
  <2>3. <<n, 1>> \notin issued
    BY <2>1, <2>2 DEF BootInv
  <2>4. LiveToken(n)' = 1
    BY <2>1 DEF LiveToken, NoNode
  <2>5. \A g \in Holders \ {n} : LiveToken(g)' = LiveToken(g)
    BY <1>0, <1>1, <2>1 DEF LiveToken
  <2>6. QED
    BY <1>0, <1>1, <2>1, <2>2, <2>3, <2>4, <2>5, IsIssued
<1>3. CASE BootstrapLapses(n)
  <2>1. /\ row'[n] = [row[n] EXCEPT !.boot = "lapsed"] /\ \A m \in Nodes \ {n} : row'[m] = row[m]
        /\ UNCHANGED issued
    BY <1>3, Groups DEF BootstrapLapses, TypeOK
  <2>2. row[n] \in RowType
    BY DEF TypeOK
  <2>3. LiveToken(n)' = 0
    BY <2>1, <2>2 DEF LiveToken, RowType
  <2>4. \A g \in Holders \ {n} : LiveToken(g)' = LiveToken(g)
    BY <1>0, <1>1, <2>1 DEF LiveToken
  <2>5. QED
    BY <1>0, <1>1, <2>1, <2>3, <2>4, HasRunOut
<1>4. CASE Archive(n) \/ CleanUp(n)
  <2>1. /\ row'[n] = ArchivedRow(row[n]) /\ \A m \in Nodes \ {n} : row'[m] = row[m]
        /\ UNCHANGED issued /\ row[n] \in RowType
    BY <1>4, Groups DEF Archive, CleanUp, Revokes, TypeOK
  <2>2. row'[n].boot = row[n].boot
    BY <2>1 DEF ArchivedRow, RowType
  <2>3. \A g \in Holders : LiveToken(g)' = LiveToken(g)
    BY <1>0, <1>1, <2>1, <2>2 DEF LiveToken
  <2>4. QED
    BY <1>1, <2>1, <2>3, OneShotStutters
<1>5. QED
  BY <1>2, <1>3, <1>4 DEF Lifecycle

LEMMA InstallRefines ==
    ASSUME TypeOK, NEW n \in Nodes, Install(n)
    PROVE  OneShotCredentials!Next \/ UNCHANGED OneShotCredentials!vars
<1>0. n \in Holders /\ \A g \in Holders \ Nodes : g \in Deployments
  BY DEF Holders
<1>1. UNCHANGED ticket
  BY NodesLeaveTickets
<1>2. UNCHANGED issued
  BY OnlyCreateNodeIssues
     DEF Install, StartInstall, AskRelease, TakeSum, TakeBinary, Prepare, SendExchange, Exchange, Enable, Poll,
         Interrupt, OnlyHost, tokens
<1>3. CASE \E k \in Runs : Exchange(n, k) /\ Enrolling(n)
  <2>1. PICK k \in Runs : Exchange(n, k) /\ Enrolling(n)
    BY <1>3
  <2>2. /\ row[n].boot = "live" /\ spent' = spent \union {<<n, 1>>}
        /\ row' = [row EXCEPT ![n] = Exchanged(row[n], k)] /\ row[n] \in RowType
    BY <2>1 DEF Exchange, Enrolling, TypeOK
  <2>3. row'[n] = Exchanged(row[n], k) /\ \A m \in Nodes \ {n} : row'[m] = row[m]
    BY <2>2 DEF TypeOK
  <2>4. row'[n].boot = "none"
    BY <2>2, <2>3 DEF Exchanged, RowType
  <2>5. LiveToken(n) = 1 /\ LiveToken(n)' = 0
    BY <2>2, <2>4 DEF LiveToken
  <2>6. \A g \in Holders \ {n} : LiveToken(g)' = LiveToken(g)
    BY <1>0, <1>1, <2>3 DEF LiveToken
  <2>7. QED
    BY <1>0, <1>2, <2>2, <2>5, <2>6, IsHonoured
<1>4. CASE ~\E k \in Runs : Exchange(n, k) /\ Enrolling(n)
  <2>1. UNCHANGED <<row, spent>>
    <3>1. CASE \E k \in Runs : Exchange(n, k)
      BY <1>4, <3>1 DEF Exchange, Enrolling
    <3>2. CASE ~\E k \in Runs : Exchange(n, k)
      BY <3>2 DEF Install, StartInstall, AskRelease, TakeSum, TakeBinary, Prepare, SendExchange, Enable, Poll,
         Interrupt, OnlyHost, tokens
    <3>3. QED
      BY <3>1, <3>2
  <2>2. \A g \in Holders : LiveToken(g)' = LiveToken(g)
    BY <1>1, <2>1 DEF LiveToken
  <2>3. QED
    BY <1>2, <2>1, <2>2, OneShotStutters
<1>5. QED
  BY <1>3, <1>4

LEMMA ConnectionRefines ==
    ASSUME TypeOK, NEW n \in Nodes, Connection(n)
    PROVE  UNCHANGED OneShotCredentials!vars
<1>1. UNCHANGED ticket /\ UNCHANGED <<issued, spent>>
  BY NodesLeaveTickets, Groups DEF Connection, RestartAgent, Dial, CheckToken, Hello, Disconnect
<1>2. \A m \in Nodes : row[m] \in RowType
  BY DEF TypeOK
<1>3. \/ row' = row \/ row' = [row EXCEPT ![n] = [row[n] EXCEPT !.online = FALSE]]
      \/ \E b \in BOOLEAN : row' = [row EXCEPT ![n] = [row[n] EXCEPT !.online = b, !.seen = TRUE]]
  <2>1. CASE Hello(n)
    BY <2>1 DEF Hello, TypeOK
  <2>2. CASE ~Hello(n)
    BY <2>2 DEF Connection, RestartAgent, Dial, CheckToken, Disconnect
  <2>3. QED
    BY <2>1, <2>2
<1>a. row \in [Nodes -> RowType]
  BY DEF TypeOK
<1>b. ASSUME NEW m \in Nodes
      PROVE  \/ row'[m] = row[m]
             \/ row'[m] = [row[m] EXCEPT !.online = FALSE]
             \/ \E b \in BOOLEAN : row'[m] = [row[m] EXCEPT !.online = b, !.seen = TRUE]
  BY <1>a, <1>3
<1>4. \A m \in Nodes : row'[m].boot = row[m].boot
  BY <1>2, <1>b DEF RowType
<1>5. \A g \in Holders : LiveToken(g)' = LiveToken(g)
  BY <1>1, <1>4 DEF LiveToken
<1>6. QED
  BY <1>1, <1>5, OneShotStutters

LEMMA OthersRefine ==
    ASSUME TypeOK, LoadManifest \/ LoadBinary \/ Publish \/ RestartControlPlane \/ UNCHANGED vars
    PROVE  UNCHANGED OneShotCredentials!vars
<1>1. UNCHANGED ticket /\ UNCHANGED <<issued, spent>>
  BY NodesLeaveTickets, Groups DEF LoadManifest, LoadBinary, Publish, RestartControlPlane, vars
<1>2. \A m \in Nodes : row[m] \in RowType
  BY DEF TypeOK
<1>3. row' = row \/ row' = [n \in Nodes |-> [row[n] EXCEPT !.online = FALSE]]
  BY DEF LoadManifest, LoadBinary, Publish, RestartControlPlane, vars
<1>a. row \in [Nodes -> RowType]
  BY DEF TypeOK
<1>b. ASSUME NEW m \in Nodes
      PROVE  row'[m] = row[m] \/ row'[m] = [row[m] EXCEPT !.online = FALSE]
  BY <1>3
<1>4. \A m \in Nodes : row'[m].boot = row[m].boot
  BY <1>2, <1>b DEF RowType
<1>5. \A g \in Holders : LiveToken(g)' = LiveToken(g)
  BY <1>1, <1>4 DEF LiveToken
<1>6. QED
  BY <1>1, <1>5, OneShotStutters

LEMMA DeploymentRefines ==
    ASSUME TypeOK, NEW d \in Deployments, Deployment(d)
    PROVE  OneShotCredentials!Next \/ UNCHANGED OneShotCredentials!vars
<1>0. d \in Holders /\ d \notin Nodes /\ \A g \in Holders \ Nodes : g \in Deployments
  BY HoldersAssumption DEF Holders
<1>1. UNCHANGED row /\ UNCHANGED <<issued, spent>>
  BY Groups DEF Deployment, CreateDeployment, Dispatch, LeaseExpires, TicketLapses, Promote, Only
<1>2. CASE TicketLapses(d)
  <2>1. ticket' = [ticket EXCEPT ![d] = [ticket[d] EXCEPT !.usable = FALSE]] /\ ticket[d] \in TicketType
    BY <1>2 DEF TicketLapses, TypeOK
  <2>2. ticket'[d] = [ticket[d] EXCEPT !.usable = FALSE] /\ \A c \in Deployments \ {d} : ticket'[c] = ticket[c]
    BY <2>1 DEF TypeOK
  <2>3. ~ticket'[d].usable
    BY <2>1, <2>2 DEF TicketType
  <2>4. LiveToken(d)' = 0 /\ \A g \in Holders \ {d} : LiveToken(g)' = LiveToken(g)
    BY <1>0, <1>1, <2>2, <2>3 DEF LiveToken
  <2>5. QED
    BY <1>0, <1>1, <2>4, HasRunOut
<1>3. CASE ~TicketLapses(d)
  <2>1. UNCHANGED ticket
    BY <1>3 DEF Deployment, CreateDeployment, Dispatch, LeaseExpires, Promote, Only
  <2>2. \A g \in Holders : LiveToken(g)' = LiveToken(g)
    BY <1>1, <2>1 DEF LiveToken
  <2>3. QED
    BY <1>1, <2>2, OneShotStutters
<1>4. QED
  BY <1>2, <1>3

LEMMA AttemptRefines ==
    ASSUME TypeOK, TicketInv, NEW a \in attempts, Attempt(a)
    PROVE  OneShotCredentials!Next \/ UNCHANGED OneShotCredentials!vars
<1>0. /\ a.dep \in Deployments /\ a.dep \in Holders /\ a.dep \notin Nodes /\ a.token \in 1..MaxTries
      /\ \A g \in Holders \ Nodes : g \in Deployments
      /\ ticket[a.dep] \in TicketType
  BY HoldersAssumption DEF Holders, TypeOK, AttemptType
<1>1. UNCHANGED row
  BY DeploymentsLeaveNodes
<1>2. CASE Issue(a)
  <2>0. UNCHANGED spent /\ a.at = "claimed"
    BY <1>2, Groups DEF Issue, Only
  <2>1. PICK h \in Hosts \union {NoHost} :
           \/ UNCHANGED <<ticket, issued>>
           \/ /\ issued' = issued \union {<<a.dep, a.token>>}
              /\ ticket' = [ticket EXCEPT ![a.dep] = Reissued(a.dep, a.token, h)]
    BY <1>2, IssueMoves
  <2>2. CASE UNCHANGED <<ticket, issued>>
    <3>1. \A g \in Holders : LiveToken(g)' = LiveToken(g)
      BY <1>1, <2>2 DEF LiveToken
    <3>2. QED
      BY <2>0, <2>2, <3>1, OneShotStutters
  <2>3. CASE /\ issued' = issued \union {<<a.dep, a.token>>}
             /\ ticket' = [ticket EXCEPT ![a.dep] = Reissued(a.dep, a.token, h)]
    <3>1. /\ ticket'[a.dep] = Reissued(a.dep, a.token, h)
          /\ \A c \in Deployments \ {a.dep} : ticket'[c] = ticket[c]
      BY <1>0, <2>3 DEF TypeOK
    <3>2. LiveToken(a.dep)' = a.token /\ \A g \in Holders \ {a.dep} : LiveToken(g)' = LiveToken(g)
      BY <1>0, <1>1, <3>1 DEF LiveToken, Reissued
    <3>3. <<a.dep, a.token>> \notin issued
      BY <2>0 DEF TicketInv
    <3>4. QED
      BY <1>0, <2>0, <2>3, <3>2, <3>3, IsIssued
  <2>4. QED
    BY <2>1, <2>2, <2>3
<1>3. CASE Claim(a) /\ Honoured(a)
  <2>1. /\ ticket[a.dep].usable /\ UNCHANGED issued
        /\ ticket' = [ticket EXCEPT ![a.dep] = [ticket[a.dep] EXCEPT !.usable = FALSE]]
        /\ spent' = spent \union {<<a.dep, ticket[a.dep].token>>}
    BY <1>3, Groups DEF Claim, Honoured, Only
  <2>2. /\ ticket'[a.dep] = [ticket[a.dep] EXCEPT !.usable = FALSE]
        /\ \A c \in Deployments \ {a.dep} : ticket'[c] = ticket[c]
    BY <1>0, <2>1 DEF TypeOK
  <2>3. ~ticket'[a.dep].usable /\ ticket[a.dep].token # 0
    BY <1>0, <2>1, <2>2 DEF TicketType, TicketInv
  <2>4. LiveToken(a.dep) = ticket[a.dep].token /\ LiveToken(a.dep)' = 0
    BY <1>0, <2>1, <2>3 DEF LiveToken
  <2>5. \A g \in Holders \ {a.dep} : LiveToken(g)' = LiveToken(g)
    BY <1>0, <1>1, <2>2 DEF LiveToken
  <2>6. QED
    BY <1>0, <2>1, <2>3, <2>4, <2>5, IsHonoured
<1>4. CASE ~Issue(a) /\ ~(Claim(a) /\ Honoured(a))
  <2>1. UNCHANGED <<ticket, spent>> /\ UNCHANGED issued
    BY <1>4, Groups DEF Attempt, Refuse, SendCommand, BeginAttempt, Claim, FinishAttempt, RecordBuilding,
         RecordOutcome, Only
  <2>2. \A g \in Holders : LiveToken(g)' = LiveToken(g)
    BY <1>1, <2>1 DEF LiveToken
  <2>3. QED
    BY <2>1, <2>2, OneShotStutters
<1>5. QED
  BY <1>2, <1>3, <1>4

OneShotInv == TypeOK /\ RunInv /\ TicketInv /\ BootInv

LEMMA OneShotInvariance == Spec => []OneShotInv
<1>1. Init => OneShotInv
  BY TypeInit DEF Init, OneShotInv, RunInv, TicketInv, BootInv, FreshHost
<1>2. OneShotInv /\ [Next]_vars => OneShotInv'
  BY TypeStep, TicketStep, BootStep DEF OneShotInv
<1>3. QED
  BY <1>1, <1>2, PTL DEF Spec

LEMMA StepRefines ==
    OneShotInv /\ OneShotInv' /\ [Next]_vars => [OneShotCredentials!Next]_(OneShotCredentials!vars)
<1> SUFFICES ASSUME OneShotInv, OneShotInv', [Next]_vars
             PROVE  OneShotCredentials!Next \/ UNCHANGED OneShotCredentials!vars
  OBVIOUS
<1>1. TypeOK /\ TypeOK' /\ BootInv /\ TicketInv
  BY DEF OneShotInv
<1>2. QED
  BY <1>1, LifecycleRefines, InstallRefines, ConnectionRefines, OthersRefine, DeploymentRefines, AttemptRefines
     DEF Next

\* A bootstrap credential, and a ticket, is honoured at most once, while it is
\* the one that counts, whatever is dispatched again, lapses, is replaced, or
\* has its answer lost (source-broker.ts, registry-pull-broker.ts).
THEOREM Refines_OneShot == Spec => RefinesOneShot
BY OneShotInvariance, OneShotStarts, StepRefines, PTL DEF Spec, RefinesOneShot, OneShotCredentials!Spec

-----------------------------------------------------------------------------
(* What is installed *)

\* A checksum comes from the manifest of a release that was listed, in the
\* provider as on the machine that took it.
ListInv ==
    /\ published.sum \in listed
    /\ provider.sum \in listed \union {0}
    /\ \A n \in Nodes : host[n].sum \in listed \union {0} /\ host[n].installed \in listed \union {0}

\* How the record of a machine may change.
LEMMA HostMove ==
    ASSUME TypeOK, [Next]_vars, NEW n \in Nodes
    PROVE  \/ host'[n] = host[n]
           \/ StartInstall(n) \/ AskRelease(n) \/ TakeSum(n) \/ TakeBinary(n) \/ Prepare(n)
           \/ SendExchange(n) \/ (\E k \in Runs : Exchange(n, k)) \/ Enable(n) \/ Poll(n) \/ Interrupt(n)
           \/ /\ (LoadBinary /\ n \in Waiting) \/ RestartControlPlane
              /\ host[n].pc \in {"sum sent", "binary sent", "await"}
              /\ host'[n] = [host[n] EXCEPT !.pc = "stopped"]
<1>1. CASE \E m \in Nodes : Install(m)
  <2>1. PICK m \in Nodes : Install(m)
    BY <1>1
  <2>2. CASE m = n
    BY <2>1, <2>2 DEF Install
  <2>3. CASE m # n
    BY <2>1, <2>3 DEF TypeOK, Install, StartInstall, AskRelease, TakeSum, TakeBinary, Prepare, SendExchange,
         Exchange, Enable, Poll, Interrupt, Moves
  <2>4. QED
    BY <2>2, <2>3
<1>2. CASE LoadBinary \/ RestartControlPlane
  BY <1>2 DEF LoadBinary, RestartControlPlane, Waiting
<1>3. CASE \/ \E m \in Nodes : Lifecycle(m) \/ Connection(m)
           \/ LoadManifest \/ Publish \/ UNCHANGED vars
  BY <1>3 DEF vars, Lifecycle, CreateNode, BootstrapLapses, Archive, CleanUp, Connection, RestartAgent, Dial,
       CheckToken, Hello, Disconnect, LoadManifest, Publish
<1>4. CASE (\E d \in Deployments : Deployment(d)) \/ \E a \in attempts : Attempt(a)
  BY <1>4, DeploymentsLeaveNodes
<1>5. QED
  BY <1>1, <1>2, <1>3, <1>4 DEF Next

\* What each of these does to the fields.
LEMMA HostFieldsMove ==
    ASSUME TypeOK, [Next]_vars, NEW n \in Nodes
    PROVE  /\ host'[n].run = host[n].run \/ StartInstall(n)
           /\ \/ host'[n].installed = host[n].installed /\ host'[n].env = host[n].env
              \/ /\ Prepare(n)
                 /\ host'[n].installed = host[n].sum /\ host'[n].env = host[n].run
           /\ \/ host'[n].sum \in {host[n].sum, 0}
              \/ TakeSum(n) /\ host'[n].sum = provider.sum
<1>0. host[n] \in HostType
  BY DEF TypeOK
<1>1. ASSUME \E pc \in Steps : Moves(n, pc)
      PROVE  \E pc \in Steps : host'[n] = [host[n] EXCEPT !.pc = pc]
  BY <1>1 DEF Moves, TypeOK
<1>2. \/ host'[n] = host[n]
      \/ \E pc \in Steps : host'[n] = [host[n] EXCEPT !.pc = pc]
      \/ StartInstall(n) /\ host'[n] = [host[n] EXCEPT !.pc = "sum", !.run = @ + 1, !.sum = 0]
      \/ TakeSum(n) /\ host'[n] = [host[n] EXCEPT !.pc = "binary", !.sum = provider.sum]
      \/ Prepare(n) /\ host'[n] = Prepared(host[n])
  <2>1. CASE AskRelease(n) \/ TakeBinary(n) \/ SendExchange(n) \/ Enable(n) \/ Poll(n) \/ Interrupt(n)
    <3>1. \E pc \in Steps : Moves(n, pc)
      BY <2>1 DEF AskRelease, TakeBinary, SendExchange, Enable, Poll, Interrupt, Steps
    <3>2. QED
      BY <1>1, <3>1
  <2>2. CASE \E k \in Runs : Exchange(n, k)
    <3>1. host' = host \/ \E pc \in Steps : Moves(n, pc)
      BY <2>2 DEF Exchange, Moves, Steps
    <3>2. QED
      BY <1>1, <3>1
  <2>3. CASE StartInstall(n)
    BY <2>3 DEF StartInstall, TypeOK
  <2>4. CASE TakeSum(n)
    BY <2>4 DEF TakeSum, TypeOK
  <2>5. CASE Prepare(n)
    BY <2>5 DEF Prepare, TypeOK
  <2>6. QED
    BY <2>1, <2>2, <2>3, <2>4, <2>5, HostMove DEF Steps
<1>3. QED
  BY <1>0, <1>2 DEF HostType, Prepared

LEMMA ReleaseMoves ==
    ASSUME TypeOK, [Next]_vars
    PROVE  /\ listed \subseteq listed'
           /\ published'.sum \in listed' \/ published' = published
           /\ provider'.sum \in {provider.sum, published.sum, 0}
<1>1. CASE LoadManifest \/ LoadBinary \/ RestartControlPlane
  BY <1>1 DEF LoadManifest, LoadBinary, Loaded, RestartControlPlane
<1>2. CASE Publish
  BY <1>2 DEF Publish
<1>3. CASE UNCHANGED release
  BY <1>3 DEF release
<1>4. CASE \E n \in Nodes : Lifecycle(n) \/ Install(n) \/ Connection(n)
  BY <1>4, <1>3 DEF Lifecycle, Install, Connection, CreateNode, BootstrapLapses, Archive,
       CleanUp, StartInstall, AskRelease, TakeSum, TakeBinary, Prepare, SendExchange, Exchange, Enable, Poll,
       Interrupt, RestartAgent, Dial, CheckToken, Hello, Disconnect, OnlyHost
<1>5. QED
  BY <1>1, <1>2, <1>3, <1>4, DeploymentsLeaveNodes DEF Next, vars

LEMMA ListStep == TypeOK /\ ListInv /\ [Next]_vars => ListInv'
<1> SUFFICES ASSUME TypeOK, ListInv, [Next]_vars PROVE ListInv'
  OBVIOUS
<1>1. published'.sum \in listed' /\ provider'.sum \in listed' \union {0} /\ listed \subseteq listed'
  BY ReleaseMoves DEF ListInv
<1>2. ASSUME NEW n \in Nodes
      PROVE  host'[n].sum \in listed' \union {0} /\ host'[n].installed \in listed' \union {0}
  BY <1>1, HostFieldsMove DEF ListInv
<1>3. QED
  BY <1>1, <1>2 DEF ListInv

\* What is installed was listed in the manifest of a release, while assets are
\* replaced and the control plane restarts (agent-release.ts, install.sh).
THEOREM InstallsTheListed == Spec => []InstalledWasListed
<1>1. Init => ListInv
  BY DEF Init, ListInv, FreshHost
<1>2. ListInv => InstalledWasListed
  BY DEF ListInv, InstalledWasListed
<1>3. QED
  BY <1>1, <1>2, ListStep, TypeCorrect, PTL DEF Spec

-----------------------------------------------------------------------------
(* Who is let in *)

\* A node whose Agent is connected, or about to be, has exchanged its bootstrap
\* credential; the permanent one, if it still has it, was let in.
OnlineInv ==
    \A n \in Nodes :
        /\ row[n].boot # "none" => row[n].life # "none"
        /\ row[n].token # 0 => row[n].boot = "none" /\ row[n].life # "none"
        /\ row[n].online \/ link[n] \in {"checked", "up"} =>
              /\ row[n].boot = "none" /\ row[n].life # "none"
              /\ row[n].token # 0 => \E life \in {"ACTIVE", "ARCHIVED"} : <<n, row[n].token, life>> \in admitted

\* What was revoked was exchanged, and is not replaced; no credential is let in
\* as that of an archived node before the node is archived.
RevokedInv ==
    /\ \A n \in Nodes, k \in Runs :
          row[n].life # "ARCHIVED" => <<n, k>> \notin revoked /\ <<n, k, "ARCHIVED">> \notin admitted
    /\ \A n \in Nodes, k \in Runs :
          <<n, k>> \in revoked => row[n].token = 0 /\ row[n].boot = "none" /\ <<n, k, "ARCHIVED">> \notin admitted

\* The steps that change who was let in, and who was turned out.
LEMMA EnrolledMoves ==
    ASSUME TypeOK, [Next]_vars
    PROVE  /\ \/ admitted' = admitted
              \/ \E n \in Nodes : CheckToken(n) /\ row[n].token # 0 /\ row[n].token = proc[n]
                                  /\ admitted' = admitted \union {<<n, row[n].token, row[n].life>>}
           /\ \/ revoked' = revoked
              \/ \E n \in Nodes : (Archive(n) \/ CleanUp(n)) /\ revoked' = revoked \union {<<n, row[n].token>>}
<1>1. CASE \E n \in Nodes : Lifecycle(n)
  BY <1>1 DEF Lifecycle, CreateNode, BootstrapLapses, Archive, CleanUp, Revokes, enrolled
<1>2. CASE \E n \in Nodes : Install(n)
  BY <1>2 DEF Install, StartInstall, AskRelease, TakeSum, TakeBinary, Prepare, SendExchange, Exchange, Enable,
       Poll, Interrupt, OnlyHost, enrolled
<1>3. CASE \E n \in Nodes : Connection(n)
  BY <1>3 DEF Connection, RestartAgent, Dial, CheckToken, Hello, Disconnect, enrolled
<1>4. CASE (\E d \in Deployments : Deployment(d)) \/ \E a \in attempts : Attempt(a)
  BY <1>4 DEF Deployment, Attempt, CreateDeployment, Dispatch, LeaseExpires, TicketLapses, Promote, Refuse, Issue,
       SendCommand, BeginAttempt, Claim, FinishAttempt, RecordBuilding, RecordOutcome, Only, enrolled
<1>5. CASE LoadManifest \/ LoadBinary \/ Publish \/ RestartControlPlane \/ UNCHANGED vars
  BY <1>5 DEF LoadManifest, LoadBinary, Publish, RestartControlPlane, vars, enrolled
<1>6. QED
  BY <1>1, <1>2, <1>3, <1>4, <1>5 DEF Next

\* How the connection of a node comes to be checked, or up.
LEMMA LinkMoves ==
    ASSUME TypeOK, [Next]_vars, NEW n \in Nodes, link'[n] \in {"checked", "up"}
    PROVE  \/ link[n] \in {"checked", "up"}
           \/ /\ CheckToken(n) /\ row[n].token # 0 /\ UNCHANGED row
              /\ admitted' = admitted \union {<<n, row[n].token, row[n].life>>}
<1>1. CASE \E m \in Nodes : Lifecycle(m)
  BY <1>1 DEF Lifecycle, CreateNode, BootstrapLapses, Archive, CleanUp, agent, TypeOK
<1>2. CASE \E m \in Nodes : Install(m)
  BY <1>2 DEF Install, StartInstall, AskRelease, TakeSum, TakeBinary, Prepare, SendExchange, Exchange, Enable,
       Poll, Interrupt, OnlyHost, agent
<1>3. CASE \E m \in Nodes : Connection(m)
  BY <1>3 DEF Connection, RestartAgent, Dial, CheckToken, Hello, Disconnect, TypeOK
<1>4. CASE (\E d \in Deployments : Deployment(d)) \/ \E a \in attempts : Attempt(a)
  BY <1>4, DeploymentsLeaveNodes DEF agent
<1>5. CASE LoadManifest \/ LoadBinary \/ Publish \/ RestartControlPlane \/ UNCHANGED vars
  BY <1>5 DEF LoadManifest, LoadBinary, Publish, RestartControlPlane, vars, agent
<1>6. QED
  BY <1>1, <1>2, <1>3, <1>4, <1>5 DEF Next

\* The fields of a row after a step.
LEMMA RowFieldsMove ==
    ASSUME TypeOK, [Next]_vars, NEW m \in Nodes
    PROVE  \/ row'[m] = row[m]
           \/ /\ CreateNode(m) /\ row[m].life = "none"
              /\ row'[m].life = "ACTIVE" /\ row'[m].token = 0 /\ ~row'[m].online /\ row'[m].boot = "live"
           \/ /\ row[m].boot = "live" /\ row'[m].boot = "lapsed" /\ row'[m].life = row[m].life
              /\ row'[m].token = row[m].token /\ row'[m].online = row[m].online
           \/ /\ row[m].life = "ACTIVE" /\ row'[m].life = "ARCHIVED" /\ row'[m].token = 0
              /\ ~row'[m].online /\ row'[m].boot = row[m].boot
           \/ \E k \in Runs :
                 /\ Exchange(m, k) /\ row[m].boot = "live" /\ row'[m].boot = "none" /\ row'[m].token = k
                 /\ row'[m].life = row[m].life /\ ~row[m].online /\ ~row'[m].online
           \/ /\ row'[m].life = row[m].life /\ row'[m].token = row[m].token /\ row'[m].boot = row[m].boot
              /\ ~row'[m].online \/ link[m] = "checked"
<1>0. row[m] \in RowType /\ NoNode \in RowType
  BY DEF TypeOK, NoNode, RowType
<1>1. CASE CreateNode(m)
  <2>1. row'[m] = [NoNode EXCEPT !.life = "ACTIVE", !.boot = "live"] /\ row[m].life = "none"
    BY <1>1 DEF CreateNode, TypeOK
  <2>2. QED
    BY <1>1, <2>1 DEF NoNode
<1>2. CASE BootstrapLapses(m)
  <2>1. row'[m] = [row[m] EXCEPT !.boot = "lapsed"] /\ row[m].boot = "live"
    BY <1>2 DEF BootstrapLapses, TypeOK
  <2>2. QED
    BY <1>0, <2>1 DEF RowType
<1>3. CASE row[m].life = "ACTIVE" /\ row'[m] = ArchivedRow(row[m])
  BY <1>0, <1>3 DEF ArchivedRow, RowType
<1>4. CASE \E k \in Runs : Exchange(m, k) /\ Enrolling(m) /\ row'[m] = Exchanged(row[m], k)
  <2>1. PICK k \in Runs : Exchange(m, k) /\ Enrolling(m) /\ row'[m] = Exchanged(row[m], k)
    BY <1>4
  <2>2. /\ row'[m].boot = "none" /\ row'[m].token = k /\ row'[m].life = row[m].life
        /\ row'[m].online = row[m].online
    BY <1>0, <2>1 DEF Exchanged, RowType
  <2>3. QED
    BY <2>1, <2>2 DEF Enrolling
<1>5. CASE row'[m] = [row[m] EXCEPT !.online = FALSE]
  BY <1>0, <1>5 DEF RowType
<1>6. CASE Hello(m)
  <2>1. PICK b \in BOOLEAN : row'[m] = [row[m] EXCEPT !.online = b, !.seen = TRUE]
    BY <1>6 DEF Hello, TypeOK
  <2>2. link[m] = "checked"
    BY <1>6 DEF Hello
  <2>3. QED
    BY <1>0, <2>1, <2>2 DEF RowType
<1>7. QED
  BY <1>1, <1>2, <1>3, <1>4, <1>5, <1>6, RowMoves

LEMMA OnlineStep == TypeOK /\ OnlineInv /\ [Next]_vars => OnlineInv'
<1> SUFFICES ASSUME TypeOK, OnlineInv, [Next]_vars, NEW n \in Nodes
             PROVE  /\ row'[n].boot # "none" => row'[n].life # "none"
                    /\ row'[n].token # 0 => row'[n].boot = "none" /\ row'[n].life # "none"
                    /\ row'[n].online \/ link'[n] \in {"checked", "up"} =>
                          /\ row'[n].boot = "none" /\ row'[n].life # "none"
                          /\ row'[n].token # 0 =>
                                \E life \in {"ACTIVE", "ARCHIVED"} : <<n, row'[n].token, life>> \in admitted'
  BY DEF OnlineInv
<1>0. row[n] \in RowType /\ admitted \subseteq admitted' /\ \A k \in Runs : k # 0
  BY EnrolledMoves DEF TypeOK, Runs
<1>1. \A k \in Runs : Exchange(n, k) => link' = link
  BY DEF Exchange, agent
<1>2. CreateNode(n) => link' = link
  BY DEF CreateNode, agent
<1>6. row'[n].boot # "none" => row'[n].life # "none"
  BY RowFieldsMove DEF OnlineInv
<1>3. row'[n].token # 0 => row'[n].boot = "none" /\ row'[n].life # "none"
  <2>1. CASE \E k \in Runs : Exchange(n, k) /\ row[n].boot = "live" /\ row'[n].boot = "none" /\ row'[n].life = row[n].life
    <3>1. row[n].life # "none"
      BY <2>1 DEF OnlineInv
    <3>2. QED
      BY <2>1, <3>1
  <2>2. QED
    BY <1>0, <2>1, RowFieldsMove DEF OnlineInv
<1>4. ASSUME row'[n].online \/ link'[n] \in {"checked", "up"}
      PROVE  /\ row'[n].boot = "none" /\ row'[n].life # "none"
             /\ row'[n].token # 0 => \E life \in {"ACTIVE", "ARCHIVED"} : <<n, row'[n].token, life>> \in admitted'
  <2>1. CASE row[n].online \/ link[n] \in {"checked", "up"}
    BY <1>0, <1>4, <2>1, RowFieldsMove DEF OnlineInv
  <2>2. CASE ~row[n].online /\ link[n] \notin {"checked", "up"}
    <3>1. CASE link'[n] \in {"checked", "up"}
      <4>1. /\ row[n].token # 0 /\ row' = row
            /\ admitted' = admitted \union {<<n, row[n].token, row[n].life>>}
        BY <2>2, <3>1, LinkMoves
      <4>2. row[n].boot = "none" /\ row[n].life \in {"ACTIVE", "ARCHIVED"}
        BY <1>0, <4>1 DEF OnlineInv, RowType
      <4>3. QED
        BY <4>1, <4>2
    <3>2. CASE row'[n].online
      BY <2>2, <3>2, RowFieldsMove
    <3>3. QED
      BY <1>4, <3>1, <3>2
  <2>3. QED
    BY <2>1, <2>2
<1>5. QED
  BY <1>3, <1>4, <1>6

LEMMA RevokedStep == TypeOK /\ OnlineInv /\ RevokedInv /\ [Next]_vars => RevokedInv'
<1> SUFFICES ASSUME TypeOK, OnlineInv, RevokedInv, [Next]_vars, NEW n \in Nodes, NEW k \in Runs
             PROVE  /\ row'[n].life # "ARCHIVED" => <<n, k>> \notin revoked' /\ <<n, k, "ARCHIVED">> \notin admitted'
                    /\ <<n, k>> \in revoked' =>
                          row'[n].token = 0 /\ row'[n].boot = "none" /\ <<n, k, "ARCHIVED">> \notin admitted'
  BY DEF RevokedInv
<1>0. row[n] \in RowType /\ k # 0
  BY DEF TypeOK, Runs
<1>1. <<n, k, "ARCHIVED">> \in admitted' =>
         \/ <<n, k, "ARCHIVED">> \in admitted
         \/ row[n].token = k /\ row[n].life = "ARCHIVED"
  BY EnrolledMoves
<1>2. ASSUME \E m \in Nodes : CheckToken(m)
      PROVE  row' = row /\ revoked' = revoked
  BY <1>2 DEF CheckToken
<1>3. <<n, k>> \in revoked' =>
         \/ <<n, k>> \in revoked
         \/ /\ Archive(n) \/ CleanUp(n)
            /\ row[n].token = k /\ row[n].life = "ACTIVE"
  BY EnrolledMoves DEF Archive, CleanUp
<1>4. Archive(n) \/ CleanUp(n) => row'[n] = ArchivedRow(row[n]) /\ admitted' = admitted
  BY DEF Archive, CleanUp, Revokes, TypeOK, enrolled
<1>5. ArchivedRow(row[n]).life = "ARCHIVED" /\ ArchivedRow(row[n]).token = 0
      /\ ArchivedRow(row[n]).boot = row[n].boot
  BY <1>0 DEF ArchivedRow, RowType
<1>6. ASSUME row'[n].life # "ARCHIVED"
      PROVE  <<n, k>> \notin revoked' /\ <<n, k, "ARCHIVED">> \notin admitted'
  <2>1. row[n].life # "ARCHIVED"
    BY <1>6, RowFieldsMove
  <2>2. QED
    BY <1>1, <1>3, <1>4, <1>5, <1>6, <2>1 DEF RevokedInv
<1>7. ASSUME <<n, k>> \in revoked'
      PROVE  row'[n].token = 0 /\ row'[n].boot = "none" /\ <<n, k, "ARCHIVED">> \notin admitted'
  <2>1. CASE <<n, k>> \in revoked
    <3>1. row[n].token = 0 /\ row[n].boot = "none" /\ row[n].life = "ARCHIVED" /\ <<n, k, "ARCHIVED">> \notin admitted
      BY <2>1 DEF RevokedInv
    <3>2. QED
      BY <1>0, <1>1, <3>1, RowFieldsMove
  <2>2. CASE <<n, k>> \notin revoked
    <3>1. (Archive(n) \/ CleanUp(n)) /\ row[n].token = k /\ row[n].life = "ACTIVE"
      BY <1>3, <1>7, <2>2
    <3>2. row[n].boot = "none" /\ <<n, k, "ARCHIVED">> \notin admitted
      BY <1>0, <3>1 DEF OnlineInv, RevokedInv
    <3>3. QED
      BY <1>4, <1>5, <3>1, <3>2
  <2>3. QED
    BY <2>1, <2>2
<1>8. QED
  BY <1>6, <1>7

LEMMA DoneStep ==
    TypeOK /\ RunInv /\ OnlineInv /\ DoneWasAdmitted /\ [Next]_vars => DoneWasAdmitted'
<1> SUFFICES ASSUME TypeOK, RunInv, OnlineInv, DoneWasAdmitted, [Next]_vars,
                    NEW n \in Nodes, host'[n].pc = "done"
             PROVE  \E life \in {"ACTIVE", "ARCHIVED"} : <<n, host'[n].run, life>> \in admitted'
  BY DEF DoneWasAdmitted
<1>0. host[n] \in HostType /\ admitted \subseteq admitted' /\ \A k \in Runs : k # 0
  BY EnrolledMoves DEF TypeOK, Runs
<1>1. CASE host[n].pc = "done"
  <2>1. ~StartInstall(n)
    BY <1>1 DEF StartInstall
  <2>2. host'[n].run = host[n].run
    BY <2>1, HostFieldsMove
  <2>3. QED
    BY <1>0, <1>1, <2>2 DEF DoneWasAdmitted
<1>2. CASE host[n].pc # "done"
  <2>1. Poll(n) /\ Installed(n)
    <3>1. ASSUME NEW pc \in Steps, Moves(n, pc) PROVE pc = "done"
      BY <1>0, <3>1 DEF Moves, TypeOK, HostType
    <3>2. StartInstall(n) => host'[n].pc = "sum"
      BY DEF StartInstall, TypeOK
    <3>3. TakeSum(n) => host'[n].pc = "binary"
      <4>1. TakeSum(n) => host'[n] = [host[n] EXCEPT !.pc = "binary", !.sum = provider.sum]
        BY DEF TakeSum, TypeOK
      <4>2. [host[n] EXCEPT !.pc = "binary", !.sum = provider.sum].pc = "binary"
        BY <1>0 DEF HostType
      <4>3. QED
        BY <4>1, <4>2
    <3>4. Prepare(n) => host'[n].pc = "exchange"
      BY <1>0 DEF Prepare, Prepared, TypeOK, HostType
    <3>5. AskRelease(n) \/ TakeBinary(n) \/ SendExchange(n) \/ Enable(n) \/ Interrupt(n) =>
             \E pc \in Steps \ {"done"} : Moves(n, pc)
      BY DEF AskRelease, TakeBinary, SendExchange, Enable, Interrupt, Steps
    <3>6. (\E k \in Runs : Exchange(n, k)) => host' = host \/ \E pc \in Steps \ {"done"} : Moves(n, pc)
      BY DEF Exchange, Moves, Steps
    <3>7. host'[n] # [host[n] EXCEPT !.pc = "stopped"]
      BY <1>0 DEF HostType
    <3>8. Poll(n)
      BY <1>2, <3>1, <3>2, <3>3, <3>4, <3>5, <3>6, <3>7, HostMove
    <3>9. QED
      BY <3>1, <3>8 DEF Poll, Steps
  <2>2. host[n].run \in Runs /\ host'[n].run = host[n].run
    BY <2>1, HostFieldsMove DEF Poll, RunInv, StartInstall
  <2>3. row[n].online /\ row[n].token = host[n].run
    BY <2>1 DEF Installed
  <2>4. \E life \in {"ACTIVE", "ARCHIVED"} : <<n, row[n].token, life>> \in admitted
    BY <1>0, <2>2, <2>3 DEF OnlineInv
  <2>5. QED
    BY <1>0, <2>2, <2>3, <2>4
<1>3. QED
  BY <1>1, <1>2

\* The script says the node is installed only when the Agent of this run was let
\* in, and no Agent whose credential was taken away is let in again (install.sh,
\* node-credential-exchange.ts, workspace-node-routes.ts, index.ts).
THEOREM AdmitsRightly == Spec => []AdmittedRightly
<1>1. Init => OnlineInv /\ RevokedInv /\ DoneWasAdmitted
  BY DEF Init, OnlineInv, RevokedInv, DoneWasAdmitted, NoNode, FreshHost
<1>2. RevokedInv => RevokedStaysOut
  BY DEF RevokedInv, RevokedStaysOut
<1>3. QED
  BY <1>1, <1>2, OnlineStep, RevokedStep, DoneStep, TypeInvariance, PTL DEF Spec, AdmittedRightly

-----------------------------------------------------------------------------
(* The commit point of install.sh *)

\* While a script has not been interrupted with its exchange on the way: an exchange
\* that is on the way is that of the run that awaits it; what a run sends it has
\* kept; and when the exchange is over no run gets past the release again.
CommitInv ==
    \A n \in Nodes \ cut :
        /\ \A k \in Runs : <<n, k>> \in exchanges => host[n].pc = "await" /\ host[n].run = k
        /\ host[n].pc \in {"exchange", "await"} => host[n].env = host[n].run
        /\ row[n].token # 0 =>
              /\ host[n].env = row[n].token
              /\ host[n].pc \notin {"sum sent", "binary", "binary sent", "write", "exchange", "await"}

LEMMA MovesTo ==
    ASSUME TypeOK, NEW n \in Nodes, NEW pc, Moves(n, pc)
    PROVE  host'[n].pc = pc /\ host'[n].env = host[n].env /\ host'[n].run = host[n].run
<1>1. host'[n] = [host[n] EXCEPT !.pc = pc] /\ host[n] \in HostType
  BY DEF Moves, TypeOK
<1>2. QED
  BY <1>1 DEF HostType

\* The steps that send an exchange, and that interrupt one.
LEMMA ExchangesMove ==
    ASSUME TypeOK, [Next]_vars
    PROVE  /\ cut \subseteq cut'
           /\ \A n \in Nodes, k \in Runs :
                 <<n, k>> \in exchanges' =>
                    <<n, k>> \in exchanges \/ (SendExchange(n) /\ k = host[n].run)
<1>1. CASE \E n \in Nodes : Lifecycle(n)
  BY <1>1 DEF Lifecycle, CreateNode, BootstrapLapses, Archive, CleanUp, enrolled
<1>2. CASE \E n \in Nodes : Install(n)
  BY <1>2 DEF Install, StartInstall, AskRelease, TakeSum, TakeBinary, Prepare, SendExchange, Exchange, Enable,
       Poll, Interrupt, OnlyHost, enrolled
<1>3. CASE \E n \in Nodes : Connection(n)
  BY <1>3 DEF Connection, RestartAgent, Dial, CheckToken, Hello, Disconnect, enrolled
<1>4. CASE (\E d \in Deployments : Deployment(d)) \/ \E a \in attempts : Attempt(a)
  BY <1>4 DEF Deployment, Attempt, CreateDeployment, Dispatch, LeaseExpires, TicketLapses, Promote, Refuse, Issue,
       SendCommand, BeginAttempt, Claim, FinishAttempt, RecordBuilding, RecordOutcome, Only, enrolled
<1>5. CASE LoadManifest \/ LoadBinary \/ Publish \/ RestartControlPlane \/ UNCHANGED vars
  BY <1>5 DEF LoadManifest, LoadBinary, Publish, RestartControlPlane, vars, enrolled
<1>6. QED
  BY <1>1, <1>2, <1>3, <1>4, <1>5 DEF Next

LEMMA CommitStep == TypeOK /\ OnlineInv /\ CommitInv /\ [Next]_vars => CommitInv'
<1> SUFFICES ASSUME TypeOK, OnlineInv, CommitInv, [Next]_vars, NEW n \in Nodes, n \notin cut'
             PROVE  /\ \A k \in Runs : <<n, k>> \in exchanges' => host'[n].pc = "await" /\ host'[n].run = k
                    /\ host'[n].pc \in {"exchange", "await"} => host'[n].env = host'[n].run
                    /\ row'[n].token # 0 =>
                          /\ host'[n].env = row'[n].token
                          /\ host'[n].pc \notin {"sum sent", "binary", "binary sent", "write", "exchange", "await"}
  BY DEF CommitInv
<1>0. n \notin cut /\ host[n] \in HostType /\ row[n] \in RowType
  BY ExchangesMove DEF TypeOK
<1>1. /\ \A k \in Runs : <<n, k>> \in exchanges => host[n].pc = "await" /\ host[n].run = k
      /\ host[n].pc \in {"exchange", "await"} => host[n].env = host[n].run
      /\ row[n].token # 0 =>
            /\ host[n].env = row[n].token
            /\ host[n].pc \notin {"sum sent", "binary", "binary sent", "write", "exchange", "await"}
  BY <1>0 DEF CommitInv
<1>2. CASE \E k \in Runs : Exchange(n, k)
  <2>1. PICK k \in Runs : Exchange(n, k)
    BY <1>2
  <2>2. <<n, k>> \in exchanges /\ exchanges' = exchanges \ {<<n, k>>}
    BY <2>1 DEF Exchange
  <2>3. host[n].pc = "await" /\ host[n].run = k /\ host[n].env = k /\ row[n].token = 0
    BY <1>1, <2>2
  <2>4. Moves(n, "enable") \/ Moves(n, "stopped")
    BY <2>1, <2>3 DEF Exchange, Moves
  <2>5. host'[n].pc \in {"enable", "stopped"} /\ host'[n].env = k
    BY <2>3, <2>4, MovesTo
  <2>6. row'[n].token \in {0, k}
    <3>1. row' = row \/ row' = [row EXCEPT ![n] = Exchanged(row[n], k)]
      BY <2>1 DEF Exchange
    <3>2. Exchanged(row[n], k).token = k
      BY <1>0 DEF Exchanged, RowType
    <3>3. QED
      BY <2>3, <3>1, <3>2 DEF TypeOK
  <2>7. \A j \in Runs : <<n, j>> \notin exchanges'
    BY <1>1, <2>2, <2>3
  <2>8. QED
    BY <2>5, <2>6, <2>7
<1>3. CASE ~\E k \in Runs : Exchange(n, k)
  <2>1. row'[n].token \in {row[n].token, 0}
    BY <1>3, RowFieldsMove
  <2>2. \A k \in Runs : <<n, k>> \in exchanges' => <<n, k>> \in exchanges \/ (SendExchange(n) /\ k = host[n].run)
    BY ExchangesMove
  <2>3. CASE host'[n] = host[n]
    <3>1. ~SendExchange(n)
      BY <2>3, MovesTo DEF SendExchange
    <3>2. QED
      BY <1>1, <2>1, <2>2, <2>3, <3>1
  <2>4. CASE StartInstall(n)
    <3>1. host' = [host EXCEPT ![n] = [host[n] EXCEPT !.pc = "sum", !.run = host[n].run + 1, !.sum = 0]]
          /\ host[n].pc \in {"idle", "stopped"}
      BY <2>4 DEF StartInstall, TypeOK
    <3>2. host'[n].pc = "sum" /\ host'[n].env = host[n].env
      BY <1>0, <3>1 DEF TypeOK, HostType
    <3>3. QED
      BY <1>1, <2>1, <2>2, <3>1, <3>2 DEF SendExchange
  <2>5. CASE AskRelease(n)
    <3>1. \E pc \in {"stopped", "sum sent", "binary sent"} :
             Moves(n, pc) /\ (row[n].boot # "live" => pc = "stopped")
      BY <2>5 DEF AskRelease, MayFetchRelease
    <3>2. host'[n].pc \in {"stopped", "sum sent", "binary sent"} /\ host'[n].env = host[n].env
          /\ (row[n].boot # "live" => host'[n].pc = "stopped") /\ host[n].pc \in {"sum", "binary"}
      BY <2>5, <3>1, MovesTo DEF AskRelease
    <3>3. row[n].token # 0 => row[n].boot = "none"
      BY DEF OnlineInv
    <3>4. QED
      BY <1>1, <2>1, <2>2, <3>2, <3>3 DEF SendExchange
  <2>6. CASE TakeSum(n)
    <3>1. host' = [host EXCEPT ![n] = [host[n] EXCEPT !.pc = "binary", !.sum = provider.sum]]
          /\ host[n].pc = "sum sent"
      BY <2>6 DEF TakeSum, TypeOK
    <3>2. host'[n].pc = "binary"
      BY <1>0, <3>1 DEF TypeOK, HostType
    <3>3. QED
      BY <1>1, <2>1, <2>2, <3>1, <3>2 DEF SendExchange
  <2>7. CASE TakeBinary(n)
    <3>1. host'[n].pc \in {"write", "stopped"} /\ host[n].pc = "binary sent"
      BY <2>7, MovesTo DEF TakeBinary
    <3>2. QED
      BY <1>1, <2>1, <2>2, <3>1 DEF SendExchange
  <2>8. CASE Prepare(n)
    <3>1. host'[n] = Prepared(host[n]) /\ host[n].pc = "write"
      BY <2>8 DEF Prepare, TypeOK
    <3>2. host'[n].pc = "exchange" /\ host'[n].env = host'[n].run
      BY <1>0, <3>1 DEF Prepared, HostType
    <3>3. QED
      BY <1>1, <2>1, <2>2, <3>1, <3>2 DEF SendExchange
  <2>9. CASE SendExchange(n)
    <3>1. host'[n].pc = "await" /\ host'[n].env = host[n].env /\ host'[n].run = host[n].run
          /\ host[n].pc = "exchange"
      BY <2>9, MovesTo DEF SendExchange
    <3>2. QED
      BY <1>1, <2>1, <2>2, <3>1
  <2>10. CASE Enable(n) \/ Poll(n)
    <3>1. host'[n].pc \in {"poll", "done", "stopped"} /\ host'[n].env = host[n].env
          /\ host[n].pc \in {"enable", "poll"}
      BY <2>10, MovesTo DEF Enable, Poll
    <3>2. QED
      BY <1>1, <2>1, <2>2, <3>1 DEF SendExchange
  <2>11. CASE Interrupt(n)
    <3>1. host'[n].pc = "stopped" /\ host'[n].env = host[n].env
      BY <2>11, MovesTo DEF Interrupt
    <3>2. host[n].pc # "await"
      BY <2>11 DEF Interrupt
    <3>3. ~SendExchange(n)
      BY <3>1, MovesTo DEF SendExchange
    <3>4. QED
      BY <1>1, <2>1, <2>2, <3>1, <3>2, <3>3
  <2>12. CASE /\ (LoadBinary /\ n \in Waiting) \/ RestartControlPlane
              /\ host[n].pc \in {"sum sent", "binary sent", "await"}
              /\ host'[n] = [host[n] EXCEPT !.pc = "stopped"]
    <3>1. host'[n].pc = "stopped" /\ host'[n].env = host[n].env
      BY <1>0, <2>12 DEF HostType
    <3>2. CASE LoadBinary /\ n \in Waiting
      <4>1. host[n].pc # "await" /\ ~SendExchange(n)
        BY <2>12, <3>1, <3>2, MovesTo DEF Waiting, SendExchange
      <4>2. QED
        BY <1>1, <2>1, <2>2, <3>1, <4>1
    <3>3. CASE RestartControlPlane
      <4>1. exchanges' = {}
        BY <3>3 DEF RestartControlPlane
      <4>2. QED
        BY <1>1, <2>1, <3>1, <4>1
    <3>4. QED
      BY <2>12, <3>2, <3>3
  <2>13. QED
    BY <1>3, <2>3, <2>4, <2>5, <2>6, <2>7, <2>8, <2>9, <2>10, <2>11, <2>12, HostMove
<1>4. QED
  BY <1>2, <1>3

\* A permanent credential the control plane knows is the one in agent.env, however
\* often install.sh is run and whichever answer was lost, unless a script was
\* interrupted with its exchange on the way (node-credential-exchange.ts).
THEOREM CredentialsAgree == Spec => []Consistent
<1>1. Init => OnlineInv /\ CommitInv
  <2> SUFFICES ASSUME Init PROVE OnlineInv /\ CommitInv
    OBVIOUS
  <2>1. \A n \in Nodes : /\ row[n].token = 0 /\ row[n].boot = "none" /\ ~row[n].online
                        /\ host[n].pc = "idle" /\ link[n] = "none"
    BY DEF Init, NoNode, FreshHost
  <2>2. exchanges = {}
    BY DEF Init
  <2>3. QED
    BY <2>1, <2>2 DEF OnlineInv, CommitInv
<1>2. CommitInv => CommitPoint
  BY DEF CommitInv, CommitPoint
<1>3. QED
  BY <1>1, <1>2, OnlineStep, CommitStep, TypeCorrect, PTL DEF Spec, Consistent

-----------------------------------------------------------------------------
(* What an Agent gets for its tickets *)

\* the ticket of the k-th dispatch of d would be honoured now; it never will be
Valid(d, k) ==
    ticket[d].usable /\ ticket[d].token = k /\ (d \in Images => ticket[d].host = config)
Reason(d, k) ==
    <<d, k>> \in spoilt \/ \E j \in 1..MaxTries : j # k /\ <<d, j>> \in issued
Awaits == {"issued", "wire", "asking"}

\* A command that is on its way with a ticket carries a good one, or there is a
\* reason that it does not; only such a command asks; and a ticket that can be
\* used is for the registry of the image.
AskInv ==
    /\ \A a \in attempts : a.at = "asking" => Ticketed(a)
    /\ \A a \in attempts : a.at \in Awaits /\ Ticketed(a) => Valid(a.dep, a.token) \/ Reason(a.dep, a.token)
    /\ \A d \in Images : ticket[d].usable => ticket[d].host = HostOf[d]

LEMMA ReasonsStay ==
    ASSUME TypeOK, [Next]_vars
    PROVE  spoilt \subseteq spoilt' /\ issued \subseteq issued'
<1>1. CASE \E d \in Deployments : Deployment(d)
  BY <1>1, Groups DEF Deployment, CreateDeployment, Dispatch, LeaseExpires, TicketLapses, Promote, Only, delivered, tokens
<1>2. CASE \E a \in attempts : Attempt(a)
  BY <1>2 DEF Attempt, Refuse, Issue, SendCommand, BeginAttempt, Claim, FinishAttempt, RecordBuilding,
       RecordOutcome, Only, delivered, tokens
<1>3. CASE \E n \in Nodes : Lifecycle(n) \/ Install(n) \/ Connection(n)
  BY <1>3 DEF Lifecycle, Install, Connection, CreateNode, BootstrapLapses, Archive,
       CleanUp, StartInstall, AskRelease, TakeSum, TakeBinary, Prepare, SendExchange, Exchange, Enable, Poll,
       Interrupt, RestartAgent, Dial, CheckToken, Hello, Disconnect, OnlyHost, delivered, tokens
<1>4. CASE LoadManifest \/ LoadBinary \/ Publish \/ RestartControlPlane \/ UNCHANGED vars
  BY <1>4 DEF LoadManifest, LoadBinary, Publish, RestartControlPlane, vars, delivered, tokens
<1>5. QED
  BY <1>1, <1>2, <1>3, <1>4 DEF Next

\* The steps that change what a ticket is good for.
LEMMA TicketMoves ==
    ASSUME TypeOK, [Next]_vars, NEW d \in Deployments
    PROVE  \/ ticket'[d] = ticket[d] /\ config' = config
           \/ TicketLapses(d) \/ RestartControlPlane
           \/ \E a \in attempts : a.dep = d /\ (Issue(a) \/ Claim(a))
<1>1. CASE \E e \in Deployments : Deployment(e)
  BY <1>1 DEF Deployment, CreateDeployment, Dispatch, LeaseExpires, TicketLapses, Promote, Only, TypeOK
<1>2. CASE \E a \in attempts : Attempt(a)
  <2>1. PICK a \in attempts : Attempt(a)
    BY <1>2
  <2>2. a.dep \in Deployments
    BY DEF TypeOK, AttemptType
  <2>3. CASE Issue(a)
    BY <2>2, <2>3 DEF Issue, Only, TypeOK
  <2>4. CASE Claim(a)
    BY <2>2, <2>4 DEF Claim, Only, TypeOK
  <2>5. CASE ~Issue(a) /\ ~Claim(a)
    BY <2>1, <2>5 DEF Attempt, Refuse, SendCommand, BeginAttempt, FinishAttempt, RecordBuilding, RecordOutcome, Only
  <2>6. QED
    BY <2>3, <2>4, <2>5
<1>3. CASE (\E n \in Nodes : Lifecycle(n) \/ Install(n) \/ Connection(n)) \/ LoadManifest \/ LoadBinary \/ Publish
  BY <1>3, NodesLeaveTickets
<1>4. CASE UNCHANGED vars
  BY <1>4 DEF vars, tickets
<1>5. QED
  BY <1>1, <1>2, <1>3, <1>4 DEF Next

\* A good ticket stays one until there is a reason, or until it is used.
LEMMA ValidStep ==
    ASSUME TypeOK, [Next]_vars, NEW d \in Deployments, NEW k \in 1..MaxTries,
           Valid(d, k) \/ Reason(d, k)
    PROVE  \/ Valid(d, k)' \/ Reason(d, k)'
           \/ \E a \in attempts, at \in {"granted", "failed"} :
                 a.dep = d /\ a.token = k /\ attempts' = With(a, at)
<1>1. CASE Reason(d, k)
  BY <1>1, ReasonsStay DEF Reason
<1>2. CASE Valid(d, k)
  <2>1. CASE ticket'[d] = ticket[d] /\ config' = config
    BY <1>2, <2>1 DEF Valid
  <2>2. CASE TicketLapses(d)
    BY <1>2, <2>2 DEF TicketLapses, Valid, Reason
  <2>3. CASE RestartControlPlane
    BY <1>2, <2>3 DEF RestartControlPlane, Valid, Reason
  <2>4. ASSUME NEW a \in attempts, a.dep = d, Issue(a) PROVE Valid(d, k)' \/ Reason(d, k)'
    <3>1. a.token \in 1..MaxTries
      BY DEF TypeOK, AttemptType
    <3>2. CASE d \in Images /\ config = NoHost
      BY <1>2, <2>4, <3>2 DEF Issue, Only, Valid
    <3>3. CASE ~(d \in Images /\ config = NoHost)
      <4>1. PICK h : /\ d \in Images => config = h
                     /\ ticket' = [ticket EXCEPT ![d] = Reissued(d, a.token, h)]
                     /\ issued' = issued \union {<<d, a.token>>} /\ config' = config
        BY <2>4, <3>3 DEF Issue, Only
      <4>2. ticket'[d] = [token |-> a.token, usable |-> TRUE, host |-> h]
        BY <4>1 DEF TypeOK, Reissued
      <4>3. CASE a.token = k
        BY <4>1, <4>2, <4>3 DEF Valid
      <4>4. CASE a.token # k
        BY <3>1, <4>1, <4>4 DEF Reason
      <4>5. QED
        BY <4>3, <4>4
    <3>4. QED
      BY <3>2, <3>3
  <2>5. ASSUME NEW a \in attempts, a.dep = d, Claim(a)
        PROVE  \/ Valid(d, k)' \/ Reason(d, k)'
               \/ \E at \in {"granted", "failed"} : a.token = k /\ attempts' = With(a, at)
    <3>1. CASE Honoured(a)
      <4>1. a.token = k
        BY <1>2, <2>5, <3>1 DEF Honoured, Valid
      <4>2. QED
        BY <2>5, <3>1, <4>1 DEF Claim, Reason
    <3>2. CASE ~Honoured(a)
      <4>1. ticket' = ticket /\ config' = config
        BY <2>5, <3>2 DEF Claim, Only
      <4>2. QED
        BY <1>2, <4>1 DEF Valid
    <3>3. QED
      BY <3>1, <3>2
  <2>6. QED
    BY <2>1, <2>2, <2>3, <2>4, <2>5, TicketMoves
<1>3. QED
  BY <1>1, <1>2

\* A command that awaits an answer was one before, or has just been given its ticket.
LEMMA CommandMoves ==
    ASSUME TypeOK, [Next]_vars, NEW c \in attempts', c.at \in Awaits
    PROVE  \E a \in attempts :
              /\ a.dep = c.dep /\ a.token = c.token
              /\ \/ Issue(a) /\ c.at = "issued" /\ (Ticketed(c) => Valid(c.dep, c.token)')
                 \/ /\ a.at \in Awaits /\ (Ticketed(c) <=> Ticketed(a))
                    /\ c.at = "asking" => a.at = "asking" \/ Ticketed(a)
<1>1. CASE c \in attempts
  BY <1>1
<1>2. CASE \E d \in Deployments : Dispatch(d)
  BY <1>1, <1>2 DEF Dispatch, Awaits
<1>3. CASE \E a \in attempts : Attempt(a)
  <2>1. PICK a \in attempts : Attempt(a)
    BY <1>3
  <2>2. a \in AttemptType /\ a.dep \in Deployments /\ ticket[a.dep] \in TicketType
    BY DEF TypeOK, AttemptType
  <2>3. CASE Issue(a) /\ c \notin attempts
    <3>1. PICK g \in Hosts \union {NoHost} :
             /\ attempts' = (attempts \ {a}) \union {[a EXCEPT !.at = "issued", !.for = g]}
             /\ \/ a.dep \in Images /\ g = NoHost
                \/ /\ ticket' = [ticket EXCEPT ![a.dep] = Reissued(a.dep, a.token, g)]
                   /\ config' = config
                   /\ a.dep \in Images => config = g
      <4>1. a.dep \in Images => HostOf[a.dep] \in Hosts
        BY HostsAssumption
      <4>2. QED
        BY <2>3, <4>1 DEF Issue, Only
    <3>2. c = [a EXCEPT !.at = "issued", !.for = g]
      BY <2>3, <3>1
    <3>3. c.dep = a.dep /\ c.token = a.token /\ c.at = "issued" /\ c.for = g
      BY <2>2, <3>2 DEF AttemptType
    <3>4. Ticketed(c) => Valid(c.dep, c.token)'
      <4>1. CASE a.dep \in Images /\ g = NoHost
        BY <3>3, <4>1, HomesAssumption DEF Ticketed
      <4>2. CASE ~(a.dep \in Images /\ g = NoHost)
        <5>1. ticket'[a.dep] = [token |-> a.token, usable |-> TRUE, host |-> g]
          BY <2>2, <3>1, <4>2 DEF TypeOK, Reissued
        <5>2. QED
          BY <3>1, <3>3, <4>2, <5>1 DEF Valid
      <4>3. QED
        BY <4>1, <4>2
    <3>5. QED
      BY <2>3, <3>3, <3>4
  <2>4. CASE ~Issue(a) /\ c \notin attempts
    <3>1. \/ \E at \in {"wire"} : a.at = "issued" /\ c = [a EXCEPT !.at = at]
          \/ \E at \in {"asking"} : a.at = "wire" /\ c = [a EXCEPT !.at = at] /\ Ticketed(a)
          \/ \E at \in {"granted", "built", "failed"} : c = [a EXCEPT !.at = at]
          \/ c = [a EXCEPT !.told = TRUE]
      BY <2>1, <2>4 DEF Attempt, Refuse, SendCommand, BeginAttempt, Claim, FinishAttempt, RecordBuilding,
           RecordOutcome, With
    <3>2. CASE c = [a EXCEPT !.told = TRUE]
      <4>1. c.dep = a.dep /\ c.token = a.token /\ c.at = a.at /\ c.for = a.for
        BY <2>2, <3>2 DEF AttemptType
      <4>2. QED
        BY <4>1 DEF Ticketed
    <3>3. ASSUME NEW at, c = [a EXCEPT !.at = at]
          PROVE  c.dep = a.dep /\ c.token = a.token /\ c.at = at /\ c.for = a.for
      BY <2>2, <3>3 DEF AttemptType
    <3>4. CASE a.at = "issued" /\ c = [a EXCEPT !.at = "wire"]
      BY <3>3, <3>4 DEF Ticketed, Awaits
    <3>5. CASE a.at = "wire" /\ c = [a EXCEPT !.at = "asking"] /\ Ticketed(a)
      BY <3>3, <3>5 DEF Ticketed, Awaits
    <3>6. CASE \E at \in {"granted", "built", "failed"} : c = [a EXCEPT !.at = at]
      BY <3>3, <3>6 DEF Awaits
    <3>7. QED
      BY <3>1, <3>2, <3>4, <3>5, <3>6
  <2>5. QED
    BY <1>1, <2>3, <2>4
<1>4. CASE attempts' \subseteq attempts
  BY <1>1, <1>4
<1>5. CASE \E d \in Deployments : Deployment(d) /\ ~Dispatch(d)
  BY <1>4, <1>5 DEF Deployment, CreateDeployment, LeaseExpires, TicketLapses, Promote, Only
<1>6. CASE (\E n \in Nodes : Lifecycle(n) \/ Install(n) \/ Connection(n)) \/ LoadManifest \/ LoadBinary \/ Publish
  BY <1>4, <1>6, NodesLeaveTickets
<1>7. CASE RestartControlPlane \/ UNCHANGED vars
  BY <1>4, <1>7 DEF RestartControlPlane, vars, tickets
<1>8. QED
  BY <1>2, <1>3, <1>5, <1>6, <1>7 DEF Next

LEMMA AskStep == TypeOK /\ TicketInv /\ TicketInv' /\ AskInv /\ [Next]_vars => AskInv'
<1> SUFFICES ASSUME TypeOK, TicketInv, TicketInv', AskInv, [Next]_vars PROVE AskInv'
  OBVIOUS
<1>1. ASSUME NEW c \in attempts', c.at \in Awaits
      PROVE  /\ c.at = "asking" => Ticketed(c)
             /\ Ticketed(c) => Valid(c.dep, c.token)' \/ Reason(c.dep, c.token)'
  <2>1. PICK a \in attempts :
           /\ a.dep = c.dep /\ a.token = c.token
           /\ \/ Issue(a) /\ c.at = "issued" /\ (Ticketed(c) => Valid(c.dep, c.token)')
              \/ /\ a.at \in Awaits /\ (Ticketed(c) <=> Ticketed(a))
                 /\ c.at = "asking" => a.at = "asking" \/ Ticketed(a)
    BY <1>1, CommandMoves
  <2>2. a \in AttemptType /\ a.dep \in Deployments /\ a.token \in 1..MaxTries
    BY DEF TypeOK, AttemptType
  <2>3. c.at = "asking" => Ticketed(c)
    BY <2>1 DEF AskInv
  <2>4. CASE a.at \in Awaits /\ Ticketed(a)
    <3>1. Valid(a.dep, a.token) \/ Reason(a.dep, a.token)
      BY <2>4 DEF AskInv
    <3>2. ASSUME NEW b \in attempts, NEW at \in {"granted", "failed"},
                 b.dep = a.dep, b.token = a.token, attempts' = With(b, at)
          PROVE  FALSE
      <4>1. b \in AttemptType
        BY DEF TypeOK
      <4>2. PICK e \in attempts' : e = [b EXCEPT !.at = at]
        BY <3>2 DEF With
      <4>3. e.dep = a.dep /\ e.token = a.token /\ e.at = at
        BY <3>2, <4>1, <4>2 DEF AttemptType
      <4>4. e = c
        BY <1>1, <2>1, <4>2, <4>3 DEF TicketInv
      <4>5. QED
        BY <1>1, <3>2, <4>3, <4>4 DEF Awaits
    <3>3. Valid(a.dep, a.token)' \/ Reason(a.dep, a.token)'
      <4>1. PICK d \in Deployments, k \in 1..MaxTries : d = a.dep /\ k = a.token
        BY <2>2
      <4>2. Valid(d, k) \/ Reason(d, k)
        BY <3>1, <4>1
      <4>3. Valid(d, k)' \/ Reason(d, k)'
        BY <3>2, <4>1, <4>2, ValidStep
      <4>4. QED
        BY <4>1, <4>3
    <3>4. QED
      BY <2>1, <2>3, <3>3
  <2>5. QED
    BY <2>1, <2>3, <2>4
<1>2. ASSUME NEW d \in Images, ticket'[d].usable PROVE ticket'[d].host = HostOf[d]
  <2>0. d \in Deployments /\ ticket[d] \in TicketType
    BY DEF Deployments, TypeOK
  <2>1. CASE ticket'[d] = ticket[d]
    BY <1>2, <2>1 DEF AskInv
  <2>2. CASE TicketLapses(d)
    <3>1. ticket' = [ticket EXCEPT ![d] = [ticket[d] EXCEPT !.usable = FALSE]]
      BY <2>2 DEF TicketLapses
    <3>2. QED
      BY <1>2, <2>0, <3>1 DEF TypeOK, TicketType
  <2>3. CASE RestartControlPlane
    BY <2>1, <2>3 DEF RestartControlPlane
  <2>4. ASSUME NEW a \in attempts, a.dep = d, Issue(a) PROVE ticket'[d].host = HostOf[d]
    <3>1. CASE ticket' = ticket
      BY <2>1, <3>1
    <3>2. CASE ticket' = [ticket EXCEPT ![d] = Reissued(d, a.token, HostOf[d])]
      BY <2>0, <3>2 DEF TypeOK, Reissued
    <3>3. QED
      BY <2>4, <3>1, <3>2 DEF Issue
  <2>5. ASSUME NEW a \in attempts, a.dep = d, Claim(a) PROVE ticket'[d].host = HostOf[d]
    <3>1. ticket' = ticket \/ ticket' = [ticket EXCEPT ![d] = [ticket[d] EXCEPT !.usable = FALSE]]
      BY <2>5 DEF Claim
    <3>2. QED
      BY <1>2, <2>0, <2>1, <3>1 DEF TypeOK, TicketType
  <2>6. QED
    BY <2>0, <2>1, <2>2, <2>3, <2>4, <2>5, TicketMoves
<1>3. QED
  BY <1>1, <1>2 DEF AskInv, Awaits

LEMMA ServeStep == TypeOK /\ AskInv /\ TicketsServe /\ [Next]_vars => TicketsServe'
<1> SUFFICES ASSUME TypeOK, AskInv, TicketsServe, [Next]_vars PROVE TicketsServe'
  OBVIOUS
<1>1. CASE UNCHANGED <<refused, pulled>>
  BY <1>1, ReasonsStay DEF TicketsServe, RefusedForAReason, PulledFromItsRegistry
<1>2. ASSUME NEW a \in attempts, Claim(a) PROVE TicketsServe'
  <2>0. a \in AttemptType /\ a.dep \in Deployments /\ a.token \in 1..MaxTries /\ a.at = "asking"
    BY <1>2 DEF TypeOK, AttemptType, Claim
  <2>1. Ticketed(a) /\ (Valid(a.dep, a.token) \/ Reason(a.dep, a.token))
    BY <2>0 DEF AskInv, Awaits
  <2>2. RefusedForAReason'
    <3>1. refused' = refused \/ (~Honoured(a) /\ refused' = refused \union {<<a.dep, a.token>>})
      BY <1>2 DEF Claim
    <3>2. ~Honoured(a) => Reason(a.dep, a.token)
      BY <2>1 DEF Valid, Honoured, SameRegistry
    <3>3. QED
      BY <3>1, <3>2, ReasonsStay DEF Reason, RefusedForAReason, TicketsServe
  <2>3. PulledFromItsRegistry'
    <3>1. \/ pulled' = pulled
          \/ a.dep \in Images /\ Honoured(a) /\ pulled' = pulled \union {<<a.dep, config>>}
      BY <1>2 DEF Claim
    <3>2. a.dep \in Images /\ Honoured(a) => config = HostOf[a.dep]
      BY DEF Honoured, SameRegistry, AskInv
    <3>3. QED
      BY <3>1, <3>2 DEF PulledFromItsRegistry, TicketsServe
  <2>4. QED
    BY <2>2, <2>3 DEF TicketsServe
<1>3. CASE \E d \in Deployments : Deployment(d)
  BY <1>1, <1>3 DEF Deployment, CreateDeployment, Dispatch, LeaseExpires, TicketLapses, Promote, Only, delivered
<1>4. CASE \E a \in attempts : Attempt(a) /\ ~Claim(a)
  BY <1>1, <1>4 DEF Attempt, Refuse, Issue, SendCommand, BeginAttempt, FinishAttempt, RecordBuilding,
       RecordOutcome, Only, delivered
<1>5. CASE \E n \in Nodes : Lifecycle(n) \/ Install(n) \/ Connection(n)
  BY <1>1, <1>5 DEF Lifecycle, Install, Connection, CreateNode, BootstrapLapses, Archive,
       CleanUp, StartInstall, AskRelease, TakeSum, TakeBinary, Prepare, SendExchange, Exchange, Enable, Poll,
       Interrupt, RestartAgent, Dial, CheckToken, Hello, Disconnect, OnlyHost, delivered
<1>6. CASE LoadManifest \/ LoadBinary \/ Publish \/ RestartControlPlane \/ UNCHANGED vars
  BY <1>1, <1>6 DEF LoadManifest, LoadBinary, Publish, RestartControlPlane, vars, delivered
<1>7. QED
  BY <1>2, <1>3, <1>4, <1>5, <1>6 DEF Next

\* A ticket is refused to an Agent only for a reason, and the registry password
\* it is given is that of its image's registry, whatever lapses, is replaced or is
\* configured between the issue and the claim (source-broker.ts, registry-pull-broker.ts).
THEOREM TicketsServeTheAgent == Spec => []TicketsServe
<1>1. Init => AskInv /\ TicketsServe
  <2> SUFFICES ASSUME Init PROVE AskInv /\ TicketsServe
    OBVIOUS
  <2>1. attempts = {} /\ refused = {} /\ pulled = {}
    BY DEF Init
  <2>2. \A d \in Deployments : ~ticket[d].usable
    BY DEF Init
  <2>3. QED
    BY <2>1, <2>2 DEF AskInv, TicketsServe, RefusedForAReason, PulledFromItsRegistry, Deployments
<1>2. OneShotInv => TypeOK /\ TicketInv
  BY DEF OneShotInv
<1>3. QED
  BY <1>1, <1>2, OneShotInvariance, AskStep, ServeStep, PTL DEF Spec

-----------------------------------------------------------------------------
(* RuntimeHealth *)

Tracker == [failures : 0..3, wait : 0..Cooldown]
LoopType ==
    [pc : {"off", "idle", "probe", "lock", "restart", "report"}, live : BOOLEAN,
     tracker : [Replaceable -> Tracker], active : SUBSET Replaceable, todo : SUBSET Replaceable,
     due : Replaceable \union {None}, age : 0..Cooldown, restarted : SUBSET Replaceable]
HealthRow == [state : RH!States \union {"none"}, at : 0..MaxSamples, restarts : 0..MaxSamples]

\* TypeOK with these types: no restart was early, none hit a backend that was replaced.
HealthTypes ==
    /\ routed \subseteq Replaceable /\ retired \subseteq Replaceable \ routed
    /\ answering \subseteq routed
    /\ mutex \in Connections \union {"free", "deployment"}
    /\ saved \in [Replaceable -> Tracker]
    /\ loop \in [Connections -> LoopType]
    /\ current \in Connections \union {None}
    /\ inbox \in [Connections -> Seq(RH!Samples)]
    /\ recording \in [Connections -> RH!Samples \union {None}]
    /\ ready \subseteq Replaceable
    /\ health \in [Replaceable -> HealthRow]
    /\ clock \in 0..MaxSamples /\ troubles \in 0..MaxTroubles
    /\ overlapped \in BOOLEAN /\ since \in [Replaceable -> 0..(2 * Cooldown)]
    /\ early = {} /\ struck = {}

\* Restarts are counted once for each newer report.
CountInv == \A d \in Replaceable : health[d].restarts <= health[d].at

\* As long as collections did not overlap, one is under way at most.  A restart
\* that is accounted is as long ago as its cooldown allows another: seen from the
\* present in state.json, from its beginning in a collection.
Collecting(c) == loop[c].pc \in {"probe", "lock", "restart"}
OneCollects == \A b \in Connections, c \in Connections : Collecting(b) /\ Collecting(c) => b = c
Unrouted(d) == d \notin routed \union retired
UnroutedInv == \A d \in Replaceable : Unrouted(d) => since[d] = 2 * Cooldown
SavedInv == \A d \in Replaceable : d \notin retired => since[d] + saved[d].wait >= Cooldown
LoopInv(l) ==
    /\ l.active \subseteq routed \union retired /\ l.todo \subseteq l.active
    /\ \A d \in l.active : since[d] + l.tracker[d].wait >= l.age + Cooldown
    /\ \A d \in Replaceable : d \notin l.active \union retired => since[d] = 2 * Cooldown
SpacingInv ==
    /\ OneCollects /\ UnroutedInv /\ SavedInv
    /\ \A c \in Connections : Collecting(c) => LoopInv(loop[c])

HealthInv ==
    /\ HealthTypes /\ CountInv
    /\ ~overlapped => SpacingInv

-----------------------------------------------------------------------------
(* Operators of RuntimeHealth *)

LEMMA HealthBounds ==
    /\ None \notin Replaceable /\ d1 \in Replaceable
    /\ Cooldown \in Nat /\ Cooldown # 0 /\ MaxSamples \in Nat /\ MaxTroubles \in Nat
    /\ 0 \in 0..Cooldown /\ Cooldown \in 0..Cooldown
BY HealthConstants DEF RH!HealthAssumption

LEMMA HealthTypesSuffice == HealthTypes => RH!TypeOK
BY DEF RH!TypeOK, HealthTypes, LoopType, Tracker, HealthRow, RH!Trackers, RH!Threshold

LEMMA LeastIs ==
    ASSUME NEW m \in Nat, NEW n \in Nat
    PROVE  /\ RH!Least(m, n) \in Nat /\ RH!Less(m, n) \in Nat
           /\ RH!Least(m, n) = IF m < n THEN m ELSE n
           /\ RH!Less(m, n) = IF m > n THEN m - n ELSE 0
BY DEF RH!Least, RH!Less

\* A probe changes the failures of a tracker, and leaves its cooldown alone.
LEMMA AdvancedIs ==
    ASSUME NEW t \in Tracker, NEW healthy \in BOOLEAN
    PROVE  /\ RH!Advanced(t, healthy) \in Tracker
           /\ RH!Advanced(t, healthy).wait = t.wait
           /\ [RH!Advanced(t, healthy) EXCEPT !.wait = Cooldown] \in Tracker
<1> DEFINE n == IF healthy THEN 0 ELSE RH!Least(t.failures + 1, RH!Threshold)
<1>1. t.failures \in 0..3 /\ t.wait \in 0..Cooldown /\ t = [failures |-> t.failures, wait |-> t.wait]
  BY DEF Tracker
<1>2. t.failures + 1 \in Nat /\ 3 \in Nat
  BY <1>1
<1>3. RH!Least(t.failures + 1, 3) = IF t.failures + 1 < 3 THEN t.failures + 1 ELSE 3
  BY <1>2, LeastIs
<1>4. n \in 0..3
  BY <1>1, <1>3 DEF RH!Threshold
<1>5. RH!Advanced(t, healthy) = [t EXCEPT !.failures = n]
  BY DEF RH!Advanced
<1> HIDE DEF n
<1>6. QED
  BY <1>1, <1>4, <1>5, HealthBounds DEF Tracker

\* What is written keeps its failures, and of its cooldown what is left.
LEMMA WrittenIs ==
    ASSUME NEW t \in [Replaceable -> Tracker], NEW age \in 0..Cooldown
    PROVE  /\ RH!Written(t, age) \in [Replaceable -> Tracker]
           /\ \A d \in Replaceable :
                 RH!Written(t, age)[d].wait = IF t[d].wait > age THEN t[d].wait - age ELSE 0
<1>1. \A d \in Replaceable : t[d].wait \in 0..Cooldown /\ t[d].failures \in 0..3
  BY DEF Tracker
<1>2. ASSUME NEW d \in Replaceable
      PROVE  /\ RH!Written(t, age)[d] = [t[d] EXCEPT !.wait = RH!Less(@, age)]
             /\ RH!Less(t[d].wait, age) \in 0..Cooldown
             /\ RH!Less(t[d].wait, age) = IF t[d].wait > age THEN t[d].wait - age ELSE 0
  BY <1>1, HealthBounds DEF RH!Written, RH!Less
<1>3. \A d \in Replaceable :
          /\ RH!Written(t, age)[d] \in Tracker
          /\ RH!Written(t, age)[d].wait = IF t[d].wait > age THEN t[d].wait - age ELSE 0
  BY <1>2 DEF Tracker
<1>4. QED
  BY <1>3 DEF RH!Written

LEMMA TrackerOf ==
    /\ RH!NoTracker \in Tracker /\ RH!NoTracker.wait = 0
    /\ \A l \in LoopType : \A d \in Replaceable : l.tracker[d] \in Tracker
BY HealthBounds DEF RH!NoTracker, Tracker, LoopType

LEMMA OffIs ==
    /\ RH!Off \in LoopType /\ RH!Idle \in LoopType
    /\ RH!Off.pc = "off" /\ RH!Idle.pc = "idle"
    /\ \A b \in BOOLEAN : [RH!Idle EXCEPT !.live = b] \in LoopType /\ [RH!Idle EXCEPT !.live = b].pc = "idle"
BY HealthBounds, TrackerOf DEF RH!Off, RH!Idle, LoopType


-----------------------------------------------------------------------------
(* Steps of an Agent *)

\* What a step does to the loop of one connection, when it begins no collection
\* and accounts no restart.
LEMMA LoopMoves ==
    ASSUME HealthTypes, SpacingInv, NEW c \in Connections, NEW l \in LoopType,
           loop' = [loop EXCEPT ![c] = l],
           l.pc \in {"probe", "lock", "restart"} =>
              /\ Collecting(c) /\ l.active = loop[c].active /\ l.age = loop[c].age
              /\ l.todo \subseteq loop[c].todo
              /\ \A d \in Replaceable : l.tracker[d].wait = loop[c].tracker[d].wait,
           UNCHANGED <<routed, retired, since>>
    PROVE  /\ OneCollects' /\ UnroutedInv'
           /\ \A b \in Connections : Collecting(b)' => LoopInv(loop[b])'
<1>1. \A b \in Connections : loop'[b] = IF b = c THEN l ELSE loop[b]
  BY DEF HealthTypes
<1>2. \A b \in Connections : Collecting(b)' => Collecting(b)
  BY <1>1 DEF Collecting
<1>3. OneCollects'
  BY <1>2 DEF OneCollects, SpacingInv
<1>4. UnroutedInv'
  BY DEF SpacingInv, UnroutedInv, Unrouted
<1>5. ASSUME NEW b \in Connections, Collecting(b)' PROVE LoopInv(loop[b])'
  <2>1. LoopInv(loop[b])
    BY <1>2, <1>5 DEF SpacingInv
  <2>2. CASE b = c
    <3>1. l.active = loop[c].active /\ l.age = loop[c].age /\ l.todo \subseteq loop[c].todo
      BY <1>1, <1>5, <2>2 DEF Collecting
    <3>2. \A d \in Replaceable : l.tracker[d].wait = loop[c].tracker[d].wait
      BY <1>1, <1>5, <2>2 DEF Collecting
    <3>3. loop[c].active \subseteq Replaceable
      BY DEF HealthTypes, LoopType
    <3>4. loop'[b] = l
      BY <1>1, <2>2
    <3>5. QED
      BY <2>1, <2>2, <3>1, <3>2, <3>3, <3>4 DEF LoopInv
  <2>3. CASE b # c
    BY <1>1, <2>1, <2>3 DEF LoopInv
  <2>4. QED
    BY <2>2, <2>3
<1>6. QED
  BY <1>3, <1>4, <1>5

\* A loop with another step, or one that is cancelled, collects the same.
SameCollection(k, l) ==
    k.active = l.active /\ k.age = l.age /\ k.todo = l.todo /\ k.tracker = l.tracker

LEMMA LoopFields ==
    ASSUME NEW l \in LoopType
    PROVE  /\ l.active \subseteq Replaceable /\ l.todo \subseteq Replaceable
           /\ l.due \in Replaceable \union {None} /\ l.live \in BOOLEAN /\ l.age \in 0..Cooldown
           /\ l.tracker \in [Replaceable -> Tracker]
BY DEF LoopType

LEMMA LoopWrites ==
    ASSUME NEW l \in LoopType
    PROVE  /\ [l EXCEPT !.live = FALSE] \in LoopType
           /\ SameCollection([l EXCEPT !.live = FALSE], l) /\ [l EXCEPT !.live = FALSE].pc = l.pc
           /\ \A pc \in {"restart", "report"} :
                 /\ [l EXCEPT !.pc = pc] \in LoopType
                 /\ SameCollection([l EXCEPT !.pc = pc], l) /\ [l EXCEPT !.pc = pc].pc = pc
           /\ [l EXCEPT !.pc = "probe", !.due = None] \in LoopType
           /\ SameCollection([l EXCEPT !.pc = "probe", !.due = None], l)
<1>1. [l EXCEPT !.live = FALSE] \in LoopType
      /\ SameCollection([l EXCEPT !.live = FALSE], l) /\ [l EXCEPT !.live = FALSE].pc = l.pc
  BY DEF LoopType, SameCollection
<1>2. ASSUME NEW pc \in {"restart", "report"}
      PROVE  /\ [l EXCEPT !.pc = pc] \in LoopType
             /\ SameCollection([l EXCEPT !.pc = pc], l) /\ [l EXCEPT !.pc = pc].pc = pc
  BY DEF LoopType, SameCollection
<1>3. [l EXCEPT !.pc = "probe", !.due = None] \in LoopType
      /\ SameCollection([l EXCEPT !.pc = "probe", !.due = None], l)
  BY DEF LoopType, SameCollection
<1>4. QED
  BY <1>1, <1>2, <1>3

LEMMA LoopKeeps ==
    ASSUME HealthInv, HealthTypes', NEW c \in Connections, NEW l \in LoopType,
           loop' = [loop EXCEPT ![c] = l],
           l.pc \in {"probe", "lock", "restart"} =>
              /\ Collecting(c) /\ l.active = loop[c].active /\ l.age = loop[c].age
              /\ l.todo \subseteq loop[c].todo
              /\ \A d \in Replaceable : l.tracker[d].wait = loop[c].tracker[d].wait,
           UNCHANGED <<routed, retired, since, saved, overlapped, health>>
    PROVE  HealthInv'
<1>1. CountInv'
  BY DEF HealthInv, CountInv
<1>2. ASSUME ~overlapped' PROVE SpacingInv'
  <2>1. HealthTypes /\ SpacingInv
    BY <1>2 DEF HealthInv
  <2>2. SavedInv'
    BY <2>1 DEF SpacingInv, SavedInv
  <2>3. QED
    BY <2>1, <2>2, LoopMoves DEF SpacingInv
<1>3. QED
  BY <1>1, <1>2 DEF HealthInv

\* What is not about loops leaves restarts spaced.
LEMMA OthersKeep ==
    ASSUME HealthInv, HealthTypes', CountInv', UNCHANGED <<routed, retired, since, saved, overlapped, loop>>
    PROVE  HealthInv'
<1>1. ASSUME ~overlapped' PROVE SpacingInv'
  <2>1. SpacingInv
    BY <1>1 DEF HealthInv
  <2>2. OneCollects' /\ UnroutedInv' /\ SavedInv'
    BY <2>1 DEF SpacingInv, OneCollects, Collecting, UnroutedInv, Unrouted, SavedInv
  <2>3. \A c \in Connections : Collecting(c)' => LoopInv(loop[c])'
    BY <2>1 DEF SpacingInv, Collecting, LoopInv
  <2>4. QED
    BY <2>2, <2>3 DEF SpacingInv
<1>2. QED
  BY <1>1 DEF HealthInv

LEMMA ConnectKeeps ==
    ASSUME HealthInv, NEW c \in Connections, RH!Connect(c)
    PROVE  HealthInv'
<1>1. /\ loop' = [loop EXCEPT ![c] = RH!Idle] /\ current' = c /\ inbox' = [inbox EXCEPT ![c] = <<>>]
      /\ UNCHANGED <<routed, retired, answering, mutex, saved, recording, ready, health, clock, troubles,
                     overlapped, since, early, struck>>
  BY DEF RH!Connect, RH!history, RH!bounds
<1>2. <<>> \in Seq(RH!Samples)
  OBVIOUS
<1>3. HealthTypes'
  BY <1>1, <1>2, OffIs DEF HealthInv, HealthTypes
<1>4. QED
  BY <1>1, <1>3, OffIs, LoopKeeps

LEMMA DisconnectKeeps ==
    ASSUME HealthInv, NEW c \in Connections, RH!Disconnect(c)
    PROVE  HealthInv'
<1> DEFINE l == [loop[c] EXCEPT !.live = FALSE]
<1>1. /\ loop' = [loop EXCEPT ![c] = l] /\ troubles' = troubles + 1 /\ troubles < MaxTroubles
      /\ UNCHANGED <<routed, retired, answering, mutex, saved, current, inbox, recording, ready, health, clock,
                     overlapped, since, early, struck>>
  BY DEF RH!Disconnect, RH!api, RH!history
<1>2. loop[c] \in LoopType /\ HealthTypes
  BY DEF HealthInv, HealthTypes
<1>3. l \in LoopType /\ SameCollection(l, loop[c]) /\ l.pc = loop[c].pc
  BY <1>2, LoopWrites
<1> HIDE DEF l
<1>4. troubles' \in 0..MaxTroubles
  BY <1>1, <1>2, HealthBounds DEF HealthTypes
<1>5. HealthTypes'
  BY <1>1, <1>2, <1>3, <1>4 DEF HealthTypes
<1>6. QED
  BY <1>1, <1>3, <1>5, LoopKeeps DEF Collecting, SameCollection

LEMMA EndLoopKeeps ==
    ASSUME HealthInv, NEW c \in Connections, RH!EndLoop(c)
    PROVE  HealthInv'
<1>1. /\ loop' = [loop EXCEPT ![c] = RH!Off]
      /\ UNCHANGED <<routed, retired, answering, mutex, saved, current, inbox, recording, ready, health, clock,
                     troubles, overlapped, since, early, struck>>
  BY DEF RH!EndLoop, RH!api, RH!history, RH!bounds
<1>2. HealthTypes'
  BY <1>1, OffIs DEF HealthInv, HealthTypes
<1>3. QED
  BY <1>1, <1>2, OffIs, LoopKeeps

LEMMA LockKeeps ==
    ASSUME HealthInv, NEW c \in Connections, RH!Lock(c)
    PROVE  HealthInv'
<1> DEFINE l == [loop[c] EXCEPT !.pc = "restart"]
<1>1. /\ loop' = [loop EXCEPT ![c] = l] /\ loop[c].pc = "lock" /\ mutex' = c
      /\ UNCHANGED <<routed, retired, answering, saved, current, inbox, recording, ready, health, clock,
                     troubles, overlapped, since, early, struck>>
  BY DEF RH!Lock, RH!api, RH!history, RH!bounds
<1>2. loop[c] \in LoopType /\ HealthTypes
  BY DEF HealthInv, HealthTypes
<1>3. l \in LoopType /\ SameCollection(l, loop[c])
  BY <1>2, LoopWrites
<1> HIDE DEF l
<1>4. HealthTypes'
  BY <1>1, <1>2, <1>3 DEF HealthTypes
<1>5. QED
  BY <1>1, <1>3, <1>4, LoopKeeps DEF Collecting, SameCollection

\* The route is looked at again under runtimeMu.
LEMMA RestartKeeps ==
    ASSUME HealthInv, NEW c \in Connections, RH!RestartRuntime(c)
    PROVE  HealthInv'
<1> DEFINE l == [loop[c] EXCEPT !.pc = "probe", !.due = None]
<1>1. /\ loop' = [loop EXCEPT ![c] = l] /\ loop[c].pc = "restart" /\ mutex' = "free"
      /\ UNCHANGED <<routed, retired, saved, current, inbox, recording, ready, health, clock,
                     troubles, overlapped, since, early>>
  BY DEF RH!RestartRuntime, RH!api, RH!bounds
<1>2. loop[c] \in LoopType /\ HealthTypes
  BY DEF HealthInv, HealthTypes
<1>3. l \in LoopType /\ SameCollection(l, loop[c])
  BY <1>2, LoopWrites
<1>4. answering' \subseteq routed /\ struck' = {}
  BY <1>2 DEF RH!RestartRuntime, RH!StillRouted, HealthTypes
<1> HIDE DEF l
<1>5. HealthTypes'
  BY <1>1, <1>2, <1>3, <1>4 DEF HealthTypes
<1>6. QED
  BY <1>1, <1>3, <1>5, LoopKeeps DEF Collecting, SameCollection

LEMMA AgentCrashKeeps ==
    ASSUME HealthInv, RH!AgentCrash
    PROVE  HealthInv'
<1>1. /\ loop' = [c \in Connections |-> RH!Off] /\ mutex' = "free"
      /\ troubles' = troubles + 1 /\ troubles < MaxTroubles
      /\ UNCHANGED <<routed, retired, answering, saved, current, inbox, recording, ready, health, clock,
                     overlapped, since, early, struck>>
  BY DEF RH!AgentCrash, RH!api, RH!history
<1>2. troubles' \in 0..MaxTroubles
  BY <1>1, HealthBounds DEF HealthInv, HealthTypes
<1>3. HealthTypes'
  BY <1>1, <1>2, OffIs DEF HealthInv, HealthTypes
<1>4. \A c \in Connections : ~Collecting(c)'
  BY <1>1, OffIs DEF Collecting
<1>5. CountInv'
  BY <1>1 DEF HealthInv, CountInv
<1>6. ASSUME ~overlapped' PROVE SpacingInv'
  <2>1. SpacingInv
    BY <1>1, <1>6 DEF HealthInv
  <2>2. UnroutedInv' /\ SavedInv'
    BY <1>1, <2>1 DEF SpacingInv, UnroutedInv, Unrouted, SavedInv
  <2>3. QED
    BY <1>4, <2>2 DEF SpacingInv, OneCollects
<1>7. QED
  BY <1>3, <1>5, <1>6 DEF HealthInv

\* state.json and routes.json are read: no restart is nearer than they say.
LEMMA CollectKeeps ==
    ASSUME HealthInv, NEW c \in Connections, RH!Collect(c)
    PROVE  HealthInv'
<1> DEFINE l == [RH!Idle EXCEPT !.pc = "probe", !.tracker = saved, !.active = routed, !.todo = routed]
<1>1. /\ loop' = [loop EXCEPT ![c] = l]
      /\ overlapped' = (overlapped \/ \E b \in Connections : Collecting(b))
      /\ UNCHANGED <<routed, retired, answering, mutex, saved, current, inbox, recording, ready, health, clock,
                     troubles, since, early, struck>>
  BY DEF RH!Collect, RH!api, RH!bounds, Collecting
<1>2. HealthTypes
  BY DEF HealthInv
<1>3. l \in LoopType /\ l.pc = "probe" /\ l.tracker = saved /\ l.active = routed /\ l.todo = routed /\ l.age = 0
  BY <1>2, HealthBounds DEF HealthTypes, RH!Idle, RH!Off, LoopType
<1> HIDE DEF l
<1>4. HealthTypes'
  BY <1>1, <1>2, <1>3 DEF HealthTypes
<1>5. CountInv'
  BY <1>1 DEF HealthInv, CountInv
<1>6. ASSUME ~overlapped' PROVE SpacingInv'
  <2>1. SpacingInv /\ \A b \in Connections : ~Collecting(b)
    BY <1>1, <1>2, <1>6 DEF HealthInv, HealthTypes
  <2>2. \A b \in Connections : loop'[b] = IF b = c THEN l ELSE loop[b]
    BY <1>1, <1>2 DEF HealthTypes
  <2>3. OneCollects'
    BY <2>1, <2>2 DEF OneCollects, Collecting
  <2>4. UnroutedInv' /\ SavedInv'
    BY <1>1, <2>1 DEF SpacingInv, UnroutedInv, Unrouted, SavedInv
  <2>5. ASSUME NEW b \in Connections, Collecting(b)' PROVE LoopInv(loop[b])'
    <3>1. loop'[b] = l
      BY <2>1, <2>2, <2>5 DEF Collecting
    <3>2. \A d \in routed : d \in Replaceable /\ d \notin retired
      BY <1>2 DEF HealthTypes
    <3>3. \A d \in routed : since[d] + saved[d].wait >= 0 + Cooldown
      BY <2>1, <3>2, HealthBounds DEF SpacingInv, SavedInv
    <3>4. \A d \in Replaceable : d \notin routed \union retired => since[d] = 2 * Cooldown
      BY <2>1 DEF SpacingInv, UnroutedInv, Unrouted
    <3>5. QED
      BY <1>1, <1>3, <3>1, <3>3, <3>4 DEF LoopInv
  <2>6. QED
    BY <2>3, <2>4, <2>5 DEF SpacingInv
<1>7. QED
  BY <1>4, <1>5, <1>6 DEF HealthInv

LEMMA GivesUpKeeps ==
    ASSUME HealthInv, NEW c \in Connections, RH!GivesUp(c),
           UNCHANGED <<routed, retired, answering, mutex, current, inbox, recording, ready, health, clock,
                       troubles, overlapped, since, early, struck>>
    PROVE  HealthInv'
<1> DEFINE l == [RH!Idle EXCEPT !.live = loop[c].live]
<1>1. loop' = [loop EXCEPT ![c] = l] /\ saved' = saved
  BY DEF RH!GivesUp
<1>2. HealthTypes /\ loop[c].live \in BOOLEAN
  BY LoopFields DEF HealthInv, HealthTypes
<1>3. l \in LoopType /\ l.pc = "idle"
  BY <1>2, OffIs
<1> HIDE DEF l
<1>4. HealthTypes'
  BY <1>1, <1>2, <1>3 DEF HealthTypes
<1>5. QED
  BY <1>1, <1>3, <1>4, LoopKeeps

\* A report is sent, or lost.
LEMMA ReportKeeps ==
    ASSUME HealthInv, NEW c \in Connections, RH!Report(c)
    PROVE  HealthInv'
<1> DEFINE l == [RH!Idle EXCEPT !.live = loop[c].live]
<1>1. /\ loop' = [loop EXCEPT ![c] = l]
      /\ UNCHANGED <<routed, retired, answering, mutex, saved, current, recording, ready, health,
                     troubles, overlapped, since, early, struck>>
  BY DEF RH!Report, RH!history
<1>2. HealthTypes /\ loop[c] \in LoopType /\ loop[c].live \in BOOLEAN
  BY LoopFields DEF HealthInv, HealthTypes
<1>3. l \in LoopType /\ l.pc = "idle"
  BY <1>2, OffIs
<1> HIDE DEF l
<1>4. clock' \in 0..MaxSamples /\ inbox' \in [Connections -> Seq(RH!Samples)]
  <2>1. CASE UNCHANGED <<inbox, clock>>
    BY <1>2, <2>1 DEF HealthTypes
  <2>2. ASSUME clock < MaxSamples, clock' = clock + 1, NEW d \in loop[c].active,
               inbox' = [inbox EXCEPT ![c] = Append(@, RH!Sample(loop[c], d, clock'))]
        PROVE  clock' \in 0..MaxSamples /\ inbox' \in [Connections -> Seq(RH!Samples)]
    <3>1. clock' \in 1..MaxSamples
      BY <1>2, <2>2, HealthBounds DEF HealthTypes
    <3>2. RH!StateOf(loop[c].tracker[d]) \in RH!States /\ d \in Replaceable
      BY <1>2, <2>2, LoopFields DEF RH!StateOf, RH!States
    <3>3. RH!Sample(loop[c], d, clock') \in RH!Samples
      BY <3>1, <3>2 DEF RH!Sample, RH!Samples
    <3>4. inbox[c] \in Seq(RH!Samples)
      BY <1>2 DEF HealthTypes
    <3>5. Append(inbox[c], RH!Sample(loop[c], d, clock')) \in Seq(RH!Samples)
      BY <3>3, <3>4
    <3>6. QED
      BY <1>2, <2>2, <3>1, <3>5 DEF HealthTypes
  <2>3. QED
    BY <2>1, <2>2 DEF RH!Report
<1>5. HealthTypes'
  BY <1>1, <1>2, <1>3, <1>4 DEF HealthTypes
<1>6. QED
  BY <1>1, <1>3, <1>5, LoopKeeps

LEMMA FinishKeeps ==
    ASSUME HealthInv, NEW c \in Connections, RH!Finish(c)
    PROVE  HealthInv'
<1> DEFINE kept == [d \in Replaceable |-> IF d \in loop[c].active THEN loop[c].tracker[d] ELSE RH!NoTracker]
           l == [loop[c] EXCEPT !.pc = "report"]
<1>1. /\ loop[c].pc = "probe"
      /\ UNCHANGED <<routed, retired, answering, mutex, current, inbox, recording, ready, health, clock,
                     troubles, overlapped, since, early, struck>>
      /\ RH!GivesUp(c) \/ (saved' = RH!Written(kept, loop[c].age) /\ loop' = [loop EXCEPT ![c] = l])
  BY DEF RH!Finish, RH!api, RH!bounds, RH!history
<1>2. HealthTypes /\ loop[c] \in LoopType
  BY DEF HealthInv, HealthTypes
<1>3. kept \in [Replaceable -> Tracker] /\ loop[c].age \in 0..Cooldown
  BY <1>2, LoopFields, TrackerOf
<1>4. l \in LoopType /\ l.pc = "report"
  BY <1>2, LoopWrites
<1>5. /\ \A d \in loop[c].active : kept[d] = loop[c].tracker[d]
      /\ \A d \in Replaceable \ loop[c].active : kept[d].wait = 0
  BY <1>2, LoopFields, TrackerOf
<1> HIDE DEF kept, l
<1>6. CASE RH!GivesUp(c)
  BY <1>1, <1>6, GivesUpKeeps
<1>7. CASE saved' = RH!Written(kept, loop[c].age) /\ loop' = [loop EXCEPT ![c] = l]
  <2>1. saved' \in [Replaceable -> Tracker]
    BY <1>3, <1>7, WrittenIs
  <2>2. HealthTypes'
    BY <1>1, <1>2, <1>4, <1>7, <2>1 DEF HealthTypes
  <2>3. CountInv'
    BY <1>1 DEF HealthInv, CountInv
  <2>4. ASSUME ~overlapped' PROVE SpacingInv'
    <3>1. SpacingInv /\ LoopInv(loop[c])
      BY <1>1, <2>4 DEF HealthInv, SpacingInv, Collecting
    <3>2. ASSUME NEW d \in Replaceable, d \notin retired' PROVE since'[d] + saved'[d].wait >= Cooldown
      <4> DEFINE w == kept[d].wait
      <4>1. saved'[d].wait = IF w > loop[c].age THEN w - loop[c].age ELSE 0
        BY <1>3, <1>7, WrittenIs
      <4>2. w \in 0..Cooldown /\ since[d] \in 0..(2 * Cooldown)
        BY <1>2, <1>3 DEF HealthTypes, Tracker
      <4>3. since[d] + w >= loop[c].age + Cooldown
        <5>1. CASE d \in loop[c].active
          BY <1>5, <3>1, <5>1 DEF LoopInv
        <5>2. CASE d \notin loop[c].active
          BY <1>1, <1>3, <1>5, <3>1, <3>2, <5>2, HealthBounds DEF LoopInv
        <5>3. QED
          BY <5>1, <5>2
      <4> HIDE DEF w
      <4>4. QED
        BY <1>1, <1>3, <4>1, <4>2, <4>3, HealthBounds
    <3>3. SavedInv'
      BY <3>2 DEF SavedInv
    <3>4. QED
      BY <1>1, <1>2, <1>4, <1>7, <3>1, <3>3, LoopMoves DEF SpacingInv
  <2>5. QED
    BY <2>2, <2>3, <2>4 DEF HealthInv
<1>8. QED
  BY <1>1, <1>6, <1>7

\* A restart is accounted when the cooldown of the last one is over.
LEMMA ChargeKeeps ==
    ASSUME HealthInv, NEW c \in Connections, loop[c].pc = "probe", NEW d \in loop[c].todo,
           NEW charged \in [Replaceable -> Tracker], NEW l \in LoopType,
           loop[c].tracker[d].wait = 0,
           charged[d].wait = Cooldown,
           \A e \in Replaceable \ {d} : charged[e] = loop[c].tracker[e],
           l.pc = "lock", l.tracker = charged, l.age = loop[c].age,
           l.active = loop[c].active, l.todo \subseteq loop[c].todo,
           saved' = RH!Written(charged, loop[c].age), loop' = [loop EXCEPT ![c] = l],
           since' = [since EXCEPT ![d] = loop[c].age],
           early' = IF since[d] >= loop[c].age + Cooldown \/ overlapped THEN early ELSE early \union {d},
           UNCHANGED <<routed, retired, answering, mutex, current, inbox, recording, ready, health, clock,
                       troubles, overlapped, struck>>
    PROVE  HealthInv'
<1>1. HealthTypes /\ loop[c] \in LoopType /\ d \in Replaceable /\ loop[c].age \in 0..Cooldown
  BY LoopFields DEF HealthInv, HealthTypes
<1>2. ~overlapped => SpacingInv /\ LoopInv(loop[c])
  BY DEF HealthInv, SpacingInv, Collecting
<1>3. early' = {}
  <2>1. ASSUME ~overlapped PROVE since[d] >= loop[c].age + Cooldown
    <3>1. since[d] + loop[c].tracker[d].wait >= loop[c].age + Cooldown
      BY <1>2, <2>1 DEF LoopInv
    <3>2. since[d] \in 0..(2 * Cooldown)
      BY <1>1 DEF HealthTypes
    <3>3. QED
      BY <3>1, <3>2
  <2>2. QED
    BY <1>1, <2>1 DEF HealthTypes
<1>4. saved' \in [Replaceable -> Tracker]
  BY <1>1, WrittenIs
<1>5. since' \in [Replaceable -> 0..(2 * Cooldown)]
  BY <1>1, HealthBounds DEF HealthTypes
<1>6. HealthTypes'
  BY <1>1, <1>3, <1>4, <1>5 DEF HealthTypes
<1>7. CountInv'
  BY DEF HealthInv, CountInv
<1>8. ASSUME ~overlapped' PROVE SpacingInv'
  <2>1. SpacingInv /\ LoopInv(loop[c])
    BY <1>2, <1>8
  <2>2. \A b \in Connections : loop'[b] = IF b = c THEN l ELSE loop[b]
    BY <1>1 DEF HealthTypes
  <2>3. \A b \in Connections : Collecting(b)' => b = c
    BY <2>1, <2>2 DEF SpacingInv, OneCollects, Collecting
  <2>4. OneCollects'
    BY <2>3 DEF OneCollects
  <2>5. d \in loop[c].active /\ d \in routed \union retired
    BY <2>1 DEF LoopInv
  <2>6. UnroutedInv'
    BY <1>1, <2>1, <2>5 DEF SpacingInv, UnroutedInv, Unrouted, HealthTypes
  <2>7. ASSUME NEW e \in Replaceable
        PROVE  since'[e] = IF e = d THEN loop[c].age ELSE since[e]
    BY <1>1 DEF HealthTypes
  <2>8. ASSUME NEW e \in loop[c].active PROVE since'[e] + l.tracker[e].wait >= l.age + Cooldown
    <3>1. e \in Replaceable
      BY <1>1, <2>8, LoopFields
    <3>2. CASE e = d
      BY <1>1, <2>7, <3>1, <3>2, HealthBounds
    <3>3. CASE e # d
      BY <2>1, <2>7, <3>1, <3>3 DEF LoopInv
    <3>4. QED
      BY <3>2, <3>3
  <2>9. LoopInv(l)'
    BY <2>1, <2>5, <2>7, <2>8 DEF LoopInv
  <2>10. ASSUME NEW e \in Replaceable, e \notin retired' PROVE since'[e] + saved'[e].wait >= Cooldown
    <3> DEFINE w == charged[e].wait
    <3>1. saved'[e].wait = IF w > loop[c].age THEN w - loop[c].age ELSE 0
      BY <1>1, WrittenIs
    <3>2. w \in 0..Cooldown /\ since'[e] \in 0..(2 * Cooldown)
      BY <1>5 DEF Tracker
    <3>3. since'[e] + w >= loop[c].age + Cooldown
      <4>1. CASE e \in loop[c].active
        BY <2>8, <4>1
      <4>2. CASE e \notin loop[c].active
        <5>1. since'[e] = 2 * Cooldown
          BY <2>1, <2>5, <2>7, <2>10, <4>2 DEF LoopInv
        <5>2. QED
          BY <1>1, <3>2, <5>1, HealthBounds
      <4>3. QED
        BY <4>1, <4>2
    <3> HIDE DEF w
    <3>4. QED
      BY <1>1, <3>1, <3>2, <3>3, HealthBounds
  <2>11. SavedInv'
    BY <2>10 DEF SavedInv
  <2>12. \A b \in Connections : Collecting(b)' => LoopInv(loop[b])'
    BY <2>2, <2>3, <2>9 DEF LoopInv
  <2>13. QED
    BY <2>4, <2>6, <2>11, <2>12 DEF SpacingInv
<1>9. QED
  BY <1>6, <1>7, <1>8 DEF HealthInv

LEMMA ProbeKeeps ==
    ASSUME HealthInv, NEW c \in Connections, RH!Probe(c)
    PROVE  HealthInv'
<1>1. HealthTypes /\ loop[c] \in LoopType
  BY DEF HealthInv, HealthTypes
<1>2. loop[c].pc = "probe" /\ loop[c].todo \subseteq Replaceable
      /\ loop[c].tracker \in [Replaceable -> Tracker] /\ loop[c].live \in BOOLEAN
      /\ UNCHANGED <<routed, retired, answering, mutex, current, inbox, recording, ready, health, clock,
                     troubles, overlapped, struck>>
  BY <1>1, LoopFields DEF RH!Probe, RH!api, RH!bounds
<1>3. PICK d \in loop[c].todo :
         LET next == RH!Advanced(loop[c].tracker[d], loop[c].live /\ d \in answering)
             charged == [loop[c].tracker EXCEPT ![d] = [next EXCEPT !.wait = Cooldown]]
             left == loop[c].todo \ {d}
         IN  IF RH!ShouldRestart(next)
             THEN \/ /\ saved' = RH!Written(charged, loop[c].age)
                     /\ loop' = [loop EXCEPT ![c].pc = "lock", ![c].due = d, ![c].todo = left,
                                             ![c].tracker = charged, ![c].restarted = @ \union {d}]
                     /\ since' = [since EXCEPT ![d] = loop[c].age]
                     /\ early' = IF since[d] >= loop[c].age + Cooldown \/ overlapped THEN early
                                 ELSE early \union {d}
                  \/ RH!GivesUp(c) /\ UNCHANGED <<since, early>>
             ELSE /\ loop' = [loop EXCEPT ![c].tracker[d] = next, ![c].todo = left]
                  /\ UNCHANGED <<saved, since, early>>
  BY DEF RH!Probe
<1> DEFINE next == RH!Advanced(loop[c].tracker[d], loop[c].live /\ d \in answering)
           charged == [loop[c].tracker EXCEPT ![d] = [next EXCEPT !.wait = Cooldown]]
           left == loop[c].todo \ {d}
<1>4. d \in Replaceable /\ loop[c].tracker[d] \in Tracker
  BY <1>2
<1>5. /\ next \in Tracker /\ next.wait = loop[c].tracker[d].wait
      /\ [next EXCEPT !.wait = Cooldown] \in Tracker
  BY <1>4, AdvancedIs
<1>6. [next EXCEPT !.wait = Cooldown].wait = Cooldown
  BY <1>5 DEF Tracker
<1> HIDE DEF next
<1>7. /\ charged \in [Replaceable -> Tracker] /\ charged[d].wait = Cooldown
      /\ \A e \in Replaceable \ {d} : charged[e] = loop[c].tracker[e]
  BY <1>2, <1>4, <1>5, <1>6
<1>8. CASE RH!GivesUp(c) /\ UNCHANGED <<since, early>>
  BY <1>2, <1>8, GivesUpKeeps
<1>9. CASE /\ RH!ShouldRestart(next)
           /\ saved' = RH!Written(charged, loop[c].age)
           /\ loop' = [loop EXCEPT ![c].pc = "lock", ![c].due = d, ![c].todo = left,
                                   ![c].tracker = charged, ![c].restarted = @ \union {d}]
           /\ since' = [since EXCEPT ![d] = loop[c].age]
           /\ early' = IF since[d] >= loop[c].age + Cooldown \/ overlapped THEN early
                       ELSE early \union {d}
  <2> HIDE DEF charged
  <2> DEFINE l == [loop[c] EXCEPT !.pc = "lock", !.due = d, !.todo = left,
                                  !.tracker = charged, !.restarted = @ \union {d}]
  <2>1. loop' = [loop EXCEPT ![c] = l]
    BY <1>1, <1>9 DEF HealthTypes
  <2>2. l \in LoopType
    BY <1>1, <1>4, <1>7 DEF LoopType
  <2>3. /\ l.pc = "lock" /\ l.tracker = charged /\ l.age = loop[c].age
        /\ l.active = loop[c].active /\ l.todo \subseteq loop[c].todo
    BY <1>1 DEF LoopType
  <2>4. loop[c].tracker[d].wait = 0
    BY <1>5, <1>9 DEF RH!ShouldRestart
  <2> HIDE DEF l
  <2>5. /\ saved' = RH!Written(charged, loop[c].age) /\ since' = [since EXCEPT ![d] = loop[c].age]
        /\ early' = IF since[d] >= loop[c].age + Cooldown \/ overlapped THEN early ELSE early \union {d}
    BY <1>9
  <2>6. d \in loop[c].todo
    OBVIOUS
  <2>7. QED
    BY <1>2, <1>7, <2>1, <2>2, <2>3, <2>4, <2>5, <2>6, ChargeKeeps, ZenonT(60)
<1>10. CASE /\ loop' = [loop EXCEPT ![c].tracker[d] = next, ![c].todo = left]
            /\ UNCHANGED <<saved, since, early>>
  <2> DEFINE tracker == [loop[c].tracker EXCEPT ![d] = next]
             l == [loop[c] EXCEPT !.tracker = tracker, !.todo = left]
  <2>1. loop' = [loop EXCEPT ![c] = l]
    BY <1>1, <1>10 DEF HealthTypes
  <2>2. /\ tracker \in [Replaceable -> Tracker]
        /\ \A e \in Replaceable : tracker[e].wait = loop[c].tracker[e].wait
    BY <1>2, <1>4, <1>5
  <2> HIDE DEF tracker
  <2>3. l \in LoopType /\ l.active = loop[c].active /\ l.age = loop[c].age /\ l.tracker = tracker
        /\ l.todo \subseteq loop[c].todo
    BY <1>1, <2>2 DEF LoopType
  <2> HIDE DEF l
  <2>4. HealthTypes'
    BY <1>1, <1>2, <1>10, <2>1, <2>3 DEF HealthTypes
  <2>5. QED
    BY <1>2, <1>10, <2>1, <2>2, <2>3, <2>4, LoopKeeps DEF Collecting
<1>11. QED
  BY <1>3, <1>8, <1>9, <1>10 DEF next, charged

LEMMA MonitorKeeps ==
    ASSUME HealthInv, NEW c \in Connections, RH!Monitor(c)
    PROVE  HealthInv'
BY ConnectKeeps, EndLoopKeeps, CollectKeeps, ProbeKeeps, LockKeeps, RestartKeeps, FinishKeeps, ReportKeeps
   DEF RH!Monitor

-----------------------------------------------------------------------------
(* Runtimes, deployments, time and the control plane *)

LEMMA RuntimeKeeps ==
    ASSUME HealthInv, NEW d \in Replaceable, RH!Stops(d) \/ RH!Recovers(d)
    PROVE  HealthInv'
<1>1. /\ answering' \subseteq routed
      /\ UNCHANGED <<routed, retired, mutex, saved, loop, current, inbox, recording, ready, health, clock,
                     troubles, overlapped, since, early, struck>>
  BY DEF HealthInv, HealthTypes, RH!Stops, RH!Recovers, RH!api, RH!bounds, RH!history
<1>2. HealthTypes'
  BY <1>1 DEF HealthInv, HealthTypes
<1>3. CountInv'
  BY <1>1 DEF HealthInv, CountInv
<1>4. QED
  BY <1>1, <1>2, <1>3, OthersKeep

LEMMA BeginDeploymentKeeps ==
    ASSUME HealthInv, RH!BeginDeployment
    PROVE  HealthInv'
<1>1. /\ mutex' = "deployment"
      /\ UNCHANGED <<routed, retired, answering, saved, loop, current, inbox, recording, ready, health, clock,
                     troubles, overlapped, since, early, struck>>
  BY DEF RH!BeginDeployment, RH!api, RH!bounds, RH!history
<1>2. HealthTypes'
  BY <1>1 DEF HealthInv, HealthTypes
<1>3. CountInv'
  BY <1>1 DEF HealthInv, CountInv
<1>4. QED
  BY <1>1, <1>2, <1>3, OthersKeep

\* A route replaces another: what was replaced stays so.
LEMMA EndDeploymentKeeps ==
    ASSUME HealthInv, RH!EndDeployment
    PROVE  HealthInv'
<1>1. /\ mutex' = "free"
      /\ UNCHANGED <<saved, loop, current, inbox, recording, ready, health, clock,
                     troubles, overlapped, since, early, struck>>
  BY DEF RH!EndDeployment, RH!api, RH!bounds, RH!history
<1>2. HealthTypes
  BY DEF HealthInv
<1>3. CountInv'
  BY <1>1 DEF HealthInv, CountInv
<1>4. CASE UNCHANGED <<routed, retired, answering>>
  <2>1. HealthTypes'
    BY <1>1, <1>2, <1>4 DEF HealthTypes
  <2>2. QED
    BY <1>1, <1>3, <1>4, <2>1, OthersKeep
<1>5. ASSUME NEW d \in routed, NEW e \in Replaceable \ (routed \union retired),
             routed' = (routed \ {d}) \union {e}, retired' = retired \union {d},
             answering' = (answering \ {d}) \union {e}
      PROVE  HealthInv'
  <2>1. /\ routed' \subseteq Replaceable /\ retired' \subseteq Replaceable \ routed'
        /\ answering' \subseteq routed'
    BY <1>2, <1>5 DEF HealthTypes
  <2>2. HealthTypes'
    BY <1>1, <1>2, <2>1 DEF HealthTypes
  <2>3. routed \union retired \subseteq routed' \union retired' /\ retired \subseteq retired'
    BY <1>5
  <2>4. ASSUME ~overlapped' PROVE SpacingInv'
    <3>1. SpacingInv
      BY <1>1, <2>4 DEF HealthInv
    <3>2. OneCollects' /\ UnroutedInv' /\ SavedInv'
      BY <1>1, <2>3, <3>1 DEF SpacingInv, OneCollects, Collecting, UnroutedInv, Unrouted, SavedInv
    <3>3. \A c \in Connections : Collecting(c)' => LoopInv(loop[c])'
      BY <1>1, <2>3, <3>1 DEF SpacingInv, Collecting, LoopInv
    <3>4. QED
      BY <3>2, <3>3 DEF SpacingInv
  <2>5. QED
    BY <1>3, <2>2, <2>4 DEF HealthInv
<1>6. QED
  BY <1>4, <1>5 DEF RH!EndDeployment

\* Time passes for every restart alike.
LEMMA TickKeeps ==
    ASSUME HealthInv, RH!Tick
    PROVE  HealthInv'
<1>1. /\ saved' = RH!Written(saved, 1)
      /\ loop' = [c \in Connections |->
            IF Collecting(c) THEN [loop[c] EXCEPT !.age = RH!Least(@ + 1, Cooldown)] ELSE loop[c]]
      /\ since' = [d \in Replaceable |-> RH!Least(since[d] + 1, 2 * Cooldown)]
      /\ UNCHANGED <<routed, retired, answering, mutex, current, inbox, recording, ready, health, clock,
                     troubles, overlapped, early, struck>>
  BY DEF RH!Tick, RH!api, RH!bounds, Collecting
<1>2. HealthTypes
  BY DEF HealthInv
<1>3. 1 \in 0..Cooldown /\ 2 * Cooldown \in Nat /\ Cooldown \in Nat
  BY HealthBounds
<1>4. saved' \in [Replaceable -> Tracker]
      /\ \A d \in Replaceable : saved'[d].wait = IF saved[d].wait > 1 THEN saved[d].wait - 1 ELSE 0
  BY <1>1, <1>2, <1>3, WrittenIs DEF HealthTypes
<1>5. ASSUME NEW d \in Replaceable
      PROVE  /\ since[d] \in 0..(2 * Cooldown)
             /\ since'[d] = IF since[d] + 1 < 2 * Cooldown THEN since[d] + 1 ELSE 2 * Cooldown
             /\ since'[d] \in 0..(2 * Cooldown)
  <2>1. since[d] \in 0..(2 * Cooldown)
    BY <1>2 DEF HealthTypes
  <2>2. since'[d] = RH!Least(since[d] + 1, 2 * Cooldown)
    BY <1>1
  <2>3. QED
    BY <1>3, <2>1, <2>2 DEF RH!Least
<1>6. since' \in [Replaceable -> 0..(2 * Cooldown)]
  BY <1>1, <1>5
<1>7. ASSUME NEW c \in Connections, Collecting(c)
      PROVE  /\ loop'[c] \in LoopType /\ loop'[c].pc = loop[c].pc
             /\ loop'[c].active = loop[c].active /\ loop'[c].todo = loop[c].todo
             /\ loop'[c].tracker = loop[c].tracker
             /\ loop'[c].age = IF loop[c].age + 1 < Cooldown THEN loop[c].age + 1 ELSE Cooldown
             /\ loop[c].age \in 0..Cooldown
  <2> DEFINE age == RH!Least(loop[c].age + 1, Cooldown)
  <2>1. loop[c] \in LoopType /\ loop[c].age \in 0..Cooldown
    BY <1>2, LoopFields DEF HealthTypes
  <2>2. age = IF loop[c].age + 1 < Cooldown THEN loop[c].age + 1 ELSE Cooldown
    BY DEF RH!Least
  <2>3. age \in 0..Cooldown
    BY <1>3, <2>1, <2>2
  <2>4. loop'[c] = [loop[c] EXCEPT !.age = age]
    BY <1>1, <1>7
  <2> HIDE DEF age
  <2>5. QED
    BY <2>1, <2>2, <2>3, <2>4 DEF LoopType
<1>8. \A c \in Connections : ~Collecting(c) => loop'[c] = loop[c]
  BY <1>1
<1>9. \A c \in Connections : Collecting(c)' <=> Collecting(c)
  BY <1>7, <1>8 DEF Collecting
<1>10. loop' \in [Connections -> LoopType]
  <2>1. \A c \in Connections : loop'[c] \in LoopType
    BY <1>2, <1>7, <1>8 DEF HealthTypes
  <2>2. QED
    BY <1>1, <2>1
<1>11. HealthTypes'
  BY <1>1, <1>2, <1>4, <1>6, <1>10 DEF HealthTypes
<1>12. CountInv'
  BY <1>1 DEF HealthInv, CountInv
<1>13. ASSUME ~overlapped' PROVE SpacingInv'
  <2>1. SpacingInv
    BY <1>1, <1>13 DEF HealthInv
  <2>2. OneCollects'
    BY <1>9, <2>1 DEF SpacingInv, OneCollects
  <2>3. UnroutedInv'
    BY <1>1, <1>3, <1>5, <2>1 DEF SpacingInv, UnroutedInv, Unrouted
  <2>4. ASSUME NEW d \in Replaceable, d \notin retired' PROVE since'[d] + saved'[d].wait >= Cooldown
    <3>1. saved[d].wait \in 0..Cooldown
      BY <1>2 DEF HealthTypes, Tracker
    <3>2. since[d] + saved[d].wait >= Cooldown
      BY <1>1, <2>1, <2>4 DEF SpacingInv, SavedInv
    <3>3. QED
      BY <1>3, <1>4, <1>5, <3>1, <3>2
  <2>5. ASSUME NEW c \in Connections, Collecting(c)' PROVE LoopInv(loop[c])'
    <3>1. LoopInv(loop[c]) /\ Collecting(c) /\ loop[c] \in LoopType
      BY <1>2, <1>9, <2>1, <2>5 DEF SpacingInv, HealthTypes
    <3>2. ASSUME NEW d \in loop[c].active
          PROVE  since'[d] + loop'[c].tracker[d].wait >= loop'[c].age + Cooldown
      <4>1. d \in Replaceable /\ loop[c].tracker[d] \in Tracker
        BY <3>1, <3>2, LoopFields
      <4>2. loop[c].tracker[d].wait \in 0..Cooldown
        BY <4>1 DEF Tracker
      <4>3. since[d] + loop[c].tracker[d].wait >= loop[c].age + Cooldown
        BY <3>1 DEF LoopInv
      <4>4. loop'[c].tracker[d].wait = loop[c].tracker[d].wait
        BY <1>7, <3>1
      <4>5. /\ loop'[c].age = IF loop[c].age + 1 < Cooldown THEN loop[c].age + 1 ELSE Cooldown
            /\ loop[c].age \in 0..Cooldown
        BY <1>7, <3>1
      <4> HIDE DEF Collecting
      <4>6. QED
        BY <1>3, <1>5, <4>1, <4>2, <4>3, <4>4, <4>5
    <3>3. \A d \in Replaceable : d \notin loop'[c].active \union retired' => since'[d] = 2 * Cooldown
      BY <1>1, <1>3, <1>5, <1>7, <3>1 DEF LoopInv
    <3>4. QED
      BY <1>1, <1>7, <3>1, <3>2, <3>3 DEF LoopInv
  <2>6. QED
    BY <2>2, <2>3, <2>4, <2>5 DEF SpacingInv, SavedInv
<1>14. QED
  BY <1>11, <1>12, <1>13 DEF HealthInv

LEMMA RecordReadyKeeps ==
    ASSUME HealthInv, NEW d \in Replaceable, RH!RecordReady(d)
    PROVE  HealthInv'
<1>1. /\ ready' = (ready \ retired) \union {d}
      /\ UNCHANGED <<routed, retired, answering, mutex, saved, loop, current, inbox, recording, health, clock,
                     troubles, overlapped, since, early, struck>>
  BY DEF RH!RecordReady, RH!agent, RH!bounds, RH!history
<1>2. HealthTypes'
  BY <1>1 DEF HealthInv, HealthTypes
<1>3. CountInv'
  BY <1>1 DEF HealthInv, CountInv
<1>4. QED
  BY <1>1, <1>2, <1>3, OthersKeep

\* The handler of a connection takes its next report.
LEMMA ReadEligibleKeeps ==
    ASSUME HealthInv, NEW c \in Connections, RH!ReadEligible(c)
    PROVE  HealthInv'
<1>1. /\ inbox[c] # <<>> /\ inbox' = [inbox EXCEPT ![c] = Tail(@)]
      /\ recording' = recording \/ recording' = [recording EXCEPT ![c] = Head(inbox[c])]
      /\ UNCHANGED <<routed, retired, answering, mutex, saved, loop, current, ready, health, clock,
                     troubles, overlapped, since, early, struck>>
  BY DEF RH!ReadEligible, RH!agent, RH!bounds, RH!history
<1>2. HealthTypes /\ inbox[c] \in Seq(RH!Samples)
  BY DEF HealthInv, HealthTypes
<1>3. Head(inbox[c]) \in RH!Samples /\ Tail(inbox[c]) \in Seq(RH!Samples)
  BY <1>1, <1>2
<1>4. HealthTypes'
  BY <1>1, <1>2, <1>3 DEF HealthTypes
<1>5. CountInv'
  BY <1>1 DEF HealthInv, CountInv
<1>6. QED
  BY <1>1, <1>4, <1>5, OthersKeep

\* A report that is newer is written, and is the only one that is.
LEMMA RecordHealthKeeps ==
    ASSUME HealthInv, NEW c \in Connections, RH!RecordHealth(c)
    PROVE  /\ HealthInv'
           /\ \A d \in Replaceable : health'[d].at >= health[d].at
<1> DEFINE s == recording[c]
           new == [state |-> s.state, at |-> s.at, restarts |-> health[s.dep].restarts + s.restarts]
<1>1. /\ s # None /\ recording' = [recording EXCEPT ![c] = None]
      /\ health' = IF RH!Newer(s) THEN [health EXCEPT ![s.dep] = new] ELSE health
      /\ UNCHANGED <<routed, retired, answering, mutex, saved, loop, current, inbox, ready, clock,
                     troubles, overlapped, since, early, struck>>
  BY DEF RH!RecordHealth, RH!agent, RH!bounds, RH!history
<1>2. HealthTypes /\ CountInv /\ s \in RH!Samples
  BY <1>1 DEF HealthInv, HealthTypes
<1>3. /\ s.dep \in Replaceable /\ s.at \in 1..MaxSamples /\ s.restarts \in 0..1 /\ s.state \in RH!States
  BY <1>2 DEF RH!Samples
<1>4. \A d \in Replaceable : health[d].restarts \in 0..MaxSamples /\ health[d].at \in 0..MaxSamples
  BY <1>2 DEF HealthTypes, HealthRow
<1>5. CASE RH!Newer(s)
  <2>1. health[s.dep].at < s.at /\ health[s.dep].restarts <= health[s.dep].at
    BY <1>2, <1>3, <1>5 DEF RH!Newer, CountInv
  <2>2. new \in HealthRow /\ new.restarts <= new.at /\ new.at >= health[s.dep].at
    BY <1>3, <1>4, <2>1, HealthBounds DEF HealthRow
  <2> HIDE DEF new
  <2>3. \A d \in Replaceable : health'[d] = IF d = s.dep THEN new ELSE health[d]
    BY <1>1, <1>2, <1>5 DEF HealthTypes
  <2>4. health' \in [Replaceable -> HealthRow]
    BY <1>1, <1>2, <1>5, <2>2 DEF HealthTypes
  <2>5. CountInv'
    BY <1>2, <2>2, <2>3 DEF CountInv
  <2>6. HealthTypes'
    BY <1>1, <1>2, <2>4 DEF HealthTypes
  <2>7. \A d \in Replaceable : health'[d].at >= health[d].at
    BY <1>4, <2>2, <2>3
  <2>8. QED
    BY <1>1, <2>5, <2>6, <2>7, OthersKeep
<1>6. CASE ~RH!Newer(s)
  <2>1. health' = health
    BY <1>1, <1>6
  <2>2. HealthTypes' /\ CountInv'
    BY <1>1, <1>2, <2>1 DEF HealthTypes, CountInv
  <2>3. QED
    BY <1>1, <1>4, <2>1, <2>2, OthersKeep
<1>7. QED
  BY <1>5, <1>6

-----------------------------------------------------------------------------
(* HealthHolds *)

\* Every step of RuntimeHealth keeps the invariant, and only a newer report
\* replaces what is shown.
LEMMA HealthStep ==
    ASSUME HealthInv, [RH!Next]_RH!vars
    PROVE  /\ HealthInv'
           /\ \A d \in Replaceable : health'[d].at >= health[d].at
<1>1. \A d \in Replaceable : health[d].at \in Nat
  BY HealthBounds DEF HealthInv, HealthTypes, HealthRow
<1>2. ASSUME NEW c \in Connections, RH!Monitor(c) PROVE HealthInv' /\ health' = health
  BY <1>2, MonitorKeeps DEF RH!Monitor, RH!Connect, RH!EndLoop, RH!Collect, RH!Probe, RH!Lock,
     RH!RestartRuntime, RH!Finish, RH!Report, RH!api
<1>3. ASSUME NEW c \in Connections, RH!ReadEligible(c) \/ RH!Disconnect(c) PROVE HealthInv' /\ health' = health
  BY <1>3, ReadEligibleKeeps, DisconnectKeeps DEF RH!ReadEligible, RH!Disconnect, RH!api
<1>4. ASSUME NEW c \in Connections, RH!RecordHealth(c)
      PROVE  HealthInv' /\ \A d \in Replaceable : health'[d].at >= health[d].at
  BY <1>4, RecordHealthKeeps
<1>5. ASSUME NEW d \in Replaceable, RH!Stops(d) \/ RH!Recovers(d) \/ RH!RecordReady(d)
      PROVE  HealthInv' /\ health' = health
  BY <1>5, RuntimeKeeps, RecordReadyKeeps DEF RH!Stops, RH!Recovers, RH!RecordReady, RH!api
<1>6. CASE RH!AgentCrash \/ RH!BeginDeployment \/ RH!EndDeployment \/ RH!Tick
  <2>1. HealthInv' /\ health' = health
    BY <1>6, AgentCrashKeeps, BeginDeploymentKeeps, EndDeploymentKeeps, TickKeeps
       DEF RH!AgentCrash, RH!BeginDeployment, RH!EndDeployment, RH!Tick, RH!api
  <2>2. QED
    BY <1>1, <2>1
<1>7. CASE UNCHANGED RH!vars
  <2>1. UNCHANGED <<routed, retired, answering, mutex, saved, loop, current, inbox, recording, ready, health,
                    clock, troubles, overlapped, since, early, struck>>
    BY <1>7 DEF RH!vars, RH!agent, RH!api, RH!bounds, RH!history
  <2>2. HealthTypes' /\ CountInv'
    BY <2>1 DEF HealthInv, HealthTypes, CountInv
  <2>3. QED
    BY <1>1, <2>1, <2>2, OthersKeep
<1>8. QED
  BY <1>1, <1>2, <1>3, <1>4, <1>5, <1>6, <1>7 DEF RH!Next, RH!Control

LEMMA HealthStart ==
    ASSUME NEW d \in Replaceable, routed = {d}, retired = {}, answering = {d}, ready = {d}, mutex = "free",
           saved = [e \in Replaceable |-> RH!NoTracker], loop = [c \in Connections |-> RH!Off],
           current = None, inbox = [c \in Connections |-> <<>>], recording = [c \in Connections |-> None],
           health = [e \in Replaceable |-> [state |-> "none", at |-> 0, restarts |-> 0]],
           clock \in 0..MaxSamples, troubles = 0, overlapped = FALSE,
           since = [e \in Replaceable |-> 2 * Cooldown], early = {}, struck = {}
    PROVE  HealthInv
<1>1. <<>> \in Seq(RH!Samples)
  OBVIOUS
<1>2. [state |-> "none", at |-> 0, restarts |-> 0] \in HealthRow
  BY HealthBounds DEF HealthRow
<1>3. 2 * Cooldown \in 0..(2 * Cooldown) /\ 0 \in 0..MaxTroubles /\ 2 * Cooldown >= Cooldown
  BY HealthBounds
<1>4. saved \in [Replaceable -> Tracker] /\ loop \in [Connections -> LoopType]
      /\ inbox \in [Connections -> Seq(RH!Samples)] /\ health \in [Replaceable -> HealthRow]
      /\ since \in [Replaceable -> 0..(2 * Cooldown)]
  BY <1>1, <1>2, <1>3, TrackerOf, OffIs
<1>5. HealthTypes
  BY <1>3, <1>4 DEF HealthTypes
<1>6. CountInv
  BY DEF CountInv
<1>7. \A c \in Connections : ~Collecting(c)
  BY OffIs DEF Collecting
<1>8. UnroutedInv
  BY DEF UnroutedInv
<1>9. SavedInv
  BY <1>3, TrackerOf, HealthBounds DEF SavedInv
<1>10. QED
  BY <1>5, <1>6, <1>7, <1>8, <1>9 DEF HealthInv, SpacingInv, OneCollects

\* The health of what a node serves, in RuntimeHealth by itself: restarts of a
\* runtime are accounted a cooldown apart (advanceRuntimeHealth, state.json) as
\* long as collections do not overlap, none reaches a backend that was replaced,
\* and what recordRuntimeMetric has written is never replaced by an older report.
THEOREM RuntimeHealthIsHeld ==
    RH!Spec => /\ [](RH!TypeOK /\ RH!RestartsAreSpaced /\ RH!ReplacedStaysDown)
               /\ RH!HealthNeverOlder
<1>1. RH!Init => HealthInv
  <2>1. ASSUME RH!Init PROVE HealthInv
    <3>1. PICK d \in Replaceable : routed = {d} /\ ready = {d}
      BY <2>1 DEF RH!Init
    <3>2. clock \in 0..MaxSamples
      BY <2>1, HealthBounds DEF RH!Init
    <3>3. QED
      BY <2>1, <3>1, <3>2, HealthStart DEF RH!Init
  <2>2. QED
    BY <2>1
<1>2. HealthInv /\ [RH!Next]_RH!vars => HealthInv' /\ \A d \in Replaceable : health'[d].at >= health[d].at
  BY HealthStep
<1>3. HealthInv => RH!TypeOK /\ RH!RestartsAreSpaced /\ RH!ReplacedStaysDown
  BY HealthTypesSuffice DEF HealthInv, HealthTypes, RH!RestartsAreSpaced, RH!ReplacedStaysDown
<1>4. QED
  BY <1>1, <1>2, <1>3, PTL DEF RH!Spec, RH!HealthNeverOlder

\* The same of the behaviours NodesMC checks: an Agent whose reports are lost,
\* or whose reports arrive, next to a machine whose credentials change.
THEOREM HealthIsHeld == AllSpec => HealthHolds
<1>1. AllInit => HealthInv
  <2>1. ASSUME AllInit PROVE HealthInv
    <3>1. clock \in 0..MaxSamples
      BY <2>1, HealthBounds DEF AllInit, HealthInit
    <3>2. QED
      BY <2>1, <3>1, HealthBounds, HealthStart DEF AllInit, HealthInit
  <2>2. QED
    BY <2>1
<1>2. HealthInv /\ [AllNext]_<<vars, focus, health_vars>>
          => HealthInv' /\ \A d \in Replaceable : health'[d].at >= health[d].at
  <2>1. ASSUME UNCHANGED health_vars PROVE UNCHANGED RH!vars
    BY <2>1 DEF health_vars, RH!vars, RH!agent, RH!api, RH!bounds, RH!history
  <2>2. ASSUME [AllNext]_<<vars, focus, health_vars>> PROVE [RH!Next]_RH!vars
    <3>1. CASE focus = "credentials" /\ Next /\ UNCHANGED <<focus, health_vars>>
      BY <2>1, <3>1
    <3>2. CASE Reporting
      BY <3>2 DEF Reporting, RH!Next
    <3>3. CASE UNCHANGED <<vars, focus, health_vars>>
      BY <2>1, <3>3
    <3>4. QED
      BY <2>2, <3>1, <3>2, <3>3 DEF AllNext
  <2>3. QED
    BY <2>2, HealthStep
<1>3. HealthInv => RH!TypeOK /\ RH!RestartsAreSpaced /\ RH!ReplacedStaysDown
  BY HealthTypesSuffice DEF HealthInv, HealthTypes, RH!RestartsAreSpaced, RH!ReplacedStaysDown
<1>4. QED
  BY <1>1, <1>2, <1>3, PTL DEF AllSpec, HealthHolds, RH!HealthNeverOlder

=============================================================================
