-------------------------- MODULE NodeDispatch_proofs --------------------------
(***************************************************************************)
(* Proofs about NodeDispatch, for any nodes, deployments, operations and   *)
(* connections, and any number of crashes, lost leases and restarts.       *)
(***************************************************************************)
EXTENDS NodeDispatch, SequenceTheorems, TLAPS

DeployAt == {"claimed", "wire", "waiting", "building", "deploying", "checking", "routed"}
Reported == InProgress \union {"READY", "FAILED"}
TxType == [node : Nodes, conn : Conns, dep : Deployments, status : Reported, previous : SUBSET Deployments]
OpType == [kind : OpKinds \union {"none"}, node : Nodes, dep : Deployments \union {0},
           status : {"none", "RUNNING", "DONE", "FAILED"}]

LEMMA Bounds ==
    /\ MaxConnections \in Nat /\ MaxMishaps \in Nat
    /\ 0 \notin Conns /\ Conns \subseteq Nat
    /\ 0 \notin Deployments /\ Deployments \subseteq Nat
BY BoundsAssumption, DeploymentsAssumption DEF Conns

\* What a command is: a deployment, at any point, or an operation that is on its way.
LEMMA TaskFields ==
    ASSUME NEW t \in Tasks
    PROVE  /\ t.node \in Nodes /\ t.conn \in Conns
           /\ t.kind = "deploy" => t.id \in Deployments /\ t.at \in DeployAt
           /\ t.kind # "deploy" => t.kind \in OpKinds /\ t.id \in Ops /\ t.at \in {"claimed", "wire", "waiting"}
           /\ t.at \notin {"claimed", "wire", "waiting"} => t.kind = "deploy"
           /\ \A x \in {"wire", "waiting"} : [t EXCEPT !.at = x] \in Tasks
           /\ \A x \in DeployAt : t.kind = "deploy" => [t EXCEPT !.at = x] \in Tasks
           /\ \A x : /\ [t EXCEPT !.at = x].kind = t.kind /\ [t EXCEPT !.at = x].id = t.id
                     /\ [t EXCEPT !.at = x].at = x
<1> DEFINE D == [kind : {"deploy"}, id : Deployments, try : Tries, node : Nodes, conn : Conns, at : DeployAt]
           O == [kind : OpKinds, id : Ops, try : {0}, node : Nodes, conn : Conns,
                 at : {"claimed", "wire", "waiting"}]
<1>1. Tasks = D \union O
  BY DEF Tasks, DeployAt
<1>2. CASE t \in D
  <2>1. \A x \in DeployAt : [t EXCEPT !.at = x] \in D
    BY <1>2
  <2>2. \A x : /\ [t EXCEPT !.at = x].kind = t.kind /\ [t EXCEPT !.at = x].id = t.id
               /\ [t EXCEPT !.at = x].at = x
    BY <1>2
  <2>3. t.kind = "deploy" /\ t.id \in Deployments /\ t.at \in DeployAt /\ t.node \in Nodes /\ t.conn \in Conns
    BY <1>2
  <2>4. QED
    BY <1>1, <2>1, <2>2, <2>3 DEF DeployAt
<1>3. CASE t \in O
  <2>1. \A x \in {"wire", "waiting"} : [t EXCEPT !.at = x] \in O
    BY <1>3
  <2>2. \A x : /\ [t EXCEPT !.at = x].kind = t.kind /\ [t EXCEPT !.at = x].id = t.id
               /\ [t EXCEPT !.at = x].at = x
    BY <1>3
  <2>3. t.kind \in OpKinds /\ t.kind # "deploy" /\ t.id \in Ops /\ t.at \in {"claimed", "wire", "waiting"}
        /\ t.node \in Nodes /\ t.conn \in Conns
    BY <1>3, KindsAssumption
  <2>4. QED
    BY <1>1, <2>1, <2>2, <2>3
<1>4. QED
  BY <1>1, <1>2, <1>3

LEMMA MessageFields ==
    ASSUME NEW m \in Messages
    PROVE  /\ m.type \in {"status", "recovered", "result"}
           /\ m.type = "status" => m.dep \in Deployments /\ m.status \in Reported
           /\ m.type = "recovered" => m.dep \in Deployments
           /\ m.type = "result" => m.op \in Ops /\ m.ok \in BOOLEAN
BY DEF Messages, Reported

LEMMA MessagesMade ==
    /\ \A d \in Deployments, s \in Reported :
          Says(d, s) \in Messages /\ Says(d, s).type = "status" /\ Says(d, s).dep = d /\ Says(d, s).status = s
    /\ \A d \in Deployments : LET m == [type |-> "recovered", dep |-> d] IN
          m \in Messages /\ m.type = "recovered" /\ m.dep = d
    /\ \A o \in Ops, ok \in BOOLEAN : LET m == [type |-> "result", op |-> o, ok |-> ok] IN
          m \in Messages /\ m.type = "result"
BY DEF Messages, Reported, Says

LEMMA TasksMade ==
    /\ \A d \in Deployments, k \in Tries, n \in Nodes, c \in Conns :
          [kind |-> "deploy", id |-> d, try |-> k, node |-> n, conn |-> c, at |-> "claimed"] \in Tasks
    /\ \A kind \in OpKinds, o \in Ops, n \in Nodes, c \in Conns :
          [kind |-> kind, id |-> o, try |-> 0, node |-> n, conn |-> c, at |-> "claimed"] \in Tasks
BY DEF Tasks

-----------------------------------------------------------------------------
(* Types *)

LEMMA TypeInit == Init => TypeOK
<1> SUFFICES ASSUME Init PROVE TypeOK
  OBVIOUS
<1>1. (CHOOSE n \in Nodes : TRUE) \in Nodes
  BY NodesAssumption
<1>2. TypeDb
  BY <1>1 DEF Init, TypeDb, Statuses
<1>3. TypeApi
  <2>1. <<>> \in Seq(Messages)
    BY EmptySeq
  <2>2. QED
    BY <2>1 DEF Init, TypeApi, Phases, Startups
<1>4. TypeAgent
  BY Bounds DEF Init, TypeAgent
<1>5. TypeHistory /\ task \subseteq Tasks
  BY DEF Init, TypeHistory
<1>6. QED
  BY <1>2, <1>3, <1>4, <1>5 DEF TypeOK

InboxOK == inbox \in [Nodes -> [Conns -> Seq(Messages)]]

LEMMA InboxSet ==
    ASSUME InboxOK, NEW n \in Nodes, NEW c \in Conns, NEW q \in Seq(Messages),
           inbox' = [inbox EXCEPT ![n][c] = q]
    PROVE  InboxOK'
BY DEF InboxOK

LEMMA ConsumeTypes ==
    ASSUME InboxOK, NEW n \in Nodes, NEW c \in Conns, inbox[n][c] # <<>>, Consume(n, c)
    PROVE  InboxOK' /\ Head(inbox[n][c]) \in Messages
<1>1. inbox[n][c] \in Seq(Messages)
  BY DEF InboxOK
<1>2. Tail(inbox[n][c]) \in Seq(Messages) /\ Head(inbox[n][c]) \in Messages
  BY <1>1, HeadTailProperties
<1>3. QED
  BY <1>2 DEF InboxOK, Consume

LEMMA WriteTypes ==
    ASSUME InboxOK, NEW n \in Nodes, NEW c \in Conns, NEW m \in Messages, Write(n, c, m)
    PROVE  InboxOK'
<1>1. inbox[n][c] \in Seq(Messages)
  BY DEF InboxOK
<1>2. PICK q \in Seq(Messages) : q = Append(inbox[n][c], m)
  BY <1>1, AppendProperties
<1>3. inbox' = [inbox EXCEPT ![n][c] = q] \/ inbox' = inbox
  BY <1>2 DEF Write
<1>4. QED
  BY <1>3, InboxSet DEF InboxOK

TxsOK == txs \subseteq TxType

LEMMA TypeParts ==
    /\ TypeDb <=>
          /\ status \in [Deployments -> Statuses] /\ home \in [Deployments -> Nodes]
          /\ lease \in [Deployments -> {"none", "live", "expired"}] /\ lost \subseteq Deployments
          /\ op \in [Ops -> OpType] /\ lifecycle \in [Nodes -> {"ACTIVE", "MAINTENANCE", "ARCHIVED"}]
          /\ online \in [Nodes -> BOOLEAN]
    /\ TypeApi <=>
          /\ startup \in Startups /\ sockets \in [Nodes -> Conns \union {0}] /\ phase \in [Nodes -> [Conns -> Phases]]
          /\ shut \in [Nodes -> SUBSET Conns] /\ InboxOK /\ TxsOK
BY DEF TypeDb, TypeApi, OpType, InboxOK, TxsOK, TxType, Reported

UsedType == [mishaps : Nat, crashes : Nat, restarts : Nat]
LEMMA UsedFields ==
    ASSUME NEW u \in UsedType
    PROVE  /\ [u EXCEPT !.mishaps = @ + 1] \in UsedType /\ [u EXCEPT !.mishaps = @ + 0] \in UsedType
           /\ [u EXCEPT !.crashes = @ + 1] \in UsedType /\ [u EXCEPT !.restarts = @ + 1] \in UsedType
<1>1. u.mishaps + 1 \in Nat /\ u.mishaps + 0 \in Nat /\ u.crashes + 1 \in Nat /\ u.restarts + 1 \in Nat
  BY DEF UsedType
<1>2. ASSUME NEW k \in Nat
      PROVE  /\ [u EXCEPT !.mishaps = k] \in UsedType /\ [u EXCEPT !.crashes = k] \in UsedType
             /\ [u EXCEPT !.restarts = k] \in UsedType
  BY DEF UsedType
<1>3. QED
  BY <1>1, <1>2

\* What an operator asks for.
LEMMA OperatorTypes ==
    ASSUME TypeOK, Operator
    PROVE  TypeOK'
<1>1. ASSUME NEW d \in Deployments, NEW n \in Nodes, Insert(d, n) PROVE TypeOK'
  <2>1. status' \in [Deployments -> Statuses] /\ home' \in [Deployments -> Nodes]
    BY <1>1, TypeParts DEF TypeOK, Insert, Statuses
  <2>2. UNCHANGED <<lease, lost, op, lifecycle, online, api, task, agent, history>>
    BY <1>1 DEF Insert
  <2>3. QED
    BY <2>1, <2>2 DEF TypeOK, TypeDb, TypeApi, TypeAgent, TypeHistory, api, agent, history, excused
<1>2. ASSUME NEW d \in Deployments, CreateRollback(d) PROVE TypeOK'
  <2>1. PICK e \in LatestReady(ServiceOf[d]) : Insert(d, home[e])
    BY <1>2 DEF CreateRollback
  <2>2. home[e] \in Nodes
    BY <2>1 DEF TypeOK, TypeDb, LatestReady, Ready
  <2>3. QED
    BY <1>1, <2>1, <2>2
<1>3. ASSUME NEW o \in Ops, NEW kind \in OpKinds, NEW n \in Nodes, NEW c \in Conns,
             NEW dep \in Deployments \union {0}, StartOp(o, kind, n, c, dep), slipped' \subseteq Ops,
             lifecycle' \in [Nodes -> {"ACTIVE", "MAINTENANCE", "ARCHIVED"}]
      PROVE  TypeOK'
  <2>1. op' \in [Ops -> OpType]
    BY <1>3, TypeParts DEF TypeOK, StartOp, OpType
  <2>2. task' \subseteq Tasks
    BY <1>3, TasksMade DEF TypeOK, StartOp
  <2>3. UNCHANGED <<deployment, online, api, agent, routed, overdue, crossed, orphans, stranded, used>>
    BY <1>3 DEF StartOp
  <2>4. QED
    BY <1>3, <2>1, <2>2, <2>3, TypeParts
       DEF TypeOK, TypeDb, TypeApi, TypeAgent, TypeHistory, deployment, api, agent, history, excused, OpType
<1>4. ASSUME NEW o \in Ops, NEW n \in Nodes, NEW c \in Conns, Qualify(o, n, c) PROVE TypeOK'
  BY <1>3, <1>4 DEF Qualify, TypeOK, TypeDb, TypeHistory
<1>5. ASSUME NEW o \in Ops, NEW n \in Nodes, NEW c \in Conns, NEW d \in On(n), Restart(o, d, c) PROVE TypeOK'
  <2>1. d \in Deployments /\ home[d] \in Nodes
    BY DEF On, TypeOK, TypeDb
  <2>2. QED
    BY <1>3, <1>5, <2>1 DEF Restart, TypeOK, TypeDb, TypeHistory
<1>6. ASSUME NEW o \in Ops, NEW n \in Nodes, NEW c \in Conns, NEW kind \in Maintenance, Maintain(o, n, kind, c)
      PROVE  TypeOK'
  <2>1. kind \in OpKinds /\ slipped' \subseteq Ops
        /\ lifecycle' \in [Nodes -> {"ACTIVE", "MAINTENANCE", "ARCHIVED"}]
    BY <1>6 DEF Maintain, TypeOK, TypeDb, TypeHistory
  <2>2. QED
    BY <1>3, <1>6, <2>1 DEF Maintain
<1>7. QED
  BY <1>1, <1>2, <1>4, <1>5, <1>6 DEF Operator, CreateDeployment

\* Steps that only write tables, tasks and bounds.
LEMMA DispatchTypes ==
    ASSUME TypeOK,
           \/ \E n \in Nodes, c \in Conns : Dispatch(n, c)
           \/ \E t \in task : FailBeforeDispatch(t) \/ GiveBack(t) \/ Send(t)
           \/ \E d \in Deployments : Expire(d)
    PROVE  TypeOK'
<1> USE DEF TypeOK, TypeDb, TypeApi, TypeAgent, TypeHistory, db, deployment, api, agent, history, excused
<1>1. ASSUME NEW n \in Nodes, NEW c \in Conns, Dispatch(n, c) PROVE TypeOK'
  <2>1. PICK d \in Dispatchable(n), k \in Tries :
            /\ lease' = [lease EXCEPT ![d] = "live"]
            /\ task' = task \union {[kind |-> "deploy", id |-> d, try |-> k, node |-> n,
                                     conn |-> c, at |-> "claimed"]}
            /\ UNCHANGED <<status, home, lost, op, lifecycle, online, api, agent, history>>
    BY <1>1 DEF Dispatch
  <2>2. d \in Deployments
    BY DEF Dispatchable, On
  <2>3. task' \subseteq Tasks
    BY <2>1, <2>2, TasksMade
  <2>4. lease' \in [Deployments -> {"none", "live", "expired"}]
    BY <2>1, <2>2
  <2>5. QED
    BY <2>1, <2>3, <2>4
<1>2. ASSUME NEW t \in task, FailBeforeDispatch(t) PROVE TypeOK'
  <2>1. status' \in [Deployments -> Statuses] /\ lease' \in [Deployments -> {"none", "live", "expired"}]
    BY <1>2 DEF FailBeforeDispatch, FailQueued, Statuses
  <2>2. QED
    BY <1>2, <2>1 DEF FailBeforeDispatch
<1>3. ASSUME NEW t \in task, GiveBack(t) PROVE TypeOK'
  <2>1. lease' \in [Deployments -> {"none", "live", "expired"}]
    BY <1>3 DEF GiveBack
  <2>2. used' \in UsedType
    BY <1>3, UsedFields DEF GiveBack, UsedType
  <2>3. QED
    BY <1>3, <2>1, <2>2 DEF GiveBack, UsedType
<1>4. ASSUME NEW t \in task, Send(t) PROVE TypeOK'
  <2>1. t \in Tasks /\ t.node \in Nodes /\ [t EXCEPT !.at = "wire"] \in Tasks
    BY TaskFields
  <2>2. task' \subseteq Tasks
    BY <1>4, <2>1 DEF Send
  <2>4. stranded' \subseteq Ops
    <3>1. t.kind # "deploy" => t.id \in Ops
      BY <2>1, TaskFields
    <3>2. QED
      BY <1>4, <3>1 DEF Send
  <2>3. QED
    BY <1>4, <2>2, <2>4 DEF Send
<1>5. ASSUME NEW d \in Deployments, Expire(d) PROVE TypeOK'
  <2>1. lease' \in [Deployments -> {"none", "live", "expired"}] /\ overdue' \subseteq Deployments
    BY <1>5 DEF Expire
  <2>2. used' = [used EXCEPT !.mishaps = @ + 1] \/ used' = [used EXCEPT !.mishaps = @ + 0]
    BY <1>5 DEF Expire
  <2>4. used' \in UsedType
    BY <2>2, UsedFields DEF UsedType
  <2>3. QED
    BY <1>5, <2>1, <2>4 DEF Expire, UsedType
<1>6. QED
  BY <1>1, <1>2, <1>3, <1>4, <1>5

LEMMA PhaseSet ==
    ASSUME TypeApi, NEW n \in Nodes, NEW c \in Conns, NEW x \in Phases, phase' = [phase EXCEPT ![n][c] = x]
    PROVE  /\ phase' \in [Nodes -> [Conns -> Phases]]
           /\ \A m \in Nodes, k \in Conns : phase'[m][k] = IF m = n /\ k = c THEN x ELSE phase[m][k]
BY DEF TypeApi

\* A connection is admitted, refused, opened or closed.
LEMMA ConnTypes ==
    ASSUME TypeOK, NEW n \in Nodes, NEW c \in Conns,
           Admit(n, c) \/ Reject(n, c) \/ Open(n, c) \/ CloseEvent(n, c) \/ Guard(n, c)
    PROVE  TypeOK'
<1> USE DEF TypeOK, TypeDb, TypeAgent, TypeHistory, db, deployment, api, agent, history, excused
<1>0. /\ {"hello", "online", "open", "guard", "offline", "done", "refused"} \subseteq Phases
      /\ TypeApi /\ InboxOK /\ TxsOK /\ <<>> \in Seq(Messages)
  BY TypeParts, EmptySeq DEF Phases
<1>1. CASE Admit(n, c)
  <2>1. phase' \in [Nodes -> [Conns -> Phases]]
    BY <1>0, <1>1, PhaseSet DEF Admit
  <2>2. TypeApi'
    BY <1>0, <1>1, <2>1 DEF Admit, TypeApi
  <2>3. QED
    BY <1>1, <2>2 DEF Admit
<1>2. CASE Reject(n, c)
  <2>1. phase' \in [Nodes -> [Conns -> Phases]]
    BY <1>0, <1>2, PhaseSet DEF Reject
  <2>2. inbox' \in [Nodes -> [Conns -> Seq(Messages)]]
    BY <1>0, <1>2, InboxSet DEF Reject, InboxOK
  <2>3. TypeApi'
    BY <1>0, <1>2, <2>1, <2>2 DEF Reject, TypeApi
  <2>4. used' \in UsedType
    BY <1>2, UsedFields DEF Reject, UsedType
  <2>5. QED
    BY <1>2, <2>3, <2>4 DEF Reject, UsedType
<1>3. CASE Open(n, c)
  <2>1. phase' \in [Nodes -> [Conns -> Phases]]
    BY <1>0, <1>3, PhaseSet DEF Open
  <2>2. sockets' \in [Nodes -> Conns \union {0}] /\ sockets[n] \in Conns \union {0}
    BY <1>0, <1>3 DEF Open, TypeApi
  <2>3. CASE sockets[n] = 0
    BY <1>0, <1>3, <2>1, <2>2, <2>3 DEF Open, TypeApi
  <2>4. CASE sockets[n] # 0
    <3>1. PICK p \in Conns : p = sockets[n]
      BY <2>2, <2>4
    <3>2. inbox' = [inbox EXCEPT ![n][p] = <<>>] /\ shut' = [shut EXCEPT ![n] = @ \union {p}]
          /\ orphans' = orphans \union {d \in On(n) : Active(d)} \union {t.dep : t \in {u \in txs : u.node = n}}
          /\ stranded' = stranded \union Running(n, OpKinds)
      BY <1>3, <2>4, <3>1 DEF Open
    <3>3. inbox' \in [Nodes -> [Conns -> Seq(Messages)]]
      BY <1>0, <3>2, InboxSet DEF InboxOK
    <3>4. shut' \in [Nodes -> SUBSET Conns] /\ stranded' \subseteq Ops
      BY <1>0, <3>2 DEF TypeApi, Running
    <3>6. \A t \in txs : t.dep \in Deployments
      BY <1>0 DEF TxsOK, TxType
    <3>7. orphans' \subseteq Deployments
      BY <3>2, <3>6 DEF On
    <3>5. QED
      BY <1>0, <1>3, <2>1, <2>2, <3>3, <3>4, <3>7 DEF Open, TypeApi
  <2>5. QED
    BY <2>3, <2>4
<1>4. CASE CloseEvent(n, c)
  <2>1. PICK x \in {"guard", "refused"} : phase' = [phase EXCEPT ![n][c] = x]
    BY <1>0, <1>4 DEF CloseEvent, TypeApi
  <2>2. phase' \in [Nodes -> [Conns -> Phases]]
    BY <1>0, <2>1, PhaseSet
  <2>3. inbox' \in [Nodes -> [Conns -> Seq(Messages)]]
    BY <1>0, <1>4, InboxSet DEF CloseEvent, InboxOK
  <2>4. TypeApi'
    BY <1>0, <1>4, <2>2, <2>3 DEF CloseEvent, TypeApi
  <2>5. QED
    BY <1>4, <2>4 DEF CloseEvent
<1>5. CASE Guard(n, c)
  <2>1. PICK x \in {"offline", "done"} : phase' = [phase EXCEPT ![n][c] = x]
    BY <1>5 DEF Guard
  <2>2. phase' \in [Nodes -> [Conns -> Phases]]
    BY <1>0, <2>1, PhaseSet
  <2>3. sockets' \in [Nodes -> Conns \union {0}]
    BY <1>0, <1>5 DEF Guard, TypeApi
  <2>4. TypeApi'
    BY <1>0, <1>5, <2>2, <2>3 DEF Guard, TypeApi
  <2>5. QED
    BY <1>5, <2>4 DEF Guard
<1>6. QED
  BY <1>1, <1>2, <1>3, <1>4, <1>5

LEMMA AdvanceTypes ==
    ASSUME TypeOK, NEW n \in Nodes, NEW c \in Conns, NEW from, NEW to \in Phases, Advance(n, c, from, to)
    PROVE  TypeApi' /\ TypeAgent' /\ TypeHistory' /\ task' \subseteq Tasks
<1>1. phase' \in [Nodes -> [Conns -> Phases]]
  BY PhaseSet DEF Advance, TypeOK
<1>2. QED
  BY <1>1 DEF Advance, TypeOK, TypeApi, TypeAgent, TypeHistory, agent, history, excused

\* What the cleanup after a connection, and a start of the control plane, write.
LEMMA FailRunningTypes ==
    ASSUME op \in [Ops -> OpType], NEW n \in Nodes, NEW kinds, FailRunning(n, kinds)
    PROVE  op' \in [Ops -> OpType]
<1>1. \A o \in Ops : [op[o] EXCEPT !.status = "FAILED"] \in OpType
  BY DEF OpType
<1>2. QED
  BY <1>1 DEF FailRunning

LEMMA CleanupTypes ==
    ASSUME TypeOK, NEW n \in Nodes, NEW c \in Conns, Cleanup(n, c)
    PROVE  TypeOK'
<1>0. /\ {"deployments", "actions", "qualifications", "maintenance", "release", "holding", "done"}
            \subseteq Phases
      /\ TypeDb /\ op \in [Ops -> OpType]
  BY TypeParts DEF Phases, TypeOK
<1>1. CASE GoOffline(n, c)
  <2>1. TypeDb'
    BY <1>0, <1>1 DEF GoOffline, TypeDb, deployment
  <2>2. QED
    BY <1>0, <1>1, <2>1, AdvanceTypes DEF GoOffline, TypeOK
<1>2. CASE FailActiveDeployments(n, c)
  <2>1. /\ status' \in [Deployments -> Statuses] /\ lease' \in [Deployments -> {"none", "live", "expired"}]
        /\ lost' \subseteq Deployments
    BY <1>0, <1>2 DEF FailActiveDeployments, TypeDb, On, Statuses
  <2>2. TypeDb'
    BY <1>0, <1>2, <2>1 DEF FailActiveDeployments, TypeDb
  <2>3. QED
    BY <1>0, <1>2, <2>2, AdvanceTypes DEF FailActiveDeployments, TypeOK
<1>3. CASE FailRunningRuntimeActions(n, c)
  <2>1. TypeDb'
    BY <1>0, <1>3, FailRunningTypes, TypeParts DEF FailRunningRuntimeActions, TypeDb, deployment, OpType
  <2>2. QED
    BY <1>0, <1>3, <2>1, AdvanceTypes DEF FailRunningRuntimeActions, TypeOK
<1>4. CASE FailRunningQualifications(n, c)
  <2>1. TypeDb'
    BY <1>0, <1>4, FailRunningTypes, TypeParts DEF FailRunningQualifications, TypeDb, deployment, OpType
  <2>2. QED
    BY <1>0, <1>4, <2>1, AdvanceTypes DEF FailRunningQualifications, TypeOK
<1>5. CASE FailRunningNodeMaintenance(n, c)
  <2>1. TypeDb'
    BY <1>0, <1>5 DEF FailRunningNodeMaintenance, TypeDb, db, deployment
  <2>2. PICK to \in Phases : Advance(n, c, "maintenance", to)
    BY <1>0, <1>5 DEF FailRunningNodeMaintenance
  <2>3. QED
    BY <2>1, <2>2, AdvanceTypes DEF TypeOK
<1>6. CASE ReleaseNode(n, c)
  <2>1. op' \in [Ops -> OpType]
    BY <1>0, <1>6, FailRunningTypes DEF ReleaseNode
  <2>2. lifecycle' \in [Nodes -> {"ACTIVE", "MAINTENANCE", "ARCHIVED"}]
    BY <1>0, <1>6 DEF ReleaseNode, Release, TypeDb
  <2>3. TypeDb'
    BY <1>0, <1>6, <2>1, <2>2 DEF ReleaseNode, TypeDb, deployment, OpType
  <2>4. QED
    BY <1>0, <1>6, <2>3, AdvanceTypes DEF ReleaseNode, TypeOK
<1>7. QED
  BY <1>1, <1>2, <1>3, <1>4, <1>5, <1>6, ConnTypes DEF Cleanup

LEMMA RestartTypes ==
    ASSUME TypeOK, ControlPlaneRestart
    PROVE  TypeOK'
<1>1. TypeDb'
  BY DEF TypeOK, TypeDb, ControlPlaneRestart, db, deployment
<1>2. TypeApi'
  <2>1. /\ phase' \in [Nodes -> [Conns -> Phases]] /\ sockets' \in [Nodes -> Conns \union {0}] /\ txs' = {}
        /\ startup' \in Startups
    BY DEF ControlPlaneRestart, Phases, Startups
  <2>2. <<>> \in Seq(Messages)
    BY EmptySeq
  <2>3. inbox' \in [Nodes -> [Conns -> Seq(Messages)]]
    BY <2>2 DEF ControlPlaneRestart
  <2>4. \A n \in Nodes : 1..dialed[n] \subseteq Conns
    BY Bounds DEF TypeOK, TypeAgent, Conns
  <2>5. shut' \in [Nodes -> SUBSET Conns]
    BY <2>4 DEF ControlPlaneRestart
  <2>6. QED
    BY <2>1, <2>3, <2>5 DEF TypeApi
<1>3. TypeHistory'
  <2>1. used' \in UsedType
    BY UsedFields DEF ControlPlaneRestart, UsedType, TypeOK, TypeHistory
  <2>2. QED
    BY <2>1 DEF ControlPlaneRestart, TypeOK, TypeHistory, UsedType
<1>4. TypeAgent' /\ task' \subseteq Tasks
  BY DEF ControlPlaneRestart, TypeOK, TypeAgent, agent
<1>5. QED
  BY <1>1, <1>2, <1>3, <1>4 DEF TypeOK

LEMMA StartupTypes ==
    ASSUME TypeOK, Startup
    PROVE  TypeOK'
<1>0. TypeDb /\ op \in [Ops -> OpType]
  BY TypeParts DEF TypeOK
<1>1. \A o \in Ops : [op[o] EXCEPT !.status = "FAILED"] \in OpType
  BY <1>0 DEF OpType
<1>2. \A kinds : FailInterrupted(kinds) => op' \in [Ops -> OpType]
  BY <1>0, <1>1 DEF FailInterrupted
<1>3. op' \in [Ops -> OpType]
  BY <1>0, <1>2 DEF Startup, NodesOffline, FailInterruptedQualifications, FailInterruptedActions,
                    FailInterruptedMaintenance, ReleaseNodes
<1>4. /\ lifecycle' \in [Nodes -> {"ACTIVE", "MAINTENANCE", "ARCHIVED"}] /\ online' \in [Nodes -> BOOLEAN]
      /\ \E from, to \in Startups : StartupStep(from, to)
  BY <1>0 DEF Startup, NodesOffline, FailInterruptedQualifications, FailInterruptedActions,
              FailInterruptedMaintenance, ReleaseNodes, Startups, TypeDb
<1>5. startup' \in Startups /\ UNCHANGED <<deployment, sockets, phase, shut, inbox, txs, task, agent, history>>
  BY <1>4 DEF StartupStep
<1>6. TypeApi' /\ TypeDb'
  BY <1>0, <1>3, <1>4, <1>5 DEF TypeOK, TypeApi, TypeDb, deployment, OpType
<1>7. QED
  BY <1>5, <1>6 DEF agent, history, excused, TypeOK, TypeHistory, TypeAgent

\* What is read from a connection.
LEMMA ReadHead ==
    ASSUME InboxOK, NEW n \in Nodes, NEW c \in Conns, Reads(n, c), Consume(n, c)
    PROVE  InboxOK' /\ Head(inbox[n][c]) \in Messages
BY ConsumeTypes DEF Reads

LEMMA RecordTypes ==
    ASSUME TypeOK,
           \/ \E n \in Nodes, c \in Conns : BeginRecord(n, c) \/ RecordResult(n, c)
           \/ \E t \in txs : CommitRecord(t)
    PROVE  TypeOK'
<1>0. /\ InboxOK /\ TxsOK /\ TypeApi /\ TypeDb /\ TypeHistory /\ TypeAgent /\ task \subseteq Tasks
      /\ op \in [Ops -> OpType]
  BY TypeParts DEF TypeOK
<1>1. ASSUME NEW n \in Nodes, NEW c \in Conns, BeginRecord(n, c) PROVE TypeOK'
  <2>1. PICK m : m = Head(inbox[n][c])
    OBVIOUS
  <2>2. m \in Messages /\ InboxOK' /\ m.type # "result"
    BY <1>0, <1>1, <2>1, ReadHead DEF BeginRecord
  <2>3. m.dep \in Deployments /\ NewStatus(m) \in Reported
    BY <2>2, MessageFields DEF NewStatus, Reported
  <2>4. \A d \in Deployments : Previous(d) \subseteq Deployments
    BY DEF Previous, Ready
  <2>5. PICK P \in SUBSET Deployments : P = IF NewStatus(m) = "READY" THEN Previous(m.dep) ELSE {}
    BY <2>3, <2>4
  <2>6. txs' = txs \/ txs' = txs \union {[node |-> n, conn |-> c, dep |-> m.dep,
                                          status |-> NewStatus(m), previous |-> P]}
    BY <1>1, <2>1, <2>5 DEF BeginRecord
  <2>7. TxsOK'
    BY <1>0, <2>3, <2>6 DEF TxsOK, TxType
  <2>8. UNCHANGED <<db, startup, sockets, phase, shut, task, agent, history>>
    BY <1>1 DEF BeginRecord
  <2>9. QED
    BY <1>0, <2>2, <2>7, <2>8, TypeParts
       DEF TypeOK, TypeDb, TypeAgent, TypeHistory, db, deployment, agent, history, excused, TypeApi, InboxOK,
           TxsOK, TxType, Reported
<1>2. ASSUME NEW t \in txs, CommitRecord(t) PROVE TypeOK'
  <2>1. t.dep \in Deployments /\ t.status \in Reported
    BY <1>0 DEF TxsOK, TxType
  <2>2. /\ status' \in [Deployments -> Statuses] /\ lease' \in [Deployments -> {"none", "live", "expired"}]
        /\ lost' \subseteq Deployments /\ crossed' \subseteq Deployments /\ txs' \subseteq txs
    BY <1>0, <1>2, <2>1 DEF CommitRecord, TypeDb, TypeHistory, Statuses, Reported
  <2>3. QED
    BY <1>0, <1>2, <2>2 DEF CommitRecord, TypeOK, TypeDb, TypeApi, TypeAgent, TypeHistory, agent, excused
<1>3. ASSUME NEW n \in Nodes, NEW c \in Conns, RecordResult(n, c) PROVE TypeOK'
  <2>1. PICK m : m = Head(inbox[n][c])
    OBVIOUS
  <2>2. m \in Messages /\ InboxOK' /\ m.type = "result"
    BY <1>0, <1>3, <2>1, ReadHead DEF RecordResult
  <2>3. m.op \in Ops
    BY <2>2, MessageFields
  <2>4. ASSUME Complete(m) PROVE op' \in [Ops -> OpType]
    <3>1. PICK x \in {"DONE", "FAILED"} : op' = [op EXCEPT ![m.op].status = x]
      BY <2>4 DEF Complete
    <3>2. [op[m.op] EXCEPT !.status = x] \in OpType
      BY <1>0, <2>3 DEF OpType
    <3>3. QED
      BY <1>0, <2>3, <3>1, <3>2
  <2>5. /\ op' \in [Ops -> OpType] /\ lifecycle' \in [Nodes -> {"ACTIVE", "MAINTENANCE", "ARCHIVED"}]
        /\ online' \in [Nodes -> BOOLEAN] /\ shut' \in [Nodes -> SUBSET Conns]
    <3>1. CASE ~Acceptable(n, m)
      BY <1>0, <1>3, <2>1, <3>1 DEF RecordResult, TypeDb, TypeApi
    <3>2. CASE Acceptable(n, m) /\ (RecordRuntimeAction(m) \/ RecordNodeQualification(m))
      BY <1>0, <2>4, <3>2 DEF RecordRuntimeAction, RecordNodeQualification, TypeDb, TypeApi
    <3>3. CASE Acceptable(n, m) /\ RecordNodeMaintenance(n, c, m)
      BY <1>0, <2>4, <3>3 DEF RecordNodeMaintenance, TypeDb, TypeApi, Release
    <3>4. QED
      BY <1>3, <2>1, <3>1, <3>2, <3>3 DEF RecordResult
  <2>6. UNCHANGED <<deployment, startup, sockets, phase, txs, task, agent, history>>
    BY <1>3 DEF RecordResult
  <2>7. QED
    BY <1>0, <2>2, <2>5, <2>6, TypeParts
       DEF TypeOK, TypeDb, TypeAgent, TypeHistory, deployment, agent, history, excused, TypeApi, InboxOK, OpType
<1>4. QED
  BY <1>1, <1>2, <1>3

\* An Agent dials, hangs up or dies, and recovers its routes.
LEMMA AgentTypes ==
    ASSUME TypeOK, NEW n \in Nodes,
           Heartbeat(n) \/ Drop(n) \/ AgentCrash(n) \/ Reconnect(n)
    PROVE  TypeOK'
<1>0. /\ InboxOK /\ TxsOK /\ TypeApi /\ TypeDb /\ TypeHistory /\ TypeAgent /\ task \subseteq Tasks
  BY TypeParts DEF TypeOK
<1>1. CASE Heartbeat(n)
  BY <1>0, <1>1 DEF Heartbeat, TypeOK, TypeDb, TypeApi, TypeAgent, TypeHistory, deployment, api, agent, history, excused
<1>2. CASE Connect(n)
  <2>1. PICK c \in Conns : c = dialed[n] + 1
    BY <1>2 DEF Connect
  <2>2. /\ dialed' = [dialed EXCEPT ![n] = c] /\ alive' = [alive EXCEPT ![n] = c]
        /\ phase' = [phase EXCEPT ![n][c] = "hello"]
        /\ recovery' = [recovery EXCEPT ![n] = [pc |-> "router", left |-> {}]]
        /\ UNCHANGED <<db, startup, sockets, shut, inbox, txs, task, marked, route, history>>
    BY <1>2, <2>1 DEF Connect
  <2>3. phase' \in [Nodes -> [Conns -> Phases]]
    BY <1>0, <2>2, PhaseSet DEF Phases
  <2>4. TypeAgent'
    BY <1>0, <2>1, <2>2 DEF TypeAgent, Conns
  <2>5. QED
    BY <1>0, <2>2, <2>3, <2>4 DEF TypeOK, TypeDb, TypeApi, TypeHistory, db, deployment, history, excused
<1>3. CASE Drop(n) \/ NoticeClose(n)
  <2>1. Hangup(n) /\ task' \subseteq task /\ UNCHANGED <<marked, history>>
    BY <1>3 DEF Drop, NoticeClose
  <2>2. QED
    BY <1>0, <2>1
       DEF Hangup, TypeOK, TypeDb, TypeApi, TypeAgent, TypeHistory, db, deployment, api, history, excused
<1>4. CASE AgentCrash(n)
  <2>1. PICK M \in SUBSET {t.id : t \in {u \in task : u.node = n /\ u.at = "checking"}} :
            marked' = [marked EXCEPT ![n] = @ \union M]
    BY <1>4 DEF AgentCrash
  <2>2. \A t \in task : t.at = "checking" => t.id \in Deployments
    BY <1>0, TaskFields DEF DeployAt
  <2>3. M \subseteq Deployments
    BY <2>2
  <2>4. marked' \in [Nodes -> SUBSET Deployments]
    BY <1>0, <2>1, <2>3 DEF TypeAgent
  <2>5. used' \in UsedType
    BY <1>0, <1>4, UsedFields DEF AgentCrash, UsedType, TypeHistory
  <2>6. Hangup(n) /\ task' \subseteq task /\ UNCHANGED <<routed, overdue, crossed, excused>>
    BY <1>4 DEF AgentCrash
  <2>7. QED
    BY <1>0, <2>4, <2>5, <2>6
       DEF Hangup, TypeOK, TypeDb, TypeApi, TypeAgent, TypeHistory, db, deployment, api, excused, UsedType
<1>5. CASE RecoverRouter(n)
  <2>1. alive[n] \in Conns
    BY <1>0, <1>5 DEF RecoverRouter, TypeAgent
  <2>2. /\ recovery' \in [Nodes -> [pc : {"router", "report", "served"}, left : SUBSET Deployments]]
        /\ marked' \in [Nodes -> SUBSET Deployments] /\ InboxOK'
    <3>1. CASE marked[n] = {}
      <4>0. \A x \in Services : route[n][x] \in Deployments \union {0}
        BY <1>0 DEF TypeAgent
      <4>1. PICK L \in SUBSET Deployments : L = {route[n][s] : s \in Services} \ {0}
        BY <4>0
      <4>2. recovery' = [recovery EXCEPT ![n] = [pc |-> "report", left |-> L]] /\ UNCHANGED <<inbox, marked>>
        BY <1>5, <3>1, <4>1 DEF RecoverRouter
      <4>3. QED
        BY <1>0, <4>2 DEF TypeAgent, InboxOK
    <3>2. CASE marked[n] # {}
      <4>1. PICK d \in marked[n] :
                /\ marked' = [marked EXCEPT ![n] = @ \ {d}]
                /\ IF route[n][ServiceOf[d]] = d THEN UNCHANGED inbox
                   ELSE Write(n, alive[n], Says(d, "FAILED"))
                /\ UNCHANGED recovery
        BY <1>5, <3>2 DEF RecoverRouter
      <4>2. Says(d, "FAILED") \in Messages
        BY <1>0, MessagesMade DEF TypeAgent, Reported
      <4>3. InboxOK'
        BY <1>0, <2>1, <4>1, <4>2, WriteTypes DEF InboxOK
      <4>4. QED
        BY <1>0, <4>1, <4>3 DEF TypeAgent
    <3>3. QED
      BY <3>1, <3>2
  <2>3. UNCHANGED <<db, startup, sockets, phase, shut, txs, task, dialed, alive, route, history>>
    BY <1>5 DEF RecoverRouter
  <2>4. QED
    BY <1>0, <2>2, <2>3 DEF InboxOK, TypeOK, TypeDb, TypeApi, TypeAgent, TypeHistory, db, deployment, history, excused
<1>6. CASE ReportRoute(n)
  <2>1. alive[n] \in Conns
    BY <1>0, <1>6 DEF ReportRoute, TypeAgent
  <2>2. PICK x : x = recovery[n]
    OBVIOUS
  <2>3. x \in [pc : {"router", "report", "served"}, left : SUBSET Deployments]
    BY <1>0, <2>2 DEF TypeAgent
  <2>4. /\ recovery' \in [Nodes -> [pc : {"router", "report", "served"}, left : SUBSET Deployments]] /\ InboxOK'
    <3>1. CASE x.left = {}
      <4>1. recovery' = [recovery EXCEPT ![n] = [x EXCEPT !.pc = "served"]] /\ UNCHANGED inbox
        BY <1>6, <2>2, <3>1 DEF ReportRoute
      <4>2. [x EXCEPT !.pc = "served"] \in [pc : {"router", "report", "served"}, left : SUBSET Deployments]
        BY <2>3
      <4>3. QED
        BY <1>0, <4>1, <4>2 DEF TypeAgent, InboxOK
    <3>2. CASE x.left # {}
      <4>1. PICK d \in x.left :
                /\ recovery' = [recovery EXCEPT ![n] = [x EXCEPT !.left = x.left \ {d}]]
                /\ Write(n, alive[n], [type |-> "recovered", dep |-> d]) \/ UNCHANGED inbox
        BY <1>6, <2>2, <3>2 DEF ReportRoute
      <4>2. [x EXCEPT !.left = x.left \ {d}] \in [pc : {"router", "report", "served"}, left : SUBSET Deployments]
        BY <2>3
      <4>3. [type |-> "recovered", dep |-> d] \in Messages
        BY <2>3, MessagesMade
      <4>4. InboxOK'
        BY <1>0, <2>1, <4>1, <4>3, WriteTypes DEF InboxOK
      <4>5. QED
        BY <1>0, <4>1, <4>2, <4>4 DEF TypeAgent
    <3>3. QED
      BY <3>1, <3>2
  <2>5. UNCHANGED <<db, startup, sockets, phase, shut, txs, task, dialed, alive, marked, route, history>>
    BY <1>6 DEF ReportRoute
  <2>6. QED
    BY <1>0, <2>4, <2>5 DEF InboxOK, TypeOK, TypeDb, TypeApi, TypeAgent, TypeHistory, db, deployment, history, excused
<1>7. QED
  BY <1>1, <1>2, <1>3, <1>4, <1>5, <1>6 DEF Reconnect

\* What a goroutine of an Agent writes.
LEMMA ProceedTypes ==
    ASSUME InboxOK, task \subseteq Tasks, NEW t, NEW from, NEW to \in DeployAt \union {"end"},
           NEW s \in Reported, Proceed(t, from, to, s)
    PROVE  InboxOK' /\ task' \subseteq Tasks
<1>1. t \in task /\ t \in Tasks /\ t.kind = "deploy"
  BY DEF Proceed
<1>2. t.node \in Nodes /\ t.conn \in Conns /\ t.id \in Deployments
  BY <1>1, TaskFields
<1>3. PICK m \in Messages : m = Says(t.id, s)
  BY <1>2, MessagesMade
<1>4. Write(t.node, t.conn, m) \/ UNCHANGED inbox
  BY <1>3 DEF Proceed
<1>5. InboxOK'
  BY <1>2, <1>4, WriteTypes DEF InboxOK
<1>6. to # "end" => [t EXCEPT !.at = to] \in Tasks
  BY <1>1, TaskFields
<1>7. task' \subseteq (task \ {t}) \union (IF to = "end" THEN {} ELSE {[t EXCEPT !.at = to]})
  BY DEF Proceed
<1>8. QED
  BY <1>5, <1>6, <1>7

LEMMA WorkTypes ==
    ASSUME TypeOK, NEW t \in task, Work(t)
    PROVE  TypeOK'
<1>0. /\ InboxOK /\ TxsOK /\ TypeApi /\ TypeDb /\ TypeHistory /\ TypeAgent /\ task \subseteq Tasks
      /\ t \in Tasks /\ t.node \in Nodes /\ t.conn \in Conns
  BY TypeParts, TaskFields DEF TypeOK
<1>1. ASSUME InboxOK', task' \subseteq Tasks, TypeAgent', routed' \subseteq Deployments,
             UNCHANGED <<db, startup, sockets, phase, shut, txs, overdue, crossed, excused, used>>
      PROVE  TypeOK'
  BY <1>0, <1>1 DEF InboxOK, TypeOK, TypeDb, TypeApi, TypeHistory, db, deployment, excused
<1>2. CASE ReadCommand(t)
  <2>1. task' \subseteq Tasks
    BY <1>0, <1>2, TaskFields DEF ReadCommand
  <2>2. QED
    BY <1>0, <1>1, <1>2, <2>1 DEF ReadCommand, api, agent, history, excused, TypeAgent, TypeHistory, InboxOK
<1>3. ASSUME NEW from, NEW to \in DeployAt \union {"end"}, NEW s \in Reported, Proceed(t, from, to, s)
      PROVE  TypeOK'
  <2>1. UNCHANGED <<db, startup, sockets, phase, shut, txs, agent, history>>
    BY <1>3 DEF Proceed
  <2>2. QED
    BY <1>0, <1>1, <1>3, <2>1, ProceedTypes DEF agent, history, excused, TypeAgent, TypeHistory
<1>4. CASE StartBuild(t) \/ StartRuntime(t) \/ StartHealthcheck(t) \/ ReportReady(t) \/ FailDeployment(t)
  <2>1. \E from, to \in DeployAt \union {"end"}, s \in Reported : Proceed(t, from, to, s)
    BY <1>4 DEF StartBuild, StartRuntime, StartHealthcheck, ReportReady, FailDeployment, DeployAt, Reported, InProgress
  <2>2. QED
    BY <1>3, <2>1
<1>5. CASE SwitchRoute(t)
  <2>1. t.kind = "deploy" /\ t.id \in Deployments /\ [t EXCEPT !.at = "routed"] \in Tasks
    BY <1>0, <1>5, TaskFields DEF SwitchRoute, DeployAt
  <2>2. task' \subseteq Tasks /\ routed' \subseteq Deployments
    BY <1>0, <1>5, <2>1 DEF SwitchRoute, TypeHistory
  <2>3. route' \in [Nodes -> [Services -> Deployments \union {0}]]
    BY <1>0, <1>5, <2>1 DEF SwitchRoute, TypeAgent
  <2>4. QED
    BY <1>0, <1>1, <1>5, <2>2, <2>3 DEF SwitchRoute, TypeAgent, api, InboxOK
<1>6. ASSUME NEW ok \in BOOLEAN, RunOp(t, ok) PROVE TypeOK'
  <2>1. t.id \in Ops
    BY <1>0, <1>6, TaskFields DEF RunOp
  <2>2. PICK m \in Messages : m = [type |-> "result", op |-> t.id, ok |-> ok]
    BY <2>1, MessagesMade
  <2>3. Write(t.node, t.conn, m) \/ UNCHANGED inbox
    BY <1>6, <2>2 DEF RunOp
  <2>4. InboxOK'
    BY <1>0, <2>3, WriteTypes DEF InboxOK
  <2>5. route' \in [Nodes -> [Services -> Deployments \union {0}]]
    BY <1>0, <1>6 DEF RunOp, TypeAgent
  <2>6. QED
    BY <1>0, <1>1, <1>6, <2>4, <2>5 DEF RunOp, TypeAgent, TypeHistory, history
<1>7. QED
  BY <1>2, <1>4, <1>5, <1>6 DEF Work

LEMMA TypeNext ==
    ASSUME TypeOK, [Next]_vars
    PROVE  TypeOK'
<1>1. CASE UNCHANGED vars
  BY <1>1 DEF vars, db, deployment, api, agent, history, excused, TypeOK, TypeDb, TypeApi, TypeAgent, TypeHistory
<1>2. CASE Next
  <2>1. ASSUME NEW n \in Nodes, NEW c \in Conns, Listen(n, c) PROVE TypeOK'
    BY <2>1, ConnTypes, RecordTypes DEF Listen
  <2>2. QED
    BY <1>2, <2>1, OperatorTypes, DispatchTypes, CleanupTypes, WorkTypes, RecordTypes, ConnTypes,
       AgentTypes, RestartTypes, StartupTypes DEF Next
<1>3. QED
  BY <1>1, <1>2

\* Every row, connection, message, command and Agent keeps its type (index.ts).
THEOREM DispatchTypeCorrect == Spec => []TypeOK
BY TypeInit, TypeNext, PTL DEF Spec

-----------------------------------------------------------------------------
(* How each step moves what others know of a deployment *)

Rows == <<status, home, lease, lost, txs, overdue, crossed>>
RowStep ==
    \/ \E d \in Deployments, n \in Nodes : Insert(d, n)
    \/ \E n \in Nodes, c \in Conns : Dispatch(n, c) \/ FailActiveDeployments(n, c) \/ BeginRecord(n, c)
    \/ \E t \in task : FailBeforeDispatch(t) \/ GiveBack(t)
    \/ \E t \in txs : CommitRecord(t)
    \/ \E d \in Deployments : Expire(d)
    \/ ControlPlaneRestart

\* what an operator inserts: a deployment or an action
LEMMA OperatorDoes ==
    ASSUME TypeOK, Operator
    PROVE  \/ \E d \in Deployments, n \in Nodes : Insert(d, n)
           \/ \E o \in Ops, n \in Nodes, c \in Conns :
                 \/ Qualify(o, n, c)
                 \/ \E d \in On(n) : Restart(o, d, c)
                 \/ \E kind \in Maintenance : Maintain(o, n, kind, c)
<1>1. ASSUME NEW d \in Deployments, CreateRollback(d) PROVE \E n \in Nodes : Insert(d, n)
  <2>1. PICK e \in LatestReady(ServiceOf[d]) : Insert(d, home[e])
    BY <1>1 DEF CreateRollback
  <2>2. home[e] \in Nodes
    BY <2>1 DEF TypeOK, TypeDb, LatestReady, Ready
  <2>3. QED
    BY <2>1, <2>2
<1>2. QED
  BY <1>1 DEF Operator, CreateDeployment

\* an action that an operator starts is a command to send, and no deployment
LEMMA OpStarts ==
    ASSUME NEW o \in Ops, NEW n \in Nodes, NEW c \in Conns,
           \/ Qualify(o, n, c)
           \/ \E d \in On(n) : Restart(o, d, c)
           \/ \E kind \in Maintenance : Maintain(o, n, kind, c)
    PROVE  /\ \E t : t.kind # "deploy" /\ task' = task \union {t}
           /\ UNCHANGED <<deployment, online, api, agent, routed, overdue, crossed, orphans, stranded, used>>
<1>1. ASSUME NEW kind, NEW m, NEW d, kind # "deploy", StartOp(o, kind, m, c, d)
      PROVE  /\ \E t : t.kind # "deploy" /\ task' = task \union {t}
             /\ UNCHANGED <<deployment, online, api, agent, routed, overdue, crossed, orphans, stranded, used>>
  <2>1. PICK t : t = [kind |-> kind, id |-> o, try |-> 0, node |-> m, conn |-> c, at |-> "claimed"]
    OBVIOUS
  <2>2. t.kind # "deploy"
    BY <1>1, <2>1
  <2>3. QED
    BY <1>1, <2>1, <2>2 DEF StartOp
<1>2. QED
  BY <1>1 DEF Qualify, Restart, Maintain, Maintenance

\* a control plane that starts writes nothing but actions and nodes
StartupKeeps == UNCHANGED <<deployment, sockets, phase, shut, inbox, txs, task, agent, history>>
LEMMA StartupWrites == Startup => StartupKeeps
BY DEF Startup, NodesOffline, FailInterruptedQualifications, FailInterruptedActions,
       FailInterruptedMaintenance, ReleaseNodes, StartupStep, StartupKeeps

LEMMA RowMoves ==
    ASSUME TypeOK, [Next]_vars
    PROVE  UNCHANGED Rows \/ RowStep
<1> USE DEF Rows, db, deployment, api, agent, history, excused
<1>1. CASE Operator
  BY <1>1, OperatorDoes, OpStarts DEF RowStep
<1>2. ASSUME NEW n \in Nodes, NEW c \in Conns, Cleanup(n, c) PROVE UNCHANGED Rows \/ RowStep
  BY <1>2 DEF Cleanup, CloseEvent, Guard, GoOffline, Advance, FailRunningRuntimeActions,
              FailRunningQualifications, FailRunningNodeMaintenance, ReleaseNode, RowStep
<1>3. ASSUME NEW n \in Nodes, NEW c \in Conns, Listen(n, c) \/ Reject(n, c) PROVE UNCHANGED Rows \/ RowStep
  BY <1>3 DEF Listen, Admit, Open, RecordResult, Reject, RowStep
<1>4. ASSUME NEW t \in task, Send(t) \/ Work(t) PROVE UNCHANGED Rows
  BY <1>4 DEF Send, Work, ReadCommand, StartBuild, StartRuntime, StartHealthcheck, SwitchRoute,
              ReportReady, FailDeployment, Proceed, RunOp
<1>5. ASSUME NEW n \in Nodes, Heartbeat(n) \/ Drop(n) \/ AgentCrash(n) \/ Reconnect(n) PROVE UNCHANGED Rows
  BY <1>5 DEF Heartbeat, Drop, AgentCrash, Hangup, Reconnect, Connect, NoticeClose, RecoverRouter, ReportRoute
<1>6. CASE UNCHANGED vars
  BY <1>6 DEF vars
<1>7. CASE Startup
  BY <1>7, StartupWrites DEF StartupKeeps
<1>8. QED
  BY <1>1, <1>2, <1>3, <1>4, <1>5, <1>6, <1>7 DEF Next, RowStep

\* Commands are claimed by Dispatch and move on from there.
Sends(d) ==
    /\ \E n \in Nodes, c \in Conns : Dispatch(n, c) /\ d \in Dispatchable(n)
    /\ lease' = [lease EXCEPT ![d] = "live"]
Claims(u) == u.at = "claimed" /\ Sends(u.id)
GoesOn(u) ==
    \E t \in task : /\ t \notin task' /\ t.kind = "deploy" /\ t.id = u.id /\ u.at # "claimed"
                    /\ u.at = "routed" => t.at = "checking" /\ u.id \in routed'

LEMMA ProceedMoves ==
    ASSUME task \subseteq Tasks, NEW t, NEW from, NEW to \in {"building", "deploying", "checking", "end"},
           from # to, NEW s \in Reported, Proceed(t, from, to, s), NEW u \in task', u.kind = "deploy"
    PROVE  u \in task \/ GoesOn(u)
<1>1. t \in Tasks /\ t \in task /\ t.kind = "deploy"
  BY DEF Proceed
<1>2. CASE u \notin task
  <2>1. to # "end" /\ u = [t EXCEPT !.at = to]
    BY <1>2 DEF Proceed
  <2>2. u.kind = t.kind /\ u.id = t.id /\ u.at = to
    BY <1>1, <2>1, TaskFields
  <2>3. t \notin task'
    BY <1>1, <2>1, <2>2 DEF Proceed
  <2>4. QED
    BY <1>1, <2>1, <2>2, <2>3 DEF GoesOn
<1>3. QED
  BY <1>2

LEMMA TaskMoves ==
    ASSUME TypeOK, [Next]_vars, NEW u \in task', u.kind = "deploy"
    PROVE  u \in task \/ Claims(u) \/ GoesOn(u)
<1> USE DEF db, api, agent, history, excused
<1>0. task \subseteq Tasks
  BY DEF TypeOK
<1>1. CASE Operator
  <2>1. CASE \E d \in Deployments, n \in Nodes : Insert(d, n)
    BY <2>1 DEF Insert
  <2>2. CASE \E t : t.kind # "deploy" /\ task' = task \union {t}
    BY <2>2
  <2>3. QED
    BY <1>1, <2>1, <2>2, OperatorDoes, OpStarts
<1>2. ASSUME NEW n \in Nodes, NEW c \in Conns, Dispatch(n, c) PROVE u \in task \/ Claims(u)
  <2>1. PICK d \in Dispatchable(n), k \in Tries :
            /\ lease' = [lease EXCEPT ![d] = "live"]
            /\ task' = task \union {[kind |-> "deploy", id |-> d, try |-> k, node |-> n,
                                     conn |-> c, at |-> "claimed"]}
    BY <1>2 DEF Dispatch
  <2>2. PICK t : t = [kind |-> "deploy", id |-> d, try |-> k, node |-> n, conn |-> c, at |-> "claimed"]
    OBVIOUS
  <2>3. t.id = d /\ t.at = "claimed"
    BY <2>2
  <2>4. u \in task \/ u = t
    BY <2>1, <2>2
  <2>5. QED
    BY <1>2, <2>1, <2>3, <2>4 DEF Claims, Sends
<1>3. ASSUME NEW n \in Nodes, NEW c \in Conns, Cleanup(n, c) \/ Listen(n, c) \/ Reject(n, c) PROVE u \in task
  BY <1>3 DEF Cleanup, CloseEvent, Guard, GoOffline, Advance, FailActiveDeployments, FailRunningRuntimeActions,
              FailRunningQualifications, FailRunningNodeMaintenance, ReleaseNode, Listen, Admit, Open, BeginRecord,
              RecordResult, Reject
<1>4. ASSUME NEW t \in task, FailBeforeDispatch(t) \/ GiveBack(t) PROVE u \in task
  BY <1>4 DEF FailBeforeDispatch, GiveBack
<1>5. ASSUME NEW t \in task, Send(t) \/ ReadCommand(t) PROVE u \in task \/ GoesOn(u)
  <2>1. PICK x \in {"wire", "waiting"} :
            (u \in task \/ u = [t EXCEPT !.at = x]) /\ task' \subseteq (task \ {t}) \union {[t EXCEPT !.at = x]} /\ t.at # x
    BY <1>5 DEF Send, ReadCommand
  <2>2. PICK v : v = [t EXCEPT !.at = x]
    OBVIOUS
  <2>3. v.kind = t.kind /\ v.id = t.id /\ v.at = x
    BY <1>0, <2>2, TaskFields
  <2>4. t \notin task'
    BY <2>1, <2>2, <2>3
  <2>5. QED
    BY <2>1, <2>2, <2>3, <2>4 DEF GoesOn
<1>6. ASSUME NEW t \in task,
             StartBuild(t) \/ StartRuntime(t) \/ StartHealthcheck(t) \/ ReportReady(t) \/ FailDeployment(t)
      PROVE  u \in task \/ GoesOn(u)
  <2>1. \E from \in DeployAt, to \in {"building", "deploying", "checking", "end"}, s \in Reported :
            from # to /\ Proceed(t, from, to, s)
    BY <1>6 DEF StartBuild, StartRuntime, StartHealthcheck, ReportReady, FailDeployment, DeployAt, Reported, InProgress
  <2>2. QED
    BY <1>0, <2>1, ProceedMoves
<1>7. ASSUME NEW t \in task, SwitchRoute(t) PROVE u \in task \/ GoesOn(u)
  <2>1. PICK v : v = [t EXCEPT !.at = "routed"]
    OBVIOUS
  <2>2. v.kind = t.kind /\ v.id = t.id /\ v.at = "routed"
    BY <1>0, <2>1, TaskFields
  <2>3. t.at = "checking" /\ task' = (task \ {t}) \union {v} /\ t.id \in routed'
    BY <1>7, <2>1 DEF SwitchRoute
  <2>4. t \notin task'
    BY <2>2, <2>3
  <2>5. QED
    BY <2>2, <2>3, <2>4 DEF GoesOn
<1>8. ASSUME NEW t \in task, NEW ok \in BOOLEAN, RunOp(t, ok) PROVE u \in task
  BY <1>8 DEF RunOp
<1>9. ASSUME NEW n \in Nodes, Heartbeat(n) \/ Drop(n) \/ AgentCrash(n) \/ Reconnect(n) PROVE u \in task
  BY <1>9 DEF Heartbeat, Drop, AgentCrash, Reconnect, Connect, NoticeClose, RecoverRouter, ReportRoute
<1>10. (\E t \in txs : CommitRecord(t)) \/ (\E d \in Deployments : Expire(d)) \/ ControlPlaneRestart
       \/ UNCHANGED vars \/ Startup => u \in task
  BY StartupWrites DEF CommitRecord, Expire, ControlPlaneRestart, vars, StartupKeeps
<1>11. QED
  BY <1>1, <1>2, <1>3, <1>4, <1>5, <1>6, <1>7, <1>8, <1>9, <1>10 DEF Next, Work

-----------------------------------------------------------------------------
(* The inductive invariant, in parts *)

Heard(m) == \E n \in Nodes, c \in Conns : \E i \in DOMAIN inbox[n][c] : inbox[n][c][i] = m
Unasked(d) == \A t \in task : t.kind = "deploy" => t.id # d
Unspoken(d) == \A m \in Messages : m.type # "result" /\ m.dep = d => ~Heard(m)
Clean(d) ==
    /\ \A t \in txs : t.dep # d
    /\ Unspoken(d)
    /\ \A n \in Nodes : d \notin marked[n] /\ d \notin recovery[n].left
    /\ \A n \in Nodes, s \in Services : route[n][s] # d

\* Whatever says READY of a deployment comes after its route was committed.
Announces(m) == m.type = "recovered" \/ (m.type = "status" /\ m.status = "READY")
RoutesFirst ==
    /\ ReadyWasRouted
    /\ \A m \in Messages : Heard(m) /\ Announces(m) => m.dep \in routed
    /\ \A t \in txs : t.status = "READY" => t.dep \in routed
    /\ \A t \in task : t.at = "routed" => t.id \in routed
    /\ \A n \in Nodes : recovery[n].left \subseteq routed
    /\ \A n \in Nodes, s \in Services : route[n][s] \in routed \union {0}

\* What a transaction read stays true until it commits, but for the other READYs.
TxHolds(t) ==
    /\ t.dep \notin t.previous
    /\ t.status \in InProgress => status[t.dep] \in InProgress \union {"QUEUED"}
    /\ status[t.dep] = "FAILED" /\ t.dep \notin lost => t.status = "FAILED"
    /\ status[t.dep] # "none"
    /\ \A e \in t.previous : status[e] = "READY"
    /\ t.status = "READY" => Ready(ServiceOf[t.dep]) \subseteq {t.dep} \union t.previous \union crossed
Rowset(t) == {t.dep} \union t.previous
TxInv ==
    /\ \A t \in txs : TxHolds(t)
    /\ \A t, u \in txs : t # u => Rowset(t) \intersect Rowset(u) = {}
    /\ OneReady

\* What waits has not been sent; what was claimed once is known to its sender only.
Waits(d) ==
    \/ status[d] = "none"
    \/ status[d] = "QUEUED" /\ (Running(home[d], {"restart"}) # {} \/ lifecycle[home[d]] = "MAINTENANCE")
Claimed(d) == \E t \in task : t.kind = "deploy" /\ t.id = d /\ t.at = "claimed"
OneClaim(d) ==
    /\ Clean(d)
    /\ \A t, u \in task : t.kind = "deploy" /\ u.kind = "deploy" /\ t.id = d /\ u.id = d => t = u
Unsent(d) ==
    /\ Waits(d) => Fresh(d)
    /\ status[d] = "QUEUED" /\ d \notin overdue =>
          /\ lease[d] # "expired"
          /\ lease[d] = "none" => Fresh(d)
          /\ lease[d] = "live" /\ Claimed(d) => OneClaim(d)
UnsentInv == \A d \in Deployments : Unsent(d)

\* One maintenance action at a time, and its node in MAINTENANCE, but for one that
\* slipped.  A close handler that found none RUNNING releases the node later: who
\* started since has slipped.  A control plane that starts has no connections, so
\* that no action begins between its last two updates.
Quiet(n) == \A c \in Conns : phase[n][c] \in {"none", "refused"}
Releasing(n) == \E c \in Conns : phase[n][c] = "release"
Alone(n) ==
    /\ startup = "up" /\ lifecycle[n] = "MAINTENANCE" => Running(n, Maintenance) # {}
    /\ Running(n, Maintenance) \subseteq slipped \/ lifecycle[n] = "MAINTENANCE"
    /\ Releasing(n) => Running(n, Maintenance) \subseteq slipped
    /\ \A o, p \in Running(n, Maintenance) : o = p
    /\ startup # "up" => Quiet(n)
    /\ startup = "lifecycle" => Running(n, Maintenance) = {}
Still(n) ==
    Running(n, {"restart"}) # {} \/ lifecycle[n] = "MAINTENANCE" => ~\E d \in On(n) : InFlight(d)
StillInv == \A n \in Nodes : Still(n)

DispatchInv ==
    TypeOK /\ RoutesFirst /\ TxInv /\ UnsentInv /\ OneInFlight /\ StillInv /\ \A n \in Nodes : Alone(n)

-----------------------------------------------------------------------------
(* Messages, markers, routes and transactions of a deployment come from its  *)
(* commands                                                                  *)

\* what a goroutine or the recovery of an Agent can say next
Stems(m) ==
    \/ \E t \in task : /\ t.kind = "deploy" /\ t.id = m.dep /\ t.at \notin {"claimed", "wire"}
                       /\ m.type = "status" /\ (m.status = "READY" => t.at = "routed")
    \/ \E n \in Nodes : m.dep \in marked[n] /\ m.type = "status" /\ m.status = "FAILED"
    \/ \E n \in Nodes : m.dep \in recovery[n].left /\ m.type = "recovered"

LEMMA HeardLess ==
    ASSUME InboxOK, NEW n \in Nodes, NEW c \in Conns, NEW q,
           q = <<>> \/ (inbox[n][c] # <<>> /\ q = Tail(inbox[n][c])),
           inbox' = [inbox EXCEPT ![n][c] = q], NEW m, Heard(m)'
    PROVE  Heard(m)
<1>1. PICK k \in Nodes, x \in Conns : \E i \in DOMAIN inbox'[k][x] : inbox'[k][x][i] = m
  BY DEF Heard
<1>2. PICK i \in DOMAIN inbox'[k][x] : inbox'[k][x][i] = m
  BY <1>1
<1>3. CASE k = n /\ x = c
  <2>1. inbox'[n][c] = q
    BY DEF InboxOK
  <2>2. q # <<>>
    BY <1>2, <1>3, <2>1
  <2>3. inbox[n][c] \in Seq(Messages) /\ inbox[n][c] # <<>> /\ q = Tail(inbox[n][c])
    BY <2>2 DEF InboxOK
  <2>4. PICK p \in Seq(Messages) : p = inbox[n][c] /\ p # <<>> /\ q = Tail(p)
    BY <2>3
  <2>5. q \in Seq(Messages) /\ Len(q) = Len(p) - 1 /\ \A j \in 1 .. Len(q) : q[j] = p[j + 1]
    BY <2>4, HeadTailProperties
  <2>6. i \in 1 .. Len(q) /\ Len(p) \in Nat /\ DOMAIN p = 1 .. Len(p)
    BY <1>2, <1>3, <2>1, <2>4, <2>5, LenProperties
  <2>7. i + 1 \in DOMAIN p /\ q[i] = p[i + 1]
    BY <2>5, <2>6
  <2>8. QED
    BY <1>2, <1>3, <2>1, <2>4, <2>7 DEF Heard
<1>4. CASE ~(k = n /\ x = c)
  <2>1. inbox'[k][x] = inbox[k][x]
    BY <1>4 DEF InboxOK
  <2>2. QED
    BY <1>2, <2>1 DEF Heard
<1>5. QED
  BY <1>3, <1>4

LEMMA HeardMore ==
    ASSUME InboxOK, NEW n \in Nodes, NEW c \in Conns, NEW x \in Messages, Write(n, c, x), NEW m, Heard(m)'
    PROVE  Heard(m) \/ m = x
<1>1. CASE UNCHANGED inbox
  BY <1>1 DEF Heard
<1>2. CASE inbox' = [inbox EXCEPT ![n][c] = Append(@, x)]
  <2>1. PICK k \in Nodes, y \in Conns : \E i \in DOMAIN inbox'[k][y] : inbox'[k][y][i] = m
    BY DEF Heard
  <2>2. PICK i \in DOMAIN inbox'[k][y] : inbox'[k][y][i] = m
    BY <2>1
  <2>3. CASE k = n /\ y = c
    <3>1. inbox'[n][c] = Append(inbox[n][c], x) /\ inbox[n][c] \in Seq(Messages)
      BY <1>2 DEF InboxOK
    <3>2. i \in 1 .. Len(inbox[n][c]) \union {Len(inbox[n][c]) + 1}
      BY <2>2, <2>3, <3>1, AppendProperties, LenProperties
    <3>3. CASE i \in 1 .. Len(inbox[n][c])
      BY <2>2, <2>3, <3>1, <3>3, AppendProperties, LenProperties DEF Heard
    <3>4. CASE i = Len(inbox[n][c]) + 1
      BY <2>2, <2>3, <3>1, <3>4, AppendProperties
    <3>5. QED
      BY <3>2, <3>3, <3>4
  <2>4. CASE ~(k = n /\ y = c)
    <3>1. inbox'[k][y] = inbox[k][y]
      BY <1>2, <2>4 DEF InboxOK
    <3>2. QED
      BY <2>2, <3>1 DEF Heard
  <2>5. QED
    BY <2>3, <2>4
<1>3. QED
  BY <1>1, <1>2 DEF Write

LEMMA ProceedSays ==
    ASSUME InboxOK, task \subseteq Tasks, NEW t, NEW from, from \notin {"claimed", "wire"}, NEW to, NEW s \in Reported,
           s = "READY" => from = "routed", Proceed(t, from, to, s),
           NEW m \in Messages, m.type # "result", Heard(m)'
    PROVE  Heard(m) \/ Stems(m)
<1>1. t \in task /\ t \in Tasks /\ t.kind = "deploy" /\ t.at = from
  BY DEF Proceed
<1>2. t.node \in Nodes /\ t.conn \in Conns /\ t.id \in Deployments
  BY <1>1, TaskFields
<1>3. PICK x \in Messages : x = Says(t.id, s) /\ x.type = "status" /\ x.dep = t.id /\ x.status = s
  BY <1>2, MessagesMade
<1>4. CASE UNCHANGED inbox
  BY <1>4 DEF Heard
<1>5. CASE Write(t.node, t.conn, x)
  <2>1. Heard(m) \/ m = x
    BY <1>2, <1>5, HeardMore
  <2>2. QED
    BY <1>1, <1>3, <2>1 DEF Stems
<1>6. QED
  BY <1>3, <1>4, <1>5 DEF Proceed

\* No Agent speaks of a deployment but from a command that reached it, from a
\* marker or from a route that it recovers.
LEMMA HeardMoves ==
    ASSUME TypeOK, [Next]_vars, NEW m \in Messages, m.type # "result", Heard(m)'
    PROVE  Heard(m) \/ Stems(m)
<1> USE DEF db, api, agent, history, excused
<1>0. InboxOK /\ TypeAgent /\ TypeApi /\ task \subseteq Tasks
  BY TypeParts DEF TypeOK
<1>1. UNCHANGED inbox => Heard(m)
  BY DEF Heard
<1>2. CASE Operator
  <2>1. UNCHANGED inbox
    BY <1>2, OperatorDoes, OpStarts DEF Insert
  <2>2. QED
    BY <1>1, <2>1
<1>3. ASSUME NEW n \in Nodes, NEW c \in Conns, Dispatch(n, c) PROVE UNCHANGED inbox
  BY <1>3 DEF Dispatch
<1>4. ASSUME NEW n \in Nodes, NEW c \in Conns, Reject(n, c) \/ CloseEvent(n, c) PROVE Heard(m)
  <2>1. inbox' = [inbox EXCEPT ![n][c] = <<>>]
    BY <1>4 DEF Reject, CloseEvent
  <2>2. QED
    BY <1>0, <2>1, HeardLess
<1>5. ASSUME NEW n \in Nodes, NEW c \in Conns, Cleanup(n, c), ~CloseEvent(n, c) PROVE UNCHANGED inbox
  BY <1>5 DEF Cleanup, Guard, GoOffline, Advance, FailActiveDeployments, FailRunningRuntimeActions,
              FailRunningQualifications, FailRunningNodeMaintenance, ReleaseNode
<1>6. ASSUME NEW n \in Nodes, NEW c \in Conns, Admit(n, c) PROVE UNCHANGED inbox
  BY <1>6 DEF Admit
<1>7. ASSUME NEW n \in Nodes, NEW c \in Conns, Open(n, c) PROVE Heard(m)
  <2>1. CASE sockets[n] = 0
    BY <1>1, <1>7, <2>1 DEF Open
  <2>2. CASE sockets[n] # 0
    <3>1. PICK p \in Conns : p = sockets[n]
      BY <1>0, <2>2 DEF TypeApi
    <3>2. inbox' = [inbox EXCEPT ![n][p] = <<>>]
      BY <1>7, <2>2, <3>1 DEF Open
    <3>3. QED
      BY <1>0, <3>2, HeardLess
  <2>3. QED
    BY <2>1, <2>2
<1>8. ASSUME NEW n \in Nodes, NEW c \in Conns, BeginRecord(n, c) \/ RecordResult(n, c) PROVE Heard(m)
  <2>1. inbox[n][c] # <<>> /\ inbox' = [inbox EXCEPT ![n][c] = Tail(@)]
    BY <1>8 DEF BeginRecord, RecordResult, Reads, Consume
  <2>2. QED
    BY <1>0, <2>1, HeardLess
<1>9. ASSUME NEW t \in task, FailBeforeDispatch(t) \/ GiveBack(t) \/ Send(t) \/ ReadCommand(t) \/ SwitchRoute(t)
      PROVE  UNCHANGED inbox
  BY <1>9 DEF FailBeforeDispatch, GiveBack, Send, ReadCommand, SwitchRoute
<1>10. ASSUME NEW t \in task,
              StartBuild(t) \/ StartRuntime(t) \/ StartHealthcheck(t) \/ ReportReady(t) \/ FailDeployment(t)
       PROVE  Heard(m) \/ Stems(m)
  <2>1. \E from \in DeployAt \ {"claimed", "wire"}, to \in DeployAt \union {"end"}, s \in Reported :
            (s = "READY" => from = "routed") /\ Proceed(t, from, to, s)
    BY <1>10 DEF StartBuild, StartRuntime, StartHealthcheck, ReportReady, FailDeployment, DeployAt, Reported, InProgress
  <2>2. QED
    BY <1>0, <2>1, ProceedSays
<1>11. ASSUME NEW t \in task, NEW ok \in BOOLEAN, RunOp(t, ok) PROVE Heard(m)
  <2>1. t \in Tasks /\ t.node \in Nodes /\ t.conn \in Conns /\ t.id \in Ops
    BY <1>0, <1>11, TaskFields DEF RunOp
  <2>2. PICK x \in Messages : x = [type |-> "result", op |-> t.id, ok |-> ok] /\ x.type = "result"
    BY <2>1, MessagesMade
  <2>3. Write(t.node, t.conn, x) \/ UNCHANGED inbox
    BY <1>11, <2>2 DEF RunOp
  <2>4. QED
    BY <1>0, <1>1, <2>1, <2>2, <2>3, HeardMore
<1>12. ASSUME NEW n \in Nodes, Heartbeat(n) \/ Drop(n) \/ AgentCrash(n) \/ Connect(n) \/ NoticeClose(n)
       PROVE  UNCHANGED inbox
  BY <1>12 DEF Heartbeat, Drop, AgentCrash, Hangup, Connect, NoticeClose
<1>13. ASSUME NEW n \in Nodes, RecoverRouter(n) PROVE Heard(m) \/ Stems(m)
  <2>1. alive[n] \in Conns
    BY <1>0, <1>13 DEF RecoverRouter, TypeAgent
  <2>2. CASE UNCHANGED inbox
    BY <1>1, <2>2
  <2>3. CASE \E d \in marked[n] : Write(n, alive[n], Says(d, "FAILED"))
    <3>1. PICK d \in marked[n] : Write(n, alive[n], Says(d, "FAILED"))
      BY <2>3
    <3>2. d \in Deployments
      BY <1>0 DEF TypeAgent
    <3>3. PICK x \in Messages : x = Says(d, "FAILED") /\ x.type = "status" /\ x.dep = d /\ x.status = "FAILED"
      BY <3>2, MessagesMade DEF Reported
    <3>4. Heard(m) \/ m = x
      BY <1>0, <2>1, <3>1, <3>3, HeardMore
    <3>5. QED
      BY <3>3, <3>4 DEF Stems
  <2>4. QED
    BY <1>13, <2>2, <2>3 DEF RecoverRouter
<1>14. ASSUME NEW n \in Nodes, ReportRoute(n) PROVE Heard(m) \/ Stems(m)
  <2>1. alive[n] \in Conns
    BY <1>0, <1>14 DEF ReportRoute, TypeAgent
  <2>2. CASE UNCHANGED inbox
    BY <1>1, <2>2
  <2>3. CASE \E d \in recovery[n].left : Write(n, alive[n], [type |-> "recovered", dep |-> d])
    <3>1. PICK d \in recovery[n].left : Write(n, alive[n], [type |-> "recovered", dep |-> d])
      BY <2>3
    <3>2. d \in Deployments
      BY <1>0 DEF TypeAgent
    <3>3. PICK x \in Messages : x = [type |-> "recovered", dep |-> d] /\ x.type = "recovered" /\ x.dep = d
      BY <3>2, MessagesMade
    <3>4. Heard(m) \/ m = x
      BY <1>0, <2>1, <3>1, <3>3, HeardMore
    <3>5. QED
      BY <3>3, <3>4 DEF Stems
  <2>4. QED
    BY <1>14, <2>2, <2>3 DEF ReportRoute
<1>15. CASE ControlPlaneRestart
  <2>1. \A n \in Nodes, c \in Conns : inbox'[n][c] = <<>>
    BY <1>15 DEF ControlPlaneRestart
  <2>2. QED
    BY <2>1 DEF Heard
<1>16. (\E t \in txs : CommitRecord(t)) \/ (\E d \in Deployments : Expire(d)) \/ UNCHANGED vars \/ Startup
       => UNCHANGED inbox
  BY StartupWrites DEF CommitRecord, Expire, vars, StartupKeeps
<1>17. QED
  BY <1>1, <1>2, <1>3, <1>4, <1>5, <1>6, <1>7, <1>8, <1>9, <1>10, <1>11, <1>12, <1>13, <1>14, <1>15, <1>16
     DEF Next, Work, Listen, Cleanup, Reconnect

\* No Agent marks, routes or recovers a deployment but from a command that
\* switched to it, or from its own routes.
LEMMA AgentMoves ==
    ASSUME TypeOK, [Next]_vars, NEW n \in Nodes
    PROVE  /\ \A d \in marked'[n] : d \in marked[n] \/ \E t \in task : t.at = "checking" /\ t.id = d
           /\ \A d \in recovery'[n].left : d \in recovery[n].left \/ \E s \in Services : route[n][s] = d
           /\ \A s \in Services : \/ route'[n][s] \in {route[n][s], 0}
                                  \/ \E t \in task : t.at = "checking" /\ t.id = route'[n][s] /\ t.id \in routed'
           /\ routed \subseteq routed'
<1> USE DEF db, api, agent, history, excused
<1>0. TypeAgent /\ task \subseteq Tasks
  BY DEF TypeOK
<1> DEFINE M == \A d \in marked'[n] : d \in marked[n] \/ \E t \in task : t.at = "checking" /\ t.id = d
           L == \A d \in recovery'[n].left : d \in recovery[n].left \/ \E s \in Services : route[n][s] = d
           R == \A s \in Services : \/ route'[n][s] \in {route[n][s], 0}
                                    \/ \E t \in task : t.at = "checking" /\ t.id = route'[n][s] /\ t.id \in routed'
           G == M /\ L /\ R /\ routed \subseteq routed'
           Same == UNCHANGED <<recovery, marked, route, routed>>
<1>1. Same => G
  OBVIOUS
<1>2. CASE Operator
  BY <1>2, OperatorDoes, OpStarts DEF Insert
<1>3. ASSUME NEW k \in Nodes, NEW c \in Conns, Dispatch(k, c) \/ Cleanup(k, c) \/ Listen(k, c) \/ Reject(k, c)
      PROVE  Same
  BY <1>3 DEF Dispatch, Cleanup, CloseEvent, Guard, GoOffline, Advance, FailActiveDeployments, FailRunningRuntimeActions,
              FailRunningQualifications, FailRunningNodeMaintenance, ReleaseNode, Listen, Admit, Open, BeginRecord,
              RecordResult, Reject
<1>4. ASSUME NEW t \in task, FailBeforeDispatch(t) \/ GiveBack(t) \/ Send(t) \/ ReadCommand(t) PROVE Same
  BY <1>4 DEF FailBeforeDispatch, GiveBack, Send, ReadCommand
<1>5. ASSUME NEW t \in task,
             StartBuild(t) \/ StartRuntime(t) \/ StartHealthcheck(t) \/ ReportReady(t) \/ FailDeployment(t)
      PROVE  Same
  BY <1>5 DEF StartBuild, StartRuntime, StartHealthcheck, ReportReady, FailDeployment, Proceed
<1>6. ASSUME NEW t \in task, SwitchRoute(t) PROVE G
  <2>1. /\ t.at = "checking" /\ route' = [route EXCEPT ![t.node][ServiceOf[t.id]] = t.id]
        /\ routed' = routed \union {t.id} /\ UNCHANGED <<recovery, marked>>
    BY <1>6 DEF SwitchRoute
  <2>2. ASSUME NEW s \in Services PROVE route'[n][s] \in {route[n][s], t.id}
    <3>1. route[t.node] \in [Services -> Deployments \union {0}] \/ t.node \notin Nodes
      BY <1>0 DEF TypeAgent
    <3>2. route'[n] = IF n = t.node THEN [route[n] EXCEPT ![ServiceOf[t.id]] = t.id] ELSE route[n]
      BY <1>0, <2>1 DEF TypeAgent
    <3>3. QED
      BY <3>1, <3>2
  <2>3. QED
    BY <2>1, <2>2
<1>7. ASSUME NEW t \in task, NEW ok \in BOOLEAN, RunOp(t, ok) PROVE G
  <2>1. route' \in {route, [route EXCEPT ![t.node] = [s \in Services |-> 0]]} /\ UNCHANGED <<recovery, marked, routed>>
    BY <1>7 DEF RunOp
  <2>2. ASSUME NEW s \in Services PROVE route'[n][s] \in {route[n][s], 0}
    <3>1. CASE route' = route
      BY <3>1
    <3>2. CASE route' = [route EXCEPT ![t.node] = [x \in Services |-> 0]]
      <4>1. route'[n] = IF n = t.node THEN [x \in Services |-> 0] ELSE route[n]
        BY <1>0, <3>2 DEF TypeAgent
      <4>2. QED
        BY <4>1
    <3>3. QED
      BY <2>1, <3>1, <3>2
  <2>3. QED
    BY <2>1, <2>2
<1>8. ASSUME NEW k \in Nodes, Heartbeat(k) \/ Drop(k) \/ NoticeClose(k) PROVE Same
  BY <1>8 DEF Heartbeat, Drop, NoticeClose, Hangup
<1>9. ASSUME NEW k \in Nodes, Connect(k) PROVE G
  <2>1. recovery' = [recovery EXCEPT ![k] = [pc |-> "router", left |-> {}]] /\ UNCHANGED <<marked, route, routed>>
    BY <1>9 DEF Connect
  <2>2. recovery'[n] = recovery[n] \/ recovery'[n] = [pc |-> "router", left |-> {}]
    BY <1>0, <2>1 DEF TypeAgent
  <2>3. \A d \in recovery'[n].left : d \in recovery[n].left
    BY <2>2
  <2>4. QED
    BY <2>1, <2>3
<1>10. ASSUME NEW k \in Nodes, AgentCrash(k) PROVE G
  <2>1. PICK m \in SUBSET {t.id : t \in {u \in task : u.node = k /\ u.at = "checking"}} :
            marked' = [marked EXCEPT ![k] = @ \union m]
    BY <1>10 DEF AgentCrash
  <2>2. \A d \in m : \E t \in task : t.at = "checking" /\ t.id = d
    BY <2>1
  <2>3. marked'[n] \subseteq marked[n] \union m
    BY <1>0, <2>1 DEF TypeAgent
  <2>4. UNCHANGED <<recovery, route, routed>>
    BY <1>10 DEF AgentCrash, Hangup
  <2>5. QED
    BY <2>2, <2>3, <2>4
<1>11. ASSUME NEW k \in Nodes, RecoverRouter(k) PROVE G
  <2>1. marked'[n] \subseteq marked[n]
    BY <1>0, <1>11 DEF RecoverRouter, TypeAgent
  <2>2. recovery'[n] = recovery[n] \/ (n = k /\ recovery'[n] = [pc |-> "report", left |-> {route[k][s] : s \in Services} \ {0}])
    BY <1>0, <1>11 DEF RecoverRouter, TypeAgent
  <2>3. L
    BY <2>2
  <2>4. UNCHANGED <<route, routed>>
    BY <1>11 DEF RecoverRouter
  <2>5. QED
    BY <2>1, <2>3, <2>4
<1>12. ASSUME NEW k \in Nodes, ReportRoute(k) PROVE G
  <2>1. PICK x : x = recovery[k] /\ x \in [pc : {"router", "report", "served"}, left : SUBSET Deployments]
    BY <1>0 DEF TypeAgent
  <2>2. \/ recovery' = [recovery EXCEPT ![k] = [x EXCEPT !.pc = "served"]]
        \/ \E d \in x.left : recovery' = [recovery EXCEPT ![k] = [x EXCEPT !.left = x.left \ {d}]]
    BY <1>12, <2>1 DEF ReportRoute
  <2>3. /\ [x EXCEPT !.pc = "served"].left = x.left
        /\ \A d \in x.left : [x EXCEPT !.left = x.left \ {d}].left = x.left \ {d}
    BY <2>1
  <2>4. PICK y : recovery' = [recovery EXCEPT ![k] = y] /\ y.left \subseteq x.left
    BY <2>2, <2>3
  <2>5. recovery'[n] = recovery[n] \/ (n = k /\ recovery'[n] = y)
    BY <1>0, <2>4 DEF TypeAgent
  <2>6. \A d \in recovery'[n].left : d \in recovery[n].left
    BY <2>1, <2>4, <2>5
  <2>7. UNCHANGED <<marked, route, routed>>
    BY <1>12 DEF ReportRoute
  <2>8. QED
    BY <2>6, <2>7
<1>13. (\E t \in txs : CommitRecord(t)) \/ (\E d \in Deployments : Expire(d)) \/ ControlPlaneRestart
       \/ UNCHANGED vars \/ Startup => Same
  BY StartupWrites DEF CommitRecord, Expire, ControlPlaneRestart, vars, StartupKeeps
<1>14. G
  BY <1>1, <1>2, <1>3, <1>4, <1>5, <1>6, <1>7, <1>8, <1>9, <1>10, <1>11, <1>12, <1>13
     DEF Next, Work, Reconnect
<1>15. QED
  BY <1>14

\* what a transaction records when it begins (recordStatus, recordRuntimeRecovery)
Begins(t, m) ==
    /\ m.type # "result" /\ Heard(m) /\ Accepted(m) /\ m.dep = t.dep
    /\ t.status = NewStatus(m)
    /\ t.previous = IF t.status = "READY" THEN Previous(t.dep) ELSE {}
    /\ Rowset(t) \intersect Locked = {}
    /\ txs' = txs \union {t} /\ UNCHANGED <<db, history>>

LEMMA TxMade ==
    ASSUME NEW n, NEW c, NEW d, NEW s, NEW P,
           NEW t, t = [node |-> n, conn |-> c, dep |-> d, status |-> s, previous |-> P]
    PROVE  t.dep = d /\ t.status = s /\ t.previous = P
OBVIOUS

LEMMA TxMoves ==
    ASSUME TypeOK, [Next]_vars
    PROVE  \/ txs' \subseteq txs
           \/ \E t \in txs', m \in Messages : Begins(t, m)
<1>0. InboxOK
  BY TypeParts DEF TypeOK
<1>1. CASE \E n \in Nodes, c \in Conns : BeginRecord(n, c)
  <2>1. PICK n \in Nodes, c \in Conns : BeginRecord(n, c)
    BY <1>1
  <2>2. PICK m : m = Head(inbox[n][c])
    OBVIOUS
  <2>3. m \in Messages /\ inbox[n][c] # <<>> /\ inbox[n][c] \in Seq(Messages)
    BY <1>0, <2>1, <2>2, ReadHead DEF BeginRecord, Reads, InboxOK
  <2>4. 1 \in DOMAIN inbox[n][c] /\ inbox[n][c][1] = m
    BY <2>2, <2>3, HeadTailProperties, LenProperties, EmptySeq
  <2>5. Heard(m)
    BY <2>4 DEF Heard
  <2>6. PICK s, P : s = NewStatus(m) /\ P = IF s = "READY" THEN Previous(m.dep) ELSE {}
    OBVIOUS
  <2>7. PICK t : t = [node |-> n, conn |-> c, dep |-> m.dep, status |-> s, previous |-> P]
    OBVIOUS
  <2>8. t.dep = m.dep /\ t.status = s /\ t.previous = P
    BY <2>7, TxMade
  <2>9. CASE UNCHANGED txs
    BY <2>9
  <2>10. CASE home[m.dep] = n /\ Accepted(m)
    <3>1. /\ m.type # "result" /\ m.dep \notin Locked /\ P \intersect Locked = {} /\ txs' = txs \union {t}
          /\ UNCHANGED <<db, history>>
      BY <2>1, <2>2, <2>6, <2>7, <2>10 DEF BeginRecord
    <3>2. Begins(t, m)
      BY <2>5, <2>6, <2>8, <2>10, <3>1 DEF Begins, Rowset
    <3>3. QED
      BY <2>3, <3>1, <3>2
  <2>11. QED
    BY <2>1, <2>2, <2>9, <2>10 DEF BeginRecord
<1>2. CASE UNCHANGED Rows
  BY <1>2 DEF Rows
<1>3. CASE RowStep /\ ~\E n \in Nodes, c \in Conns : BeginRecord(n, c)
  BY <1>3 DEF RowStep, Insert, Dispatch, FailActiveDeployments, Advance, FailBeforeDispatch, GiveBack, CommitRecord,
              Expire, ControlPlaneRestart, api
<1>4. QED
  BY <1>1, <1>2, <1>3, RowMoves

\* How a step changes the row of one deployment.
Stays(d) == status'[d] = status[d] /\ home'[d] = home[d] /\ (d \in lost' <=> d \in lost)
Inserts(d) == status[d] = "none" /\ status'[d] = "QUEUED" /\ lease'[d] = lease[d] /\ txs' = txs
Fails(d) ==
    /\ status'[d] = "FAILED" /\ home'[d] = home[d] /\ d \notin Locked /\ lease'[d] = "none" /\ txs' = txs
    /\ (status[d] = "QUEUED" \/ (status[d] \in InProgress /\ d \in lost'))
Records(d) == \E t \in txs : CommitRecord(t) /\ d \in Rowset(t)
Returns(d) ==
    \E t \in task : /\ t.kind = "deploy" /\ t.id = d /\ t.at = "claimed" /\ task' = task \ {t}
                    /\ lease'[d] = "none"

LEMMA RowOf ==
    ASSUME TypeOK, [Next]_vars, NEW d \in Deployments
    PROVE  /\ Stays(d) \/ Inserts(d) \/ Fails(d) \/ Records(d)
           /\ \/ lease'[d] = lease[d]
              \/ Sends(d) \/ Returns(d)
              \/ lease'[d] = "none" /\ status'[d] # "QUEUED"
              \/ lease'[d] = "expired" /\ lease[d] = "live" /\ d \in overdue'
           /\ overdue \subseteq overdue' /\ crossed \subseteq crossed'
<1> DEFINE L == \/ lease'[d] = lease[d]
                \/ Sends(d) \/ Returns(d)
                \/ lease'[d] = "none" /\ status'[d] # "QUEUED"
                \/ lease'[d] = "expired" /\ lease[d] = "live" /\ d \in overdue'
           G == /\ Stays(d) \/ Inserts(d) \/ Fails(d) \/ Records(d)
                /\ L /\ overdue \subseteq overdue' /\ crossed \subseteq crossed'
<1>0. /\ status \in [Deployments -> Statuses] /\ home \in [Deployments -> Nodes]
      /\ lease \in [Deployments -> {"none", "live", "expired"}] /\ TxsOK
  BY TypeParts DEF TypeOK, TypeDb
<1>1. CASE UNCHANGED Rows
  BY <1>1 DEF Rows, Stays
<1>2. ASSUME NEW e \in Deployments, NEW n \in Nodes, Insert(e, n) PROVE G
  <2>1. /\ status[e] = "none" /\ status' = [status EXCEPT ![e] = "QUEUED"] /\ home' = [home EXCEPT ![e] = n]
        /\ lease' = lease /\ lost' = lost /\ txs' = txs /\ overdue' = overdue /\ crossed' = crossed
    BY <1>2 DEF Insert, api, history
  <2>2. Stays(d) \/ Inserts(d)
    BY <1>0, <2>1 DEF Stays, Inserts
  <2>3. QED
    BY <2>1, <2>2
<1>3. ASSUME NEW n \in Nodes, NEW c \in Conns, Dispatch(n, c) PROVE G
  <2>1. PICK e \in Dispatchable(n) : lease' = [lease EXCEPT ![e] = "live"]
    BY <1>3 DEF Dispatch
  <2>2. UNCHANGED <<status, home, lost, history>>
    BY <1>3 DEF Dispatch
  <2>3. lease'[d] = lease[d] \/ Sends(d)
    BY <1>0, <1>3, <2>1 DEF Sends
  <2>4. QED
    BY <2>2, <2>3 DEF Stays, history
<1>4. ASSUME NEW n \in Nodes, NEW c \in Conns, FailActiveDeployments(n, c) PROVE G
  <2>1. PICK failed : failed = {e \in On(n) : Active(e)}
    OBVIOUS
  <2>2. /\ failed \intersect Locked = {} /\ txs' = txs /\ UNCHANGED <<home, history>>
        /\ status' = [e \in Deployments |-> IF e \in failed THEN "FAILED" ELSE status[e]]
        /\ lease' = [e \in Deployments |-> IF e \in failed THEN "none" ELSE lease[e]]
        /\ lost' = lost \union failed
    BY <1>4, <2>1 DEF FailActiveDeployments, Advance
  <2>3. CASE d \in failed
    <3>1. status[d] \in InProgress
      BY <2>1, <2>3 DEF Active
    <3>2. QED
      BY <2>2, <2>3, <3>1 DEF Fails, history
  <2>4. CASE d \notin failed
    BY <2>2, <2>4 DEF Stays, history
  <2>5. QED
    BY <2>3, <2>4
<1>5. ASSUME NEW n \in Nodes, NEW c \in Conns, BeginRecord(n, c) PROVE G
  BY <1>5 DEF BeginRecord, db, deployment, history, excused, Stays
<1>6. ASSUME NEW t \in task, FailBeforeDispatch(t) PROVE G
  <2>1. t.id \notin Locked /\ txs' = txs /\ UNCHANGED <<home, lost, history>> /\ FailQueued(t.id)
    BY <1>6 DEF FailBeforeDispatch, api
  <2>2. (Stays(d) /\ lease'[d] = lease[d]) \/ Fails(d)
    BY <1>0, <2>1 DEF FailQueued, Stays, Fails
  <2>3. QED
    BY <2>1, <2>2 DEF Fails, history
<1>7. ASSUME NEW t \in task, GiveBack(t) PROVE G
  <2>1. /\ t.kind = "deploy" /\ t.at = "claimed" /\ task' = task \ {t} /\ UNCHANGED <<status, home, lost, overdue, crossed>>
        /\ lease' = IF status[t.id] = "QUEUED" THEN [lease EXCEPT ![t.id] = "none"] ELSE lease
    BY <1>7 DEF GiveBack
  <2>2. lease'[d] = lease[d] \/ (t.id = d /\ lease'[d] = "none")
    BY <1>0, <2>1
  <2>3. QED
    BY <2>1, <2>2 DEF Returns, Stays
<1>8. ASSUME NEW t \in txs, CommitRecord(t) PROVE G
  <2>1. t.dep \in Deployments /\ t.status \in Reported
    BY <1>0 DEF TxsOK, TxType
  <2>2. /\ status' = [e \in Deployments |-> IF e = t.dep THEN t.status
                                            ELSE IF e \in t.previous THEN "ROLLED_BACK" ELSE status[e]]
        /\ lease' = [lease EXCEPT ![t.dep] = "none"] /\ lost' = lost \ {t.dep} /\ UNCHANGED <<home, overdue>>
        /\ crossed \subseteq crossed'
    BY <1>8 DEF CommitRecord
  <2>3. CASE d = t.dep
    BY <1>0, <1>8, <2>1, <2>2, <2>3 DEF Records, Rowset, Reported, InProgress
  <2>4. CASE d # t.dep /\ d \in t.previous
    BY <1>0, <1>8, <2>1, <2>2, <2>4 DEF Records, Rowset
  <2>5. CASE d # t.dep /\ d \notin t.previous
    BY <1>0, <2>1, <2>2, <2>5 DEF Stays
  <2>6. QED
    BY <2>3, <2>4, <2>5
<1>9. ASSUME NEW e \in Deployments, Expire(e) PROVE G
  <2>1. /\ lease[e] = "live" /\ lease' = [lease EXCEPT ![e] = "expired"] /\ overdue' = overdue \union {e}
        /\ UNCHANGED <<status, home, lost, crossed>>
    BY <1>9 DEF Expire
  <2>2. lease'[d] = lease[d] \/ (d = e /\ lease'[d] = "expired")
    BY <1>0, <2>1
  <2>3. QED
    BY <2>1, <2>2 DEF Stays
<1>10. CASE ControlPlaneRestart
  BY <1>10 DEF ControlPlaneRestart, db, deployment, Stays
<1>11. G
  BY <1>1, <1>2, <1>3, <1>4, <1>5, <1>6, <1>7, <1>8, <1>9, <1>10, RowMoves DEF RowStep
<1>12. QED
  BY <1>11

-----------------------------------------------------------------------------
(* RoutesFirst *)

LEMMA RoutesInit == Init => RoutesFirst
<1> SUFFICES ASSUME Init PROVE RoutesFirst
  OBVIOUS
<1>1. \A m : ~Heard(m)
  BY DEF Init, Heard
<1>2. QED
  BY <1>1 DEF Init, RoutesFirst, ReadyWasRouted

LEMMA RoutesNext ==
    ASSUME TypeOK, RoutesFirst, TxInv, [Next]_vars
    PROVE  RoutesFirst'
<1>0. routed \subseteq routed' /\ task \subseteq Tasks /\ task' \subseteq Tasks /\ TxsOK
  BY AgentMoves, NodesAssumption, TypeNext, TypeParts DEF TypeOK
<1>1. ASSUME NEW d \in Deployments, status'[d] \in {"READY", "ROLLED_BACK"} PROVE d \in routed'
  <2>1. CASE Stays(d)
    BY <1>0, <1>1, <2>1 DEF Stays, RoutesFirst, ReadyWasRouted
  <2>2. CASE Records(d)
    <3>1. PICK t \in txs : CommitRecord(t) /\ d \in Rowset(t)
      BY <2>2 DEF Records
    <3>2. CASE d = t.dep
      <4>1. t.status \in Reported /\ status'[d] = t.status
        BY <1>0, <3>1, <3>2 DEF CommitRecord, TxsOK, TxType
      <4>2. QED
        BY <1>0, <1>1, <3>2, <4>1 DEF RoutesFirst, Reported, InProgress
    <3>3. CASE d # t.dep
      <4>1. status[d] = "READY"
        BY <3>1, <3>3 DEF Rowset, TxInv, TxHolds
      <4>2. QED
        BY <1>0, <4>1 DEF RoutesFirst, ReadyWasRouted
    <3>4. QED
      BY <3>2, <3>3
  <2>3. QED
    BY <1>1, <2>1, <2>2, RowOf DEF Inserts, Fails
<1>2. ASSUME NEW m \in Messages, Heard(m)', Announces(m) PROVE m.dep \in routed'
  <2>1. m.type # "result"
    BY <1>2 DEF Announces
  <2>2. Heard(m) \/ Stems(m)
    BY <1>2, <2>1, HeardMoves
  <2>3. CASE Heard(m)
    BY <1>0, <1>2, <2>3 DEF RoutesFirst
  <2>4. CASE Stems(m)
    <3>1. CASE \E t \in task : t.id = m.dep /\ t.at = "routed"
      BY <1>0, <3>1 DEF RoutesFirst
    <3>2. CASE \E n \in Nodes : m.dep \in recovery[n].left
      BY <1>0, <3>2 DEF RoutesFirst
    <3>3. QED
      BY <1>2, <2>4, <3>1, <3>2 DEF Stems, Announces
  <2>5. QED
    BY <2>2, <2>3, <2>4
<1>3. ASSUME NEW t \in txs', t.status = "READY" PROVE t.dep \in routed'
  <2>1. CASE t \in txs
    BY <1>0, <1>3, <2>1 DEF RoutesFirst
  <2>2. CASE t \notin txs
    <3>1. PICK m \in Messages : Begins(t, m)
      BY <2>2, TxMoves DEF Begins
    <3>2. m.type \in {"status", "recovered"} /\ Heard(m) /\ m.dep = t.dep
      BY <3>1, MessageFields DEF Begins
    <3>3. Announces(m)
      BY <1>3, <3>1, <3>2 DEF Begins, Announces, NewStatus
    <3>4. QED
      BY <1>0, <3>2, <3>3 DEF RoutesFirst
  <2>3. QED
    BY <2>1, <2>2
<1>4. ASSUME NEW u \in task', u.at = "routed" PROVE u.id \in routed'
  <2>1. u.kind = "deploy"
    BY <1>0, <1>4, TaskFields
  <2>2. QED
    <3>1. CASE u \in task
      BY <1>0, <1>4, <3>1 DEF RoutesFirst
    <3>2. CASE GoesOn(u)
      BY <1>4, <3>2 DEF GoesOn
    <3>3. CASE Claims(u)
      BY <1>4, <3>3 DEF Claims
    <3>4. QED
      BY <2>1, <3>1, <3>2, <3>3, TaskMoves
<1>5. ASSUME NEW n \in Nodes PROVE recovery'[n].left \subseteq routed'
  <2>1. \A s \in Services : route[n][s] \in routed \union {0}
    BY DEF RoutesFirst
  <2>2. recovery'[n].left \subseteq Deployments
    BY TypeNext DEF TypeOK, TypeAgent
  <2>3. QED
    BY <1>0, <2>1, <2>2, AgentMoves, Bounds DEF RoutesFirst
<1>6. ASSUME NEW n \in Nodes, NEW s \in Services PROVE route'[n][s] \in routed' \union {0}
  BY <1>0, AgentMoves DEF RoutesFirst
<1>7. QED
  BY <1>1, <1>2, <1>3, <1>4, <1>5, <1>6 DEF RoutesFirst, ReadyWasRouted, Announces

-----------------------------------------------------------------------------
(* TxInv *)

LEMMA TxInit == Init => TxInv
BY DEF Init, TxInv, OneReady

LEMMA LockedRowset ==
    ASSUME NEW t \in txs, NEW e \in Rowset(t)
    PROVE  e \in Locked
BY DEF Locked, Rowset

\* A row that a transaction holds changes only when it commits.
LEMMA LockedStays ==
    ASSUME TypeOK, TxInv, [Next]_vars, NEW t \in txs, t \in txs', NEW e \in Rowset(t)
    PROVE  Stays(e)
<1>0. t \in TxType /\ e \in Deployments
  BY TypeParts DEF TypeOK, TxsOK, TxType, Rowset
<1>1. status[e] # "none"
  BY DEF TxInv, TxHolds, Rowset
<1>2. e \in Locked
  BY LockedRowset
<1>3. ~Records(e)
  <2>1. SUFFICES ASSUME NEW u \in txs, CommitRecord(u), e \in Rowset(u) PROVE FALSE
    BY DEF Records
  <2>2. u # t
    BY <2>1 DEF CommitRecord
  <2>3. QED
    BY <2>1, <2>2 DEF TxInv
<1>4. QED
  BY <1>0, <1>1, <1>2, <1>3, RowOf DEF Inserts, Fails

\* What becomes READY is what a transaction records.
LEMMA ReadyMoves ==
    ASSUME TypeOK, [Next]_vars, NEW e \in Deployments, status'[e] = "READY"
    PROVE  \/ status[e] = "READY"
           \/ \E u \in txs : CommitRecord(u) /\ e = u.dep /\ u.status = "READY"
<1>1. CASE Stays(e)
  BY <1>1 DEF Stays
<1>2. CASE Records(e)
  <2>1. PICK u \in txs : CommitRecord(u) /\ e \in Rowset(u)
    BY <1>2 DEF Records
  <2>2. status'[e] = IF e = u.dep THEN u.status ELSE IF e \in u.previous THEN "ROLLED_BACK" ELSE status[e]
    BY <2>1 DEF CommitRecord
  <2>3. QED
    BY <2>1, <2>2
<1>3. QED
  BY <1>1, <1>2, RowOf DEF Inserts, Fails

LEMMA HoldsStays ==
    ASSUME TypeOK, TxInv, [Next]_vars, NEW t \in txs, t \in txs'
    PROVE  TxHolds(t)'
<1>0. t \in TxType /\ t.dep \in Deployments /\ t.previous \subseteq Deployments /\ TxHolds(t)
  BY TypeParts DEF TypeOK, TxsOK, TxType, TxInv
<1>1. \A e \in Rowset(t) : Stays(e)
  BY LockedStays
<1>2. t.dep \in Rowset(t) /\ t.previous \subseteq Rowset(t)
  BY DEF Rowset
<1>3. ASSUME t.status = "READY", NEW e \in Deployments, status'[e] = "READY", ServiceOf[e] = ServiceOf[t.dep]
      PROVE  e \in {t.dep} \union t.previous \union crossed'
  <2>1. CASE status[e] = "READY"
    BY <1>0, <1>3, <2>1, RowOf DEF TxHolds, Ready
  <2>2. CASE \E u \in txs : CommitRecord(u) /\ e = u.dep /\ u.status = "READY"
    <3>1. PICK u \in txs : CommitRecord(u) /\ e = u.dep /\ u.status = "READY"
      BY <2>2
    <3>2. t \in txs \ {u}
      BY <3>1 DEF CommitRecord
    <3>3. Crosses(u)
      BY <1>3, <3>1, <3>2 DEF Crosses
    <3>4. QED
      BY <3>1, <3>3 DEF CommitRecord
  <2>3. QED
    BY <1>3, <2>1, <2>2, ReadyMoves
<1>4. QED
  BY <1>0, <1>1, <1>2, <1>3 DEF TxHolds, Stays, Ready

\* A message is accepted for what the row says when the transaction begins.
LEMMA HoldsBegins ==
    ASSUME TypeOK, [Next]_vars, NEW t \in txs', NEW m \in Messages, Begins(t, m)
    PROVE  TxHolds(t)'
<1>0. /\ m.type # "result" /\ Accepted(m) /\ m.dep = t.dep /\ t.status = NewStatus(m)
      /\ t.previous = IF t.status = "READY" THEN Previous(t.dep) ELSE {}
      /\ UNCHANGED <<status, lost, crossed>>
  BY DEF Begins, db, deployment, history, excused
<1>1. m.type = "status" => t.status = m.status /\ (m.status = status[t.dep] \/ CanTransition(status[t.dep], m.status))
  BY <1>0, MessageFields DEF Accepted, NewStatus
<1>2. m.type = "recovered" => /\ t.status = "READY"
                              /\ \/ status[t.dep] \in {"READY", "HEALTHCHECK"}
                                 \/ status[t.dep] = "FAILED" /\ t.dep \in lost
  BY <1>0 DEF Accepted, NewStatus, Recoverable
<1>3. m.type \in {"status", "recovered"} /\ (m.type = "status" => m.status \in Reported)
  BY <1>0, MessageFields
<1>4. /\ t.status \in InProgress => status[t.dep] \in InProgress \union {"QUEUED"}
      /\ status[t.dep] = "FAILED" /\ t.dep \notin lost => t.status = "FAILED"
      /\ status[t.dep] # "none"
  BY <1>1, <1>2, <1>3 DEF CanTransition, InProgress, Reported
<1>5. /\ t.dep \notin t.previous /\ \A e \in t.previous : status[e] = "READY"
      /\ t.status = "READY" => Ready(ServiceOf[t.dep]) \subseteq {t.dep} \union t.previous
  BY <1>0 DEF Previous, Ready
<1>6. QED
  BY <1>0, <1>4, <1>5 DEF TxHolds, Ready

LEMMA TxNext ==
    ASSUME TypeOK, TxInv, [Next]_vars
    PROVE  TxInv'
<1>1. ASSUME NEW t \in txs' PROVE TxHolds(t)'
  <2>1. CASE t \in txs
    BY <1>1, <2>1, HoldsStays
  <2>2. CASE t \notin txs
    <3>1. PICK m \in Messages : Begins(t, m)
      BY <2>2, TxMoves DEF Begins
    <3>2. QED
      BY <3>1, HoldsBegins
  <2>3. QED
    BY <2>1, <2>2
<1>2. ASSUME NEW t \in txs', NEW u \in txs', t # u PROVE Rowset(t) \intersect Rowset(u) = {}
  <2>1. CASE txs' \subseteq txs
    BY <1>2, <2>1 DEF TxInv
  <2>2. CASE \E x \in txs', m \in Messages : Begins(x, m)
    <3>1. PICK x \in txs', m \in Messages : Begins(x, m)
      BY <2>2
    <3>2. txs' = txs \union {x} /\ Rowset(x) \intersect Locked = {}
      BY <3>1 DEF Begins
    <3>3. \A y \in txs : Rowset(x) \intersect Rowset(y) = {}
      BY <3>2, LockedRowset
    <3>4. QED
      BY <1>2, <3>2, <3>3 DEF TxInv
  <2>3. QED
    BY <2>1, <2>2, TxMoves
<1>3. OneReady'
  <2>1. SUFFICES ASSUME NEW d \in Deployments, NEW e \in Deployments, d # e, ServiceOf[d] = ServiceOf[e],
                        status'[d] = "READY", status'[e] = "READY"
                 PROVE  {d, e} \intersect crossed' # {}
    BY DEF OneReady
  <2>2. crossed \subseteq crossed'
    BY RowOf
  <2>3. CASE status[d] = "READY" /\ status[e] = "READY"
    BY <2>1, <2>2, <2>3 DEF TxInv, OneReady
  <2>4. ASSUME NEW u \in txs, CommitRecord(u), u.status = "READY", NEW x \in Deployments, NEW y \in Deployments,
               x # y, ServiceOf[x] = ServiceOf[y], x = u.dep, status'[y] = "READY"
        PROVE  y \in crossed
    <3>1. status[y] = "READY"
      <4>1. ASSUME NEW w \in txs, CommitRecord(w), y = w.dep PROVE FALSE
        <5>1. u = w
          BY <2>4, <4>1 DEF CommitRecord
        <5>2. QED
          BY <2>4, <4>1, <5>1
      <4>2. QED
        BY <2>4, <4>1, ReadyMoves
    <3>2. y \in {x} \union u.previous \union crossed
      BY <2>4, <3>1 DEF TxInv, TxHolds, Ready
    <3>3. y \notin u.previous
      BY <2>4 DEF CommitRecord
    <3>4. QED
      BY <2>4, <3>2, <3>3
  <2>5. CASE \E u \in txs : CommitRecord(u) /\ d = u.dep /\ u.status = "READY"
    BY <2>1, <2>2, <2>4, <2>5
  <2>6. CASE \E u \in txs : CommitRecord(u) /\ e = u.dep /\ u.status = "READY"
    BY <2>1, <2>2, <2>4, <2>6
  <2>7. QED
    BY <2>1, <2>3, <2>5, <2>6, ReadyMoves
<1>4. QED
  BY <1>1, <1>2, <1>3 DEF TxInv

\* A failure that the Agent reported stays.
LEMMA FailureStays ==
    ASSUME TypeOK, TxInv, [Next]_vars, NEW d \in Deployments, status[d] = "FAILED", d \notin lost
    PROVE  status'[d] = "FAILED" /\ d \notin lost'
<1>1. CASE Stays(d)
  BY <1>1 DEF Stays
<1>2. CASE Records(d)
  <2>1. PICK t \in txs : CommitRecord(t) /\ d \in Rowset(t)
    BY <1>2 DEF Records
  <2>2. d = t.dep
    BY <2>1 DEF TxInv, TxHolds, Rowset
  <2>3. t.status = "FAILED"
    BY <2>2 DEF TxInv, TxHolds
  <2>4. QED
    BY <2>1, <2>2, <2>3 DEF CommitRecord
<1>3. QED
  BY <1>1, <1>2, RowOf DEF Inserts, Fails, InProgress

-----------------------------------------------------------------------------
(* Actions of the nodes *)

OpSteps ==
    \/ \E o \in Ops, n \in Nodes, c \in Conns :
          \/ Qualify(o, n, c)
          \/ \E d \in On(n) : Restart(o, d, c)
          \/ \E kind \in Maintenance : Maintain(o, n, kind, c)
    \/ \E n \in Nodes, c \in Conns :
          \/ FailRunningRuntimeActions(n, c) \/ FailRunningQualifications(n, c)
          \/ ReleaseNode(n, c) \/ RecordResult(n, c)
    \/ Startup

LEMMA OpStepsOnly ==
    ASSUME TypeOK, [Next]_vars
    PROVE  UNCHANGED <<op, lifecycle>> \/ OpSteps
<1> USE DEF db, deployment, api, agent, history, excused
<1>1. CASE Operator
  BY <1>1, OperatorDoes DEF Insert, OpSteps
<1>2. ASSUME NEW n \in Nodes, NEW c \in Conns, Dispatch(n, c) \/ Cleanup(n, c) \/ Listen(n, c) \/ Reject(n, c)
      PROVE  UNCHANGED <<op, lifecycle>> \/ OpSteps
  BY <1>2 DEF Dispatch, Cleanup, CloseEvent, Guard, GoOffline, FailActiveDeployments, FailRunningNodeMaintenance,
              Advance, Listen, Admit, Open, BeginRecord, Reject, OpSteps
<1>3. ASSUME NEW t \in task, FailBeforeDispatch(t) \/ GiveBack(t) \/ Send(t) \/ Work(t) PROVE UNCHANGED <<op, lifecycle>>
  BY <1>3 DEF FailBeforeDispatch, GiveBack, Send, Work, ReadCommand, StartBuild, StartRuntime, StartHealthcheck,
              SwitchRoute, ReportReady, FailDeployment, Proceed, RunOp
<1>4. ASSUME NEW n \in Nodes, Heartbeat(n) \/ Drop(n) \/ AgentCrash(n) \/ Reconnect(n) PROVE UNCHANGED <<op, lifecycle>>
  BY <1>4 DEF Heartbeat, Drop, AgentCrash, Hangup, Reconnect, Connect, NoticeClose, RecoverRouter, ReportRoute
<1>5. (\E t \in txs : CommitRecord(t)) \/ (\E d \in Deployments : Expire(d)) \/ ControlPlaneRestart \/ UNCHANGED vars
      => UNCHANGED <<op, lifecycle>>
  BY DEF CommitRecord, Expire, ControlPlaneRestart, vars
<1>6. QED
  BY <1>1, <1>2, <1>3, <1>4, <1>5 DEF Next, OpSteps

\* An action that starts is alone in the table to change.
Starts(o, kind, n) ==
    /\ op[o].status = "none" /\ op'[o].status = "RUNNING" /\ op'[o].kind = kind /\ op'[o].node = n
    /\ \A p \in Ops \ {o} : op'[p] = op[p]

LEMMA OpStarted ==
    ASSUME TypeOK, NEW o \in Ops, NEW kind, NEW n, NEW c, NEW d, StartOp(o, kind, n, c, d)
    PROVE  Starts(o, kind, n)
<1>1. PICK r : r = [kind |-> kind, node |-> n, dep |-> d, status |-> "RUNNING"]
  OBVIOUS
<1>2. r.kind = kind /\ r.node = n /\ r.status = "RUNNING"
  BY <1>1
<1>3. op' = [op EXCEPT ![o] = r] /\ op \in [Ops -> OpType] /\ op[o].status = "none"
  BY <1>1, TypeParts DEF StartOp, TypeOK
<1>4. QED
  BY <1>2, <1>3 DEF Starts

\* Otherwise an action only ends: these are the ones a step ends.
Ended(S) ==
    \A o \in Ops : /\ o \notin S => op'[o] = op[o]
                   /\ o \in S => op'[o].status \in {"DONE", "FAILED"}

LEMMA OpFailed ==
    ASSUME op \in [Ops -> OpType], NEW n, NEW kinds, FailRunning(n, kinds)
    PROVE  Ended(Running(n, kinds))
<1>1. \A o \in Ops : [op[o] EXCEPT !.status = "FAILED"].status = "FAILED"
  BY DEF OpType
<1>2. QED
  BY <1>1 DEF FailRunning, Ended

LEMMA OpCompleted ==
    ASSUME op \in [Ops -> OpType], NEW m, m.op \in Ops, Complete(m)
    PROVE  Ended({m.op})
<1>1. PICK x \in {"DONE", "FAILED"} : op' = [op EXCEPT ![m.op].status = x]
  BY DEF Complete
<1>2. PICK r : r = [op[m.op] EXCEPT !.status = x]
  OBVIOUS
<1>3. r.status = x
  BY <1>2 DEF OpType
<1>4. op' = [op EXCEPT ![m.op] = r]
  BY <1>1, <1>2
<1>5. QED
  BY <1>3, <1>4 DEF Ended

LEMMA StillRunning ==
    ASSUME NEW S, Ended(S), NEW n, NEW kinds
    PROVE  Running(n, kinds)' = Running(n, kinds) \ S
BY DEF Ended, Running

LEMMA NowRunning ==
    ASSUME NEW o \in Ops, NEW kind, NEW n, Starts(o, kind, n), NEW k, NEW kinds
    PROVE  Running(k, kinds)' = IF k = n /\ kind \in kinds THEN Running(k, kinds) \union {o} ELSE Running(k, kinds)
BY DEF Starts, Running

\* What a step does to the actions, and to the lifecycle of one node.
Begun(n) == \* one is started on it
    \E o \in Ops, kind \in OpKinds, k \in Nodes :
        /\ Starts(o, kind, k)
        /\ kind = "restart" => RestartAllowed(k)
        /\ kind \in Maintenance => /\ MaintenanceAllowed(k, kind) /\ Running(k, Maintenance) = {}
                                   /\ ~Quiet(k) /\ (Releasing(k) => o \in slipped')
        /\ lifecycle'[n] = IF kind \in Maintenance /\ k = n THEN "MAINTENANCE" ELSE lifecycle[n]
        /\ startup' = startup
Finished(n) == \* some end, and perhaps the node is released
    \E S \in SUBSET Ops :
        /\ Ended(S)
        /\ \/ Running(n, Maintenance) \intersect S = {} /\ lifecycle'[n] = lifecycle[n]
           \/ Running(n, Maintenance) \intersect S # {} /\ lifecycle'[n] # "MAINTENANCE"
           \/ /\ Running(n, Maintenance) \subseteq S \/ Releasing(n) \/ startup = "lifecycle"
              /\ lifecycle'[n] # "MAINTENANCE"
           \/ Running(n, Maintenance) \subseteq S /\ lifecycle'[n] = lifecycle[n] /\ startup' # "up"

LEMMA OpMoves ==
    ASSUME TypeOK, [Next]_vars, NEW n \in Nodes
    PROVE  Begun(n) \/ Finished(n)
<1>0. op \in [Ops -> OpType] /\ lifecycle \in [Nodes -> {"ACTIVE", "MAINTENANCE", "ARCHIVED"}] /\ InboxOK
      /\ "restart" \notin Maintenance /\ "qualify" \notin Maintenance
  BY TypeParts DEF TypeOK, Maintenance
<1>1. ASSUME UNCHANGED <<op, lifecycle>> PROVE Finished(n)
  <2>1. Ended({})
    BY <1>1 DEF Ended
  <2>2. QED
    BY <1>1, <2>1 DEF Finished
<1>2. ASSUME NEW o \in Ops, NEW k \in Nodes, NEW c \in Conns, Qualify(o, k, c) PROVE Begun(n)
  <2>1. Starts(o, "qualify", k) /\ "qualify" \in OpKinds /\ lifecycle' = lifecycle /\ startup' = startup
    BY <1>2, OpStarted DEF Qualify, StartOp, api
  <2>2. QED
    BY <1>0, <2>1 DEF Begun
<1>3. ASSUME NEW o \in Ops, NEW k \in Nodes, NEW d \in On(k), NEW c \in Conns, Restart(o, d, c) PROVE Begun(n)
  <2>1. /\ Starts(o, "restart", k) /\ "restart" \in OpKinds /\ lifecycle' = lifecycle /\ RestartAllowed(k)
        /\ startup' = startup
    BY <1>3, OpStarted DEF Restart, On, StartOp, api
  <2>2. QED
    BY <1>0, <2>1 DEF Begun
<1>4. ASSUME NEW o \in Ops, NEW k \in Nodes, NEW c \in Conns, NEW kind \in Maintenance, Maintain(o, k, kind, c)
      PROVE  Begun(n)
  <2>1. /\ Starts(o, kind, k) /\ kind \in OpKinds /\ lifecycle' = [lifecycle EXCEPT ![k] = "MAINTENANCE"]
        /\ MaintenanceAllowed(k, kind) /\ Running(k, Maintenance) = {} /\ kind # "restart" /\ startup' = startup
    BY <1>0, <1>4, OpStarted DEF Maintain, StartOp, api
  <2>4. ~Quiet(k) /\ (Releasing(k) => o \in slipped')
    BY <1>4 DEF Maintain, StartOp, Captured, Quiet, Releasing
  <2>2. lifecycle'[n] = IF k = n THEN "MAINTENANCE" ELSE lifecycle[n]
    BY <1>0, <2>1
  <2>3. QED
    BY <2>1, <2>2, <2>4 DEF Begun
<1>5. ASSUME NEW k \in Nodes, NEW c \in Conns, FailRunningRuntimeActions(k, c) \/ FailRunningQualifications(k, c)
      PROVE  Finished(n)
  <2>1. PICK K : K \in {{"restart"}, {"qualify"}} /\ FailRunning(k, K) /\ lifecycle' = lifecycle
    BY <1>5 DEF FailRunningRuntimeActions, FailRunningQualifications
  <2>2. Ended(Running(k, K)) /\ Running(k, K) \subseteq Ops
    BY <1>0, <2>1, OpFailed DEF Running
  <2>3. Running(n, Maintenance) \intersect Running(k, K) = {}
    BY <1>0, <2>1 DEF Running
  <2>4. QED
    BY <2>1, <2>2, <2>3 DEF Finished
<1>6. ASSUME NEW k \in Nodes, NEW c \in Conns, ReleaseNode(k, c) PROVE Finished(n)
  <2>1. PICK S \in SUBSET Running(k, Maintenance) : Ended(S) /\ (S = Running(k, Maintenance) \/ Releasing(k))
    <3>1. CASE phase[k][c] = "holding"
      BY <1>0, <1>6, <3>1, OpFailed DEF ReleaseNode, Advance
    <3>2. CASE phase[k][c] # "holding"
      <4>1. Releasing(k) /\ UNCHANGED op
        BY <1>6, <3>2 DEF ReleaseNode, Advance, Releasing
      <4>2. Ended({})
        BY <4>1 DEF Ended
      <4>3. QED
        BY <4>1, <4>2
    <3>3. QED
      BY <3>1, <3>2
  <2>2. lifecycle' = Release(k) /\ S \in SUBSET Ops
    BY <1>6 DEF ReleaseNode, Running
  <2>3. CASE n = k
    BY <1>0, <2>1, <2>2, <2>3 DEF Finished, Release
  <2>4. CASE n # k
    <3>1. Running(n, Maintenance) \intersect S = {} /\ lifecycle'[n] = lifecycle[n]
      BY <1>0, <2>2, <2>4 DEF Running, Release
    <3>2. QED
      BY <2>1, <2>2, <3>1 DEF Finished
  <2>5. QED
    BY <2>3, <2>4
<1>7. ASSUME NEW k \in Nodes, NEW c \in Conns, RecordResult(k, c) PROVE Finished(n)
  <2>1. PICK m : m = Head(inbox[k][c])
    OBVIOUS
  <2>2. m.op \in Ops
    BY <1>0, <1>7, <2>1, ReadHead, MessageFields DEF RecordResult
  <2>3. CASE ~Acceptable(k, m)
    <3>1. UNCHANGED <<op, lifecycle>>
      BY <1>7, <2>1, <2>3 DEF RecordResult
    <3>2. QED
      BY <1>1, <3>1
  <2>4. CASE Acceptable(k, m) /\ (RecordRuntimeAction(m) \/ RecordNodeQualification(m))
    <3>1. Ended({m.op}) /\ lifecycle' = lifecycle /\ op[m.op].kind \notin Maintenance
      BY <1>0, <2>2, <2>4, OpCompleted DEF RecordRuntimeAction, RecordNodeQualification
    <3>2. Running(n, Maintenance) \intersect {m.op} = {}
      BY <3>1 DEF Running
    <3>3. QED
      BY <2>2, <3>1, <3>2 DEF Finished
  <2>5. CASE Acceptable(k, m) /\ RecordNodeMaintenance(k, c, m)
    <3>1. Ended({m.op}) /\ op[m.op].kind \in Maintenance /\ op[m.op].status = "RUNNING" /\ op[m.op].node = k
      BY <1>0, <2>2, <2>5, OpCompleted DEF RecordNodeMaintenance, Acceptable
    <3>2. lifecycle' = [lifecycle EXCEPT ![k] = "ARCHIVED"] \/ lifecycle' = Release(k)
      BY <2>5 DEF RecordNodeMaintenance
    <3>3. CASE n = k
      <4>1. Running(n, Maintenance) \intersect {m.op} # {}
        BY <2>2, <3>1, <3>3 DEF Running
      <4>2. lifecycle'[n] # "MAINTENANCE"
        BY <1>0, <3>2, <3>3 DEF Release
      <4>3. QED
        BY <2>2, <3>1, <4>1, <4>2 DEF Finished
    <3>4. CASE n # k
      <4>1. Running(n, Maintenance) \intersect {m.op} = {} /\ lifecycle'[n] = lifecycle[n]
        BY <1>0, <3>1, <3>2, <3>4 DEF Running, Release
      <4>2. QED
        BY <2>2, <3>1, <4>1 DEF Finished
    <3>5. QED
      BY <3>3, <3>4
  <2>6. QED
    BY <1>7, <2>1, <2>3, <2>4, <2>5 DEF RecordResult
<1>8. CASE Startup
  <2>1. ASSUME NEW K, FailInterrupted(K)
        PROVE  \E S \in SUBSET Ops : S = {o \in Ops : op[o].status = "RUNNING" /\ op[o].kind \in K} /\ Ended(S)
    <3>1. PICK S \in SUBSET Ops : S = {o \in Ops : op[o].status = "RUNNING" /\ op[o].kind \in K}
      OBVIOUS
    <3>2. \A o \in Ops : [op[o] EXCEPT !.status = "FAILED"].status = "FAILED"
      BY <1>0 DEF OpType
    <3>3. op' = [o \in Ops |-> IF o \in S THEN [op[o] EXCEPT !.status = "FAILED"] ELSE op[o]]
      BY <2>1, <3>1 DEF FailInterrupted
    <3>4. QED
      BY <3>1, <3>2, <3>3 DEF Ended
  <2>2. CASE NodesOffline
    BY <1>1, <2>2 DEF NodesOffline
  <2>3. CASE FailInterruptedQualifications \/ FailInterruptedActions
    <3>1. PICK K \in {{"qualify"}, {"restart"}} : FailInterrupted(K) /\ lifecycle' = lifecycle
      BY <2>3 DEF FailInterruptedQualifications, FailInterruptedActions
    <3>2. PICK S \in SUBSET Ops : S = {o \in Ops : op[o].status = "RUNNING" /\ op[o].kind \in K} /\ Ended(S)
      BY <2>1, <3>1
    <3>3. Running(n, Maintenance) \intersect S = {}
      BY <1>0, <3>1, <3>2 DEF Running
    <3>4. QED
      BY <3>1, <3>2, <3>3 DEF Finished
  <2>4. CASE FailInterruptedMaintenance
    <3>1. FailInterrupted(Maintenance) /\ lifecycle' = lifecycle /\ startup' # "up"
      BY <2>4 DEF FailInterruptedMaintenance, StartupStep
    <3>2. PICK S \in SUBSET Ops :
              S = {o \in Ops : op[o].status = "RUNNING" /\ op[o].kind \in Maintenance} /\ Ended(S)
      BY <2>1, <3>1
    <3>3. Running(n, Maintenance) \subseteq S
      BY <3>2 DEF Running
    <3>4. QED
      BY <3>1, <3>2, <3>3 DEF Finished
  <2>5. CASE ReleaseNodes
    <3>1. UNCHANGED op /\ startup = "lifecycle" /\ lifecycle'[n] # "MAINTENANCE"
      BY <2>5 DEF ReleaseNodes, StartupStep
    <3>2. Ended({})
      BY <3>1 DEF Ended
    <3>3. QED
      BY <3>1, <3>2 DEF Finished
  <2>6. QED
    BY <1>8, <2>2, <2>3, <2>4, <2>5 DEF Startup
<1>9. QED
  BY <1>1, <1>2, <1>3, <1>4, <1>5, <1>6, <1>7, <1>8, OpStepsOnly DEF OpSteps

-----------------------------------------------------------------------------
(* What has not been sent *)

LEMMA FreshClean ==
    ASSUME InboxOK, NEW d
    PROVE  Fresh(d) <=> lease[d] = "none" /\ Unasked(d) /\ Clean(d)
<1>1. \A n \in Nodes, c \in Conns : \A i \in DOMAIN inbox[n][c] : inbox[n][c][i] \in Messages
  BY ElementOfSeq, LenProperties DEF InboxOK
<1>2. Unspoken(d) <=> \A n \in Nodes, c \in Conns : \A i \in DOMAIN inbox[n][c] :
                          inbox[n][c][i].type # "result" => inbox[n][c][i].dep # d
  BY <1>1 DEF Unspoken, Heard
<1>3. QED
  BY <1>2 DEF Fresh, Unasked, Clean

LEMMA FreshThen ==
    ASSUME InboxOK', NEW d, lease'[d] = "none", Unasked(d)', Clean(d)'
    PROVE  Fresh(d)'
<1>1. ASSUME NEW n \in Nodes, NEW c \in Conns, NEW i \in DOMAIN inbox'[n][c]
      PROVE  inbox'[n][c][i].type # "result" => inbox'[n][c][i].dep # d
  <2>1. PICK m \in Messages : inbox'[n][c][i] = m
    BY <1>1, ElementOfSeq, LenProperties DEF InboxOK
  <2>2. Heard(m)'
    BY <1>1, <2>1 DEF Heard
  <2>3. QED
    BY <2>1, <2>2 DEF Clean, Unspoken
<1>2. QED
  BY <1>1 DEF Fresh, Unasked, Clean

LEMMA CleanStays ==
    ASSUME TypeOK, [Next]_vars, NEW d \in Deployments, Clean(d),
           \A t \in task : t.kind = "deploy" /\ t.id = d => t.at = "claimed"
    PROVE  Clean(d)'
<1>0. task \subseteq Tasks
  BY DEF TypeOK
<1>1. ~\E t \in task : t.at = "checking" /\ t.id = d
  BY <1>0, TaskFields
<1>2. ASSUME NEW t \in txs' PROVE t.dep # d
  <2>1. CASE t \in txs
    BY <2>1 DEF Clean
  <2>2. CASE t \notin txs
    <3>1. PICK m \in Messages : Begins(t, m)
      BY <2>2, TxMoves DEF Begins
    <3>2. QED
      BY <3>1 DEF Begins, Clean, Unspoken
  <2>3. QED
    BY <2>1, <2>2
<1>3. ASSUME NEW m \in Messages, m.type # "result", m.dep = d, Heard(m)' PROVE FALSE
  <2>1. CASE Heard(m)
    BY <1>3, <2>1 DEF Clean, Unspoken
  <2>2. CASE Stems(m)
    BY <1>3, <2>2 DEF Stems, Clean
  <2>3. QED
    BY <1>3, <2>1, <2>2, HeardMoves
<1>4. ASSUME NEW n \in Nodes
      PROVE  d \notin marked'[n] /\ d \notin recovery'[n].left /\ \A s \in Services : route'[n][s] # d
  BY <1>1, AgentMoves, Bounds DEF Clean
<1>5. QED
  BY <1>2, <1>3, <1>4 DEF Clean, Unspoken

LEMMA UnaskedStays ==
    ASSUME TypeOK, [Next]_vars, NEW d, Unasked(d), ~Sends(d)
    PROVE  Unasked(d)'
BY TaskMoves DEF Unasked, Claims, GoesOn

LEMMA FreshStays ==
    ASSUME TypeOK, [Next]_vars, NEW d \in Deployments, Fresh(d), ~Sends(d)
    PROVE  Fresh(d)'
<1>0. InboxOK /\ InboxOK'
  BY TypeNext DEF TypeOK, TypeApi, InboxOK
<1>1. lease[d] = "none" /\ Unasked(d) /\ Clean(d)
  BY <1>0, FreshClean
<1>2. Unasked(d)' /\ Clean(d)'
  BY <1>1, UnaskedStays, CleanStays DEF Unasked
<1>3. lease'[d] = "none"
  BY <1>1, RowOf DEF Returns
<1>4. QED
  BY <1>0, <1>2, <1>3, FreshThen

\* A deployment is sent from the queue of an ACTIVE node, where nothing else
\* is under way.
LEMMA SendsWhen ==
    ASSUME TypeOK, NEW d, Sends(d)
    PROVE  /\ d \in Deployments /\ status[d] = "QUEUED" /\ lease[d] # "live" /\ lease'[d] = "live"
           /\ lifecycle[home[d]] = "ACTIVE" /\ Running(home[d], {"restart"}) = {}
           /\ ~\E e \in On(home[d]) : InFlight(e)
<1>1. PICK n \in Nodes, c \in Conns : Dispatch(n, c) /\ d \in Dispatchable(n)
  BY DEF Sends
<1>2. /\ d \in On(n) /\ status[d] = "QUEUED" /\ lease[d] # "live"
      /\ lifecycle[n] = "ACTIVE" /\ Running(n, {"restart"}) = {}
      /\ ~\E e \in On(n) : Active(e) \/ Leased(e)
  BY <1>1 DEF Dispatchable
<1>3. d \in Deployments /\ home[d] = n
  BY <1>2 DEF On
<1>4. lease'[d] = "live"
  BY <1>3 DEF Sends, TypeOK, TypeDb
<1>5. QED
  BY <1>2, <1>3, <1>4 DEF InFlight

\* The command of a dispatch is one more of the deployment.
LEMMA SendsOne ==
    ASSUME TypeOK, NEW d, Sends(d), Unasked(d), NEW t \in task', NEW u \in task',
           t.kind = "deploy", t.id = d, u.kind = "deploy", u.id = d
    PROVE  t = u
<1>1. PICK n \in Nodes, c \in Conns : Dispatch(n, c)
  BY DEF Sends
<1>2. PICK r : task' = task \union {r}
  BY <1>1 DEF Dispatch
<1>3. QED
  BY <1>2 DEF Unasked

\* A node gets a restart or a maintenance action when nothing of it is queued.
LEMMA HoldBegins ==
    ASSUME TypeOK, [Next]_vars, NEW n \in Nodes,
           Running(n, {"restart"})' # {} \/ lifecycle'[n] = "MAINTENANCE"
    PROVE  Running(n, {"restart"}) # {} \/ lifecycle[n] = "MAINTENANCE" \/ ~Busy(n)
<1>1. CASE Finished(n)
  <2>1. PICK S \in SUBSET Ops : Ended(S) /\ (lifecycle'[n] = "MAINTENANCE" => lifecycle[n] = "MAINTENANCE")
    BY <1>1 DEF Finished
  <2>2. Running(n, {"restart"})' \subseteq Running(n, {"restart"})
    BY <2>1, StillRunning
  <2>3. QED
    BY <2>1, <2>2
<1>2. CASE Begun(n)
  <2>1. PICK o \in Ops, kind \in OpKinds, k \in Nodes :
            /\ Starts(o, kind, k)
            /\ kind = "restart" => RestartAllowed(k)
            /\ kind \in Maintenance => MaintenanceAllowed(k, kind)
            /\ lifecycle'[n] = IF kind \in Maintenance /\ k = n THEN "MAINTENANCE" ELSE lifecycle[n]
    BY <1>2 DEF Begun
  <2>2. Running(n, {"restart"})' = IF n = k /\ kind \in {"restart"} THEN Running(n, {"restart"}) \union {o}
                                  ELSE Running(n, {"restart"})
    BY <2>1, NowRunning
  <2>3. QED
    BY <2>1, <2>2 DEF RestartAllowed, MaintenanceAllowed
<1>3. QED
  BY <1>1, <1>2, OpMoves

LEMMA WaitsNext ==
    ASSUME TypeOK, UnsentInv, [Next]_vars, NEW d \in Deployments, Waits(d)'
    PROVE  Fresh(d) /\ ~Sends(d)
<1>0. TxsOK /\ home[d] \in Nodes /\ (status[d] = "none" => Fresh(d))
  BY TypeParts DEF TypeOK, TypeDb, UnsentInv, Unsent, Waits
<1>1. status'[d] \in {"none", "QUEUED"}
  BY DEF Waits
<1>2. ~Records(d)
  <2>1. SUFFICES ASSUME NEW t \in txs, CommitRecord(t), d \in Rowset(t) PROVE FALSE
    BY DEF Records
  <2>2. t.status \in Reported
    BY <1>0 DEF TxsOK, TxType
  <2>3. QED
    BY <1>1, <2>1, <2>2 DEF CommitRecord, Rowset, Reported, InProgress
<1>3. CASE status[d] = "none"
  BY <1>0, <1>3, SendsWhen
<1>4. CASE status[d] # "none"
  <2>1. Stays(d) /\ status[d] = "QUEUED" /\ home'[d] = home[d]
    BY <1>1, <1>2, <1>4, RowOf DEF Stays, Inserts, Fails
  <2>2. PICK n \in Nodes : n = home[d]
    BY <1>0
  <2>3. Running(n, {"restart"})' # {} \/ lifecycle'[n] = "MAINTENANCE"
    <3>1. status'[d] = "QUEUED" /\ home'[d] = n
      BY <2>1, <2>2 DEF Stays
    <3>2. QED
      BY <3>1 DEF Waits, Running
  <2>4. Busy(n)
    BY <2>1, <2>2 DEF Busy, On
  <2>5. Running(n, {"restart"}) # {} \/ lifecycle[n] = "MAINTENANCE"
    BY <2>3, <2>4, HoldBegins
  <2>6. QED
    BY <2>1, <2>2, <2>5, SendsWhen DEF UnsentInv, Unsent, Waits
<1>5. QED
  BY <1>3, <1>4

\* What remains of the only command of a claimed deployment.
LEMMA ClaimStays ==
    ASSUME TypeOK, [Next]_vars, NEW d \in Deployments, lease[d] = "live",
           Claimed(d) => OneClaim(d), Claimed(d)'
    PROVE  OneClaim(d)'
<1>1. ~Sends(d)
  BY SendsWhen
<1>2. PICK u \in task' : u.kind = "deploy" /\ u.id = d /\ u.at = "claimed"
  BY DEF Claimed
<1>3. u \in task
  BY <1>1, <1>2, TaskMoves DEF Claims, GoesOn
<1>4. OneClaim(d)
  BY <1>2, <1>3 DEF Claimed
<1>5. \A t \in task : t.kind = "deploy" /\ t.id = d => t = u
  BY <1>2, <1>3, <1>4 DEF OneClaim
<1>6. Clean(d)'
  BY <1>2, <1>4, <1>5, CleanStays DEF OneClaim
<1>7. ASSUME NEW v \in task', v.kind = "deploy", v.id = d PROVE v = u
  <2>1. CASE v \in task
    BY <1>5, <1>7, <2>1
  <2>2. CASE GoesOn(v)
    BY <1>2, <1>5, <1>7, <2>2 DEF GoesOn
  <2>3. CASE Claims(v)
    BY <1>1, <1>7, <2>3 DEF Claims
  <2>4. QED
    BY <1>7, <2>1, <2>2, <2>3, TaskMoves
<1>8. QED
  BY <1>6, <1>7 DEF OneClaim

LEMMA UnsentInit == Init => UnsentInv
<1> SUFFICES ASSUME Init, NEW d \in Deployments PROVE Unsent(d)
  BY DEF UnsentInv
<1>1. d # 0
  BY Bounds
<1>2. Fresh(d)
  BY <1>1 DEF Init, Fresh
<1>3. QED
  BY <1>2 DEF Init, Unsent

LEMMA UnsentNext ==
    ASSUME TypeOK, TxInv, UnsentInv, [Next]_vars
    PROVE  UnsentInv'
<1> SUFFICES ASSUME NEW d \in Deployments PROVE Unsent(d)'
  BY DEF UnsentInv
<1>0. /\ InboxOK /\ InboxOK' /\ Unsent(d) /\ lease[d] \in {"none", "live", "expired"}
  BY TypeNext DEF TypeOK, TypeApi, TypeDb, InboxOK, UnsentInv
<1>1. Waits(d)' => Fresh(d)'
  BY WaitsNext, FreshStays
<1>2. ASSUME status'[d] = "QUEUED", d \notin overdue'
      PROVE  /\ lease'[d] # "expired"
             /\ lease'[d] = "none" => Fresh(d)'
             /\ lease'[d] = "live" /\ Claimed(d)' => OneClaim(d)'
  <2>0. d \notin overdue
    BY <1>2, RowOf
  <2>1. ~Records(d)
    <3>1. SUFFICES ASSUME NEW t \in txs, CommitRecord(t), d \in Rowset(t) PROVE FALSE
      BY DEF Records
    <3>2. t.status \in Reported
      BY TypeParts DEF TypeOK, TxsOK, TxType
    <3>3. QED
      BY <1>2, <3>1, <3>2 DEF CommitRecord, Rowset, Reported, InProgress
  <2>2. CASE Inserts(d)
    <3>1. Fresh(d) /\ ~Sends(d)
      BY <1>0, <2>2, SendsWhen DEF Inserts, Unsent, Waits
    <3>2. Fresh(d)' /\ lease'[d] = "none"
      BY <2>2, <3>1, FreshStays DEF Inserts, Fresh
    <3>3. QED
      BY <3>2
  <2>3. CASE Stays(d)
    <3>1. /\ status[d] = "QUEUED" /\ lease[d] # "expired" /\ (lease[d] = "none" => Fresh(d))
          /\ lease[d] = "live" => (Claimed(d) => OneClaim(d))
      BY <1>0, <1>2, <2>0, <2>3 DEF Stays, Unsent
    <3>2. CASE lease'[d] = lease[d]
      <4>1. lease[d] = "none" => Fresh(d)'
        BY <3>1, <3>2, FreshStays, SendsWhen
      <4>2. QED
        BY <3>1, <3>2, <4>1, ClaimStays
    <3>3. CASE Sends(d)
      <4>1. Fresh(d) /\ lease'[d] = "live"
        BY <1>0, <3>1, <3>3, SendsWhen
      <4>2. Unasked(d) /\ Clean(d)
        BY <1>0, <4>1, FreshClean
      <4>3. Clean(d)'
        BY <4>2, CleanStays DEF Unasked
      <4>4. OneClaim(d)'
        BY <3>3, <4>2, <4>3, SendsOne DEF OneClaim
      <4>5. QED
        BY <4>1, <4>4
    <3>4. CASE Returns(d)
      <4>1. PICK t \in task : /\ t.kind = "deploy" /\ t.id = d /\ t.at = "claimed" /\ task' = task \ {t}
                              /\ lease'[d] = "none"
        BY <3>4 DEF Returns
      <4>2. lease[d] = "live"
        BY <1>0, <3>1, <4>1 DEF Fresh
      <4>3. OneClaim(d)
        BY <3>1, <4>1, <4>2 DEF Claimed
      <4>4. \A u \in task : u.kind = "deploy" /\ u.id = d => u = t
        BY <4>1, <4>3 DEF OneClaim
      <4>5. Unasked(d)' /\ Clean(d)'
        BY <4>1, <4>3, <4>4, CleanStays DEF Unasked, OneClaim
      <4>6. Fresh(d)'
        BY <1>0, <4>1, <4>5, FreshThen
      <4>7. QED
        BY <4>1, <4>6
    <3>5. QED
      BY <1>2, <3>2, <3>3, <3>4, RowOf
  <2>4. QED
    BY <1>2, <2>1, <2>2, <2>3, RowOf DEF Fails
<1>3. QED
  BY <1>1, <1>2 DEF Unsent

-----------------------------------------------------------------------------
(* What is under way *)

LEMMA InFlightMoves ==
    ASSUME TypeOK, TxInv, UnsentInv, [Next]_vars, NEW d \in Deployments, InFlight(d)'
    PROVE  /\ home'[d] = home[d] /\ d \in On(home[d])
           /\ InFlight(d) \/ Sends(d) \/ (status[d] = "QUEUED" /\ d \in overdue /\ ~Fresh(d))
<1>0. /\ Unsent(d) /\ lease[d] \in {"none", "live", "expired"} /\ home[d] \in Nodes
      /\ status'[d] \in InProgress \/ (status'[d] = "QUEUED" /\ lease'[d] = "live")
  BY DEF UnsentInv, TypeOK, TypeDb, InFlight, Active, Leased
<1>1. CASE Stays(d)
  <2>1. home'[d] = home[d] /\ d \in On(home[d])
    BY <1>0, <1>1 DEF Stays, On, InProgress
  <2>2. CASE status'[d] \in InProgress
    BY <1>1, <2>1, <2>2 DEF Stays, InFlight, Active
  <2>3. CASE status'[d] = "QUEUED" /\ lease'[d] = "live"
    <3>1. lease[d] = "live" \/ Sends(d)
      BY <2>3, RowOf DEF Returns
    <3>2. QED
      BY <1>1, <2>1, <2>3, <3>1 DEF Stays, InFlight, Leased
  <2>4. QED
    BY <1>0, <2>2, <2>3
<1>2. CASE Inserts(d)
  <2>1. lease'[d] = "none" /\ status'[d] = "QUEUED"
    BY <1>0, <1>2 DEF Inserts, Unsent, Waits, Fresh
  <2>2. QED
    BY <1>0, <2>1 DEF InProgress
<1>3. CASE Fails(d)
  BY <1>0, <1>3 DEF Fails, InProgress
<1>4. CASE Records(d)
  <2>1. PICK t \in txs : CommitRecord(t) /\ d \in Rowset(t)
    BY <1>4 DEF Records
  <2>2. t.status \in Reported
    BY <2>1, TypeParts DEF TypeOK, TxsOK, TxType
  <2>3. d = t.dep /\ t.status \in InProgress /\ home' = home
    BY <1>0, <2>1, <2>2 DEF CommitRecord, Rowset, Reported, InProgress
  <2>4. status[d] \in InProgress \union {"QUEUED"}
    BY <2>3 DEF TxInv, TxHolds
  <2>5. ~Fresh(d)
    BY <2>3 DEF Fresh
  <2>6. InFlight(d) \/ (status[d] = "QUEUED" /\ d \in overdue)
    BY <1>0, <2>4, <2>5 DEF Unsent, InFlight, Active, Leased
  <2>7. d \in On(home[d])
    BY <2>4 DEF On, InProgress
  <2>8. QED
    BY <2>3, <2>5, <2>6, <2>7
<1>5. QED
  BY <1>1, <1>2, <1>3, <1>4, RowOf

LEMMA StillNext ==
    ASSUME TypeOK, TxInv, UnsentInv, StillInv, [Next]_vars
    PROVE  StillInv'
<1> SUFFICES ASSUME NEW n \in Nodes, Running(n, {"restart"})' # {} \/ lifecycle'[n] = "MAINTENANCE",
                    NEW d \in Deployments, home'[d] = n, InFlight(d)'
             PROVE  FALSE
  BY DEF StillInv, Still, On
<1>1. /\ home[d] = n /\ d \in On(n)
      /\ InFlight(d) \/ Sends(d) \/ (status[d] = "QUEUED" /\ ~Fresh(d))
  BY InFlightMoves
<1>2. Busy(n)
  BY <1>1, SendsWhen DEF Busy, InFlight, Leased
<1>3. Running(n, {"restart"}) # {} \/ lifecycle[n] = "MAINTENANCE"
  BY <1>2, HoldBegins
<1>4. QED
  BY <1>1, <1>3, SendsWhen DEF StillInv, Still, UnsentInv, Unsent, Waits

LEMMA InFlightNext ==
    ASSUME TypeOK, TxInv, UnsentInv, OneInFlight, [Next]_vars
    PROVE  OneInFlight'
<1> SUFFICES ASSUME NEW n \in Nodes, NEW d \in Deployments, NEW e \in Deployments, d # e,
                    home'[d] = n, home'[e] = n, InFlight(d)', InFlight(e)'
             PROVE  {d, e} \intersect overdue' # {}
  BY DEF OneInFlight, On
<1>0. overdue \subseteq overdue'
  BY RowOf
<1>1. /\ home[d] = n /\ d \in On(n) /\ home[e] = n /\ e \in On(n)
      /\ InFlight(d) \/ Sends(d) \/ d \in overdue
      /\ InFlight(e) \/ Sends(e) \/ e \in overdue
  BY InFlightMoves
<1>2. CASE d \in overdue \/ e \in overdue
  BY <1>0, <1>2
<1>3. CASE InFlight(d) /\ InFlight(e)
  BY <1>0, <1>1, <1>3 DEF OneInFlight
<1>4. ~(Sends(d) /\ InFlight(e)) /\ ~(Sends(e) /\ InFlight(d))
  BY <1>1, SendsWhen
<1>5. ~(Sends(d) /\ Sends(e))
  <2>1. SUFFICES ASSUME Sends(d), Sends(e) PROVE FALSE
    OBVIOUS
  <2>2. lease' = [lease EXCEPT ![d] = "live"] /\ lease[e] # "live" /\ lease'[e] = "live"
    BY <2>1, SendsWhen DEF Sends
  <2>3. QED
    BY <2>2
<1>6. QED
  BY <1>1, <1>2, <1>3, <1>4, <1>5

\* No step but the start of another handler changes the phase of a connection
\* that is over or was never dialed, and none is dialed while the control plane
\* starts.  A handler goes on to release a node when it found nothing RUNNING.
LEMMA PhasesMove ==
    ASSUME TypeOK, [Next]_vars, NEW n \in Nodes
    PROVE  /\ slipped \subseteq slipped'
           /\ Releasing(n)' => Releasing(n) \/ (Running(n, Maintenance) = {} /\ UNCHANGED op)
           /\ startup' # "up" /\ (startup # "up" => Quiet(n)) => Quiet(n)'
           /\ startup' = "up" => startup = "up" \/ lifecycle'[n] # "MAINTENANCE"
           /\ startup' = "lifecycle" => startup = "lifecycle" \/ Running(n, Maintenance)' = {}
<1> USE DEF db, deployment, api, agent, history, excused
<1> DEFINE P(c) == \/ phase'[n][c] = phase[n][c]
                   \/ phase[n][c] \notin {"none", "refused"} /\ phase'[n][c] # "release"
                   \/ /\ phase[n][c] = "maintenance" /\ phase'[n][c] = "release"
                      /\ Running(n, Maintenance) = {} /\ UNCHANGED op
                   \/ startup = "up" /\ phase'[n][c] = "hello"
           Moves == startup' = startup /\ slipped \subseteq slipped' /\ \A c \in Conns : P(c)
           G == /\ slipped \subseteq slipped'
                /\ Releasing(n)' => Releasing(n) \/ (Running(n, Maintenance) = {} /\ UNCHANGED op)
                /\ startup' # "up" /\ (startup # "up" => Quiet(n)) => Quiet(n)'
                /\ startup' = "up" => startup = "up" \/ lifecycle'[n] # "MAINTENANCE"
                /\ startup' = "lifecycle" => startup = "lifecycle" \/ Running(n, Maintenance)' = {}
           Same == UNCHANGED <<startup, slipped, phase>>
<1>0. /\ TypeApi /\ op \in [Ops -> OpType] /\ lifecycle \in [Nodes -> {"ACTIVE", "MAINTENANCE", "ARCHIVED"}]
      /\ TypeAgent
  BY TypeParts DEF TypeOK
<1>1. Moves => G
  BY DEF Releasing, Quiet
<1>2. Same => Moves
  OBVIOUS
<1>3. ASSUME NEW k \in Nodes, NEW x \in Conns, NEW to \in Phases, startup' = startup, slipped' = slipped,
             phase' = [phase EXCEPT ![k][x] = to],
             \/ phase[k][x] \notin {"none", "refused"} /\ to # "release"
             \/ phase[k][x] = "maintenance" /\ to = "release" /\ Running(k, Maintenance) = {} /\ UNCHANGED op
             \/ startup = "up" /\ to = "hello"
      PROVE  Moves
  <2>1. \A m \in Nodes, c \in Conns : phase'[m][c] = IF m = k /\ c = x THEN to ELSE phase[m][c]
    BY <1>0, <1>3, PhaseSet
  <2>2. QED
    BY <1>3, <2>1
<1>4. CASE Operator
  <2>1. ASSUME NEW d \in Deployments, NEW k \in Nodes, Insert(d, k) PROVE Same
    BY <2>1 DEF Insert
  <2>2. ASSUME NEW o, NEW k, NEW c, NEW kind, NEW d, StartOp(o, kind, k, c, d) PROVE UNCHANGED <<startup, phase>>
    BY <2>2 DEF StartOp
  <2>3. ASSUME NEW o \in Ops, NEW k \in Nodes, NEW c \in Conns,
               \/ Qualify(o, k, c)
               \/ \E d \in On(k) : Restart(o, d, c)
               \/ \E kind \in Maintenance : Maintain(o, k, kind, c)
        PROVE  UNCHANGED <<startup, phase>> /\ slipped \subseteq slipped'
    BY <2>2, <2>3 DEF Qualify, Restart, Maintain
  <2>4. QED
    BY <1>1, <1>4, <2>1, <2>3, OperatorDoes
<1>5. ASSUME NEW k \in Nodes, NEW c \in Conns, Dispatch(k, c) \/ BeginRecord(k, c) \/ RecordResult(k, c) PROVE Same
  BY <1>5 DEF Dispatch, BeginRecord, RecordResult
<1>6. ASSUME NEW k \in Nodes, NEW c \in Conns, Admit(k, c) \/ Open(k, c) \/ Reject(k, c) PROVE Moves
  <2>1. PICK to \in {"online", "open", "refused"} :
            /\ phase' = [phase EXCEPT ![k][c] = to] /\ phase[k][c] \in {"hello", "online"}
            /\ startup' = startup /\ slipped' = slipped
    BY <1>6 DEF Admit, Open, Reject
  <2>2. to \in Phases /\ to # "release"
    BY <2>1 DEF Phases
  <2>3. QED
    BY <1>3, <2>1, <2>2
<1>7. ASSUME NEW k \in Nodes, NEW c \in Conns, CloseEvent(k, c) \/ Guard(k, c) PROVE Moves
  <2>1. PICK to \in {"guard", "refused", "offline", "done"} :
            /\ phase' = [phase EXCEPT ![k][c] = to] /\ phase[k][c] \in {"hello", "online", "open", "guard"}
            /\ startup' = startup /\ slipped' = slipped
    BY <1>0, <1>7 DEF CloseEvent, Guard, TypeApi
  <2>2. to \in Phases /\ to # "release"
    BY <2>1 DEF Phases
  <2>3. QED
    BY <1>3, <2>1, <2>2
<1>8. ASSUME NEW k \in Nodes, NEW c \in Conns, NEW from, NEW to, Advance(k, c, from, to)
      PROVE  /\ phase[k][c] = from /\ phase' = [phase EXCEPT ![k][c] = to]
             /\ startup' = startup /\ slipped' = slipped
  BY <1>8 DEF Advance
<1>9. ASSUME NEW k \in Nodes, NEW c \in Conns,
             \/ GoOffline(k, c) \/ FailActiveDeployments(k, c) \/ FailRunningRuntimeActions(k, c)
             \/ FailRunningQualifications(k, c) \/ ReleaseNode(k, c)
      PROVE  Moves
  <2>1. PICK from \in {"offline", "deployments", "actions", "qualifications", "holding", "release"},
             to \in {"deployments", "actions", "qualifications", "maintenance", "done"} :
            Advance(k, c, from, to)
    BY <1>9 DEF GoOffline, FailActiveDeployments, FailRunningRuntimeActions, FailRunningQualifications, ReleaseNode
  <2>2. to \in Phases /\ to # "release" /\ from \notin {"none", "refused"}
    BY <2>1 DEF Phases
  <2>3. QED
    BY <1>3, <1>8, <2>1, <2>2
<1>10. ASSUME NEW k \in Nodes, NEW c \in Conns, FailRunningNodeMaintenance(k, c) PROVE Moves
  <2>1. PICK to \in {"release", "holding"} :
            /\ Advance(k, c, "maintenance", to) /\ UNCHANGED op
            /\ to = "release" => Running(k, Maintenance) = {}
    BY <1>10 DEF FailRunningNodeMaintenance
  <2>2. to \in Phases
    BY <2>1 DEF Phases
  <2>3. QED
    BY <1>3, <1>8, <2>1, <2>2
<1>11. ASSUME NEW t \in task, FailBeforeDispatch(t) \/ GiveBack(t) \/ Send(t) \/ Work(t) PROVE Same
  BY <1>11 DEF FailBeforeDispatch, GiveBack, Send, Work, ReadCommand, StartBuild, StartRuntime, StartHealthcheck,
               SwitchRoute, ReportReady, FailDeployment, Proceed, RunOp
<1>12. ASSUME NEW k \in Nodes,
              Heartbeat(k) \/ Drop(k) \/ AgentCrash(k) \/ NoticeClose(k) \/ RecoverRouter(k) \/ ReportRoute(k)
       PROVE  Same
  BY <1>12 DEF Heartbeat, Drop, AgentCrash, Hangup, NoticeClose, RecoverRouter, ReportRoute
<1>13. ASSUME NEW k \in Nodes, Connect(k) PROVE Moves
  <2>1. PICK c \in Conns : phase' = [phase EXCEPT ![k][c] = "hello"]
    BY <1>13 DEF Connect
  <2>2. startup = "up" /\ startup' = startup /\ slipped' = slipped /\ "hello" \in Phases
    BY <1>13 DEF Connect, Phases
  <2>3. QED
    BY <1>3, <2>1, <2>2
<1>14. (\E t \in txs : CommitRecord(t)) \/ (\E d \in Deployments : Expire(d)) \/ UNCHANGED vars => Same
  BY DEF CommitRecord, Expire, vars
<1>15. CASE ControlPlaneRestart
  <2>1. slipped' = slipped /\ startup' = "nodes" /\ \A c \in Conns : phase'[n][c] \in {"none", "refused"}
    BY <1>15 DEF ControlPlaneRestart
  <2>2. QED
    BY <2>1 DEF Releasing, Quiet
<1>16. CASE Startup
  <2>1. slipped' = slipped /\ phase' = phase
    BY <1>16, StartupWrites DEF StartupKeeps
  <2>2. startup # "up"
    BY <1>16 DEF Startup, NodesOffline, FailInterruptedQualifications, FailInterruptedActions,
                 FailInterruptedMaintenance, ReleaseNodes, StartupStep
  <2>3. CASE FailInterruptedMaintenance
    <3>1. \A o \in Ops : [op[o] EXCEPT !.status = "FAILED"].status = "FAILED"
      BY <1>0 DEF OpType
    <3>2. Running(n, Maintenance)' = {}
      BY <2>3, <3>1 DEF FailInterruptedMaintenance, FailInterrupted, Running
    <3>3. startup' = "lifecycle"
      BY <2>3 DEF FailInterruptedMaintenance, StartupStep
    <3>4. QED
      BY <2>1, <2>2, <3>2, <3>3 DEF Releasing, Quiet
  <2>4. CASE ReleaseNodes
    <3>1. startup' = "up" /\ lifecycle'[n] # "MAINTENANCE"
      BY <2>4 DEF ReleaseNodes, StartupStep
    <3>2. QED
      BY <2>1, <2>2, <3>1 DEF Releasing
  <2>5. CASE NodesOffline \/ FailInterruptedQualifications \/ FailInterruptedActions
    <3>1. startup' \notin {"up", "lifecycle"}
      BY <2>5 DEF NodesOffline, FailInterruptedQualifications, FailInterruptedActions, StartupStep
    <3>2. QED
      BY <2>1, <2>2, <3>1 DEF Releasing, Quiet
  <2>6. QED
    BY <1>16, <2>3, <2>4, <2>5 DEF Startup
<1>17. G
  BY <1>1, <1>2, <1>4, <1>5, <1>6, <1>7, <1>9, <1>10, <1>11, <1>12, <1>13, <1>14, <1>15, <1>16
     DEF Next, Cleanup, Listen, Reconnect
<1>18. QED
  BY <1>17

LEMMA AloneNext ==
    ASSUME TypeOK, [Next]_vars, NEW n \in Nodes, Alone(n)
    PROVE  Alone(n)'
<1>0. /\ slipped \subseteq slipped'
      /\ Releasing(n)' => Releasing(n) \/ (Running(n, Maintenance) = {} /\ UNCHANGED op)
      /\ startup' # "up" => Quiet(n)'
      /\ startup' = "up" => startup = "up" \/ lifecycle'[n] # "MAINTENANCE"
      /\ startup' = "lifecycle" => startup = "lifecycle" \/ Running(n, Maintenance)' = {}
  BY PhasesMove DEF Alone
<1>1. UNCHANGED op => Running(n, Maintenance)' = Running(n, Maintenance)
  BY DEF Running
<1>2. CASE Finished(n)
  <2>1. PICK S \in SUBSET Ops :
            /\ Ended(S)
            /\ \/ Running(n, Maintenance) \intersect S = {} /\ lifecycle'[n] = lifecycle[n]
               \/ Running(n, Maintenance) \intersect S # {} /\ lifecycle'[n] # "MAINTENANCE"
               \/ /\ Running(n, Maintenance) \subseteq S \/ Releasing(n) \/ startup = "lifecycle"
                  /\ lifecycle'[n] # "MAINTENANCE"
               \/ Running(n, Maintenance) \subseteq S /\ lifecycle'[n] = lifecycle[n] /\ startup' # "up"
    BY <1>2 DEF Finished
  <2>2. Running(n, Maintenance)' = Running(n, Maintenance) \ S
    BY <2>1, StillRunning
  <2>3. \A o, p \in Running(n, Maintenance)' : o = p
    BY <2>2 DEF Alone
  <2>4. Releasing(n)' => Running(n, Maintenance)' \subseteq slipped'
    BY <1>0, <1>1, <2>2 DEF Alone
  <2>5. CASE Running(n, Maintenance)' = {}
    <3>1. ~(startup' = "up" /\ lifecycle'[n] = "MAINTENANCE")
      BY <1>0, <2>1, <2>2, <2>5 DEF Alone
    <3>2. QED
      BY <1>0, <2>5, <3>1 DEF Alone
  <2>6. CASE lifecycle'[n] = lifecycle[n] /\ Running(n, Maintenance)' = Running(n, Maintenance)
    BY <1>0, <2>3, <2>4, <2>6 DEF Alone
  <2>7. CASE lifecycle'[n] # "MAINTENANCE" /\ Running(n, Maintenance)' \subseteq slipped'
    BY <1>0, <2>2, <2>3, <2>4, <2>7 DEF Alone
  <2>8. QED
    BY <1>0, <2>1, <2>2, <2>5, <2>6, <2>7 DEF Alone
<1>3. CASE Begun(n)
  <2>1. PICK o \in Ops, kind \in OpKinds, k \in Nodes :
            /\ Starts(o, kind, k)
            /\ kind \in Maintenance => /\ MaintenanceAllowed(k, kind) /\ Running(k, Maintenance) = {}
                                       /\ ~Quiet(k) /\ (Releasing(k) => o \in slipped')
            /\ lifecycle'[n] = IF kind \in Maintenance /\ k = n THEN "MAINTENANCE" ELSE lifecycle[n]
            /\ startup' = startup
    BY <1>3 DEF Begun
  <2>2. Running(n, Maintenance)' = IF n = k /\ kind \in Maintenance THEN Running(n, Maintenance) \union {o}
                                  ELSE Running(n, Maintenance)
    BY <2>1, NowRunning
  <2>3. CASE ~(n = k /\ kind \in Maintenance)
    BY <1>0, <2>1, <2>2, <2>3 DEF Alone
  <2>4. CASE n = k /\ kind \in Maintenance
    <3>1. /\ Running(n, Maintenance)' = {o} /\ lifecycle'[n] = "MAINTENANCE"
          /\ (Releasing(n) => o \in slipped') /\ startup' = "up"
      BY <2>1, <2>2, <2>4 DEF Alone
    <3>2. op' # op
      BY <2>1 DEF Starts
    <3>3. QED
      BY <1>0, <3>1, <3>2 DEF Alone
  <2>5. QED
    BY <2>3, <2>4
<1>4. QED
  BY <1>2, <1>3, OpMoves

-----------------------------------------------------------------------------
(* Theorems *)

LEMMA DispatchInit == Init => DispatchInv
<1> SUFFICES ASSUME Init PROVE DispatchInv
  OBVIOUS
<1>1. OneInFlight /\ StillInv
  BY DEF Init, OneInFlight, StillInv, Still, On
<1>2. \A n \in Nodes : Alone(n)
  BY DEF Init, Alone, Running, Releasing
<1>3. QED
  BY <1>1, <1>2, TypeInit, RoutesInit, TxInit, UnsentInit DEF DispatchInv

LEMMA DispatchNext == DispatchInv /\ [Next]_vars => DispatchInv'
BY TypeNext, RoutesNext, TxNext, UnsentNext, InFlightNext, StillNext, AloneNext DEF DispatchInv

LEMMA DispatchInductive == Spec => []DispatchInv
BY DispatchInit, DispatchNext, PTL DEF Spec

\* Two deployments are under way on a node only after a lease ran out early, and
\* a service has two READY revisions only if they were recorded at once
\* (index.ts: dispatchQueued, recordStatus, recordRuntimeRecovery).
THEOREM TablesAgree == Spec => []Consistent
<1>1. DispatchInv => Consistent
  BY DEF DispatchInv, Consistent, TxInv
<1>2. QED
  BY <1>1, DispatchInductive, PTL

\* Whatever the control plane calls READY was committed to the routes of a node
\* before (recordStatus, recordRuntimeRecovery against runDeployment).
THEOREM ReadyRouted == Spec => []ReadyWasRouted
<1>1. DispatchInv => ReadyWasRouted
  BY DEF DispatchInv, RoutesFirst
<1>2. QED
  BY <1>1, DispatchInductive, PTL

\* While a restart runs nothing is under way on its node, what waits behind it
\* is known to no Agent, and the transactions that record statuses never meet
\* on a row (executeRestartOperation against dispatchQueued).
THEOREM RestartsAlone == Spec => []RestartAlone
<1>1. ASSUME DispatchInv PROVE RestartAlone
  <2>1. ActionAlone
    BY <1>1 DEF DispatchInv, StillInv, Still, ActionAlone
  <2>2. HeldIsFresh
    BY <1>1 DEF DispatchInv, UnsentInv, Unsent, Waits, HeldIsFresh, Held
  <2>3. TxsApart
    BY <1>1 DEF DispatchInv, TxInv, TxHolds, Rowset, TxsApart
  <2>4. QED
    BY <2>1, <2>2, <2>3 DEF RestartAlone
<1>2. QED
  BY <1>1, DispatchInductive, PTL

\* A node is in MAINTENANCE only while an action of it runs, and while one runs it
\* is, unless that action began between the statements of a close handler; and
\* then nothing is under way on it, through results, takeovers, disconnects and
\* a control plane that stops before, between and after the updates it starts
\* with (startNodeMaintenance, recordNodeMaintenance,
\* failRunningNodeMaintenanceForNode, index.ts).
THEOREM MaintenanceIsAlone == Spec => []MaintenanceAlone
<1>1. DispatchInv => MaintenanceAlone
  BY DEF DispatchInv, Alone, StillInv, Still, MaintenanceAlone
<1>2. QED
  BY <1>1, DispatchInductive, PTL

\* A failure the Agent reported, or that kept the command from being sent, is
\* never taken back: only an assumed one is (recordRuntimeRecovery).
THEOREM FailureIsFinal == Spec => ReportedFailureIsFinal
<1>1. DispatchInv /\ [Next]_vars =>
         [\A d \in Deployments :
             status[d] = "FAILED" /\ d \notin lost => status'[d] = "FAILED" /\ d \notin lost']_vars
  BY FailureStays DEF DispatchInv
<1>2. QED
  BY <1>1, DispatchInductive, PTL DEF Spec, ReportedFailureIsFinal
=============================================================================
