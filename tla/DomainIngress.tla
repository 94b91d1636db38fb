---------------------------- MODULE DomainIngress ---------------------------
(***************************************************************************)
(* Custom domains: service_domains and node_ingress_reconciliations in the *)
(* control plane (apps/api/src/domains.ts), and the managed Caddy of each  *)
(* node (apps/agent/ingress.go).                                           *)
(*                                                                         *)
(* Every change of a domain ends in reconcileNodeIngress, which reads the  *)
(* node's rows, opens a reconciliation in a transaction, and sends the     *)
(* node's whole route set.  `call' holds the calls under way, each between *)
(* two awaits: requests of users, the retry timer, and one per connection  *)
(* for its handshake and its message queue, which is serial.               *)
(*                                                                         *)
(* An Agent runs each command in a goroutine of its own; ingressMu lets    *)
(* one at a time write the Caddyfile, reload Caddy and verify the routes   *)
(* over HTTPS.  `file' is what the Caddyfile holds and `live' what Caddy   *)
(* serves; {} stands for no file and for no container.                     *)
(*                                                                         *)
(* A route is the domain it serves: ports are allocated per service and    *)
(* node and stay.  A hostname is attached once.                            *)
(***************************************************************************)
EXTENDS Naturals, Sequences, FiniteSets

CONSTANTS
    Nodes,
    NoNode,
    Domains,
    Services,
    ServiceOf,      \* domain -> service
    Placed,         \* service -> the node it is READY on before its first domain
    Connected,      \* nodes whose Agent is connected, with nothing to reconcile, at first
    Movers,         \* bound: nodes that report a READY deployment
    RetryDelays,    \* how many delays domainRetryDelaysSeconds lists: 5
    Slots,          \* bound: requests of users under way at once
    MaxCalls,       \* bound: requests of users
    MaxConns,       \* bound: connections an Agent dials
    MaxReadies,     \* bound: READY deployments reported
    MaxTicks,       \* bound: ticks of the retry timer that find something due
    MaxEvents,      \* bound: all of these together
    MaxMishaps      \* bound: lost connections, crashes, reboots, restarts, Docker failures

ASSUME NodesAssumption == NoNode \notin Nodes /\ IsFiniteSet(Nodes)
ASSUME CallersAssumption == Nodes \intersect {"user", "timer"} = {}     \* as the first of a caller
ASSUME ServiceAssumption == ServiceOf \in [Domains -> Services]
ASSUME PlacedAssumption == Placed \in [Services -> Nodes \union {NoNode}]
ASSUME ConnectedAssumption == Connected \subseteq Nodes /\ Movers \subseteq Nodes /\ MaxConns \in Nat \ {0}
ASSUME DelaysAssumption == RetryDelays \in Nat

VARIABLES
    domain,     \* service_domains
    run,        \* node_ingress_reconciliations, oldest first
    ready,      \* service -> the node of its READY deployment
    sockets,    \* node -> the connection in the sockets map, 0 if none
    conn,       \* connection -> "none", "open", "closing" or "closed"
    broken,     \* connections whose TCP stream has ended
    call,       \* who -> the reconciliation or message it is in the middle of
    queue,      \* connection -> Agent events not yet processed
    link,       \* node -> the connection its Agent uses, 0 if none
    waiting,    \* node -> commands sent to it and not yet carried out
    file, live, \* node -> routes of the Caddyfile, routes Caddy serves
    applied,    \* history: reconciliations an Agent completed as applied
    verified,   \* history: <<domain, node>> verified over HTTPS since the domain came
    used        \* bounds

rows == <<domain, run, ready>>
api == <<sockets, conn, call>>
wire == <<broken, queue, link>>
agent == <<waiting, file, live, applied, verified>>
vars == <<rows, api, wire, agent, used>>

Conns == Nodes \X (1..MaxConns)
Users == {"user"} \X (1..Slots)
Timer == <<"timer", 0>>
Callers == Users \union {Timer} \union Conns
Idle == [pc |-> "idle"]

-----------------------------------------------------------------------------
(* The tables *)

Row(d) == domain[d].status \notin {"new", "removed"}
On(n) == {d \in Domains : Row(d) /\ domain[d].node = n}

\* desiredDomainRows: the rows of a node with a READY deployment there.
Routable(n) == {d \in On(n) : domain[d].status # "DELETING" /\ ready[ServiceOf[d]] = n}
Deleting(n) == {d \in On(n) : domain[d].status = "DELETING"}

\* A row loses its reconciliation: PENDING again, unless it is being deleted.
\* Only failRunningIngressForNode and the startup clear next_retry_at too.
Released(row, retry) ==
    [row EXCEPT !.status = IF @ = "DELETING" THEN @ ELSE "PENDING", !.recon = 0,
                !.due = @ /\ retry]

\* The transaction of reconcileNodeIngress on one row of the node.  Rows named
\* in the set read before are taken over whatever their status is by now.
Owned(d, routes, deleting, r) ==
    LET row == domain[d] IN
    IF d \in routes
      THEN [row EXCEPT !.status = IF @ = "ACTIVE" THEN @ ELSE "CONFIGURING",
                       !.recon = r, !.due = FALSE]
      ELSE IF row.status # "DELETING"
             THEN [row EXCEPT !.status = "PENDING", !.recon = 0, !.due = FALSE]
             ELSE [row EXCEPT !.recon = IF d \in deleting THEN r ELSE @]

\* The verdict on one route: ACTIVE, retried later, or FAILED when the list of
\* delays is used up.
Verdict(row, active, count) ==
    [row EXCEPT !.recon = 0,
                !.status = IF active THEN "ACTIVE" ELSE IF count <= RetryDelays THEN "PENDING" ELSE "FAILED",
                !.retry = IF active THEN 0 ELSE count,
                !.due = ~active /\ count <= RetryDelays]

Closed(n) == [r \in DOMAIN run |-> IF run[r].node = n /\ run[r].status = "RUNNING"
                                     THEN [run[r] EXCEPT !.status = "FAILED"] ELSE run[r]]
-----------------------------------------------------------------------------
(* Bounds *)

Total == used.calls + used.readies + used.ticks + used.mishaps
Mishap == used.mishaps < MaxMishaps /\ Total < MaxEvents /\ used' = [used EXCEPT !.mishaps = @ + 1]
-----------------------------------------------------------------------------
(* reconcileNodeIngress, one call per entry of `todo' *)

Reading(todo) == [pc |-> "read", todo |-> todo]
Finish(todo) == IF Len(todo) <= 1 THEN Idle ELSE Reading(Tail(todo))
Orders(S) == {q \in [1..Cardinality(S) -> S] : \A n \in S : \E i \in DOMAIN q : q[i] = n}

InMap(c) == sockets[c[1]] = c[2]

Step(c, next) == call' = [call EXCEPT ![c] = next]

ReadRows(c) ==
    /\ call[c].pc = "read" \/ (call[c].pc = "open" /\ InMap(c))
    /\ LET n == Head(call[c].todo) IN
       Step(c, [pc |-> "transact", todo |-> call[c].todo,
                routes |-> Routable(n), deleting |-> Deleting(n)])
    /\ UNCHANGED <<rows, sockets, conn, wire, agent, used>>

Transact(c) ==
    /\ call[c].pc = "transact"
    /\ LET n == Head(call[c].todo)  r == Len(run) + 1 IN
       /\ run' = Append(Closed(n), [node |-> n, status |-> "RUNNING", routes |-> call[c].routes])
       /\ domain' = [d \in Domains |->
              IF d \in On(n) THEN Owned(d, call[c].routes, call[c].deleting, r) ELSE domain[d]]
       /\ Step(c, [pc |-> "send", todo |-> call[c].todo, run |-> r, routes |-> call[c].routes])
    /\ UNCHANGED <<ready, sockets, conn, wire, agent, used>>

\* A socket that is in the map and already closed takes the command and drops it.
Send(c) ==
    /\ call[c].pc = "send"
    /\ LET n == Head(call[c].todo)  to == <<n, sockets[n]>> IN
       /\ sockets[n] # 0
       /\ waiting' = IF to \in broken THEN waiting
                     ELSE [waiting EXCEPT ![n] = Append(@,
                             [conn |-> to, cmd |-> [run |-> call[c].run, routes |-> call[c].routes]])]
       /\ Step(c, Finish(call[c].todo))
    /\ UNCHANGED <<rows, sockets, conn, wire, file, live, applied, verified, used>>

NotConnected(c) ==
    /\ call[c].pc = "send" /\ sockets[Head(call[c].todo)] = 0
    /\ Step(c, [pc |-> "unsent", todo |-> call[c].todo, run |-> call[c].run])
    /\ UNCHANGED <<rows, sockets, conn, wire, agent, used>>

\* failReconciliationBeforeSend
FailBeforeSend(c) ==
    /\ call[c].pc = "unsent"
    /\ LET n == Head(call[c].todo)  r == call[c].run IN
       /\ domain' = [d \in Domains |-> IF d \in On(n) /\ domain[d].recon = r
                                         THEN Released(domain[d], TRUE) ELSE domain[d]]
       /\ run' = [run EXCEPT ![r].status = IF @ = "RUNNING" THEN "FAILED" ELSE @]
       /\ Step(c, Finish(call[c].todo))
    /\ UNCHANGED <<ready, sockets, conn, wire, agent, used>>
-----------------------------------------------------------------------------
(* Requests of users *)

Request(u) ==
    /\ call[u] = Idle /\ \A v \in Users : v[2] < u[2] => call[v] # Idle     \* the first free slot
    /\ used.calls < MaxCalls /\ Total < MaxEvents
    /\ used' = [used EXCEPT !.calls = @ + 1]

\* The node is read before the row is inserted.
CreateDomain(u, d) ==
    /\ Request(u)
    /\ domain[d].status = "new" /\ ready[ServiceOf[d]] # NoNode
    /\ Step(u, [pc |-> "insert", domain |-> d, node |-> ready[ServiceOf[d]]])
    /\ UNCHANGED <<rows, sockets, conn, wire, agent>>

InsertDomain(u) ==
    /\ call[u].pc = "insert"
    /\ LET d == call[u].domain  n == call[u].node IN
       \/ /\ domain[d].status = "new"
          /\ domain' = [domain EXCEPT ![d] = [status |-> "PENDING", node |-> n, recon |-> 0,
                                              retry |-> 0, due |-> FALSE]]
          /\ Step(u, Reading(<<n>>))
       \/ /\ domain[d].status # "new"      \* hostname is UNIQUE
          /\ UNCHANGED domain
          /\ Step(u, Idle)
    /\ UNCHANGED <<run, ready, sockets, conn, wire, agent, used>>

ReconcileDomain(u, d) ==
    /\ Request(u)
    /\ Row(d)
    /\ domain' = [domain EXCEPT ![d].retry = 0, ![d].due = FALSE]
    /\ Step(u, Reading(<<domain[d].node>>))
    /\ UNCHANGED <<run, ready, sockets, conn, wire, agent>>

DeleteDomain(u, d) ==
    /\ Request(u)
    /\ Row(d)
    /\ domain' = [domain EXCEPT ![d].status = "DELETING", ![d].recon = 0]
    /\ Step(u, Reading(<<domain[d].node>>))
    /\ UNCHANGED <<run, ready, sockets, conn, wire, agent>>

\* reconcileDueDomainRetries; domainRetryRunning lets one tick run at a time.
RetryTick ==
    /\ call[Timer] = Idle /\ used.ticks < MaxTicks /\ Total < MaxEvents
    /\ LET due == {domain[d].node : d \in {e \in Domains : domain[e].status = "PENDING" /\ domain[e].due}} IN
       /\ \E n \in due : sockets[n] # 0
       /\ \E todo \in Orders({n \in due : sockets[n] # 0}) : Step(Timer, Reading(todo))
    /\ used' = [used EXCEPT !.ticks = @ + 1]
    /\ UNCHANGED <<rows, sockets, conn, wire, agent>>
-----------------------------------------------------------------------------
(* Connections: handshake, message queue, close handler *)

\* The Agent dials again; the connection in the map is closed and replaced.
Connect(n, i) ==
    /\ link[n] = 0 /\ conn[<<n, i>>] = "none"
    /\ \A j \in 1..(i - 1) : conn[<<n, j>>] # "none"
    /\ link' = [link EXCEPT ![n] = i]
    /\ sockets' = [sockets EXCEPT ![n] = i]
    /\ conn' = [conn EXCEPT ![<<n, i>>] = "open"]
    /\ broken' = broken \union {<<n, j>> : j \in 1..(i - 1)}
    /\ Step(<<n, i>>, [pc |-> "open", todo |-> <<n>>])
    /\ UNCHANGED <<rows, queue, agent, used>>

\* After dispatchQueued the handshake goes on to ReadRows unless it lost the
\* map or its close was noticed.
AbandonOpen(c) ==
    /\ call[c].pc = "open"
    /\ ~InMap(c) \/ c \in broken
    /\ Step(c, Idle)
    /\ UNCHANGED <<rows, sockets, conn, wire, agent, used>>

Event(c) == Head(queue[c])
Serves(c) == conn[c] = "open" /\ call[c] = Idle /\ queue[c] # <<>>
Taken(c) == queue' = [queue EXCEPT ![c] = Tail(@)]

DropEvent(c) ==
    /\ Serves(c)
    /\ ~InMap(c) \/ c \in broken
    /\ Taken(c)
    /\ UNCHANGED <<rows, api, broken, link, agent, used>>

\* recordStatus or recordRuntimeRecovery: the READY deployment is on this node.
RecordReady(c) ==
    /\ Serves(c) /\ InMap(c) /\ Event(c).type = "ready"
    /\ ready' = [ready EXCEPT ![Event(c).service] = c[1]]
    /\ Step(c, [pc |-> "move", service |-> Event(c).service])
    /\ Taken(c)
    /\ UNCHANGED <<domain, run, sockets, conn, broken, link, agent, used>>

\* reconcileServiceDomainsAfterReady: the rows of the service that are elsewhere.
Elsewhere(s, n) == {d \in Domains : /\ Row(d) /\ ServiceOf[d] = s
                                    /\ domain[d].node # n /\ domain[d].status # "DELETING"}

\* Mutant: an ACTIVE row stays ACTIVE when it moves.
MovedKeepsStatus(row, n) == [row EXCEPT !.node = n, !.recon = 0,
                                        !.status = IF @ = "ACTIVE" THEN @ ELSE "PENDING"]
Moved(row, n) == [row EXCEPT !.node = n, !.status = "PENDING", !.recon = 0]

MoveDomains(c) ==
    /\ call[c].pc = "move"
    /\ LET moving == Elsewhere(call[c].service, c[1]) IN
       /\ domain' = [d \in Domains |-> IF d \in moving THEN Moved(domain[d], c[1]) ELSE domain[d]]
       /\ verified' = {v \in verified : v[1] \notin moving}
       /\ \E todo \in Orders({domain[d].node : d \in moving}) : Step(c, Reading(Append(todo, c[1])))
    /\ UNCHANGED <<run, ready, sockets, conn, wire, waiting, file, live, applied, used>>

\* Mutant: the routes that stay ACTIVE are not expected in the result.
KnownConfiguringOnly(n, r) == {d \in On(n) : domain[d].recon = r /\ domain[d].status = "CONFIGURING"}
\* recordIngressResult before its transaction: the reconciliation must be
\* RUNNING, and the result must name exactly the rows it configures.
Known(n, r) == {d \in On(n) : domain[d].recon = r /\ domain[d].status \in {"CONFIGURING", "ACTIVE"}}
\* Mutant: a result that was not applied is refused.
CurrentApplied(c, e) == run[e.run].status = "RUNNING" /\ e.applied /\ Known(c[1], e.run) = e.routes
Current(c, e) == run[e.run].status = "RUNNING" /\ Known(c[1], e.run) = e.routes

ReadResult(c) ==
    /\ Serves(c) /\ InMap(c) /\ Event(c).type = "ingress"
    /\ LET e == Event(c) IN
       IF Current(c, e)
         THEN Step(c, [pc |-> "result", event |-> e,
                       counts |-> [d \in e.routes |-> domain[d].retry + 1]])
         ELSE UNCHANGED call
    /\ Taken(c)
    /\ UNCHANGED <<rows, sockets, conn, broken, link, agent, used>>

\* Mutant: the UPDATE does not ask for the reconciliation.
OwnsByHostname(n, e) == \A d \in e.routes : d \in On(n)
\* ... and in it: every UPDATE must find the row it owns.
Owns(n, e) == \A d \in e.routes : d \in On(n) /\ domain[d].recon = e.run

Recorded(d, e, counts) ==
    IF d \in e.routes
      THEN Verdict(domain[d], e.applied /\ d \in e.ok, counts[d])
      ELSE IF domain[d].recon = e.run /\ domain[d].status = "DELETING"
             THEN IF e.applied THEN [domain[d] EXCEPT !.status = "removed", !.recon = 0, !.due = FALSE]
                               ELSE [domain[d] EXCEPT !.recon = 0]
             ELSE domain[d]

RecordResult(c) ==
    /\ call[c].pc = "result"
    /\ LET e == call[c].event IN
       /\ Owns(c[1], e)
       /\ domain' = [d \in Domains |-> IF d \in On(c[1]) THEN Recorded(d, e, call[c].counts) ELSE domain[d]]
       /\ run' = [run EXCEPT ![e.run].status =
                    IF @ # "RUNNING" THEN @
                    ELSE IF e.applied /\ e.ok = e.routes THEN "SUCCEEDED" ELSE "FAILED"]
    /\ Step(c, Idle)
    /\ UNCHANGED <<ready, sockets, conn, wire, agent, used>>

LoseResult(c) ==
    /\ call[c].pc = "result" /\ ~Owns(c[1], call[c].event)
    /\ Step(c, Idle)
    /\ UNCHANGED <<rows, sockets, conn, wire, agent, used>>

\* The close handler waits for setup and for the queue.
NoticeClose(c) ==
    /\ conn[c] = "open" /\ c \in broken /\ call[c] = Idle /\ queue[c] = <<>>
    /\ IF InMap(c)
         THEN /\ sockets' = [sockets EXCEPT ![c[1]] = 0]
              /\ conn' = [conn EXCEPT ![c] = "closing"]
         ELSE /\ conn' = [conn EXCEPT ![c] = "closed"]
              /\ UNCHANGED sockets
    /\ UNCHANGED <<rows, call, wire, agent, used>>

\* failRunningIngressForNode
Unfinished(n) == {r \in DOMAIN run : run[r].node = n /\ run[r].status = "RUNNING"}

FailRunningIngress(c) ==
    /\ conn[c] = "closing"
    /\ domain' = [d \in Domains |-> IF d \in On(c[1]) /\ domain[d].recon \in Unfinished(c[1])
                                      THEN Released(domain[d], FALSE) ELSE domain[d]]
    /\ run' = Closed(c[1])
    /\ conn' = [conn EXCEPT ![c] = "closed"]
    /\ UNCHANGED <<ready, sockets, call, wire, agent, used>>
-----------------------------------------------------------------------------
(* The Agent *)

ReportReady(n, s) ==
    /\ n \in Movers
    /\ link[n] # 0 /\ <<n, link[n]>> \notin broken /\ used.readies < MaxReadies /\ Total < MaxEvents
    /\ queue' = [queue EXCEPT ![<<n, link[n]>>] = Append(@, [type |-> "ready", service |-> s])]
    /\ used' = [used EXCEPT !.readies = @ + 1]
    /\ UNCHANGED <<rows, api, broken, link, agent>>

\* Each command gets a goroutine, and any of them may be the next to hold
\* ingressMu.  Nothing else touches `file' and `live' meanwhile, so what it
\* does until it reports is one step.
Without(q, i) == SubSeq(q, 1, i - 1) \o SubSeq(q, i + 1, Len(q))

\* complete: the event goes out on the connection the command came from.
Complete(n, i, isApplied, ok) ==
    LET w == waiting[n][i]
        e == [type |-> "ingress", run |-> w.cmd.run, routes |-> w.cmd.routes,
              applied |-> isApplied, ok |-> ok] IN
    /\ queue' = IF w.conn \in broken THEN queue ELSE [queue EXCEPT ![w.conn] = Append(@, e)]
    /\ waiting' = [waiting EXCEPT ![n] = Without(@, i)]
    /\ applied' = IF isApplied THEN applied \union {w.cmd.run} ELSE applied
    /\ verified' = verified \union (ok \X {n})
    /\ UNCHANGED <<rows, api, broken, link>>

RemoveCaddy(n, i) ==
    /\ waiting[n][i].cmd.routes = {}
    /\ live' = [live EXCEPT ![n] = {}]
    /\ Complete(n, i, TRUE, {})
    /\ UNCHANGED <<file, used>>

\* ensureCaddy starts a missing container, and reloads one only if the
\* Caddyfile changed.
Ensured(n, routes) == IF file[n] # routes \/ live[n] = {} THEN routes ELSE live[n]

\* A route passes only if some Caddy the hostname resolves to serves exactly
\* these routes: the marker is a hash of them.
ApplyRoutes(n, i) ==
    LET routes == waiting[n][i].cmd.routes IN
    /\ routes # {}
    /\ file' = [file EXCEPT ![n] = routes]
    /\ live' = [live EXCEPT ![n] = Ensured(n, routes)]
    /\ \E ok \in SUBSET {d \in routes : \E m \in Nodes : live'[m] = routes} : Complete(n, i, TRUE, ok)
    /\ UNCHANGED used

\* A write fails, or `docker rm'; or validate, reload or start, after the
\* Caddyfile was replaced.
DockerFails(n, i) ==
    LET routes == waiting[n][i].cmd.routes IN
    /\ Mishap
    /\ Complete(n, i, FALSE, {})
    /\ \/ UNCHANGED file
       \/ routes # {} /\ Ensured(n, routes) # live[n] /\ file' = [file EXCEPT ![n] = routes]
    /\ UNCHANGED live

\* The last events the Agent sent may be lost with the connection, and so may
\* the last commands that it had not read.
Cut(n) ==
    LET c == <<n, link[n]>> IN
    /\ link' = [link EXCEPT ![n] = 0]
    /\ broken' = broken \union {c}
    /\ \E k \in 0..Len(queue[c]) : queue' = [queue EXCEPT ![c] = SubSeq(@, 1, k)]

LoseConnection(n) ==
    /\ link[n] # 0 /\ Mishap
    /\ Cut(n)
    /\ \E k \in 0..Len(waiting[n]) :
         /\ \A i \in (k + 1)..Len(waiting[n]) : waiting[n][i].conn = <<n, link[n]>>
         /\ waiting' = [waiting EXCEPT ![n] = SubSeq(@, 1, k)]
    /\ UNCHANGED <<rows, api, file, live, applied, verified>>

\* A goroutine may be anywhere between the write and the report.
CrashAgent(n) ==
    /\ Mishap
    /\ IF link[n] # 0 THEN Cut(n) ELSE UNCHANGED wire
    /\ waiting' = [waiting EXCEPT ![n] = <<>>]
    /\ \/ UNCHANGED <<file, live>>
       \/ live' = [live EXCEPT ![n] = IF @ = {} THEN {} ELSE file[n]] /\ UNCHANGED file   \* host reboot
       \/ \E i \in DOMAIN waiting[n] :
            LET routes == waiting[n][i].cmd.routes IN
            /\ routes # {}
            /\ file' = [file EXCEPT ![n] = routes]
            /\ live' \in {live, [live EXCEPT ![n] = Ensured(n, routes)]}
    /\ UNCHANGED <<rows, api, applied, verified>>
-----------------------------------------------------------------------------
(* A restart of the control plane: index.ts before it listens *)

RestartControlPlane ==
    /\ Mishap
    /\ run' = [r \in DOMAIN run |-> IF run[r].status = "RUNNING" THEN [run[r] EXCEPT !.status = "FAILED"] ELSE run[r]]
    /\ domain' = [d \in Domains |-> IF domain[d].status \in {"CONFIGURING", "DELETING"}
                                      THEN Released(domain[d], FALSE) ELSE domain[d]]
    /\ sockets' = [n \in Nodes |-> 0]
    /\ conn' = [c \in Conns |-> IF conn[c] = "none" THEN "none" ELSE "closed"]
    /\ call' = [c \in Callers |-> Idle]
    /\ broken' = {c \in Conns : conn[c] # "none"}
    /\ queue' = [c \in Conns |-> <<>>]
    /\ link' = [n \in Nodes |-> 0]
    /\ UNCHANGED <<ready, agent>>
-----------------------------------------------------------------------------
Init ==
    /\ domain = [d \in Domains |-> [status |-> "new", node |-> NoNode, recon |-> 0, retry |-> 0, due |-> FALSE]]
    /\ run = <<>>
    /\ ready = Placed
    /\ sockets = [n \in Nodes |-> IF n \in Connected THEN 1 ELSE 0]
    /\ conn = [c \in Conns |-> IF c[1] \in Connected /\ c[2] = 1 THEN "open" ELSE "none"]
    /\ broken = {}
    /\ call = [c \in Callers |-> Idle]
    /\ queue = [c \in Conns |-> <<>>]
    /\ link = [n \in Nodes |-> IF n \in Connected THEN 1 ELSE 0]
    /\ waiting = [n \in Nodes |-> <<>>]
    /\ file = [n \in Nodes |-> {}]
    /\ live = [n \in Nodes |-> {}]
    /\ applied = {} /\ verified = {}
    /\ used = [calls |-> 0, readies |-> 0, ticks |-> 0, mishaps |-> 0]

ReconcileStep(c) == ReadRows(c) \/ Transact(c) \/ Send(c) \/ NotConnected(c) \/ FailBeforeSend(c)
ConnStep(c) ==
    \/ AbandonOpen(c) \/ DropEvent(c) \/ RecordReady(c) \/ MoveDomains(c)
    \/ ReadResult(c) \/ RecordResult(c) \/ LoseResult(c) \/ NoticeClose(c) \/ FailRunningIngress(c)
Process(c) == ReconcileStep(c) \/ (c \in Users /\ InsertDomain(c)) \/ (c \in Conns /\ ConnStep(c))
AgentStep(n) == \E i \in DOMAIN waiting[n] : RemoveCaddy(n, i) \/ ApplyRoutes(n, i)

Next ==
    \/ \E c \in Callers : Process(c)
    \/ \E u \in Users, d \in Domains : CreateDomain(u, d) \/ ReconcileDomain(u, d) \/ DeleteDomain(u, d)
    \/ RetryTick
    \/ \E n \in Nodes, i \in 1..MaxConns : Connect(n, i)
    \/ \E n \in Nodes : AgentStep(n) \/ LoseConnection(n) \/ CrashAgent(n)
    \/ \E n \in Nodes : \E i \in DOMAIN waiting[n] : DockerFails(n, i)
    \/ \E n \in Nodes, s \in Services : ReportReady(n, s)
    \/ RestartControlPlane

Spec == Init /\ [][Next]_vars
FairSpec ==
    /\ Spec
    /\ \A c \in Callers : WF_vars(Process(c))
    /\ \A n \in Nodes : WF_vars(AgentStep(n))
-----------------------------------------------------------------------------
(* Properties *)

RowType == [status: {"new", "PENDING", "CONFIGURING", "ACTIVE", "FAILED", "DELETING", "removed"},
            node: Nodes \union {NoNode}, recon: Nat, retry: Nat, due: BOOLEAN]
Command == [run: Nat \ {0}, routes: SUBSET Domains]
Result == [type: {"ingress"}, run: Nat \ {0}, routes: SUBSET Domains, applied: BOOLEAN, ok: SUBSET Domains]
EventType == Result \union [type: {"ready"}, service: Services]
Todo == {q \in Seq(Nodes) : q # <<>>}
CallType ==
    {Idle} \union [pc: {"open", "read"}, todo: Todo]
    \union [pc: {"transact"}, todo: Todo, routes: SUBSET Domains, deleting: SUBSET Domains]
    \union [pc: {"send"}, todo: Todo, run: Nat \ {0}, routes: SUBSET Domains]
    \union [pc: {"unsent"}, todo: Todo, run: Nat \ {0}]
    \union [pc: {"insert"}, domain: Domains, node: Nodes]
    \union [pc: {"move"}, service: Services]
CallOK(x) ==
    \/ x \in CallType
    \/ /\ DOMAIN x = {"pc", "event", "counts"} /\ x.pc = "result"
       /\ x.event \in Result /\ x.counts \in [x.event.routes -> Nat]

\* Types; runs are numbered as they are inserted, and only these are named.
TypeOK ==
    /\ domain \in [Domains -> RowType]
    /\ \A d \in Domains : /\ domain[d].recon <= Len(run)
                          /\ Row(d) => domain[d].node \in Nodes
    /\ run \in Seq([node: Nodes, status: {"RUNNING", "SUCCEEDED", "FAILED"}, routes: SUBSET Domains])
    /\ ready \in [Services -> Nodes \union {NoNode}]
    /\ sockets \in [Nodes -> 0..MaxConns] /\ link \in [Nodes -> 0..MaxConns]
    /\ conn \in [Conns -> {"none", "open", "closing", "closed"}]
    /\ broken \subseteq Conns
    /\ DOMAIN call = Callers /\ \A c \in Callers : CallOK(call[c])
    /\ queue \in [Conns -> Seq(EventType)]
    /\ waiting \in [Nodes -> Seq([conn: Conns, cmd: Command])]
    /\ file \in [Nodes -> SUBSET Domains] /\ live \in [Nodes -> SUBSET Domains]
    /\ applied \subseteq DOMAIN run
    /\ verified \subseteq Domains \X Nodes
    /\ used \in [calls: Nat, readies: Nat, ticks: Nat, mishaps: Nat]

\* A domain that is being configured belongs to a reconciliation of its own
\* node that is still RUNNING, and has no retry scheduled beside it: whoever
\* ends a reconciliation (its result, a newer one, a disconnect, a failed
\* send, a restart) takes its domains along.
ConfiguringOwned ==
    \A d \in Domains :
        domain[d].status = "CONFIGURING" =>
            /\ domain[d].recon \in DOMAIN run
            /\ run[domain[d].recon].status = "RUNNING"
            /\ run[domain[d].recon].node = domain[d].node
            /\ ~domain[d].due

\* Results of superseded reconciliations are rejected (ADR 0007): a domain
\* turns ACTIVE or FAILED only when the reconciliation it belongs to ends, and
\* only if that was RUNNING, although the result is checked before the
\* transaction that records it.
OnlyRunningDecides ==
    [][\A d \in Domains :
          domain'[d].status \in {"ACTIVE", "FAILED"} /\ domain'[d].status # domain[d].status =>
              LET r == domain[d].recon IN
              r \in DOMAIN run /\ run[r].status = "RUNNING" /\ run'[r].status # "RUNNING"]_vars

\* A row disappears only if the Agent of its node reported as applied a
\* reconciliation that left the hostname out (ADR 0007: deletion waits for
\* the confirmation, and for nothing else).
RemovedWasApplied ==
    [][\A d \in Domains :
          domain'[d].status = "removed" /\ domain[d].status # "removed" =>
              LET r == domain[d].recon IN
              /\ domain[d].status = "DELETING" /\ r \in applied
              /\ run[r].node = domain[d].node /\ d \notin run[r].routes]_vars

\* ACTIVE means that the Agent of the domain's present node has seen the
\* hostname answer with that node's route set: not another node's, and not
\* from before the domain moved here.
ActiveWasVerified ==
    \A d \in Domains : domain[d].status = "ACTIVE" => <<d, domain[d].node>> \in verified

\* A reconciliation of the node is still to be read or to open, or the end of
\* its connection is still to be noticed or recorded: whatever the node has is
\* going to be superseded.
Coming(n) ==
    \E w \in Callers :
        \/ call[w].pc \in {"read", "transact"} /\ \E i \in DOMAIN call[w].todo : call[w].todo[i] = n
        \/ call[w].pc = "open" /\ w[1] = n /\ InMap(w)
        \/ call[w].pc \in {"send", "unsent"} /\ \E i \in 2..Len(call[w].todo) : call[w].todo[i] = n
Renewed(n) ==
    \/ Coming(n)
    \/ \E i \in 1..MaxConns : conn[<<n, i>>] = "closing"
    \/ <<n, sockets[n]>> \in broken

\* Somebody is going to end what a domain waits for: its reconciliation is
\* about to be sent or given up, the Agent has it, its result is on the way to
\* the control plane, or it is going to be superseded.  A reconciliation that
\* names a row that is not on the node any more, as it was deleted or moved
\* after the rows were read, is the exception: its result is refused as a whole.
Attended(n, r) ==
    LET c == <<n, sockets[n]>> IN
    \/ Renewed(n)
    \/ \E w \in Callers : call[w].pc \in {"send", "unsent"} /\ call[w].run = r
    \/ \E i \in DOMAIN waiting[n] : waiting[n][i].cmd.run = r /\ waiting[n][i].conn = c
    \/ /\ c \in Conns
       /\ \/ call[c].pc = "result" /\ call[c].event.run = r
          \/ \E i \in DOMAIN queue[c] : queue[c][i].type = "ingress" /\ queue[c][i].run = r
    \/ \E d \in run[r].routes : d \notin On(n)

ConfiguringAttended ==
    \A d \in Domains : domain[d].status = "CONFIGURING" /\ domain[d].recon \in DOMAIN run =>
        Attended(domain[d].node, domain[d].recon)

\* The rows of domains and of reconciliations agree, and none is forgotten.
Consistent == TypeOK /\ ConfiguringOwned /\ ConfiguringAttended

\* A domain turns ACTIVE, FAILED or removed by the end of its own reconciliation
\* and nothing else.
DecidedByItsRun == OnlyRunningDecides /\ RemovedWasApplied

\* CONFIGURING ends, by a result, a disconnect or a newer reconciliation, with
\* the same exception.
ConfiguringEnds ==
    \A d \in Domains :
        domain[d].status = "CONFIGURING" ~>
            \/ domain[d].status # "CONFIGURING"
            \/ \E e \in run[domain[d].recon].routes : e \notin On(domain[d].node)

\* ADR 0007: "ACTIVE|FAILED|PENDING -> DELETING -> row removed".
DeletionIsFinal ==
    [][\A d \in Domains : domain[d].status = "DELETING" => domain'[d].status \in {"DELETING", "removed"}]_vars

\* ADR 0007: "applied=true means the requested desired Caddy configuration,
\* including route removals, was successfully applied on the node".
AppliedIsLive ==
    [][\A r \in applied' \ applied :
          run[r].status = "RUNNING" => live'[run[r].node] = run[r].routes]_vars
=============================================================================
