-------------------------- MODULE NodeCredentials ---------------------------
(***************************************************************************)
(* The credentials of a node and of its deployments: how install.sh turns  *)
(* the one-time bootstrap credential of a new node into the permanent one  *)
(* of its Agent, which Agent binary it installs, when archiving a node     *)
(* takes its credential away, and how the tickets that a dispatch hands to *)
(* an Agent buy the source of a deployment, or the password of a registry. *)
(*                                                                         *)
(* `row' is the row of nodes, `host' what install.sh has done on the       *)
(* machine, `proc' the credential the running Agent was started with and   *)
(* `link' its connection.  `tries' numbers the dispatches of a deployment, *)
(* and with them its tickets; `attempts' are the commands under way.       *)
(*                                                                         *)
(* A time to live is a step that ends it, a request and its answer are     *)
(* separate steps, and a credential is the number of the run of install.sh *)
(* that made it.  How statuses travel and deployments go on is             *)
(* NodeDispatch; domains, which archiving asks about, are DomainIngress.   *)
(***************************************************************************)
EXTENDS Naturals, FiniteSets

CONSTANTS
    Nodes, Sources, Images,     \* deployments that a ticket buys source, or an image, for
    HomeOf,                     \* deployment -> node
    Hosts, HostOf,              \* registries; deployment -> the one of its image
    NoHost,
    MaxRuns,                    \* bound: runs of install.sh on a machine
    MaxTries,                   \* bound: dispatches of a deployment
    MaxReleases,                \* bound: Agent releases under the tag
    MaxFaults                   \* bound: runs interrupted, answers lost, restarts

Deployments == Sources \union Images
ASSUME HomesAssumption == HomeOf \in [Deployments -> Nodes] /\ Sources \intersect Images = {}
ASSUME HoldersAssumption == Nodes \intersect Deployments = {}
ASSUME HostsAssumption == HostOf \in [Images -> Hosts] /\ NoHost \notin Hosts
ASSUME BoundsAssumption == {MaxRuns, MaxTries, MaxReleases} \subseteq Nat \ {0} /\ MaxFaults \in Nat

VARIABLES
    row, dep, ticket,                   \* PostgreSQL
    provider, config, exchanges,        \* API process
    host, proc, link, attempts,         \* machines and their Agents
    published, listed,                  \* the GitHub release
    issued, spent, revoked, admitted, cut, refused, spoilt, pulled, faults     \* history

agent == <<proc, link>>
release == <<provider, published, listed>>
tickets == <<dep, ticket, config, attempts>>
tokens == <<issued, spent>>
enrolled == <<revoked, admitted, cut>>
delivered == <<refused, spoilt, pulled>>
vars == <<row, host, exchanges, agent, release, tickets, tokens, enrolled, delivered, faults>>

Runs == 1..MaxRuns
Releases == 1..MaxReleases
Steps == {"idle", "sum", "sum sent", "binary", "binary sent", "write", "exchange", "await",
          "enable", "poll", "done", "stopped"}
Idle == {"idle", "done", "stopped"}
Stages == {"claimed", "issued", "wire", "asking", "granted", "built", "failed"}

RowType == [life : {"none", "ACTIVE", "ARCHIVED"}, token : Runs \union {0},
            boot : {"none", "live", "lapsed"}, online : BOOLEAN, seen : BOOLEAN]
HostType == [pc : Steps, run : Runs \union {0}, sum : 0..MaxReleases, installed : 0..MaxReleases,
             env : Runs \union {0}]
DepType == [st : {"none", "QUEUED", "BUILDING", "BUILT", "READY", "FAILED"}, leased : BOOLEAN,
            tries : 0..MaxTries]
TicketType == [token : 0..MaxTries, usable : BOOLEAN, host : Hosts \union {NoHost}]
AttemptType == [dep : Deployments, token : 1..MaxTries, at : Stages, told : BOOLEAN,
                for : Hosts \union {NoHost}]

TypeOK ==
    /\ row \in [Nodes -> RowType] /\ host \in [Nodes -> HostType]
    /\ proc \in [Nodes -> Runs \union {0}]
    /\ link \in [Nodes -> {"none", "asked", "checked", "up"}]
    /\ exchanges \subseteq Nodes \X Runs
    /\ provider \in [st : {"empty", "loading", "ready"}, sum : 0..MaxReleases]
    /\ published \in [sum : Releases, binary : Releases]
    /\ dep \in [Deployments -> DepType] /\ ticket \in [Deployments -> TicketType]
    /\ config \in Hosts \union {NoHost}
    /\ attempts \subseteq AttemptType

FreshHost == [pc |-> "idle", run |-> 0, sum |-> 0, installed |-> 0, env |-> 0]
NoNode == [life |-> "none", token |-> 0, boot |-> "none", online |-> FALSE, seen |-> FALSE]
Init ==
    /\ row = [n \in Nodes |-> NoNode] /\ host = [n \in Nodes |-> FreshHost]
    /\ dep = [d \in Deployments |-> [st |-> "none", leased |-> FALSE, tries |-> 0]]
    /\ ticket = [d \in Deployments |-> [token |-> 0, usable |-> FALSE, host |-> NoHost]]
    /\ provider = [st |-> "empty", sum |-> 0] /\ config \in Hosts \union {NoHost}
    /\ exchanges = {} /\ proc = [n \in Nodes |-> 0] /\ link = [n \in Nodes |-> "none"] /\ attempts = {}
    /\ published = [sum |-> 1, binary |-> 1] /\ listed = {1}
    /\ issued = {} /\ spent = {} /\ revoked = {} /\ admitted = {} /\ cut = {} /\ refused = {} /\ spoilt = {}
    /\ pulled = {} /\ faults = 0

Fault == faults < MaxFaults /\ faults' = faults + 1

-----------------------------------------------------------------------------
(* The rows of nodes *)

\* POST /v0/workspaces/:workspaceId/nodes; the trigger of migration 007 moves
\* the token that is returned into the bootstrap columns
CreateNode(n) ==
    /\ row[n].life = "none"
    /\ row' = [row EXCEPT ![n] = [NoNode EXCEPT !.life = "ACTIVE", !.boot = "live"]]
    /\ issued' = issued \union {<<n, 1>>}
    /\ UNCHANGED <<host, exchanges, agent, release, tickets, spent, enrolled, delivered, faults>>

BootstrapLapses(n) ==
    /\ row[n].boot = "live"
    /\ row' = [row EXCEPT ![n].boot = "lapsed"]
    /\ UNCHANGED <<host, exchanges, agent, release, tickets, tokens, enrolled, delivered, faults>>

\* Mutant: the node is archived and its Agent's credential stays.
ArchivedKeepingToken(r) == [r EXCEPT !.life = "ARCHIVED", !.online = FALSE]
ArchivedRow(r) == [r EXCEPT !.life = "ARCHIVED", !.online = FALSE, !.token = 0]

\* the credential the row held is taken away, by archiving or after a cleanup
Revokes(n) ==
    /\ row' = [row EXCEPT ![n] = ArchivedRow(@)]
    /\ revoked' = revoked \union {<<n, row[n].token>>}

Archive(n) ==
    /\ row[n].life = "ACTIVE" /\ ~row[n].online
    /\ ~\E d \in Deployments : HomeOf[d] = n /\ dep[d].st = "READY"
    /\ Revokes(n)
    /\ UNCHANGED <<host, exchanges, agent, release, tickets, tokens, admitted, cut, delivered, faults>>

\* a cleanup was allowed and succeeded (NodeDispatch): the socket is closed too
CleanUp(n) ==
    /\ row[n].life = "ACTIVE" /\ row[n].online /\ link[n] = "up"
    /\ ~\E d \in Deployments : HomeOf[d] = n /\ dep[d].st \in {"QUEUED", "BUILDING", "BUILT", "READY"}
    /\ Revokes(n)
    /\ link' = [link EXCEPT ![n] = "none"]
    /\ UNCHANGED <<host, exchanges, proc, release, tickets, tokens, admitted, cut, delivered, faults>>

\* authenticateAgentReleaseCredential, for the credential of install.sh
MayFetchRelease(n) == row[n].boot = "live" /\ ~row[n].online /\ ~row[n].seen

-----------------------------------------------------------------------------
(* install.sh *)

Moves(n, pc) == host' = [host EXCEPT ![n].pc = pc]
OnlyHost == UNCHANGED <<row, exchanges, agent, release, tickets, tokens, delivered>>

\* preflight passed; the binary is the control plane's, not RUNDEA_AGENT_URL's
StartInstall(n) ==
    /\ row[n].life # "none"
    /\ host[n].pc \in {"idle", "stopped"} /\ host[n].run < MaxRuns
    /\ host' = [host EXCEPT ![n].pc = "sum", ![n].run = @ + 1, ![n].sum = 0]
    /\ OnlyHost /\ UNCHANGED <<enrolled, faults>>

\* the checksum, then the binary, are asked for with the bootstrap credential
AskRelease(n) ==
    /\ host[n].pc \in {"sum", "binary"}
    /\ Moves(n, IF ~MayFetchRelease(n) THEN "stopped"
                ELSE IF host[n].pc = "sum" THEN "sum sent" ELSE "binary sent")
    /\ OnlyHost /\ UNCHANGED <<enrolled, faults>>

TakeSum(n) ==
    /\ host[n].pc = "sum sent" /\ provider.st = "ready"
    /\ host' = [host EXCEPT ![n].pc = "binary", ![n].sum = provider.sum]
    /\ OnlyHost /\ UNCHANGED <<enrolled, faults>>

\* sha256sum --check, then the binary's own --identity
TakeBinary(n) ==
    /\ host[n].pc = "binary sent" /\ provider.st = "ready"
    /\ Moves(n, IF provider.sum = host[n].sum THEN "write" ELSE "stopped")
    /\ OnlyHost /\ UNCHANGED <<enrolled, faults>>

\* Mutant: the new credential is sent before it is kept in agent.env.
PreparedWithoutEnv(h) == [h EXCEPT !.pc = "exchange", !.installed = h.sum]
Prepared(h) == [h EXCEPT !.pc = "exchange", !.installed = h.sum, !.env = h.run]
\* the binary, a new credential in agent.env, and the unit
Prepare(n) ==
    /\ host[n].pc = "write"
    /\ host' = [host EXCEPT ![n] = Prepared(@)]
    /\ OnlyHost /\ UNCHANGED <<enrolled, faults>>

SendExchange(n) ==
    /\ host[n].pc = "exchange"
    /\ Moves(n, "await")
    /\ exchanges' = exchanges \union {<<n, host[n].run>>}
    /\ UNCHANGED <<row, agent, release, tickets, tokens, enrolled, delivered, faults>>

\* Mutant: the bootstrap credential stays after it was exchanged.
ExchangedKeepingBoot(r, k) == [r EXCEPT !.token = k]
Exchanged(r, k) == [r EXCEPT !.token = k, !.boot = "none"]
\* exchangeBootstrapCredential: one transaction, and an answer that may be lost
Exchange(n, k) ==
    LET valid == row[n].boot = "live" /\ ~row[n].online /\ ~row[n].seen
        awaited == host[n].pc = "await" /\ host[n].run = k
    IN  /\ <<n, k>> \in exchanges
        /\ exchanges' = exchanges \ {<<n, k>>}
        /\ IF valid THEN /\ row' = [row EXCEPT ![n] = Exchanged(@, k)]
                         /\ spent' = spent \union {<<n, 1>>}
                    ELSE UNCHANGED <<row, spent>>
        /\ \/ /\ host' = IF awaited THEN [host EXCEPT ![n].pc = IF valid THEN "enable" ELSE "stopped"] ELSE host
              /\ UNCHANGED faults
           \/ /\ awaited /\ Fault
              /\ Moves(n, "stopped")
        /\ UNCHANGED <<agent, release, tickets, issued, enrolled, delivered>>

\* systemctl enable --now does nothing to a unit that runs
Enable(n) ==
    /\ host[n].pc = "enable"
    /\ Moves(n, "poll")
    /\ proc' = [proc EXCEPT ![n] = IF @ = 0 THEN host[n].env ELSE @]
    /\ UNCHANGED <<row, exchanges, link, release, tickets, tokens, enrolled, delivered, faults>>

\* GET /v0/nodes/:nodeId/self/status says ONLINE to the permanent credential
Installed(n) == row[n].token = host[n].run /\ row[n].online
Poll(n) ==
    /\ host[n].pc = "poll"
    /\ \/ Installed(n) /\ Moves(n, "done")
       \/ Moves(n, "stopped")
    /\ OnlyHost /\ UNCHANGED <<enrolled, faults>>

\* the terminal is closed, the machine reboots: what was sent stays sent
Interrupt(n) ==
    /\ host[n].pc \notin Idle
    /\ Fault
    /\ Moves(n, "stopped")
    /\ cut' = IF host[n].pc = "await" THEN cut \union {n} ELSE cut
    /\ OnlyHost /\ UNCHANGED <<revoked, admitted>>

-----------------------------------------------------------------------------
(* The Agent and its connection *)

\* systemd starts the Agent again after it exits (Restart=always), and the
\* operator may: it reads agent.env as it is now
RestartAgent(n) ==
    /\ host[n].env # 0 /\ proc[n] # host[n].env
    /\ proc' = [proc EXCEPT ![n] = host[n].env]
    /\ link' = [link EXCEPT ![n] = "none"]
    /\ row' = [row EXCEPT ![n].online = FALSE]
    /\ UNCHANGED <<host, exchanges, release, tickets, tokens, enrolled, delivered, faults>>

Dial(n) ==
    /\ proc[n] # 0 /\ link[n] = "none"
    /\ link' = [link EXCEPT ![n] = "asked"]
    /\ UNCHANGED <<row, host, exchanges, proc, release, tickets, tokens, enrolled, delivered, faults>>

\* the handler of /v0/agent/ws compares the token, then awaits the hello
CheckToken(n) ==
    /\ link[n] = "asked"
    /\ LET good == row[n].token # 0 /\ row[n].token = proc[n]
       IN  /\ link' = [link EXCEPT ![n] = IF good THEN "checked" ELSE "none"]
           /\ admitted' = IF good THEN admitted \union {<<n, proc[n], row[n].life>>} ELSE admitted
    /\ UNCHANGED <<row, host, exchanges, proc, release, tickets, tokens, revoked, cut, delivered, faults>>

\* a compatible hello makes the node ONLINE, any other is remembered as seen
Hello(n) ==
    /\ link[n] = "checked"
    /\ \E compatible \in BOOLEAN :
          /\ row' = [row EXCEPT ![n].online = compatible, ![n].seen = TRUE]
          /\ link' = [link EXCEPT ![n] = IF compatible THEN "up" ELSE "none"]
    /\ UNCHANGED <<host, exchanges, proc, release, tickets, tokens, enrolled, delivered, faults>>

Disconnect(n) ==
    /\ link[n] \in {"checked", "up"}
    /\ Fault
    /\ link' = [link EXCEPT ![n] = "none"]
    /\ row' = IF link[n] = "up" THEN [row EXCEPT ![n].online = FALSE] ELSE row
    /\ UNCHANGED <<host, exchanges, proc, release, tickets, tokens, enrolled, delivered>>

-----------------------------------------------------------------------------
(* The Agent release: a promise, kept once it is good *)

Waiting == {n \in Nodes : host[n].pc \in {"sum sent", "binary sent"}}

\* the first request loads the release: the manifest of checksums first
LoadManifest ==
    /\ provider.st = "empty" /\ Waiting # {}
    /\ provider' = [st |-> "loading", sum |-> published.sum]
    /\ UNCHANGED <<row, host, exchanges, agent, published, listed, tickets, tokens, enrolled,
                   delivered, faults>>

\* Mutant: the checksum of the binary is computed, and not compared.
LoadedUnchecked(sum, binary) == [st |-> "ready", sum |-> binary]
\* what is kept is the release, or nothing, so that a failure is tried again
Loaded(sum, binary) ==
    IF binary = sum THEN [st |-> "ready", sum |-> sum] ELSE [st |-> "empty", sum |-> 0]
LoadBinary ==
    /\ provider.st = "loading"
    /\ provider' = Loaded(provider.sum, published.binary)
    /\ host' = IF provider'.st = "ready" THEN host
               ELSE [n \in Nodes |-> IF n \in Waiting THEN [host[n] EXCEPT !.pc = "stopped"] ELSE host[n]]
    /\ UNCHANGED <<row, exchanges, agent, published, listed, tickets, tokens, enrolled, delivered, faults>>

\* the assets under the tag are replaced, one after the other
Publish ==
    /\ \/ published.sum < MaxReleases /\ published' = [published EXCEPT !.sum = @ + 1]
       \/ published.binary < MaxReleases /\ published' = [published EXCEPT !.binary = @ + 1]
    /\ listed' = listed \union {published'.sum}
    /\ UNCHANGED <<row, host, exchanges, agent, provider, tickets, tokens, enrolled, delivered, faults>>

-----------------------------------------------------------------------------
(* Tickets *)

Owner(a) == HomeOf[a.dep]
With(a, at) == (attempts \ {a}) \union {[a EXCEPT !.at = at]}
Only(what) == UNCHANGED <<row, host, exchanges, agent, release, what>>

CreateDeployment(d) ==
    /\ dep[d].st = "none" /\ row[HomeOf[d]].life # "none"
    /\ dep' = [dep EXCEPT ![d].st = "QUEUED"]
    /\ Only(<<ticket, config, attempts, tokens, enrolled, delivered, faults>>)

\* dispatchQueued up to its COMMIT
Dispatch(d) ==
    LET n == HomeOf[d]
    IN  /\ dep[d].st = "QUEUED" /\ dep[d].tries < MaxTries
        /\ row[n].life = "ACTIVE" /\ link[n] = "up"
        /\ \A e \in Deployments : HomeOf[e] = n => dep[e].st \notin {"BUILDING", "BUILT"} /\ ~dep[e].leased
        /\ dep' = [dep EXCEPT ![d].leased = TRUE, ![d].tries = @ + 1]
        /\ attempts' = attempts \union {[dep |-> d, token |-> dep[d].tries + 1, at |-> "claimed",
                                         told |-> FALSE, for |-> NoHost]}
        /\ Only(<<ticket, config, tokens, enrolled, delivered, faults>>)

LeaseExpires(d) ==
    /\ dep[d].leased
    /\ dep' = [dep EXCEPT ![d].leased = FALSE]
    /\ Only(<<ticket, config, attempts, tokens, enrolled, delivered, faults>>)

\* The image cannot be sent: the Agent takes no prebuilt images or the registry
\* is not the configured one, before a ticket is issued; or the Agent has no use
\* for the ticket, which has by then replaced the one of another dispatch.
Refuse(a) ==
    /\ a.dep \in Images
    /\ a.at = "claimed" \/ (a.at = "issued" /\ a.for # NoHost)
    /\ attempts' = attempts \ {a}
    /\ dep' = IF dep[a.dep].st = "QUEUED" THEN [dep EXCEPT ![a.dep].st = "FAILED", ![a.dep].leased = FALSE]
              ELSE dep
    /\ Only(<<ticket, config, tokens, enrolled, delivered, faults>>)

\* issueSourceBundleTicket, issueRegistryPullTicket: one row per deployment
Reissued(d, k, h) == [token |-> k, usable |-> TRUE, host |-> h]
Issue(a) ==
    LET h == IF a.dep \in Images THEN HostOf[a.dep] ELSE NoHost
    IN  /\ a.at = "claimed"
        /\ a.dep \in Images => config \in {h, NoHost}
        /\ IF a.dep \in Images /\ config = NoHost       \* a public registry
           THEN /\ attempts' = (attempts \ {a}) \union {[a EXCEPT !.at = "issued", !.for = NoHost]}
                /\ UNCHANGED <<ticket, issued>>
           ELSE /\ attempts' = (attempts \ {a}) \union {[a EXCEPT !.at = "issued", !.for = h]}
                /\ ticket' = [ticket EXCEPT ![a.dep] = Reissued(a.dep, a.token, h)]
                /\ issued' = issued \union {<<a.dep, a.token>>}
        /\ Only(<<dep, config, spent, enrolled, delivered, faults>>)

TicketLapses(d) ==
    /\ ticket[d].usable
    /\ ticket' = [ticket EXCEPT ![d].usable = FALSE]
    /\ spoilt' = spoilt \union {<<d, ticket[d].token>>}
    /\ Only(<<dep, config, attempts, tokens, enrolled, refused, pulled, faults>>)

\* socket.send: a socket that has closed loses the command
SendCommand(a) ==
    /\ a.at = "issued"
    /\ attempts' = IF link[Owner(a)] = "up" THEN With(a, "wire") ELSE attempts \ {a}
    /\ Only(<<dep, ticket, config, tokens, enrolled, delivered, faults>>)

Ticketed(a) == a.dep \in Sources \/ a.for # NoHost

\* the goroutine gets runtimeMu and says BUILDING; it asks for what the
\* ticket buys before that is recorded
BeginAttempt(a) ==
    /\ a.at = "wire"
    /\ ~\E b \in attempts : Owner(b) = Owner(a) /\ b.at \in {"asking", "granted"}
    /\ attempts' = With(a, IF Ticketed(a) THEN "asking" ELSE "granted")
    /\ Only(<<dep, ticket, config, tokens, enrolled, delivered, faults>>)

\* claimRegistryPullTicket asks for the registry as well
SameRegistry(a) == a.dep \in Images => ticket[a.dep].host = config
\* Mutant: a ticket is good once its deployment is recorded as BUILDING.
HonouredWhenBuilding(a) ==
    ticket[a.dep].usable /\ ticket[a.dep].token = a.token /\ dep[a.dep].st = "BUILDING" /\ SameRegistry(a)
\* claimSourceBundleTicket: under the lock of its row
Honoured(a) == ticket[a.dep].usable /\ ticket[a.dep].token = a.token /\ SameRegistry(a)

\* The claim commits before the archive is fetched from GitHub: whatever goes
\* wrong after it, the ticket is used.
Claim(a) ==
    /\ a.at = "asking"
    /\ IF Honoured(a)
       THEN /\ ticket' = [ticket EXCEPT ![a.dep].usable = FALSE]
            /\ spent' = spent \union {<<a.dep, ticket[a.dep].token>>}
            /\ \/ /\ attempts' = With(a, "granted")
                  /\ pulled' = IF a.dep \in Images THEN pulled \union {<<a.dep, config>>} ELSE pulled
                  /\ UNCHANGED <<spoilt, faults>>
               \/ /\ a.dep \in Sources /\ attempts' = With(a, "failed")     \* 502
                  /\ UNCHANGED <<spoilt, pulled, faults>>
               \/ /\ Fault                  \* no answer: the transport asks again
                  /\ spoilt' = spoilt \union {<<a.dep, a.token>>}
                  /\ UNCHANGED <<attempts, pulled>>
            /\ UNCHANGED refused
       ELSE /\ attempts' = With(a, "failed")
            /\ refused' = refused \union {<<a.dep, a.token>>}
            /\ UNCHANGED <<ticket, spent, spoilt, pulled, faults>>
    /\ Only(<<dep, config, issued, enrolled>>)

\* the image is built or pulled, or the request is never answered
FinishAttempt(a) ==
    /\ \/ /\ a.at = "granted"
          /\ \E outcome \in {"built", "failed"} : attempts' = With(a, outcome)
          /\ UNCHANGED faults
       \/ a.at = "asking" /\ Fault /\ attempts' = With(a, "failed")
    /\ Only(<<dep, ticket, config, tokens, enrolled, delivered>>)

\* BUILDING is recorded, some time after it was said
RecordBuilding(a) ==
    /\ a.at \in {"asking", "granted", "built", "failed"} /\ ~a.told
    /\ attempts' = (attempts \ {a}) \union {[a EXCEPT !.told = TRUE]}
    /\ dep' = IF dep[a.dep].st = "QUEUED" THEN [dep EXCEPT ![a.dep].st = "BUILDING", ![a.dep].leased = FALSE]
              ELSE dep
    /\ Only(<<ticket, config, tokens, enrolled, delivered, faults>>)
RecordOutcome(a) ==
    /\ a.at \in {"built", "failed"} /\ a.told
    /\ attempts' = attempts \ {a}
    /\ dep' = IF dep[a.dep].st = "BUILDING"
              THEN [dep EXCEPT ![a.dep].st = IF a.at = "built" THEN "BUILT" ELSE "FAILED"] ELSE dep
    /\ Only(<<ticket, config, tokens, enrolled, delivered, faults>>)

\* recordStatus until READY: the rest of a deployment, in detail NodeDispatch's
Promote(d) ==
    /\ dep[d].st = "BUILT"
    /\ dep' = [dep EXCEPT ![d].st = "READY"]
    /\ Only(<<ticket, config, attempts, tokens, enrolled, delivered, faults>>)

-----------------------------------------------------------------------------
\* The control plane restarts, with the registry its operator now configures:
\* requests and connections break, the release is loaded again.
RestartControlPlane ==
    /\ Fault
    /\ provider' = [st |-> "empty", sum |-> 0]
    /\ config' \in Hosts \union {NoHost}
    /\ row' = [n \in Nodes |-> [row[n] EXCEPT !.online = FALSE]]
    /\ link' = [n \in Nodes |-> "none"]
    /\ host' = [n \in Nodes |-> IF n \in Waiting \/ host[n].pc = "await"
                                THEN [host[n] EXCEPT !.pc = "stopped"] ELSE host[n]]
    /\ exchanges' = {}
    /\ attempts' = {a \in attempts : a.at \notin {"claimed", "issued", "wire"}}
    /\ spoilt' = spoilt \union {<<d, ticket[d].token>> : d \in {e \in Images : config' # ticket[e].host}}
    /\ UNCHANGED <<dep, ticket, proc, published, listed, tokens, enrolled, refused, pulled>>

Install(n) ==
    \/ StartInstall(n) \/ AskRelease(n) \/ TakeSum(n) \/ TakeBinary(n) \/ Prepare(n)
    \/ SendExchange(n) \/ \E k \in Runs : Exchange(n, k)
    \/ Enable(n) \/ Poll(n) \/ Interrupt(n)
Lifecycle(n) == CreateNode(n) \/ BootstrapLapses(n) \/ Archive(n) \/ CleanUp(n)
Connection(n) == RestartAgent(n) \/ Dial(n) \/ CheckToken(n) \/ Hello(n) \/ Disconnect(n)
Deployment(d) ==
    CreateDeployment(d) \/ Dispatch(d) \/ LeaseExpires(d) \/ TicketLapses(d) \/ Promote(d)
Attempt(a) ==
    \/ Refuse(a) \/ Issue(a) \/ SendCommand(a) \/ BeginAttempt(a) \/ Claim(a) \/ FinishAttempt(a)
    \/ RecordBuilding(a) \/ RecordOutcome(a)

Next ==
    \/ \E n \in Nodes : Lifecycle(n) \/ Install(n) \/ Connection(n)
    \/ LoadManifest \/ LoadBinary \/ Publish
    \/ \E d \in Deployments : Deployment(d)
    \/ \E a \in attempts : Attempt(a)
    \/ RestartControlPlane

Spec == Init /\ [][Next]_vars

-----------------------------------------------------------------------------
(* Properties *)

\* The commit point of install.sh: when the control plane knows a permanent
\* credential it is the one in agent.env, however often the script is run
\* again and whichever answer was lost.  Only a script that was interrupted
\* with its exchange on the way can leave another one there.
CommitPoint ==
    \A n \in Nodes \ cut : row[n].token # 0 => host[n].env = row[n].token

\* The rows, the file and what was issued agree.
Consistent == TypeOK /\ CommitPoint

\* What is installed was listed in the manifest of a release, even while the
\* assets of the release are being replaced and the control plane restarts.
InstalledWasListed == \A n \in Nodes : host[n].installed # 0 => host[n].installed \in listed

\* "Success is server-authoritative": the script says the node is installed
\* only after an Agent with the credential this run made was let in.
DoneWasAdmitted ==
    \A n \in Nodes : host[n].pc = "done" =>
        \E life \in {"ACTIVE", "ARCHIVED"} : <<n, host[n].run, life>> \in admitted

\* A credential that archiving or a cleanup took away lets no Agent in again,
\* whatever reconnects.  (An enrolment still open may give the archived node
\* another one: see the README.)
RevokedStaysOut ==
    \A n \in Nodes, k \in Runs :
        <<n, k>> \in revoked => <<n, k, "ARCHIVED">> \notin admitted

\* Who is let in, and who not: a run of install.sh that ended well, and nobody
\* whose credential was taken away.
AdmittedRightly == DoneWasAdmitted /\ RevokedStaysOut

\* A ticket is refused for a reason: it ran out, the ticket of another dispatch
\* replaced it, a request whose answer was lost used it, or the registry changed.
RefusedForAReason ==
    \A d \in Deployments, k \in 1..MaxTries :
        <<d, k>> \in refused =>
            <<d, k>> \in spoilt \/ \E j \in 1..MaxTries : j # k /\ <<d, j>> \in issued

\* The registry password an Agent is given is the one of its image's registry,
\* though the operator may configure another one between issue and claim.
PulledFromItsRegistry == \A d \in Images, h \in Hosts : <<d, h>> \in pulled => h = HostOf[d]

\* What the Agent gets for its tickets: an answer unless there is a reason, and
\* no password but the one its image needs.
TicketsServe == RefusedForAReason /\ PulledFromItsRegistry

\* Bootstrap credentials and tickets keep the promise of OneShot.
OneShotCredentials == INSTANCE OneShot WITH
    Holders <- Nodes \union Deployments,
    Tokens <- 1..MaxTries,
    NoToken <- 0,
    issued <- issued,
    spent <- spent,
    live <- [h \in Nodes \union Deployments |->
                IF h \in Nodes THEN IF row[h].boot = "live" THEN 1 ELSE 0
                ELSE IF ticket[h].usable THEN ticket[h].token ELSE 0]
RefinesOneShot == OneShotCredentials!Spec

\* "Archive revokes the stored node credential" (ADR 0021): the row of an
\* archived node holds none.
ArchivedIsRevoked == \A n \in Nodes : row[n].life = "ARCHIVED" => row[n].token = 0
=============================================================================
