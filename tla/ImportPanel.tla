---------------------------- MODULE ImportPanel -----------------------------
(***************************************************************************)
(* The panel of the web console that imports the services discovered in a  *)
(* repository and deploys them (GitHubConnectPanel).  A service is deployed *)
(* in three requests: its variables, its push autodeploy, its first        *)
(* deployment.  A request that fails may have had its effect: the answer   *)
(* is what was lost.  When the deployment fails, the autodeploy that was   *)
(* configured before it is removed again.                                  *)
(***************************************************************************)
EXTENDS Naturals, Sequences, FiniteSets

CONSTANTS
    Services,
    MaxRuns             \* bound: calls of deployService

ImportBound == MaxRuns \in Nat /\ IsFiniteSet(Services)

VARIABLES
    panel,              \* what the panel shows, and what it is asking
    all,                \* what deployAll has still to deploy
    runs,               \* calls of deployService
    enabled, queued,    \* the server: services with push autodeploy; runs whose deployment exists
    overtaken           \* history: services that a run was begun for while another went on

vars == <<panel, all, runs, enabled, queued, overtaken>>

Statuses == {"none", "IDLE", "DEPLOYING", "QUEUED", "FAILED"}
Unshown == [s \in Services |-> "none"]

TypeOK ==
    /\ panel \in [asking : {"nothing", "discover", "confirm", "deploy"}, chosen : SUBSET Services,
                  confirmed : SUBSET Services, status : [Services -> Statuses]]
    /\ all \in Seq(Services) /\ enabled \subseteq Services /\ overtaken \subseteq Services
    /\ runs \in Seq([s : Services, pc : {"variables", "autodeploy", "post", "undo", "over"}])
    /\ queued \subseteq DOMAIN runs

Init ==
    /\ panel = [asking |-> "nothing", chosen |-> {}, confirmed |-> {}, status |-> Unshown]
    /\ all = <<>> /\ runs = <<>> /\ enabled = {} /\ queued = {} /\ overtaken = {}

serverRests == UNCHANGED <<enabled, queued>>
Busy == panel.asking # "nothing"
Underway(s) == {r \in DOMAIN runs : runs[r].s = s /\ runs[r].pc # "over"}

-----------------------------------------------------------------------------
(* Discovery and confirmation *)

\* the page went to another project: the panel forgets, its requests go on
LeaveProject ==
    /\ panel' = [panel EXCEPT !.confirmed = {}, !.status = Unshown]
    /\ UNCHANGED <<all, runs, overtaken>> /\ serverRests
Discover ==
    /\ ~Busy /\ panel' = [panel EXCEPT !.asking = "discover", !.confirmed = {}, !.status = Unshown]
    /\ UNCHANGED <<all, runs, overtaken>> /\ serverRests
ConfirmServices(S) ==
    /\ ~Busy /\ panel.confirmed = {} /\ S # {}
    /\ panel' = [panel EXCEPT !.asking = "confirm", !.chosen = S]
    /\ UNCHANGED <<all, runs, overtaken>> /\ serverRests
\* services are shown with the values to fill in, or a message is
Answered ==
    /\ panel.asking \in {"discover", "confirm"}
    /\ \/ panel' = [panel EXCEPT !.asking = "nothing", !.chosen = {}]
       \/ /\ panel.asking = "confirm"
          /\ panel' = [asking |-> "nothing", chosen |-> {}, confirmed |-> panel.chosen,
                       status |-> [s \in Services |-> IF s \in panel.chosen THEN "IDLE" ELSE "none"]]
    /\ UNCHANGED <<all, runs, overtaken>> /\ serverRests

-----------------------------------------------------------------------------
(* deployService and deployAll *)

Shows(s, status, asking) == panel' = [panel EXCEPT !.status[s] = status, !.asking = asking]
At(r, pc) == r \in DOMAIN runs /\ runs[r].pc = pc
Goes(r, pc) == runs' = [runs EXCEPT ![r].pc = pc]

\* a value that is both a secret and public fails before anything is sent
Begin(s, asking) ==
    \/ /\ Len(runs) < MaxRuns
       /\ runs' = Append(runs, [s |-> s, pc |-> "variables"]) /\ Shows(s, "DEPLOYING", asking)
       /\ overtaken' = IF Underway(s) = {} THEN overtaken ELSE overtaken \union {s}
    \/ Shows(s, "FAILED", asking) /\ UNCHANGED <<runs, overtaken>>

DeployService(s) ==
    /\ ~Busy /\ s \in panel.confirmed /\ panel.status[s] # "DEPLOYING"
    /\ Begin(s, "nothing") /\ UNCHANGED all /\ serverRests

DeployAll ==
    /\ ~Busy /\ panel.confirmed # {} /\ \A s \in panel.confirmed : panel.status[s] # "DEPLOYING"
    /\ all' \in {q \in [1..Cardinality(panel.confirmed) -> panel.confirmed] :
                    \A s \in panel.confirmed : \E i \in DOMAIN q : q[i] = s}
    /\ panel' = [panel EXCEPT !.asking = "deploy"]
    /\ UNCHANGED <<runs, overtaken>> /\ serverRests
\* one service after the other
DeployNext ==
    /\ panel.asking = "deploy" /\ all # <<>> /\ \A r \in DOMAIN runs : runs[r].pc = "over"
    /\ Begin(Head(all), "deploy") /\ all' = Tail(all) /\ serverRests
AllDeployed ==
    /\ panel.asking = "deploy" /\ all = <<>> /\ \A r \in DOMAIN runs : runs[r].pc = "over"
    /\ panel' = [panel EXCEPT !.asking = "nothing"]
    /\ UNCHANGED <<all, runs, overtaken>> /\ serverRests

Fail(r) == Goes(r, "over") /\ Shows(runs[r].s, "FAILED", panel.asking)

\* PUT config/variables
PutVariables(r) ==
    /\ At(r, "variables")
    /\ \/ Goes(r, "autodeploy") /\ UNCHANGED panel
       \/ Fail(r)
    /\ UNCHANGED <<all, overtaken>> /\ serverRests
\* PUT push-autodeploy
PutAutodeploy(r) ==
    /\ At(r, "autodeploy")
    /\ \/ Goes(r, "post") /\ enabled' = enabled \union {runs[r].s} /\ UNCHANGED panel
       \/ Fail(r) /\ enabled' \in {enabled, enabled \union {runs[r].s}}
    /\ UNCHANGED <<all, queued, overtaken>>
\* POST deployments
Post(r) ==
    /\ At(r, "post")
    /\ \/ Goes(r, "over") /\ Shows(runs[r].s, "QUEUED", panel.asking) /\ queued' = queued \union {r}
       \/ Goes(r, "undo") /\ queued' \in {queued, queued \union {r}} /\ UNCHANGED panel
    /\ UNCHANGED <<all, enabled, overtaken>>
\* DELETE push-autodeploy, whose failure is ignored
Undo(r) ==
    /\ At(r, "undo") /\ Fail(r) /\ enabled' \in {enabled, enabled \ {runs[r].s}}
    /\ UNCHANGED <<all, queued, overtaken>>

Next ==
    \/ LeaveProject \/ Discover \/ Answered \/ DeployAll \/ DeployNext \/ AllDeployed
    \/ \E S \in SUBSET Services : ConfirmServices(S)
    \/ \E s \in Services : DeployService(s)
    \/ \E r \in DOMAIN runs : PutVariables(r) \/ PutAutodeploy(r) \/ Post(r) \/ Undo(r)
Spec == Init /\ [][Next]_vars

-----------------------------------------------------------------------------
(* Properties *)

\* A service shown as QUEUED ("queued - push autodeploy enabled") has a
\* deployment and its push autodeploy, unless the project was left, and the
\* service confirmed and deployed again, while an earlier run went on: when that
\* one fails it removes what the later one configured.
QueuedIsEnabled ==
    \A s \in Services : panel.status[s] = "QUEUED" /\ s \notin overtaken =>
        s \in enabled /\ \E r \in queued : runs[r].s = s
=============================================================================
