----------------------------- MODULE WebConsole -----------------------------
(***************************************************************************)
(* The page of the web console (CanonicalApp): it follows a selected       *)
(* project and service, and shows what the server has about them.          *)
(*                                                                         *)
(* Every refresh is a request whose answer comes when it comes, after the  *)
(* answers of later ones too, into a page that may have moved on: it was   *)
(* asked with the ids of the render that asked it, and sets the state of   *)
(* the page of now.  An answer holds what the server had when it was asked.*)
(* React renders, and runs the effects of the render, before the next      *)
(* event, so they are part of the step.  There is one workspace; ids are   *)
(* numbered in the order of created_at, and 0 is the empty selection.      *)
(***************************************************************************)
EXTENDS Naturals, FiniteSets

CONSTANTS
    Projects, Services,
    ProjectOf,          \* the project of each service
    MaxDeployments,     \* bound: deployments of a service
    MaxCalls,           \* bound: requests of the page under way
    MaxEvents           \* bound: what the user, the timers and the server do

IdsAreNumbers ==
    /\ Projects \subseteq Nat \ {0} /\ Services \subseteq Nat \ {0}
    /\ 1 \in Projects /\ 1 \in Services
ServicesHaveProjects == ProjectOf \in [Services -> Projects]
\* a page that is loaded sends three requests
ConsoleBounds ==
    /\ {MaxDeployments, MaxCalls, MaxEvents} \subseteq Nat /\ MaxCalls >= 3

VARIABLES
    rows,               \* the server: ACTIVE projects and services, deployments
    page,               \* the state of the page
    calls,              \* its requests under way
    events              \* what happened so far, against its bound

vars == <<rows, page, calls, events>>

Least(S) == IF S = {} THEN 0 ELSE CHOOSE i \in S : \A j \in S : i <= j

-----------------------------------------------------------------------------
(* What the page shows, and its effects *)

NoList == [of |-> 0, count |-> 0, ready |-> 0]

\* the READY deployment, else the latest one
Observed(list) ==
    IF list.count = 0 THEN <<0, 0>> ELSE <<list.of, IF list.ready > 0 THEN list.ready ELSE list.count>>

\* The deployments, variables and domains of a page are set together by an
\* answer, and cleared together.
Cleared(pg) == [pg EXCEPT !.deployments = NoList, !.variables = 0, !.domains = 0]

\* the effects keyed by the project and by the service
AfterSelection(new) ==
    LET moved == IF new.project # page.project THEN Cleared(new) ELSE new
        listed == IF new.project # page.project /\ new.project = 0 THEN [moved EXCEPT !.listed = {}] ELSE moved
    IN  IF new.service # page.service /\ new.service = 0
        THEN [Cleared(listed) EXCEPT !.events = <<0, 0>>, !.metrics = <<0, 0>>] ELSE listed

\* the effect keyed by the section and the observed deployment
Watched(pg) == IF pg.section = "observability" THEN Observed(pg.deployments) ELSE <<0, 0>>
Rewatches(new) == new.section # page.section \/ Observed(new.deployments) # Observed(page.deployments)
AfterWatch(new) ==
    IF Rewatches(new) /\ Watched(new) = <<0, 0>>
    THEN [new EXCEPT !.events = <<0, 0>>, !.metrics = <<0, 0>>] ELSE new

NoCall == [kind |-> "none", id |-> 0, sel |-> 0, got |-> {}, list |-> NoList, watch |-> <<0, 0>>,
           then |-> "none", made |-> 0, act |-> FALSE]

\* the list routes: what the server answers
ProjectsNow == rows.projects
ServicesNow(p) == {s \in rows.services : ProjectOf[s] = p}
ListNow(s) == [of |-> s, count |-> rows.count[s], ready |-> rows.ready[s]]

AskWorkspace(p) == {[NoCall EXCEPT !.kind = "workspace", !.sel = p, !.got = ProjectsNow]}
AskProject(p, s) ==
    IF p = 0 THEN {} ELSE {[NoCall EXCEPT !.kind = "project", !.id = p, !.sel = s, !.got = ServicesNow(p)]}
AskService(s) ==
    IF s = 0 THEN {} ELSE {[NoCall EXCEPT !.kind = "service", !.id = s, !.got = {s} \intersect rows.services,
                                               !.list = ListNow(s)]}
AskWatched(pg) ==
    IF Watched(pg) = <<0, 0>> THEN {} ELSE {[NoCall EXCEPT !.kind = "observe", !.watch = Watched(pg)]}

\* Mutant: the answer of a watch that was replaced still counts.
CancelledNever(new, under) == under
\* the cleanup of the effect cancels the requests of the watch it replaces
Uncancelled(new, under) == IF Rewatches(new) THEN {c \in under : c.kind # "observe"} ELSE under

\* the state is set, the page rendered, and its effects run; `under' are the
\* requests under way but for what the step itself asks
Shows(set, under) ==
    LET new == AfterWatch(AfterSelection(set))
    IN  /\ page' = new
        /\ calls' = Uncancelled(new, under)
             \union (IF set.project # page.project THEN AskProject(set.project, set.service) ELSE {})
             \union (IF set.service # page.service THEN AskService(set.service) ELSE {})
             \union (IF Rewatches(new) THEN AskWatched(new) ELSE {})
        /\ Cardinality(calls') <= MaxCalls

Lists == [of : Services \union {0}, count : 0..MaxDeployments, ready : 0..MaxDeployments]
Watches == (Services \union {0}) \X (0..MaxDeployments)
Selection == Projects \union {0}
TypeOK ==
    /\ rows \in [projects : SUBSET Projects, gone : SUBSET Projects, services : SUBSET Services,
                  left : SUBSET Services, count : [Services -> 0..MaxDeployments],
                  ready : [Services -> 0..MaxDeployments]]
    /\ page \in [project : Selection, service : Services \union {0}, projects : SUBSET Projects,
                  listed : SUBSET Services, deployments : Lists, variables : Services \union {0},
                  domains : Services \union {0}, section : {"overview", "observability"},
                  events : Watches, metrics : Watches, busy : BOOLEAN]
    /\ Cardinality(calls) <= MaxCalls /\ events \in 0..MaxEvents

-----------------------------------------------------------------------------
(* Events of the page *)

Counted == events < MaxEvents /\ events' = events + 1

PickProject(p) ==
    /\ p \in page.projects
    /\ Shows([page EXCEPT !.project = p, !.service = 0], calls) /\ UNCHANGED rows /\ Counted
PickService(s) ==
    /\ s \in page.listed \union {0}
    /\ Shows([page EXCEPT !.service = s], calls) /\ UNCHANGED rows /\ Counted
OpenSection(x) == Shows([page EXCEPT !.section = x], calls) /\ UNCHANGED rows /\ Counted

\* the intervals of 5000, 3500 and 500 ms
Poll ==
    /\ Counted
    /\ \E asked \in {AskWorkspace(page.project), AskService(page.service), AskWatched(page)} :
          Shows(page, calls \union asked)
    /\ UNCHANGED rows

\* act: a button of the page sends a request, and the page is busy until the
\* request, and the refresh that follows it, have ended; forms are disabled
\* while it is busy, the buttons that archive are not
Acting(call) ==
    /\ Shows([page EXCEPT !.busy = TRUE], calls \union {[call EXCEPT !.act = TRUE]})
    /\ Counted
Form == ~page.busy
ActOn(kind, then) == [NoCall EXCEPT !.kind = kind, !.id = page.service, !.sel = page.project, !.then = then]

CreateProject(p) ==
    /\ Form /\ p \notin rows.projects \union rows.gone
    /\ rows' = [rows EXCEPT !.projects = @ \union {p}]
    /\ Acting([ActOn("projects", "select") EXCEPT !.made = p])
CreateService(s) ==
    /\ Form /\ page.project \in rows.projects /\ ProjectOf[s] = page.project /\ s \notin rows.services \union rows.left
    /\ rows' = [rows EXCEPT !.services = @ \union {s}]
    /\ Acting([ActOn("services", "select") EXCEPT !.made = s])
ArchiveProject ==
    /\ page.project \in rows.projects
    /\ rows' = [rows EXCEPT !.projects = @ \ {page.project}, !.gone = @ \union {page.project},
                            !.services = @ \ ServicesNow(page.project), !.left = @ \union ServicesNow(page.project)]
    /\ Acting(ActOn("projects", "leave"))
ArchiveService ==
    /\ page.service \in rows.services
    /\ rows' = [rows EXCEPT !.services = @ \ {page.service}, !.left = @ \union {page.service}]
    /\ Acting(ActOn("services", "leave"))
\* deploy; what else is done to the service is as much, and adds no deployment
Deploy ==
    /\ Form /\ page.service \in rows.services /\ rows.count[page.service] < MaxDeployments
    /\ rows' = [rows EXCEPT !.count[page.service] = @ + 1]
    /\ Acting(ActOn("deployments", "overview"))
ActOnNodes == Form /\ Acting(ActOn("projects", "stay")) /\ UNCHANGED rows

\* a deployment becomes READY meanwhile
BecomesReady(s) ==
    /\ rows.ready[s] < rows.count[s] /\ rows' = [rows EXCEPT !.ready[s] = rows.count[s]]
    /\ UNCHANGED <<page, calls>> /\ Counted

-----------------------------------------------------------------------------
(* Answers *)

\* the act's own request is answered: the refresh of the scope it was asked in
ActAnswered(c) ==
    LET base == [c EXCEPT !.kind = "workspace", !.got = ProjectsNow, !.id = 0]
    IN  /\ c \in calls /\ c.kind \in {"projects", "services", "deployments"}
        /\ CASE c.kind = "projects" ->
                  Shows(IF c.then = "leave" THEN [page EXCEPT !.project = 0] ELSE page,
                        (calls \ {c}) \union {base})
             [] c.kind = "services" ->
                  Shows(IF c.then = "leave" THEN [page EXCEPT !.service = 0] ELSE page,
                        (calls \ {c}) \union {[c EXCEPT !.kind = "project", !.id = c.sel, !.sel = c.id,
                                                        !.got = ServicesNow(c.sel)]})
             [] OTHER ->
                  Shows(page, (calls \ {c}) \union {[c EXCEPT !.kind = "service", !.got = {c.id} \intersect rows.services,
                                                        !.list = ListNow(c.id)]})
        /\ UNCHANGED <<rows, events>>

Ended(c, pg) == IF c.act THEN [pg EXCEPT !.busy = FALSE] ELSE pg
\* the selection stays when the answer has the one it was asked with, else it is
\* the first of the answer
ProjectsAnswered(c) ==
    LET kept == [page EXCEPT !.projects = c.got, !.project = IF c.sel \in c.got THEN @ ELSE Least(c.got)]
    IN  /\ c \in calls /\ c.kind = "workspace"
        /\ Shows(Ended(c, IF c.then = "select" THEN [kept EXCEPT !.project = c.made] ELSE kept), calls \ {c})
        /\ UNCHANGED <<rows, events>>
ServicesAnswered(c) ==
    LET kept == [page EXCEPT !.listed = c.got, !.service = IF c.sel \in c.got THEN @ ELSE Least(c.got)]
    IN  /\ c \in calls /\ c.kind = "project"
        /\ Shows(Ended(c, IF c.then = "select" THEN [kept EXCEPT !.service = c.made] ELSE kept), calls \ {c})
        /\ UNCHANGED <<rows, events>>

\* three requests that are awaited together
ServiceAnswered(c) ==
    LET set == [page EXCEPT !.deployments = c.list, !.variables = c.id, !.domains = c.id,
                            !.section = IF c.then = "overview" THEN "overview" ELSE @]
    IN  /\ c \in calls /\ c.kind = "service" /\ c.id \in c.got
        /\ Shows(Ended(c, set), calls \ {c}) /\ UNCHANGED <<rows, events>>

\* events and metrics are settled apart: one may fail
WatchAnswered(c) ==
    /\ c \in calls /\ c.kind = "observe"
    /\ \E got \in SUBSET {"events", "metrics"} :
          Shows([page EXCEPT !.events = IF "events" \in got THEN c.watch ELSE @,
                             !.metrics = IF "metrics" \in got THEN c.watch ELSE @], calls \ {c})
    /\ UNCHANGED <<rows, events>>

Fails(c) ==
    /\ c \in calls /\ Shows(Ended(c, page), calls \ {c}) /\ UNCHANGED <<rows, events>>

Next ==
    \/ \E p \in Projects : PickProject(p) \/ CreateProject(p)
    \/ \E s \in Services : CreateService(s) \/ BecomesReady(s)
    \/ \E s \in Services \union {0} : PickService(s)
    \/ \E x \in {"overview", "observability"} : OpenSection(x)
    \/ Poll \/ ArchiveProject \/ ArchiveService \/ Deploy \/ ActOnNodes
    \/ \E c \in calls :
          ActAnswered(c) \/ ProjectsAnswered(c) \/ ServicesAnswered(c) \/ ServiceAnswered(c)
            \/ WatchAnswered(c) \/ Fails(c)

\* The page is loaded: the selection is the one localStorage has kept.
Init ==
    /\ rows \in [projects : {{1}, Projects}, gone : {{}}, services : {{1}, Services}, left : {{}},
                  count : [Services -> 0..MaxDeployments], ready : [Services -> 0..MaxDeployments]]
    /\ \A s \in rows.services : ProjectOf[s] \in rows.projects
    /\ \A s \in Services : rows.ready[s] <= rows.count[s] /\ (s \notin rows.services => rows.count[s] = 0)
    /\ page \in [project : {0, 1}, service : {0, 1}, projects : {{}}, listed : {{}},
                  deployments : {NoList}, variables : {0}, domains : {0}, section : {"overview"},
                  events : {<<0, 0>>}, metrics : {<<0, 0>>}, busy : {FALSE}]
    /\ calls = AskWorkspace(page.project) \union AskProject(page.project, page.service) \union AskService(page.service)
    /\ events = 0
Spec == Init /\ [][Next]_vars

-----------------------------------------------------------------------------
(* Properties *)

\* The deployments, the variables and the domains the page shows are those of
\* one service, whichever answers came late (refreshServiceScope and the two
\* effects that clear them).  That it is the selected one is not so: see README.
ShowsOneService ==
    page.variables = page.deployments.of /\ page.domains = page.deployments.of

\* Events and metrics are only replaced by those of the deployment that is
\* observed now: the answers of a watch that was replaced are dropped.
WatchesOne ==
    [][\A f \in {"events", "metrics"} :
          page'[f] # page[f] /\ page'[f] # <<0, 0>> => page'[f] = Watched(page)]_vars
=============================================================================
