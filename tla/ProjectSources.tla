---------------------------- MODULE ProjectSources ----------------------------
(***************************************************************************)
(* The GitHub source of a project: a branch is inspected, what could be a  *)
(* service is stored for review, and a selection of it is confirmed into   *)
(* services with a source config.  Services are created and archived, and  *)
(* the project archived, beside it; the branch moves on meanwhile.         *)
(*                                                                         *)
(* Statements run under READ COMMITTED; a transaction's writes are in its  *)
(* request until it commits, and others wait for the rows it holds.  A     *)
(* request that only reads is not modelled.  A service of the project is   *)
(* identified by its slug.                                                 *)
(***************************************************************************)
EXTENDS Naturals, Sequences, FiniteSets

CONSTANTS
    Paths, Root,        \* directories of the repository
    Slugs,
    Tree,               \* the commits of the branch, see the assumption
    Selections,         \* what a confirmation may list: sequences of [path, slug, port]
    Requests, Plans     \* bound: which requests are made, functions to the kinds below

MaxHead == Len(Tree)
Commits == 1..MaxHead
Kinds == {"connect", "confirm", "create", "retire", "archive", "none"}

\* A commit: the directories with a Dockerfile, how many ports each exposes, those
\* with a package.json, and those the root's package.json names as workspaces.
TreeAssumption ==
    Tree \in Seq([docker : SUBSET Paths, ports : [Paths -> 0..2], packages : SUBSET Paths, members : SUBSET Paths])
RootAssumption == Root \in Paths
RequestsFinite == IsFiniteSet(Requests)
PlansAssumption == Plans \subseteq [Requests -> Kinds]

VARIABLES
    head,               \* the commit the branch is at
    project,            \* ACTIVE or ARCHIVED
    source,             \* project_sources; the generation counts its writes
    service,            \* services and service_source_configs
    request             \* requests, with what their transaction has written

vars == <<head, project, source, service, request>>

Generations == 0..Cardinality(Requests)
NoPath == "no path"
Config == [path : Paths \union {NoPath}, gen : Generations, rev : Commits \union {0}, by : Requests \union {0}]
NoConfig == [path |-> NoPath, gen |-> 0, rev |-> 0, by |-> 0]
Source == [gen : Generations, rev : Commits \union {0}, root : Commits \union {0}, nested : Commits \union {0}]
Selection == [path : Paths, slug : Slugs, port : BOOLEAN]
SelectionsAssumption == Selections \subseteq Seq(Selection)

TypeOK ==
    /\ head \in Commits /\ project \in {"ACTIVE", "ARCHIVED"} /\ source \in Source
    /\ service \in [Slugs -> [st : {"none", "ACTIVE", "ARCHIVED"}, config : Config]]
    /\ \A q \in Requests :
          LET r == request[q]
          IN  /\ r.kind \in Kinds /\ r.seen \in Source
              /\ r.pc \in {"new", "revision", "root", "tree", "upsert", "lock", "select", "insert", "services", "done", "failed", "refused port"}
              /\ r.todo \in Seq(Selection) /\ r.took \in Seq(Selection)
              /\ r.inserted \subseteq Slugs /\ r.locked \subseteq Slugs

NoSource == [gen |-> 0, rev |-> 0, root |-> 0, nested |-> 0]
Init ==
    /\ head = 1 /\ project = "ACTIVE" /\ source = NoSource
    /\ service = [s \in Slugs |-> [st |-> "none", config |-> NoConfig]]
    /\ \E plan \in Plans :
          request = [q \in Requests |-> [kind |-> plan[q], pc |-> "new", seen |-> NoSource,
                                         todo |-> <<>>, took |-> <<>>, inserted |-> {}, locked |-> {}]]

Starts(q, kind) == request[q].kind = kind /\ request[q].pc = "new"
Goes(q, pc) == request' = [request EXCEPT ![q].pc = pc]

-----------------------------------------------------------------------------
(* What an inspection makes of a repository *)

\* the files of a source: those of its root directory may be from a later commit
Files(src) ==
    LET nested == Tree[src.nested]   root == Tree[src.root]
    IN  [docker |-> nested.docker \union (root.docker \intersect {Root}),
         ports |-> [p \in Paths |-> IF p \in nested.docker THEN nested.ports[p] ELSE root.ports[p]],
         packages |-> nested.packages \union (root.packages \intersect {Root}),
         members |-> IF Root \in nested.packages THEN nested.members ELSE root.members]

\* candidateDirectories
Candidates(src) ==
    LET f == Files(src)
        found == f.docker \union ((f.packages \ {Root}) \intersect f.members)
    IN  IF found = {} THEN {Root} ELSE found
OnePort(src, p) == p \in Files(src).docker /\ Files(src).ports[p] = 1

\* inferGitHubProjectDiscovery: one runtime, one port, one application
RootIsReady(src) ==
    LET t == Tree[src.root]
    IN  Root \in t.docker \intersect t.packages /\ t.ports[Root] = 1 /\ t.members = {}

\* reviewState READY_FOR_REVIEW
ReadyForReview(src) == RootIsReady(src) /\ \A p \in Candidates(src) : OnePort(src, p)

-----------------------------------------------------------------------------
(* PUT /v0/projects/:projectId/source/github *)

Push ==
    /\ head < MaxHead /\ head' = head + 1
    /\ UNCHANGED <<project, source, service, request>>

Connect(q) ==
    /\ Starts(q, "connect") /\ project = "ACTIVE"
    /\ Goes(q, "revision")
    /\ UNCHANGED <<head, project, source, service>>
ReadRevision(q) ==
    /\ request[q].pc = "revision"
    /\ request' = [request EXCEPT ![q].pc = "root", ![q].seen.rev = head]
    /\ UNCHANGED <<head, project, source, service>>
\* the root directory and its files are asked for by branch ...
ReadRoot(q) ==
    /\ request[q].pc = "root"
    /\ request' = [request EXCEPT ![q].pc = "tree", ![q].seen.root = head]
    /\ UNCHANGED <<head, project, source, service>>
\* Mutant: as the root, the tree is asked for by branch.
TreeOfBranch(q) == head
\* ... and the tree by revision
TreeOfRevision(q) == request[q].seen.rev
ReadTree(q) ==
    /\ request[q].pc = "tree"
    /\ request' = [request EXCEPT ![q].pc = "upsert", ![q].seen.nested = TreeOfRevision(q)]
    /\ UNCHANGED <<head, project, source, service>>
InspectFails(q) ==
    /\ request[q].pc \in {"revision", "root", "tree"}
    /\ Goes(q, "failed")
    /\ UNCHANGED <<head, project, source, service>>

\* open transactions, and what they hold
Confirming == {q \in Requests : request[q].pc = "select"}
SourceFree == Confirming = {}
ProjectLocked == \E q \in Requests : request[q].kind = "archive" /\ request[q].pc = "services"
SlugFree(q, s) == \A o \in Requests \ {q} : s \notin request[o].locked \union request[o].inserted

\* upsertGitHubSource, once no confirmation holds the row
Upsert(q) ==
    /\ request[q].pc = "upsert" /\ SourceFree
    /\ source.gen = 0 => ~ProjectLocked
    /\ source' = [request[q].seen EXCEPT !.gen = source.gen + 1]
    /\ Goes(q, "done")
    /\ UNCHANGED <<head, project, service>>

-----------------------------------------------------------------------------
(* POST /v0/projects/:projectId/source/github/confirm *)

Confirm(q, selection) ==
    /\ Starts(q, "confirm") /\ project = "ACTIVE"
    /\ request' = [request EXCEPT ![q].pc = "lock", ![q].todo = selection]
    /\ UNCHANGED <<head, project, source, service>>

\* BEGIN, and the source FOR UPDATE
LockSource(q) ==
    /\ request[q].pc = "lock" /\ SourceFree
    /\ request' = [request EXCEPT ![q].pc = IF source.gen = 0 THEN "failed" ELSE "select", ![q].seen = source]
    /\ UNCHANGED <<head, project, source, service>>

Written(q) == {request[q].took[i] : i \in DOMAIN request[q].took}
ConfigOf(q, sel) == [path |-> sel.path, gen |-> request[q].seen.gen, rev |-> request[q].seen.rev, by |-> q]

LockedBy(s) == IF service[s].st = "none" THEN {} ELSE {s}

StoredSoFar(q, sel) == service

\* the next selection is a candidate and has a port; its service is there, active
\* and of this path, or it is inserted
Acceptable(q, sel) ==
    /\ sel.path \in Candidates(request[q].seen)
    /\ sel.slug \notin request[q].inserted
    /\ \/ service[sel.slug].st = "none"
       \/ service[sel.slug].st = "ACTIVE" /\ service[sel.slug].config.path = sel.path
    /\ \A s \in Slugs \ {sel.slug} : service[s].config.path # sel.path      \* UNIQUE(project_id, source_path)
HasPort(q, sel) == sel.port \/ OnePort(request[q].seen, sel.path)

Take(q) ==
    LET sel == Head(request[q].todo)
        new == service[sel.slug].st = "none"
    IN  /\ request[q].pc = "select" /\ request[q].todo # <<>>
        /\ SlugFree(q, sel.slug)
        /\ new => ~ProjectLocked
        /\ Acceptable(q, sel) /\ HasPort(q, sel)
        /\ request' = [request EXCEPT ![q].todo = Tail(@), ![q].took = Append(@, sel),
                                      ![q].locked = @ \union LockedBy(sel.slug),
                                      ![q].inserted = IF new THEN @ \union {sel.slug} ELSE @]
        /\ service' = StoredSoFar(q, sel)
        /\ UNCHANGED <<head, project, source>>

Release(q, pc) == request' = [request EXCEPT ![q].pc = pc, ![q].locked = {}, ![q].inserted = {}]

CommitConfirm(q) ==
    /\ request[q].pc = "select" /\ request[q].todo = <<>>
    /\ service' = [s \in Slugs |->
                      IF \E sel \in Written(q) : sel.slug = s
                      THEN LET sel == CHOOSE x \in Written(q) : x.slug = s
                           IN  [st |-> IF service[s].st = "none" THEN "ACTIVE" ELSE service[s].st, config |-> ConfigOf(q, sel)]
                      ELSE service[s]]
    /\ Release(q, "done")
    /\ UNCHANGED <<head, project, source>>

\* a selection is refused, or a query fails, by a deadlock for one: ROLLBACK
FailConfirm(q) ==
    /\ request[q].pc = "select"
    /\ Release(q, IF /\ request[q].todo # <<>>
                     /\ Head(request[q].todo).path \in Candidates(request[q].seen)
                     /\ ~HasPort(q, Head(request[q].todo))
                  THEN "refused port" ELSE "failed")
    /\ UNCHANGED <<head, project, source, service>>

-----------------------------------------------------------------------------
(* project-service-admin *)

\* POST /v0/projects/:projectId/services: INSERT ... SELECT finds the project active ...
Create(q) ==
    /\ Starts(q, "create") /\ project = "ACTIVE"
    /\ Goes(q, "insert")
    /\ UNCHANGED <<head, project, source, service>>
\* ... and waits for whoever inserts the slug or holds the project
Insert(q, s) ==
    /\ request[q].pc = "insert" /\ SlugFree(q, s) /\ ~ProjectLocked
    /\ service' = IF service[s].st = "none" THEN [service EXCEPT ![s].st = "ACTIVE"] ELSE service
    /\ Goes(q, IF service[s].st = "none" THEN "done" ELSE "failed")
    /\ UNCHANGED <<head, project, source>>

\* POST /v0/services/:serviceId/archive
Retire(q, s) ==
    /\ Starts(q, "retire") /\ service[s].st # "none" /\ SlugFree(q, s)
    /\ service' = [service EXCEPT ![s].st = "ARCHIVED"]
    /\ Goes(q, "done")
    /\ UNCHANGED <<head, project, source>>

\* POST /v0/projects/:projectId/archive: the project FOR UPDATE, which waits for
\* the key share of whoever has inserted a service ...
Archive(q) ==
    /\ Starts(q, "archive") /\ project = "ACTIVE"
    /\ \A o \in Requests : request[o].inserted = {}
    /\ Goes(q, "services")
    /\ UNCHANGED <<head, project, source, service>>
\* ... then its services, which waits for whoever holds one, and the project
ArchiveServices(q) ==
    /\ request[q].pc = "services"
    /\ \A s \in Slugs : service[s].st = "ACTIVE" => SlugFree(q, s)
    /\ service' = [s \in Slugs |-> IF service[s].st = "ACTIVE" THEN [service[s] EXCEPT !.st = "ARCHIVED"] ELSE service[s]]
    /\ project' = "ARCHIVED"
    /\ Goes(q, "done")
    /\ UNCHANGED <<head, source>>
FailArchive(q) ==
    /\ request[q].pc = "services"
    /\ Goes(q, "failed")
    /\ UNCHANGED <<head, project, source, service>>

Next ==
    \/ Push
    \/ \E q \in Requests :
          \/ Connect(q) \/ ReadRevision(q) \/ ReadRoot(q) \/ ReadTree(q) \/ InspectFails(q) \/ Upsert(q)
          \/ \E selection \in Selections : Confirm(q, selection)
          \/ LockSource(q) \/ Take(q) \/ CommitConfirm(q) \/ FailConfirm(q)
          \/ Create(q) \/ Archive(q) \/ ArchiveServices(q) \/ FailArchive(q)
          \/ \E s \in Slugs : Insert(q, s) \/ Retire(q, s)

Spec == Init /\ [][Next]_vars

-----------------------------------------------------------------------------
(* Properties *)

\* The config of a service never goes back to a discovery older than the one it
\* was confirmed from, though the source is connected again meanwhile.
ConfirmsInOrder == \A s \in Slugs : service[s].config.gen <= service'[s].config.gen
ConfirmedInOrder == [][ConfirmsInOrder]_vars

\* A confirmation is stored as a whole or not at all: of one that failed nothing is
\* there, and one that succeeded left a service for each path it selected.
AllOrNothing ==
    /\ \A s \in Slugs : service[s].config.by # 0 => request[service[s].config.by].pc = "done"
    /\ \A q \in Requests : request[q].kind = "confirm" /\ request[q].pc = "done" =>
          \A sel \in Written(q) : service[sel.slug].config.path = sel.path

\* Each service that is confirmed below the root is in the revision it is recorded
\* with: builds of that revision will find its Dockerfile or its manifest.
NestedExists ==
    \A s \in Slugs :
        LET c == service[s].config
        IN  c.path \notin {Root, NoPath} => c.path \in Tree[c.rev].docker \union Tree[c.rev].packages

\* What was READY_FOR_REVIEW is confirmed as it is: no selection of it is refused
\* for want of a port, even if the root was read at another commit than the rest.
ReadyNeedsNoPort == \A q \in Requests : request[q].pc = "refused port" => ~ReadyForReview(request[q].seen)

\* A service that is archived is never confirmed again, though it may be archived
\* while a confirmation that found it active is under way.
ConfirmsActive == \A s \in Slugs : service'[s].config # service[s].config => service'[s].st = "ACTIVE"
ArchivedIsNotConfirmed == [][ConfirmsActive]_vars
=============================================================================
