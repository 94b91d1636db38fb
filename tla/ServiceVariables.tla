--------------------------- MODULE ServiceVariables ---------------------------
(***************************************************************************)
(* The environment variables of a service, from the requests that write    *)
(* them to the container that runs with them.                              *)
(*                                                                         *)
(* A write is one transaction that upserts its variables one by one, in    *)
(* the order of the request, and holds the row of each until it commits.   *)
(* A deployment captures the committed variables in the transaction that   *)
(* creates it; a rollback copies what its target captured.  A dispatch,    *)
(* and every repetition of it, sends what was captured, and the secrets    *)
(* captured are cut out of the deployment's log lines.                     *)
(*                                                                         *)
(* A variable is the write it comes from and whether it is secret; NoVar   *)
(* is a key without a row.                                                 *)
(***************************************************************************)
EXTENDS Naturals, Sequences, FiniteSets

CONSTANTS
    Keys,
    Orders,             \* the sequences of keys a request may list
    MaxWrites,          \* bound: requests that write, numbered as they arrive
    MaxCaptures,        \* bound: deployments
    MaxDeletes          \* bound: variables deleted

OrdersAssumption == \A o \in Orders : o \in Seq(Keys) /\ o # <<>>
VariableBounds == MaxWrites \in Nat /\ MaxCaptures \in Nat /\ MaxDeletes \in Nat

VARIABLES
    stored,             \* service_variables
    write,              \* the requests that write
    captured,           \* deployments and their deployment_variables
    sent,               \* history: the environments each deployment was sent with
    logged,             \* history: values that were left in a stored log line
    clock, deletedAt    \* history: commits so far, the last one that deleted a key

vars == <<stored, write, captured, sent, logged, clock, deletedAt>>

Writes == 1..MaxWrites
Captures == 1..MaxCaptures
Ticks == 0..(MaxWrites + MaxDeletes)
NoVar == [by |-> 0, secret |-> FALSE]
Variable == [by : Writes, secret : BOOLEAN] \union {NoVar}
Environment == [Keys -> Variable]
Empty == [k \in Keys |-> NoVar]

TypeOK ==
    /\ stored \in Environment
    /\ \A w \in Writes :
          /\ write[w].pc \in {"none", "open", "done", "failed"}
          /\ write[w].wrote \subseteq Keys /\ write[w].todo \in Seq(Keys)
          /\ write[w].secret \in BOOLEAN /\ write[w].at \in Ticks
    /\ captured \in [Captures -> [st : {"none", "open", "queued", "over"}, of : Captures \union {0}, env : Environment]]
    /\ \A d \in Captures : sent[d] \subseteq Environment
    /\ logged \subseteq Variable /\ clock \in Ticks /\ deletedAt \in [Keys -> Ticks]

Init ==
    /\ stored = Empty
    /\ write = [w \in Writes |-> [pc |-> "none", todo |-> <<>>, wrote |-> {}, secret |-> FALSE, at |-> 0]]
    /\ captured = [d \in Captures |-> [st |-> "none", of |-> 0, env |-> Empty]]
    /\ sent = [d \in Captures |-> {}] /\ logged = {}
    /\ clock = 0 /\ deletedAt = [k \in Keys |-> 0]

Holder(k) == {w \in Writes : write[w].pc = "open" /\ k \in write[w].wrote}
Arrives(w) == write[w].pc = "none" /\ \A u \in Writes : u < w => write[u].pc # "none"

-----------------------------------------------------------------------------
(* Writes *)

\* PUT .../config/variables, or .../variables: BEGIN
BeginWrite(w, order, secret) ==
    /\ Arrives(w)
    /\ write' = [write EXCEPT ![w] = [@ EXCEPT !.pc = "open", !.todo = order, !.secret = secret]]
    /\ UNCHANGED <<stored, captured, sent, logged, clock, deletedAt>>

\* what the others see before the commit: nothing
\* Mutant: each variable is written on its own.
VisibleAtOnce(w, k) == [stored EXCEPT ![k] = [by |-> w, secret |-> write[w].secret]]
Visible(w, k) == stored

\* INSERT ... ON CONFLICT DO UPDATE of the next variable: its row is free or held already
WriteVariable(w) ==
    /\ write[w].pc = "open" /\ write[w].todo # <<>>
    /\ Holder(Head(write[w].todo)) \subseteq {w}
    /\ stored' = Visible(w, Head(write[w].todo))
    /\ write' = [write EXCEPT ![w].wrote = @ \union {Head(write[w].todo)}, ![w].todo = Tail(@)]
    /\ UNCHANGED <<captured, sent, logged, clock, deletedAt>>

CommitWrite(w) ==
    /\ write[w].pc = "open" /\ write[w].todo = <<>>
    /\ clock' = clock + 1
    /\ write' = [write EXCEPT ![w].pc = "done", ![w].at = clock + 1]
    /\ stored' = [k \in Keys |-> IF k \in write[w].wrote THEN [by |-> w, secret |-> write[w].secret] ELSE stored[k]]
    /\ UNCHANGED <<captured, sent, logged, deletedAt>>

\* a query fails, by a deadlock with another write for one: ROLLBACK
FailWrite(w) ==
    /\ write[w].pc = "open"
    /\ write' = [write EXCEPT ![w].pc = "failed"]
    /\ UNCHANGED <<stored, captured, sent, logged, clock, deletedAt>>

DeleteVariable(k) ==
    /\ stored[k] # NoVar /\ Holder(k) = {}
    /\ clock < MaxWrites + MaxDeletes - Cardinality({w \in Writes : write[w].pc \in {"none", "open"}})
    /\ clock' = clock + 1 /\ deletedAt' = [deletedAt EXCEPT ![k] = clock + 1]
    /\ stored' = [stored EXCEPT ![k] = NoVar]
    /\ UNCHANGED <<write, captured, sent, logged>>

-----------------------------------------------------------------------------
(* Deployments *)

Unused(d) == captured[d].st = "none" /\ \A e \in Captures : e < d => captured[e].st # "none"

\* captureDeploymentEnvironment: one statement
Capture(d) ==
    /\ Unused(d)
    /\ captured' = [captured EXCEPT ![d] = [st |-> "open", of |-> 0, env |-> stored]]
    /\ UNCHANGED <<stored, write, sent, logged, clock, deletedAt>>

CopiedFrom(t) == captured[t].env
\* copyDeploymentEnvironment, from a target that ran
Copy(d, t) ==
    /\ Unused(d) /\ sent[t] # {}
    /\ captured' = [captured EXCEPT ![d] = [st |-> "open", of |-> t, env |-> CopiedFrom(t)]]
    /\ UNCHANGED <<stored, write, sent, logged, clock, deletedAt>>

EndCapture(d, result) ==
    /\ captured[d].st = "open"
    /\ captured' = [captured EXCEPT ![d].st = result]
    /\ UNCHANGED <<stored, write, sent, logged, clock, deletedAt>>

\* loadDeploymentEnvironment, at the first dispatch and at every later one
Dispatch(d) ==
    /\ captured[d].st = "queued"
    /\ sent' = [sent EXCEPT ![d] = @ \union {captured[d].env}]
    /\ UNCHANGED <<stored, write, captured, logged, clock, deletedAt>>

\* loadDeploymentLogSecrets
LogSecrets(d) == {captured[d].env[k] : k \in {j \in Keys : captured[d].env[j].secret}}
\* the container prints its environment, and redactLogMessage cuts out the secrets
Log(d) ==
    /\ \E env \in sent[d] : logged' = logged \union ({env[k] : k \in Keys} \ (LogSecrets(d) \union {NoVar}))
    /\ UNCHANGED <<stored, write, captured, sent, clock, deletedAt>>

Next ==
    \/ \E w \in Writes :
          \/ \E o \in Orders, s \in BOOLEAN : BeginWrite(w, o, s)
          \/ WriteVariable(w) \/ CommitWrite(w) \/ FailWrite(w)
    \/ \E k \in Keys : DeleteVariable(k)
    \/ \E d \in Captures :
          \/ Capture(d) \/ EndCapture(d, "queued") \/ EndCapture(d, "over") \/ Dispatch(d) \/ Log(d)
          \/ \E t \in Captures : Copy(d, t)

Spec == Init /\ [][Next]_vars

-----------------------------------------------------------------------------
(* Properties *)

\* the commit of a write that is not over is still to come
CommittedAt(w) == IF write[w].pc = "done" THEN write[w].at ELSE MaxWrites + MaxDeletes + 1
\* env has of a key what was there before write w, although w wrote it
Before(env, k, w) ==
    IF env[k] = NoVar THEN deletedAt[k] < CommittedAt(w)
    ELSE env[k].by # w /\ CommittedAt(env[k].by) < CommittedAt(w)

\* A deployment captures all the variables of a write or none of them, however
\* many requests write, delete and deploy at the same time.
CapturesWholeWrites ==
    \A d \in Captures, w \in Writes : captured[d].st # "none" =>
        LET env == captured[d].env
        IN  (\E k \in Keys : env[k].by = w) => \A k \in write[w].wrote : ~Before(env, k, w)

\* However often a deployment is dispatched, and whatever is written in between,
\* its Agent is sent one environment; a rollback's is that of its target.
SentAsCaptured ==
    \A d \in Captures : /\ Cardinality(sent[d]) <= 1
                        /\ captured[d].of # 0 => sent[d] \subseteq sent[captured[d].of]

\* No stored log line shows a value that was secret when its container started,
\* though the variable may be replaced, shown or deleted while it runs.
LogsHideSecrets == \A v \in logged : ~v.secret
=============================================================================
