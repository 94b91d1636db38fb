----------------------------- MODULE Operations -----------------------------
(***************************************************************************)
(* The operation layer of the API: what may be done, under whose approval, *)
(* and what the audit log says of it (operation-registry, -policy,         *)
(* -authorization, -approval-store, -audit and -execution.ts).             *)
(*                                                                         *)
(* A request is one call of executeAuthorizedOperation.  Between two of    *)
(* its statements anything may happen: another request, an approval given  *)
(* or revoked, time passing, a stop of the process.  A statement may fail, *)
(* with or without its effect.                                             *)
(*                                                                         *)
(* Resource ids that are refused for their form, and references that are   *)
(* not well-formed, are a request without access or without a reference.   *)
(***************************************************************************)
EXTENDS Naturals, FiniteSets

CONSTANTS
    Requests,
    Refs,           \* approval references that may be issued
    NoRef,
    Names,          \* OperationName
    BaseRisk,       \* riskClass of the registry
    Resources,
    Calls,          \* what may be asked: the operation, where, how risky, and with which approval
    Singles,        \* <<operation, resource>> for which an explicit approval may be given
    Policies,       \* what session policies may allow
    Unlimited,      \* max_uses is NULL
    Freshness,      \* destructiveApprovalFreshnessMs
    MaxTime,        \* bound: the clock
    MaxUses,        \* bound: max_uses of a session policy
    MaxFaults       \* bound: statements that fail and stops of the process

ReadOnly == 0
SafeWrite == 1
SensitiveWrite == 2
Destructive == 3
Risks == ReadOnly..Destructive

ASSUME RefAssumption == NoRef \notin Refs
ASSUME RiskAssumption == BaseRisk \in [Names -> Risks]
ASSUME CallsAssumption ==
    Calls \subseteq [name : Names, resource : Resources, contextual : Risks, granted : BOOLEAN,
                     ref : Refs \union {NoRef}]
ASSUME ScopesAssumption ==
    /\ Singles \subseteq Names \X Resources
    /\ Policies \subseteq [names : SUBSET Names, resources : SUBSET Resources, sensitive : BOOLEAN,
                           max : (1..MaxUses) \union {Unlimited}]
ASSUME OperationBoundsAssumption ==
    MaxTime \in Nat /\ MaxUses \in Nat /\ MaxFaults \in Nat /\ Freshness \in Nat
ASSUME UnlimitedAssumption == Unlimited \notin Nat

VARIABLES
    now,
    approvals,      \* rows of operation_approvals, by reference
    request,        \* where each call is, and what it was asked
    audit,          \* rows of operation_audit, by correlation id
    executed,       \* requests whose executor was called
    faults

opVars == <<now, approvals, request, audit, executed, faults>>

NoApproval == [kind |-> "none"]
NoRow == [state |-> "none", error |-> "none"]
NotAsked == [pc |-> "new"]

Limits == (1..MaxUses) \union {1, Unlimited}
Kinds == {"EXPLICIT", "SESSION_POLICY"}
Approval == [kind : Kinds, names : SUBSET Names, resources : SUBSET Resources, sensitive : BOOLEAN,
             issued : 0..MaxTime, expires : 1..(MaxTime + 1),
             max : Limits, uses : Nat, revoked : BOOLEAN]
Steps == {"resolve", "deny", "begin", "consume", "unapproved", "execute", "succeed", "fail", "done", "lost"}
Asked == [pc : Steps, name : Names, resource : Resources, risk : Risks, ref : Refs \union {NoRef},
          at : 0..MaxTime, audited : BOOLEAN, answer : {"none", "ok", "OPERATION_NOT_AUTHORIZED",
          "AUDIT_UNAVAILABLE", "APPROVAL_UNAVAILABLE", "OPERATION_FAILED"}, finalized : BOOLEAN]
Rows == [state : {"none", "DENIED", "AUTHORIZED", "SUCCEEDED", "FAILED"},
         error : {"none", "OPERATION_NOT_AUTHORIZED", "APPROVAL_UNAVAILABLE", "OPERATION_FAILED"}]

OperationsTypeOK ==
    /\ now \in 0..MaxTime
    /\ approvals \in [Refs -> Approval \union {NoApproval}]
    /\ request \in [Requests -> Asked \union {NotAsked}]
    /\ audit \in [Requests -> Rows]
    /\ executed \subseteq Requests
    /\ faults \in 0..MaxFaults

OperationsInit ==
    /\ now = 0
    /\ approvals = [a \in Refs |-> NoApproval]
    /\ request = [r \in Requests |-> NotAsked]
    /\ audit = [r \in Requests |-> NoRow]
    /\ executed = {}
    /\ faults = 0

-----------------------------------------------------------------------------
(* Approvals, given and taken back by people *)

Issue(a, approval) ==
    /\ approvals[a] = NoApproval
    /\ approval.expires > now
    /\ approvals' = [approvals EXCEPT ![a] = approval]
    /\ UNCHANGED <<now, request, audit, executed, faults>>

IssueExplicit(a, name, resource, expires) ==
    Issue(a, [kind |-> "EXPLICIT", names |-> {name}, resources |-> {resource}, sensitive |-> FALSE,
              issued |-> now, expires |-> expires, max |-> 1, uses |-> 0, revoked |-> FALSE])

IssueSessionPolicy(a, policy, expires) ==
    /\ policy.names # {} /\ policy.resources # {}
    /\ Issue(a, [kind |-> "SESSION_POLICY", names |-> policy.names, resources |-> policy.resources,
                 sensitive |-> policy.sensitive, issued |-> now, expires |-> expires, max |-> policy.max,
                 uses |-> 0, revoked |-> FALSE])

Revoke(a) ==
    /\ approvals[a] # NoApproval /\ ~approvals[a].revoked
    /\ approvals' = [approvals EXCEPT ![a].revoked = TRUE]
    /\ UNCHANGED <<now, request, audit, executed, faults>>

\* Mutant: a use is counted only against the limit of the resolve before it.
UsableUncounted(approval, time) ==
    /\ approval # NoApproval
    /\ ~approval.revoked
    /\ approval.expires > time
\* the conditions of resolve and of consume
Usable(approval, time) ==
    /\ approval # NoApproval
    /\ ~approval.revoked
    /\ approval.expires > time
    /\ approval.max # Unlimited => approval.uses < approval.max

-----------------------------------------------------------------------------
(* Policy: pure functions of an operation, its risk and the evidence *)

\* what the caller knows of the context may raise the risk, never lower it
EffectiveRisk(name, contextual) ==
    IF contextual <= BaseRisk[name] THEN BaseRisk[name] ELSE contextual

Covers(approval, name, resource, time) ==
    /\ name \in approval.names /\ resource \in approval.resources
    /\ approval.kind = "EXPLICIT" => approval.issued <= time
    /\ approval.expires > time

\* Mutant: a session policy is enough for a destructive operation.
PolicyAllowsSession(approval, name, resource, risk, time) ==
    Covers(approval, name, resource, time)
PolicyAllows(approval, name, resource, risk, time) ==
    /\ Covers(approval, name, resource, time)
    /\ risk = SensitiveWrite => approval.kind = "EXPLICIT" \/ approval.sensitive
    /\ risk = Destructive => approval.kind = "EXPLICIT" /\ time - approval.issued <= Freshness

-----------------------------------------------------------------------------
(* executeAuthorizedOperation *)

Step(r, pc) == request' = [request EXCEPT ![r].pc = pc]
Answer(r, answer, finalized) ==
    request' = [request EXCEPT ![r].pc = "done", ![r].answer = answer, ![r].finalized = finalized]

\* A statement is carried out and answered, fails, or is carried out and its
\* answer is lost.
Outcomes == {"answered", "failed", "unanswered"}
Statement(outcome) ==
    IF outcome = "answered" THEN UNCHANGED faults
    ELSE faults < MaxFaults /\ faults' = faults + 1
Takes(outcome) == outcome # "failed"

\* the call, up to the evidence it needs: the clock is read once
AskWith(r, call) ==
    LET risk == EffectiveRisk(call.name, call.contextual)
        pc == IF ~call.granted THEN "deny" ELSE IF risk = ReadOnly THEN "begin"
              ELSE IF call.ref = NoRef THEN "deny" ELSE "resolve"
    IN  /\ request[r] = NotAsked
        /\ request' = [request EXCEPT ![r] =
              [pc |-> pc, name |-> call.name, resource |-> call.resource, risk |-> risk,
               ref |-> IF pc = "resolve" THEN call.ref ELSE NoRef, at |-> now, audited |-> FALSE,
               answer |-> "none", finalized |-> FALSE]]

Ask(r, call) == AskWith(r, call) /\ UNCHANGED <<now, approvals, audit, executed, faults>>

\* the approval is looked up, by the clock of the moment, and judged by the
\* clock of the call
Resolve(r, outcome) ==
    LET q == request[r]
        allowed == /\ outcome = "answered" /\ Usable(approvals[q.ref], now)
                   /\ PolicyAllows(approvals[q.ref], q.name, q.resource, q.risk, q.at)
    IN  /\ q.pc = "resolve"
        /\ Step(r, IF allowed THEN "begin" ELSE "deny")
        /\ Statement(outcome)
        /\ UNCHANGED <<now, approvals, audit, executed>>

Deny(r, outcome) ==
    /\ request[r].pc = "deny"
    /\ audit' = IF Takes(outcome)
                THEN [audit EXCEPT ![r] = [state |-> "DENIED", error |-> "OPERATION_NOT_AUTHORIZED"]]
                ELSE audit
    /\ Answer(r, "OPERATION_NOT_AUTHORIZED", outcome = "answered")
    /\ Statement(outcome)
    /\ UNCHANGED <<now, approvals, executed>>

\* what does not change anything goes on without an audit row
Begin(r, outcome) ==
    LET q == request[r]
    IN  /\ q.pc = "begin"
        /\ audit' = IF Takes(outcome) THEN [audit EXCEPT ![r] = [state |-> "AUTHORIZED", error |-> "none"]]
                    ELSE audit
        /\ IF outcome # "answered" /\ q.risk # ReadOnly THEN Answer(r, "AUDIT_UNAVAILABLE", FALSE)
           ELSE request' = [request EXCEPT ![r].audited = (outcome = "answered"),
                                           ![r].pc = IF q.risk = ReadOnly THEN "execute" ELSE "consume"]
        /\ Statement(outcome)
        /\ UNCHANGED <<now, approvals, executed>>

Consumed(r, outcome) == outcome = "answered" /\ Usable(approvals[request[r].ref], request[r].at)

\* one conditional UPDATE, with the clock of the call
Consume(r, outcome) ==
    LET q == request[r]
    IN  /\ q.pc = "consume"
        /\ approvals' = IF Takes(outcome) /\ Usable(approvals[q.ref], q.at)
                        THEN [approvals EXCEPT ![q.ref].uses = @ + 1] ELSE approvals
        /\ Step(r, IF Consumed(r, outcome) THEN "execute" ELSE "unapproved")
        /\ Statement(outcome)
        /\ UNCHANGED <<now, audit, executed>>

\* UPDATE ... WHERE state='AUTHORIZED'
Ended(r, state, error) ==
    IF audit[r].state = "AUTHORIZED" THEN [audit EXCEPT ![r] = [state |-> state, error |-> error]] ELSE audit

\* Mutant: a row that was begun is taken for completed.
FinalizedBegun(r, outcome) == request[r].audited
Finalized(r, outcome) == request[r].audited /\ outcome = "answered" /\ audit[r].state = "AUTHORIZED"

\* audit.complete, where a row was begun, and the answer
Finish(r, answer, state, error, outcome) ==
    /\ IF request[r].audited
       THEN /\ audit' = IF Takes(outcome) THEN Ended(r, state, error) ELSE audit
            /\ Statement(outcome)
       ELSE outcome = "answered" /\ UNCHANGED <<audit, faults>>
    /\ Answer(r, answer, Finalized(r, outcome))
    /\ UNCHANGED <<now, approvals, executed>>

ApprovalUnavailable(r, outcome) ==
    /\ request[r].pc = "unapproved"
    /\ Finish(r, "APPROVAL_UNAVAILABLE", "FAILED", "APPROVAL_UNAVAILABLE", outcome)

\* the executor returns or throws: what it does is the caller's
Execute(r) ==
    /\ request[r].pc = "execute"
    /\ executed' = executed \union {r}
    /\ Step(r, "succeed") \/ Step(r, "fail")
    /\ UNCHANGED <<now, approvals, audit, faults>>

Succeed(r, outcome) ==
    /\ request[r].pc = "succeed" /\ Finish(r, "ok", "SUCCEEDED", "none", outcome)
FailOperation(r, outcome) ==
    /\ request[r].pc = "fail" /\ Finish(r, "OPERATION_FAILED", "FAILED", "OPERATION_FAILED", outcome)

-----------------------------------------------------------------------------
Advance(r) ==
    \/ \E outcome \in Outcomes :
          \/ Resolve(r, outcome) \/ Deny(r, outcome) \/ Begin(r, outcome) \/ Consume(r, outcome)
          \/ ApprovalUnavailable(r, outcome) \/ Succeed(r, outcome) \/ FailOperation(r, outcome)
    \/ Execute(r)

Underway == {r \in Requests : request[r].pc \notin {"new", "done", "lost"}}

\* the process stops: what was under way is never answered
StopOperations ==
    request' = [r \in Requests |-> IF r \in Underway THEN [request[r] EXCEPT !.pc = "lost"] ELSE request[r]]

TimePasses ==
    /\ now < MaxTime /\ now' = now + 1
    /\ UNCHANGED <<approvals, request, audit, executed, faults>>

Give ==
    \E a \in Refs, expires \in (now + 1)..(MaxTime + 1) :
        \/ \E single \in Singles : IssueExplicit(a, single[1], single[2], expires)
        \/ \E policy \in Policies : IssueSessionPolicy(a, policy, expires)

Operate ==
    \/ Give
    \/ \E a \in Refs : Revoke(a)
    \/ \E r \in Requests, call \in Calls : Ask(r, call)
    \/ \E r \in Requests : Advance(r)
    \/ TimePasses

StopProcess ==
    /\ faults < MaxFaults /\ faults' = faults + 1
    /\ StopOperations
    /\ UNCHANGED <<now, approvals, audit, executed>>

OperationsNext == Operate \/ StopProcess

OperationsSpec == OperationsInit /\ [][OperationsNext]_opVars
-----------------------------------------------------------------------------
(* Properties *)

Called(r) == request[r] # NotAsked
Writes(r) == Called(r) /\ request[r].risk # ReadOnly

\* Whatever was approved, used up, revoked or expired between the statements of
\* a request: what it did to the system, some person had approved that very
\* operation on that very resource, in time and, where it destroys something,
\* not long before (operation-policy.ts); and the audit row was there first.
ExecutedWasApproved ==
    \A r \in executed : Writes(r) =>
        LET q == request[r]
            approval == approvals[q.ref]
        IN  /\ q.ref # NoRef /\ approval # NoApproval
            /\ q.name \in approval.names /\ q.resource \in approval.resources /\ q.at < approval.expires
            /\ q.risk = SensitiveWrite => approval.kind = "EXPLICIT" \/ approval.sensitive
            /\ q.risk = Destructive => approval.kind = "EXPLICIT" /\ q.at <= approval.issued + Freshness
            /\ approval.uses > 0
            /\ audit[r].state \in {"AUTHORIZED", "SUCCEEDED", "FAILED"}

\* The audit log does not say that something was done which was not, nor the
\* other way round, whichever statements failed; and an answer that claims its
\* row is final agrees with the row (operation-audit.ts).
AuditIsTrue ==
    \A r \in Requests :
        LET row == audit[r]
            q == request[r]
        IN  /\ row.state = "DENIED" \/ row.error = "APPROVAL_UNAVAILABLE" => r \notin executed
            /\ row.state = "SUCCEEDED" \/ row.error = "OPERATION_FAILED" => r \in executed
            /\ Called(r) /\ q.answer \in {"ok", "OPERATION_FAILED"} => r \in executed
            /\ Called(r) /\ q.answer \in {"OPERATION_NOT_AUTHORIZED", "AUDIT_UNAVAILABLE", "APPROVAL_UNAVAILABLE"}
                  => r \notin executed
            /\ Called(r) /\ q.finalized =>
                  /\ q.answer = "ok" => row.state = "SUCCEEDED"
                  /\ q.answer = "OPERATION_NOT_AUTHORIZED" => row.state = "DENIED"
                  /\ q.answer \notin {"ok", "OPERATION_NOT_AUTHORIZED"} =>
                        row = [state |-> "FAILED", error |-> q.answer]

\* The approvals as their givers understand them.
Ledger == INSTANCE ApprovalLedger WITH
    allowed <- [a \in Refs |-> IF approvals[a] = NoApproval THEN 0 ELSE approvals[a].max],
    revoked <- {a \in Refs : approvals[a] # NoApproval /\ approvals[a].revoked},
    spent <- [a \in Refs |-> IF approvals[a] = NoApproval THEN 0 ELSE approvals[a].uses],
    executed <- [a \in Refs |-> {r \in executed : Writes(r) /\ request[r].ref = a}]

\* Concurrent requests under one approval, errors and stops between resolve,
\* consume and execution do not stretch it: an explicit approval starts one
\* execution at most, a session policy max_uses, and none whose use was not
\* spent before the revocation (operation-approval-store.ts).
RefinesApprovalLedger == Ledger!Spec
=============================================================================
