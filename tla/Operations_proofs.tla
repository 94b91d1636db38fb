-------------------------- MODULE Operations_proofs --------------------------
(***************************************************************************)
(* Proofs about Operations, for any requests, approvals, policies and      *)
(* clocks: what was executed was approved, the audit log is true, and no   *)
(* approval is stretched.                                                  *)
(***************************************************************************)
EXTENDS Operations, TLAPS, FiniteSetTheorems

Begun == [state |-> "AUTHORIZED", error |-> "none"]

\* what an approval must say for a request
Allows(approval, q) ==
    /\ q.name \in approval.names /\ q.resource \in approval.resources /\ q.at < approval.expires
    /\ q.risk = SensitiveWrite => approval.kind = "EXPLICIT" \/ approval.sensitive
    /\ q.risk = Destructive => approval.kind = "EXPLICIT" /\ q.at <= approval.issued + Freshness

Approved(q) == q.ref \in Refs /\ approvals[q.ref] # NoApproval /\ Allows(approvals[q.ref], q)

Granted(q) == Approved(q) /\ approvals[q.ref].uses > 0

\* A request that may change something, from the verdict to the execution.
ApprovalFollows(r) ==
    LET q == request[r]
    IN  q.risk # ReadOnly =>
            /\ q.pc = "resolve" => q.ref \in Refs
            /\ q.pc \in {"begin", "consume", "unapproved"} => Approved(q)
            /\ q.pc \in {"execute", "succeed", "fail"} => Granted(q) /\ q.audited
            /\ r \in executed => Granted(q)

\* the row that goes with an answer
Final(q) ==
    [state |-> IF q.answer = "ok" THEN "SUCCEEDED"
               ELSE IF q.answer = "OPERATION_NOT_AUTHORIZED" THEN "DENIED" ELSE "FAILED",
     error |-> IF q.answer = "ok" THEN "none" ELSE q.answer]

\* The audit row of a request, and what was executed, by where the request is.
AuditFollows(r) ==
    LET q == request[r]
        row == audit[r]
    IN  /\ q.pc \in {"resolve", "deny", "begin"} => row = NoRow /\ ~q.audited
        /\ q.pc \in {"consume", "unapproved"} => q.audited /\ q.risk # ReadOnly
        /\ q.pc \in Steps \ {"done"} =>
              row \in {NoRow, Begun} /\ (q.pc # "lost" /\ q.audited => row = Begun)
              /\ q.answer = "none" /\ ~q.finalized
        /\ q.pc \in {"resolve", "deny", "begin", "consume", "unapproved", "execute"} => r \notin executed
        /\ q.pc \in {"succeed", "fail"} => r \in executed
        /\ r \in executed /\ q.risk # ReadOnly => row.state \in {"AUTHORIZED", "SUCCEEDED", "FAILED"}
        /\ q.pc = "done" =>
              /\ q.answer # "none"
              /\ q.answer \in {"ok", "OPERATION_FAILED"} <=> r \in executed
              /\ row \in {NoRow, Begun, Final(q)}
              /\ row = NoRow => q.answer # "APPROVAL_UNAVAILABLE"
              /\ row = Begun => q.answer # "OPERATION_NOT_AUTHORIZED"
              /\ q.finalized => row = Final(q)
              /\ q.answer = "AUDIT_UNAVAILABLE" => row \in {NoRow, Begun} /\ ~q.finalized

RequestInv(r) ==
    IF request[r] = NotAsked THEN audit[r] = NoRow /\ r \notin executed
    ELSE ApprovalFollows(r) /\ AuditFollows(r)

IInv == OperationsTypeOK /\ \A r \in Requests : RequestInv(r)

-----------------------------------------------------------------------------
(* Types *)

\* A call that is asked, and one that has moved on, are of the type of calls.
LEMMA NotAskedIsNoCall == NotAsked \notin Asked
BY DEF NotAsked, Asked, Steps

LEMMA NoApprovalIsNone == NoApproval \notin Approval
BY DEF NoApproval, Approval, Kinds

LEMMA RisksAreFour ==
    /\ Risks = 0..3
    /\ ReadOnly \in Risks /\ SafeWrite \in Risks /\ SensitiveWrite \in Risks /\ Destructive \in Risks
BY DEF Risks, ReadOnly, SafeWrite, SensitiveWrite, Destructive

\* what a step of one request writes
LEMMA Moves ==
    ASSUME OperationsTypeOK, NEW r \in Requests, request[r] # NotAsked, NEW pc \in Steps, Step(r, pc)
    PROVE  /\ request' \in [Requests -> Asked \union {NotAsked}]
           /\ \A s \in Requests \ {r} : request'[s] = request[s]
           /\ request'[r] = [request[r] EXCEPT !.pc = pc]
           /\ request'[r] \in Asked /\ request'[r] # NotAsked
<1> DEFINE moved == [request[r] EXCEPT !.pc = pc]
<1>1. request[r] \in Asked
  BY DEF OperationsTypeOK
<1>2. moved \in Asked
  BY <1>1 DEF Asked
<1>3. request' = [request EXCEPT ![r] = moved]
  BY DEF Step
<1>4. QED
  BY <1>2, <1>3, NotAskedIsNoCall DEF OperationsTypeOK

LEMMA RequestAnswers ==
    ASSUME OperationsTypeOK, NEW r \in Requests, request[r] # NotAsked, NEW b \in BOOLEAN,
           NEW answer \in {"ok", "OPERATION_NOT_AUTHORIZED", "AUDIT_UNAVAILABLE", "APPROVAL_UNAVAILABLE",
                           "OPERATION_FAILED"},
           Answer(r, answer, b)
    PROVE  /\ request' \in [Requests -> Asked \union {NotAsked}]
           /\ \A s \in Requests \ {r} : request'[s] = request[s]
           /\ request'[r] = [request[r] EXCEPT !.pc = "done", !.answer = answer, !.finalized = b]
           /\ request'[r] \in Asked
<1> DEFINE done == [request[r] EXCEPT !.pc = "done", !.answer = answer, !.finalized = b]
<1>1. request[r] \in Asked
  BY DEF OperationsTypeOK
<1>2. done \in Asked
  BY <1>1 DEF Asked, Steps
<1>3. DOMAIN request = Requests
  BY DEF OperationsTypeOK
<1>4. request' = [request EXCEPT ![r] = done]
  BY <1>1, <1>3 DEF Answer
<1>5. QED
  BY <1>2, <1>3, <1>4 DEF OperationsTypeOK

LEMMA AuditWrites ==
    ASSUME OperationsTypeOK, NEW r \in Requests, NEW row \in Rows
    PROVE  [audit EXCEPT ![r] = row] \in [Requests -> Rows]
BY DEF OperationsTypeOK

LEMMA StatementCounts ==
    ASSUME OperationsTypeOK, NEW outcome \in Outcomes, Statement(outcome)
    PROVE  faults' \in 0..MaxFaults
BY OperationBoundsAssumption DEF OperationsTypeOK, Statement

LEMMA TypeInit == OperationsInit => OperationsTypeOK
BY OperationBoundsAssumption DEF OperationsInit, OperationsTypeOK, NoRow, Rows

-----------------------------------------------------------------------------
(* One request moves *)

\* What is given is never rewritten: it is only used, and revoked.
Kept(a) ==
    approvals[a] # NoApproval =>
        /\ approvals'[a] # NoApproval /\ approvals'[a].uses >= approvals[a].uses
        /\ \A q : Allows(approvals[a], q) <=> Allows(approvals'[a], q)

Rests(s) == request'[s] = request[s] /\ audit'[s] = audit[s] /\ (s \in executed' <=> s \in executed)

LEMMA KeptUnchanged ==
    ASSUME OperationsTypeOK, UNCHANGED approvals
    PROVE  \A a \in Refs : Kept(a)
BY DEF OperationsTypeOK, Kept, Approval

LEMMA StaysApproved ==
    ASSUME OperationsTypeOK, OperationsTypeOK', \A a \in Refs : Kept(a), NEW q
    PROVE  /\ Approved(q) => Approved(q)'
           /\ Granted(q) => Granted(q)'
BY DEF Approved, Granted, Kept, OperationsTypeOK, Approval, NoApproval

LEMMA RestingKeeps ==
    ASSUME OperationsTypeOK, OperationsTypeOK', \A a \in Refs : Kept(a),
           NEW s \in Requests, RequestInv(s), Rests(s)
    PROVE  RequestInv(s)'
<1> DEFINE q == request[s]
<1>1. CASE q = NotAsked
  BY <1>1 DEF RequestInv, Rests
<1>2. CASE q # NotAsked
  <2>1. request'[s] = q /\ audit'[s] = audit[s] /\ (s \in executed' <=> s \in executed)
    BY DEF Rests
  <2>2. ApprovalFollows(s)'
    BY <1>2, <2>1, StaysApproved DEF RequestInv, ApprovalFollows
  <2>3. AuditFollows(s)'
    BY <1>2, <2>1 DEF RequestInv, AuditFollows
  <2>4. QED
    BY <1>2, <2>1, <2>2, <2>3 DEF RequestInv
<1>3. QED
  BY <1>1, <1>2

\* Where a step of r is at, what it is of, and how it moves.
LEMMA At ==
    ASSUME IInv, NEW r \in Requests, request[r].pc # "new"
    PROVE  /\ OperationsTypeOK /\ request[r] \in Asked /\ request[r] # NotAsked
           /\ ApprovalFollows(r) /\ AuditFollows(r)
BY DEF IInv, OperationsTypeOK, NotAsked, RequestInv

Preserved(r) ==
    /\ OperationsTypeOK' /\ RequestInv(r)'
    /\ \A s \in Requests \ {r} : Rests(s)
    /\ \A a \in Refs : Kept(a)

LEMMA ResolveStep ==
    ASSUME IInv, NEW r \in Requests, NEW outcome \in Outcomes, Resolve(r, outcome)
    PROVE  Preserved(r)
<1> DEFINE q == request[r]
           allowed == /\ outcome = "answered" /\ Usable(approvals[q.ref], now)
                      /\ PolicyAllows(approvals[q.ref], q.name, q.resource, q.risk, q.at)
           pc == IF allowed THEN "begin" ELSE "deny"
<1>1. /\ q.pc = "resolve" /\ Step(r, pc) /\ Statement(outcome)
      /\ UNCHANGED <<now, approvals, audit, executed>>
  BY DEF Resolve
<1>2. /\ OperationsTypeOK /\ q \in Asked /\ q # NotAsked /\ ApprovalFollows(r) /\ AuditFollows(r)
  BY <1>1, At
<1>3. pc \in Steps
  BY DEF Steps
<1>4. /\ request' \in [Requests -> Asked \union {NotAsked}]
      /\ request'[r] = [q EXCEPT !.pc = pc] /\ request'[r] # NotAsked
      /\ \A s \in Requests \ {r} : request'[s] = request[s]
  BY <1>1, <1>2, <1>3, Moves
<1>5. OperationsTypeOK'
  BY <1>1, <1>2, <1>4, StatementCounts DEF OperationsTypeOK
<1>6. q.risk # ReadOnly /\ allowed => Approved(q)
  BY <1>1, <1>2, UnlimitedAssumption, OperationBoundsAssumption
     DEF ApprovalFollows, Usable, PolicyAllows, Covers, Approved, Allows, OperationsTypeOK, Asked, Approval, NoApproval
<1>7. ApprovalFollows(r)'
  BY <1>1, <1>2, <1>4, <1>6 DEF ApprovalFollows, AuditFollows, Approved, Allows, Asked
<1>8. AuditFollows(r)'
  BY <1>1, <1>2, <1>4 DEF AuditFollows, Asked, Steps
<1>9. QED
  BY <1>1, <1>2, <1>4, <1>5, <1>7, <1>8, KeptUnchanged DEF Preserved, RequestInv, Rests

\* what a call is made of
CallType == [name : Names, resource : Resources, contextual : Risks, granted : BOOLEAN, ref : Refs \union {NoRef}]

LEMMA AskWithStep ==
    ASSUME IInv, NEW r \in Requests, NEW call \in CallType, AskWith(r, call),
           UNCHANGED <<now, approvals, audit, executed, faults>>
    PROVE  Preserved(r)
<1> DEFINE risk == EffectiveRisk(call.name, call.contextual)
           pc == IF ~call.granted THEN "deny" ELSE IF risk = ReadOnly THEN "begin"
                 ELSE IF call.ref = NoRef THEN "deny" ELSE "resolve"
           asked == [pc |-> pc, name |-> call.name, resource |-> call.resource, risk |-> risk,
                     ref |-> IF pc = "resolve" THEN call.ref ELSE NoRef, at |-> now, audited |-> FALSE,
                     answer |-> "none", finalized |-> FALSE]
<1>1. /\ request[r] = NotAsked /\ request' = [request EXCEPT ![r] = asked]
      /\ UNCHANGED <<now, approvals, audit, executed, faults>>
  BY DEF AskWith
<1>2. OperationsTypeOK /\ audit[r] = NoRow /\ r \notin executed
  BY <1>1 DEF IInv, RequestInv
<1>3. risk \in Risks
  BY RiskAssumption DEF EffectiveRisk, CallType
<1>4. pc \in Steps /\ (pc = "resolve" => call.ref \in Refs)
  BY DEF Steps, CallType
<1>5. asked \in Asked
  BY <1>2, <1>3, <1>4 DEF Asked, CallType, OperationsTypeOK
<1>6. /\ request'[r] = asked /\ asked # NotAsked
      /\ \A s \in Requests \ {r} : request'[s] = request[s]
      /\ request' \in [Requests -> Asked \union {NotAsked}]
  BY <1>1, <1>2, <1>5, NotAskedIsNoCall DEF OperationsTypeOK
<1>7. OperationsTypeOK'
  BY <1>1, <1>2, <1>6 DEF OperationsTypeOK
<1>8. ApprovalFollows(r)'
  BY <1>1, <1>2, <1>4, <1>6 DEF ApprovalFollows, ReadOnly
<1>9. AuditFollows(r)'
  BY <1>1, <1>2, <1>6 DEF AuditFollows, Steps
<1>10. QED
  BY <1>1, <1>2, <1>6, <1>7, <1>8, <1>9, KeptUnchanged DEF Preserved, RequestInv, Rests

LEMMA AskStep ==
    ASSUME IInv, NEW r \in Requests, NEW call \in Calls, Ask(r, call)
    PROVE  Preserved(r)
BY AskWithStep, CallsAssumption DEF Ask, CallType

LEMMA RowsOfAudit ==
    /\ NoRow \in Rows /\ Begun \in Rows
    /\ [state |-> "DENIED", error |-> "OPERATION_NOT_AUTHORIZED"] \in Rows
BY DEF NoRow, Begun, Rows

LEMMA DenyStep ==
    ASSUME IInv, NEW r \in Requests, NEW outcome \in Outcomes, Deny(r, outcome)
    PROVE  Preserved(r)
<1> DEFINE q == request[r]
           denied == [state |-> "DENIED", error |-> "OPERATION_NOT_AUTHORIZED"]
           b == outcome = "answered"
<1>1. /\ q.pc = "deny" /\ Answer(r, "OPERATION_NOT_AUTHORIZED", b) /\ Statement(outcome)
      /\ audit' = IF Takes(outcome) THEN [audit EXCEPT ![r] = denied] ELSE audit
      /\ UNCHANGED <<now, approvals, executed>>
  BY DEF Deny
<1>2. /\ OperationsTypeOK /\ q \in Asked /\ q # NotAsked /\ ApprovalFollows(r) /\ AuditFollows(r)
  BY <1>1, At
<1>3. /\ request' \in [Requests -> Asked \union {NotAsked}]
      /\ \A s \in Requests \ {r} : request'[s] = request[s]
      /\ request'[r] = [q EXCEPT !.pc = "done", !.answer = "OPERATION_NOT_AUTHORIZED", !.finalized = b]
      /\ request'[r] # NotAsked
  BY <1>1, <1>2, RequestAnswers, NotAskedIsNoCall
<1>4. /\ audit' \in [Requests -> Rows]
      /\ audit'[r] \in {NoRow, denied} /\ (b => audit'[r] = denied)
      /\ \A s \in Requests \ {r} : audit'[s] = audit[s]
  BY <1>1, <1>2, RowsOfAudit, AuditWrites DEF OperationsTypeOK, Takes, AuditFollows
<1>5. OperationsTypeOK'
  BY <1>1, <1>2, <1>3, <1>4, StatementCounts DEF OperationsTypeOK
<1>6. ApprovalFollows(r)'
  BY <1>1, <1>2, <1>3 DEF ApprovalFollows, AuditFollows, Asked
<1>7. AuditFollows(r)'
  BY <1>1, <1>2, <1>3, <1>4 DEF AuditFollows, Asked, Steps, NoRow, Begun, Final
<1>8. QED
  BY <1>1, <1>2, <1>3, <1>4, <1>5, <1>6, <1>7, KeptUnchanged DEF Preserved, RequestInv, Rests

LEMMA BeginStep ==
    ASSUME IInv, NEW r \in Requests, NEW outcome \in Outcomes, Begin(r, outcome)
    PROVE  Preserved(r)
<1> DEFINE q == request[r]
           b == outcome = "answered"
           pc == IF q.risk = ReadOnly THEN "execute" ELSE "consume"
           moved == [q EXCEPT !.audited = b, !.pc = pc]
<1>1. /\ q.pc = "begin" /\ Statement(outcome)
      /\ audit' = IF Takes(outcome) THEN [audit EXCEPT ![r] = Begun] ELSE audit
      /\ UNCHANGED <<now, approvals, executed>>
  BY DEF Begin, Begun
<1>2. /\ OperationsTypeOK /\ q \in Asked /\ q # NotAsked /\ ApprovalFollows(r) /\ AuditFollows(r)
  BY <1>1, At
<1>3. /\ audit' \in [Requests -> Rows]
      /\ audit'[r] \in {NoRow, Begun} /\ (b => audit'[r] = Begun)
      /\ \A s \in Requests \ {r} : audit'[s] = audit[s]
  BY <1>1, <1>2, RowsOfAudit, AuditWrites DEF OperationsTypeOK, Takes, AuditFollows
<1>4. CASE ~b /\ q.risk # ReadOnly
  <2>1. Answer(r, "AUDIT_UNAVAILABLE", FALSE)
    BY <1>4 DEF Begin
  <2>2. /\ request' \in [Requests -> Asked \union {NotAsked}]
        /\ \A s \in Requests \ {r} : request'[s] = request[s]
        /\ request'[r] = [q EXCEPT !.pc = "done", !.answer = "AUDIT_UNAVAILABLE", !.finalized = FALSE]
        /\ request'[r] # NotAsked
    BY <1>2, <2>1, RequestAnswers, NotAskedIsNoCall
  <2>3. OperationsTypeOK'
    BY <1>1, <1>2, <1>3, <2>2, StatementCounts DEF OperationsTypeOK
  <2>4. ApprovalFollows(r)'
    BY <1>1, <1>2, <2>2 DEF ApprovalFollows, AuditFollows, Asked
  <2>5. AuditFollows(r)'
    BY <1>1, <1>2, <1>3, <2>2 DEF AuditFollows, Asked, Steps, NoRow, Begun, Final
  <2>6. QED
    BY <1>1, <1>2, <1>3, <2>2, <2>3, <2>4, <2>5, KeptUnchanged DEF Preserved, RequestInv, Rests
<1>5. CASE b \/ q.risk = ReadOnly
  <2>1. request' = [request EXCEPT ![r].audited = b, ![r].pc = pc]
    BY <1>5 DEF Begin
  <2>2. moved \in Asked
    BY <1>2 DEF Asked, Steps
  <2>3. request' = [request EXCEPT ![r] = moved]
    BY <1>2, <2>1 DEF OperationsTypeOK
  <2>4. /\ request' \in [Requests -> Asked \union {NotAsked}]
        /\ \A s \in Requests \ {r} : request'[s] = request[s]
        /\ request'[r] = moved /\ request'[r] # NotAsked
    BY <1>2, <2>2, <2>3, NotAskedIsNoCall DEF OperationsTypeOK
  <2>5. OperationsTypeOK'
    BY <1>1, <1>2, <1>3, <2>4, StatementCounts DEF OperationsTypeOK
  <2>6. ApprovalFollows(r)'
    BY <1>1, <1>2, <2>4 DEF ApprovalFollows, AuditFollows, Asked, Approved, Allows
  <2>7. AuditFollows(r)'
    BY <1>1, <1>2, <1>3, <1>5, <2>4 DEF AuditFollows, Asked, Steps
  <2>8. QED
    BY <1>1, <1>2, <1>3, <2>4, <2>5, <2>6, <2>7, KeptUnchanged DEF Preserved, RequestInv, Rests
<1>6. QED
  BY <1>4, <1>5

LEMMA ConsumeStep ==
    ASSUME IInv, NEW r \in Requests, NEW outcome \in Outcomes, Consume(r, outcome)
    PROVE  Preserved(r)
<1> DEFINE q == request[r]
           a == q.ref
           used == [approvals[a] EXCEPT !.uses = @ + 1]
           uses == Takes(outcome) /\ Usable(approvals[a], q.at)
           pc == IF Consumed(r, outcome) THEN "execute" ELSE "unapproved"
<1>1. /\ q.pc = "consume" /\ Step(r, pc) /\ Statement(outcome)
      /\ approvals' = IF uses THEN [approvals EXCEPT ![a].uses = @ + 1] ELSE approvals
      /\ UNCHANGED <<now, audit, executed>>
  BY DEF Consume
<1>2. /\ OperationsTypeOK /\ q \in Asked /\ q # NotAsked /\ ApprovalFollows(r) /\ AuditFollows(r)
  BY <1>1, At
<1>3. pc \in Steps
  BY DEF Steps
<1>4. /\ request' \in [Requests -> Asked \union {NotAsked}]
      /\ request'[r] = [q EXCEPT !.pc = pc] /\ request'[r] # NotAsked
      /\ \A s \in Requests \ {r} : request'[s] = request[s]
  BY <1>1, <1>2, <1>3, Moves
<1>5. a \in Refs /\ approvals[a] \in Approval /\ Approved(q)
  BY <1>1, <1>2 DEF ApprovalFollows, AuditFollows, Approved, OperationsTypeOK
<1>6. used \in Approval /\ used.uses > approvals[a].uses /\ used.uses > 0
  BY <1>5 DEF Approval
<1>7. \A p : Allows(approvals[a], p) <=> Allows(used, p)
  BY <1>5 DEF Allows, Approval
<1>8. approvals' = IF uses THEN [approvals EXCEPT ![a] = used] ELSE approvals
  BY <1>1
<1>9. /\ approvals' \in [Refs -> Approval \union {NoApproval}]
      /\ approvals'[a] = IF uses THEN used ELSE approvals[a]
      /\ \A c \in Refs \ {a} : approvals'[c] = approvals[c]
  BY <1>2, <1>5, <1>6, <1>8 DEF OperationsTypeOK
<1>10. \A c \in Refs : Kept(c)
  <2> SUFFICES ASSUME NEW c \in Refs, approvals[c] # NoApproval PROVE Kept(c)
    BY DEF Kept
  <2>1. CASE c = a /\ uses
    BY <2>1, <1>5, <1>6, <1>7, <1>9, NoApprovalIsNone DEF Kept, Approval
  <2>2. CASE ~(c = a /\ uses)
    BY <2>2, <1>2, <1>9 DEF Kept, OperationsTypeOK, Approval
  <2>3. QED
    BY <2>1, <2>2
<1>11. OperationsTypeOK'
  BY <1>1, <1>2, <1>4, <1>9, StatementCounts DEF OperationsTypeOK
<1>12. /\ approvals'[a] # NoApproval /\ Allows(approvals'[a], q)
       /\ pc = "execute" => approvals'[a].uses > 0
  BY <1>5, <1>6, <1>7, <1>9, NoApprovalIsNone DEF Approved, Consumed, Takes
<1>13. q.audited /\ q.ref \in Refs
  BY <1>1, <1>2, <1>5 DEF AuditFollows
<1>14. ApprovalFollows(r)'
  BY <1>1, <1>2, <1>4, <1>12, <1>13 DEF ApprovalFollows, AuditFollows, Asked, Approved, Granted, Allows
<1>15. AuditFollows(r)'
  BY <1>1, <1>2, <1>4 DEF AuditFollows, Asked, Steps
<1>16. QED
  BY <1>1, <1>2, <1>4, <1>10, <1>11, <1>14, <1>15 DEF Preserved, RequestInv, Rests

LEMMA ExecuteStep ==
    ASSUME IInv, NEW r \in Requests, Execute(r)
    PROVE  Preserved(r)
<1> DEFINE q == request[r]
<1>1. /\ q.pc = "execute" /\ executed' = executed \union {r}
      /\ UNCHANGED <<now, approvals, audit, faults>>
  BY DEF Execute
<1>2. /\ OperationsTypeOK /\ q \in Asked /\ q # NotAsked /\ ApprovalFollows(r) /\ AuditFollows(r)
  BY <1>1, At
<1>3. PICK pc \in {"succeed", "fail"} : Step(r, pc)
  BY DEF Execute
<1>4. /\ request' \in [Requests -> Asked \union {NotAsked}]
      /\ request'[r] = [q EXCEPT !.pc = pc] /\ request'[r] # NotAsked
      /\ \A s \in Requests \ {r} : request'[s] = request[s]
  BY <1>2, <1>3, Moves DEF Steps
<1>5. OperationsTypeOK'
  BY <1>1, <1>2, <1>4 DEF OperationsTypeOK
<1>6. ApprovalFollows(r)'
  BY <1>1, <1>2, <1>3, <1>4 DEF ApprovalFollows, AuditFollows, Asked, Approved, Granted, Allows
<1>7. AuditFollows(r)'
  BY <1>1, <1>2, <1>3, <1>4 DEF AuditFollows, ApprovalFollows, Asked, Steps, NoRow, Begun
<1>8. QED
  BY <1>1, <1>2, <1>4, <1>5, <1>6, <1>7, KeptUnchanged DEF Preserved, RequestInv, Rests

\* The three ways in which a request that went on comes to its end.
Ends(r, pc, answer, state, error) ==
    \/ pc = "unapproved" /\ answer = "APPROVAL_UNAVAILABLE" /\ state = "FAILED" /\ error = answer
    \/ pc = "succeed" /\ answer = "ok" /\ state = "SUCCEEDED" /\ error = "none"
    \/ pc = "fail" /\ answer = "OPERATION_FAILED" /\ state = "FAILED" /\ error = answer

LEMMA FinishStep ==
    ASSUME IInv, NEW r \in Requests, NEW outcome \in Outcomes, NEW state, NEW error,
           NEW answer \in {"ok", "OPERATION_NOT_AUTHORIZED", "AUDIT_UNAVAILABLE", "APPROVAL_UNAVAILABLE",
                           "OPERATION_FAILED"},
           Ends(r, request[r].pc, answer, state, error), Finish(r, answer, state, error, outcome)
    PROVE  Preserved(r)
<1> DEFINE q == request[r]
           row == [state |-> state, error |-> error]
<1>0. PICK b \in BOOLEAN : b = Finalized(r, outcome)
  BY DEF Finalized
<1>1. /\ q.pc \in {"unapproved", "succeed", "fail"} /\ Answer(r, answer, b)
      /\ UNCHANGED <<now, approvals, executed>>
  BY <1>0 DEF Ends, Finish
<1>2. /\ OperationsTypeOK /\ q \in Asked /\ q # NotAsked /\ ApprovalFollows(r) /\ AuditFollows(r)
  BY <1>1, At
<1>3. /\ answer \in {"ok", "APPROVAL_UNAVAILABLE", "OPERATION_FAILED"} /\ row \in Rows
      /\ answer \in {"ok", "OPERATION_FAILED"} <=> r \in executed
  BY <1>1, <1>2 DEF Ends, Finalized, Rows, AuditFollows, Steps, Asked
<1>4. /\ request' \in [Requests -> Asked \union {NotAsked}]
      /\ \A s \in Requests \ {r} : request'[s] = request[s]
      /\ request'[r] = [q EXCEPT !.pc = "done", !.answer = answer, !.finalized = b]
      /\ request'[r] # NotAsked
  <2> DEFINE done == [q EXCEPT !.pc = "done", !.answer = answer, !.finalized = b]
  <2>1. done \in Asked
    BY <1>2 DEF Asked, Steps
  <2>2. DOMAIN request = Requests
    BY <1>2 DEF OperationsTypeOK
  <2>3. request' = [request EXCEPT ![r] = done]
    BY <1>1, <1>2, <2>2 DEF Answer
  <2>4. QED
    BY <1>2, <2>1, <2>2, <2>3, NotAskedIsNoCall DEF OperationsTypeOK
<1>5. row = Final(request'[r])
  BY <1>2, <1>4 DEF Ends, Final, Asked
<1>6. /\ audit[r] \in {NoRow, Begun} /\ (q.audited => audit[r] = Begun)
      /\ q.pc = "unapproved" => q.audited
  BY <1>1, <1>2 DEF AuditFollows, Steps
<1>7. faults' \in 0..MaxFaults
  BY <1>2, StatementCounts DEF Finish, OperationsTypeOK
<1>8. \/ audit' = audit /\ ~b
      \/ q.audited /\ audit' = [audit EXCEPT ![r] = row]
  BY <1>0, <1>2, <1>6 DEF Finish, Ended, Finalized, Takes, Begun
<1>9. /\ audit' \in [Requests -> Rows]
      /\ (audit'[r] = audit[r] /\ ~b) \/ (q.audited /\ audit'[r] = row)
      /\ \A s \in Requests \ {r} : audit'[s] = audit[s]
  BY <1>2, <1>3, <1>8, AuditWrites DEF OperationsTypeOK
<1>10. OperationsTypeOK'
  BY <1>1, <1>2, <1>4, <1>7, <1>9 DEF OperationsTypeOK
<1>11. ApprovalFollows(r)'
  BY <1>1, <1>2, <1>4 DEF ApprovalFollows, AuditFollows, Asked, Approved, Granted, Allows
<1>12. audit'[r].state \in {"AUTHORIZED", "SUCCEEDED", "FAILED"} \/ (audit'[r] = NoRow /\ audit[r] = NoRow)
  BY <1>6, <1>9 DEF Ends, Begun
<1>13. AuditFollows(r)'
  <2>1. audit'[r] \in {NoRow, Begun, row} /\ (b => audit'[r] = row)
    BY <1>6, <1>9
  <2>2. audit'[r] = NoRow => answer # "APPROVAL_UNAVAILABLE"
    BY <1>6, <1>9 DEF Ends, NoRow, Begun
  <2>3. r \in executed /\ q.risk # ReadOnly => audit'[r].state \in {"AUTHORIZED", "SUCCEEDED", "FAILED"}
    BY <1>2, <1>12 DEF AuditFollows, NoRow
  <2>4. QED
    BY <1>1, <1>2, <1>3, <1>4, <1>5, <2>1, <2>2, <2>3 DEF AuditFollows, Asked, Steps
<1>14. QED
  BY <1>1, <1>2, <1>4, <1>9, <1>10, <1>11, <1>13, KeptUnchanged DEF Preserved, RequestInv, Rests

LEMMA AdvanceStep ==
    ASSUME IInv, NEW r \in Requests, Advance(r)
    PROVE  Preserved(r)
<1>1. CASE Execute(r)
  BY <1>1, ExecuteStep
<1>2. ASSUME NEW outcome \in Outcomes,
             \/ Resolve(r, outcome) \/ Deny(r, outcome) \/ Begin(r, outcome) \/ Consume(r, outcome)
             \/ ApprovalUnavailable(r, outcome) \/ Succeed(r, outcome) \/ FailOperation(r, outcome)
      PROVE  Preserved(r)
  <2>1. CASE Resolve(r, outcome) \/ Deny(r, outcome) \/ Begin(r, outcome) \/ Consume(r, outcome)
    BY <2>1, ResolveStep, DenyStep, BeginStep, ConsumeStep
  <2>2. CASE ApprovalUnavailable(r, outcome)
    <3>1. Finish(r, "APPROVAL_UNAVAILABLE", "FAILED", "APPROVAL_UNAVAILABLE", outcome)
          /\ Ends(r, request[r].pc, "APPROVAL_UNAVAILABLE", "FAILED", "APPROVAL_UNAVAILABLE")
      BY <2>2 DEF ApprovalUnavailable, Ends
    <3>2. QED
      BY <3>1, FinishStep
  <2>3. CASE Succeed(r, outcome)
    <3>1. Finish(r, "ok", "SUCCEEDED", "none", outcome) /\ Ends(r, request[r].pc, "ok", "SUCCEEDED", "none")
      BY <2>3 DEF Succeed, Ends
    <3>2. QED
      BY <3>1, FinishStep
  <2>4. CASE FailOperation(r, outcome)
    <3>1. Finish(r, "OPERATION_FAILED", "FAILED", "OPERATION_FAILED", outcome)
          /\ Ends(r, request[r].pc, "OPERATION_FAILED", "FAILED", "OPERATION_FAILED")
      BY <2>4 DEF FailOperation, Ends
    <3>2. QED
      BY <3>1, FinishStep
  <2>5. QED
    BY <1>2, <2>1, <2>2, <2>3, <2>4
<1>3. QED
  BY <1>1, <1>2 DEF Advance

-----------------------------------------------------------------------------
(* Approvals are given and taken back, time passes, the process stops *)

\* a step that no request takes
LEMMA OthersRest ==
    ASSUME IInv, OperationsTypeOK', \A a \in Refs : Kept(a), \A s \in Requests : Rests(s)
    PROVE  IInv'
BY RestingKeeps DEF IInv

LEMMA PreservedIsInvariant ==
    ASSUME IInv, NEW r \in Requests, Preserved(r)
    PROVE  IInv'
BY RestingKeeps DEF IInv, Preserved

LEMMA IssueKeeps ==
    ASSUME IInv, NEW a \in Refs, NEW approval \in Approval, Issue(a, approval)
    PROVE  IInv'
<1>1. /\ OperationsTypeOK /\ approvals[a] = NoApproval /\ approvals' = [approvals EXCEPT ![a] = approval]
      /\ UNCHANGED <<now, request, audit, executed, faults>>
  BY DEF Issue, IInv
<1>2. OperationsTypeOK'
  BY <1>1 DEF OperationsTypeOK
<1>3. \A c \in Refs : Kept(c)
  BY <1>1 DEF OperationsTypeOK, Kept, Approval
<1>4. \A s \in Requests : Rests(s)
  BY <1>1 DEF Rests
<1>5. QED
  BY <1>2, <1>3, <1>4, OthersRest

LEMMA GiveKeeps ==
    ASSUME IInv, Give
    PROVE  IInv'
<1>1. PICK a \in Refs, expires \in (now + 1)..(MaxTime + 1) :
         \/ \E single \in Singles : IssueExplicit(a, single[1], single[2], expires)
         \/ \E policy \in Policies : IssueSessionPolicy(a, policy, expires)
  BY DEF Give
<1>2. now \in 0..MaxTime /\ MaxTime \in Nat /\ expires \in 1..(MaxTime + 1)
  BY OperationBoundsAssumption DEF IInv, OperationsTypeOK
<1>3. CASE \E single \in Singles : IssueExplicit(a, single[1], single[2], expires)
  <2>1. PICK single \in Singles : IssueExplicit(a, single[1], single[2], expires)
    BY <1>3
  <2>2. single[1] \in Names /\ single[2] \in Resources
    BY ScopesAssumption
  <2>3. [kind |-> "EXPLICIT", names |-> {single[1]}, resources |-> {single[2]}, sensitive |-> FALSE,
         issued |-> now, expires |-> expires, max |-> 1, uses |-> 0, revoked |-> FALSE] \in Approval
    BY <1>2, <2>2 DEF Approval, Kinds, Limits
  <2>4. QED
    BY <2>1, <2>3, IssueKeeps DEF IssueExplicit
<1>4. CASE \E policy \in Policies : IssueSessionPolicy(a, policy, expires)
  <2>1. PICK policy \in Policies : IssueSessionPolicy(a, policy, expires)
    BY <1>4
  <2>2. policy \in [names : SUBSET Names, resources : SUBSET Resources, sensitive : BOOLEAN,
                    max : (1..MaxUses) \union {Unlimited}]
    BY ScopesAssumption
  <2>3. [kind |-> "SESSION_POLICY", names |-> policy.names, resources |-> policy.resources,
         sensitive |-> policy.sensitive, issued |-> now, expires |-> expires, max |-> policy.max,
         uses |-> 0, revoked |-> FALSE] \in Approval
    BY <1>2, <2>2 DEF Approval, Kinds, Limits
  <2>4. QED
    BY <2>1, <2>3, IssueKeeps DEF IssueSessionPolicy
<1>5. QED
  BY <1>1, <1>3, <1>4

LEMMA RevokeKeeps ==
    ASSUME IInv, NEW a \in Refs, Revoke(a)
    PROVE  IInv'
<1> DEFINE revoked == [approvals[a] EXCEPT !.revoked = TRUE]
<1>1. /\ OperationsTypeOK /\ approvals[a] \in Approval /\ approvals' = [approvals EXCEPT ![a] = revoked]
      /\ UNCHANGED <<now, request, audit, executed, faults>>
  BY DEF Revoke, IInv, OperationsTypeOK
<1>2. revoked \in Approval /\ revoked # NoApproval /\ revoked.uses = approvals[a].uses
      /\ approvals[a].uses \in Nat
  BY <1>1, NoApprovalIsNone DEF Approval
<1>3. \A q : Allows(approvals[a], q) <=> Allows(revoked, q)
  BY <1>1 DEF Allows, Approval
<1>4. OperationsTypeOK'
  BY <1>1, <1>2 DEF OperationsTypeOK
<1>5. \A c \in Refs : Kept(c)
  <2> SUFFICES ASSUME NEW c \in Refs PROVE Kept(c)
    OBVIOUS
  <2>1. CASE c = a
    <3>1. approvals'[a] = revoked
      BY <1>1 DEF OperationsTypeOK
    <3> HIDE DEF revoked
    <3>2. QED
      BY <1>2, <1>3, <2>1, <3>1 DEF Kept
  <2>2. CASE c # a
    BY <1>1, <2>2 DEF Kept, OperationsTypeOK, Approval
  <2>3. QED
    BY <2>1, <2>2
<1>6. \A s \in Requests : Rests(s)
  BY <1>1 DEF Rests
<1>7. QED
  BY <1>4, <1>5, <1>6, OthersRest

LEMMA TimePassesKeeps ==
    ASSUME IInv, TimePasses
    PROVE  IInv'
<1>1. OperationsTypeOK'
  BY OperationBoundsAssumption DEF IInv, OperationsTypeOK, TimePasses
<1>2. (\A c \in Refs : Kept(c)) /\ \A s \in Requests : Rests(s)
  BY KeptUnchanged DEF IInv, TimePasses, Rests
<1>3. QED
  BY <1>1, <1>2, OthersRest

LEMMA StutterKeeps ==
    ASSUME IInv, UNCHANGED opVars
    PROVE  IInv'
<1>1. OperationsTypeOK'
  BY DEF IInv, OperationsTypeOK, opVars
<1>2. (\A c \in Refs : Kept(c)) /\ \A s \in Requests : Rests(s)
  BY KeptUnchanged DEF IInv, opVars, Rests
<1>3. QED
  BY <1>1, <1>2, OthersRest

LEMMA StopKeeps ==
    ASSUME IInv, StopProcess
    PROVE  IInv'
<1>1. /\ OperationsTypeOK /\ faults' \in 0..MaxFaults
      /\ UNCHANGED <<now, approvals, audit, executed>>
  BY OperationBoundsAssumption DEF IInv, OperationsTypeOK, StopProcess
<1>2. request' = [r \in Requests |-> IF r \in Underway THEN [request[r] EXCEPT !.pc = "lost"] ELSE request[r]]
  BY DEF StopProcess, StopOperations
<1>3. \A c \in Refs : Kept(c)
  BY <1>1, KeptUnchanged
<1>4. \A r \in Underway : request[r] \in Asked /\ [request[r] EXCEPT !.pc = "lost"] \in Asked
  BY <1>1 DEF Underway, OperationsTypeOK, NotAsked, Asked, Steps
<1>5. OperationsTypeOK'
  BY <1>1, <1>2, <1>4 DEF OperationsTypeOK
<1>6. ASSUME NEW r \in Requests PROVE RequestInv(r)'
  <2>1. CASE r \notin Underway
    BY <1>1, <1>2, <1>3, <1>5, <2>1, RestingKeeps DEF IInv, Rests
  <2>2. CASE r \in Underway
    <3> DEFINE q == request[r]
    <3>1. /\ q \in Asked /\ q # NotAsked /\ ApprovalFollows(r) /\ AuditFollows(r) /\ q.pc # "done"
      BY <2>2, At DEF Underway
    <3>2. request'[r] = [q EXCEPT !.pc = "lost"] /\ request'[r] # NotAsked
      BY <1>2, <1>4, <2>2, NotAskedIsNoCall
    <3>3. ApprovalFollows(r)'
      BY <1>1, <3>1, <3>2 DEF ApprovalFollows, Asked, Approved, Granted, Allows
    <3>4. AuditFollows(r)'
      BY <1>1, <3>1, <3>2 DEF AuditFollows, Asked, Steps
    <3>5. QED
      BY <3>2, <3>3, <3>4 DEF RequestInv
  <2>3. QED
    BY <2>1, <2>2
<1>7. QED
  BY <1>5, <1>6 DEF IInv

-----------------------------------------------------------------------------
(* The invariant and what follows from it *)

LEMMA InvInit == OperationsInit => IInv
BY TypeInit DEF OperationsInit, IInv, RequestInv

LEMMA InvStep == IInv /\ [OperationsNext]_opVars => IInv'
<1> SUFFICES ASSUME IInv, [OperationsNext]_opVars PROVE IInv'
  OBVIOUS
<1>1. CASE Give
  BY <1>1, GiveKeeps
<1>2. CASE \E a \in Refs : Revoke(a)
  BY <1>2, RevokeKeeps
<1>3. CASE \E r \in Requests, call \in Calls : Ask(r, call)
  BY <1>3, AskStep, PreservedIsInvariant
<1>4. CASE \E r \in Requests : Advance(r)
  BY <1>4, AdvanceStep, PreservedIsInvariant
<1>5. CASE TimePasses
  BY <1>5, TimePassesKeeps
<1>6. CASE StopProcess
  BY <1>6, StopKeeps
<1>7. CASE UNCHANGED opVars
  BY <1>7, StutterKeeps
<1>8. QED
  BY <1>1, <1>2, <1>3, <1>4, <1>5, <1>6, <1>7 DEF OperationsNext, Operate

LEMMA Inductive == OperationsSpec => []IInv
BY InvInit, InvStep, PTL DEF OperationsSpec

\* Every variable keeps its type: a row of operation_approvals is either missing
\* or of the shape its table gives it, whatever was issued, revoked and used
\* (operation-approval-store.ts).
THEOREM TypeCorrect == OperationsSpec => []OperationsTypeOK
<1>1. IInv => OperationsTypeOK
  BY DEF IInv
<1>2. QED
  BY <1>1, Inductive, PTL

LEMMA ExecutedFollows == IInv => ExecutedWasApproved
<1> SUFFICES ASSUME IInv, NEW r \in executed, Writes(r)
             PROVE  LET q == request[r]
                        approval == approvals[q.ref]
                    IN  /\ q.ref # NoRef /\ approval # NoApproval
                        /\ q.name \in approval.names /\ q.resource \in approval.resources /\ q.at < approval.expires
                        /\ q.risk = SensitiveWrite => approval.kind = "EXPLICIT" \/ approval.sensitive
                        /\ q.risk = Destructive => approval.kind = "EXPLICIT" /\ q.at <= approval.issued + Freshness
                        /\ approval.uses > 0
                        /\ audit[r].state \in {"AUTHORIZED", "SUCCEEDED", "FAILED"}
  BY DEF ExecutedWasApproved
<1>1. r \in Requests /\ request[r] # NotAsked /\ request[r].risk # ReadOnly
  BY DEF IInv, OperationsTypeOK, Writes, Called
<1>2. Granted(request[r]) /\ audit[r].state \in {"AUTHORIZED", "SUCCEEDED", "FAILED"}
  BY <1>1 DEF IInv, RequestInv, ApprovalFollows, AuditFollows
<1>3. QED
  BY <1>2, RefAssumption DEF Granted, Approved, Allows

\* Whatever ran, and however many requests, approvals and failures there were:
\* an operation that may change something was carried out only under an
\* approval of that operation on that resource, given in time, used, and
\* audited before (operation-execution.ts).
THEOREM Approved_Execution == OperationsSpec => []ExecutedWasApproved
BY ExecutedFollows, Inductive, PTL

LEMMA AuditTrueFollows == IInv => AuditIsTrue
<1> SUFFICES ASSUME IInv, NEW r \in Requests
             PROVE  LET row == audit[r]
                        q == request[r]
                    IN  /\ row.state = "DENIED" \/ row.error = "APPROVAL_UNAVAILABLE" => r \notin executed
                        /\ row.state = "SUCCEEDED" \/ row.error = "OPERATION_FAILED" => r \in executed
                        /\ Called(r) /\ q.answer \in {"ok", "OPERATION_FAILED"} => r \in executed
                        /\ Called(r) /\ q.answer \in {"OPERATION_NOT_AUTHORIZED", "AUDIT_UNAVAILABLE", "APPROVAL_UNAVAILABLE"}
                              => r \notin executed
                        /\ Called(r) /\ q.finalized =>
                              /\ q.answer = "ok" => row.state = "SUCCEEDED"
                              /\ q.answer = "OPERATION_NOT_AUTHORIZED" => row.state = "DENIED"
                              /\ q.answer \notin {"ok", "OPERATION_NOT_AUTHORIZED"} =>
                                    row = [state |-> "FAILED", error |-> q.answer]
  BY DEF AuditIsTrue
<1>1. CASE request[r] = NotAsked
  BY <1>1 DEF IInv, RequestInv, Called, NoRow
<1>2. CASE request[r] # NotAsked
  <2>1. request[r] \in Asked /\ AuditFollows(r)
    BY <1>2 DEF IInv, OperationsTypeOK, RequestInv
  <2>2. CASE request[r].pc = "done"
    BY <1>2, <2>1, <2>2 DEF AuditFollows, Called, Asked, Final, NoRow, Begun
  <2>3. CASE request[r].pc # "done"
    BY <1>2, <2>1, <2>3 DEF AuditFollows, Called, Asked, NoRow, Begun
  <2>4. QED
    BY <2>2, <2>3
<1>3. QED
  BY <1>1, <1>2

\* The audit log and the answers say what was done, for any number of requests
\* in any interleaving, with any statement failing (operation-audit.ts).
THEOREM True_Audit == OperationsSpec => []AuditIsTrue
BY AuditTrueFollows, Inductive, PTL

-----------------------------------------------------------------------------
(* No approval is stretched *)

\* A request that was, or is about to be, executed under an approval: it spent
\* a use of its own.
Owes(r, a) == Writes(r) /\ request[r].ref = a /\ (r \in executed \/ request[r].pc = "execute")
Owing(a) == {r \in Requests : Owes(r, a)}
Uses(a) == IF approvals[a] = NoApproval THEN 0 ELSE approvals[a].uses

LedgerInv == \A a \in Refs : IsFiniteSet(Owing(a)) /\ Cardinality(Owing(a)) <= Uses(a)

\* A step of a request leaves alone which approval it is under, and how risky it
\* is; and it comes to its execution only by spending a use.
Carries(r) ==
    /\ request[r] \in Asked /\ request'[r] \in Asked
    /\ request'[r].risk = request[r].risk /\ request'[r].ref = request[r].ref
    /\ \A s \in Requests \ {r} : request'[s] = request[s]

LEMMA MovesCarry ==
    ASSUME IInv, NEW r \in Requests, request[r].pc # "new", NEW pc \in Steps, Step(r, pc)
    PROVE  Carries(r) /\ request'[r].pc = pc
<1>1. OperationsTypeOK /\ request[r] \in Asked /\ request[r] # NotAsked
  BY At
<1>2. /\ request'[r] = [request[r] EXCEPT !.pc = pc] /\ request'[r] \in Asked
      /\ \A s \in Requests \ {r} : request'[s] = request[s]
  BY <1>1, Moves
<1>3. QED
  BY <1>1, <1>2 DEF Carries, Asked

LEMMA AnswersCarry ==
    ASSUME IInv, NEW r \in Requests, request[r].pc # "new", NEW answer, NEW b \in BOOLEAN,
           answer \in {"ok", "OPERATION_NOT_AUTHORIZED", "AUDIT_UNAVAILABLE", "APPROVAL_UNAVAILABLE",
                       "OPERATION_FAILED"},
           Answer(r, answer, b)
    PROVE  Carries(r) /\ request'[r].pc = "done"
<1> DEFINE done == [request[r] EXCEPT !.pc = "done", !.answer = answer, !.finalized = b]
<1>1. OperationsTypeOK /\ request[r] \in Asked
  BY At
<1>2. done \in Asked
  BY <1>1 DEF Asked, Steps
<1>3. DOMAIN request = Requests
  BY <1>1 DEF OperationsTypeOK
<1>4. request' = [request EXCEPT ![r] = done]
  BY <1>1, <1>3 DEF Answer
<1>5. QED
  BY <1>1, <1>2, <1>3, <1>4 DEF Carries, Asked

LEMMA BeginCarries ==
    ASSUME IInv, NEW r \in Requests, NEW outcome \in Outcomes, Begin(r, outcome)
    PROVE  Carries(r) /\ (request'[r].pc = "execute" => request[r].risk = ReadOnly)
<1> DEFINE q == request[r]
           b == outcome = "answered"
           pc == IF q.risk = ReadOnly THEN "execute" ELSE "consume"
           moved == [q EXCEPT !.audited = b, !.pc = pc]
<1>1. OperationsTypeOK /\ q \in Asked /\ q.pc # "new"
  BY At DEF Begin
<1>2. CASE ~b /\ q.risk # ReadOnly
  <2>1. Answer(r, "AUDIT_UNAVAILABLE", FALSE)
    BY <1>2 DEF Begin
  <2>2. QED
    BY <1>1, <2>1, AnswersCarry
<1>3. CASE b \/ q.risk = ReadOnly
  <2>1. moved \in Asked
    BY <1>1 DEF Asked, Steps
  <2>2. request' = [request EXCEPT ![r] = moved]
    BY <1>1, <1>3 DEF OperationsTypeOK, Begin
  <2>3. request'[r] = moved /\ \A s \in Requests \ {r} : request'[s] = request[s]
    BY <1>1, <2>2 DEF OperationsTypeOK
  <2>4. QED
    BY <1>1, <2>1, <2>3 DEF Carries, Asked
<1>4. QED
  BY <1>2, <1>3

\* the actions of a request after which it does not owe a use that it did not
\* owe before
LEMMA OthersOweNoMore ==
    ASSUME IInv, NEW r \in Requests, NEW outcome \in Outcomes,
           \/ Resolve(r, outcome) \/ Deny(r, outcome) \/ Begin(r, outcome)
           \/ ApprovalUnavailable(r, outcome) \/ Succeed(r, outcome) \/ FailOperation(r, outcome)
    PROVE  /\ Carries(r) /\ UNCHANGED <<approvals, executed>>
           /\ request'[r].pc = "execute" => request[r].risk = ReadOnly
<1>1. CASE Resolve(r, outcome)
  <2>1. PICK pc \in {"begin", "deny"} : Step(r, pc)
    BY <1>1 DEF Resolve
  <2>2. request[r].pc # "new" /\ pc \in Steps /\ UNCHANGED <<approvals, executed>>
    BY <1>1 DEF Resolve, Steps
  <2>3. QED
    BY <2>1, <2>2, MovesCarry
<1>2. CASE Deny(r, outcome)
  <2>1. PICK b \in BOOLEAN : Answer(r, "OPERATION_NOT_AUTHORIZED", b)
    BY <1>2 DEF Deny
  <2>2. QED
    BY <1>2, <2>1, AnswersCarry DEF Deny
<1>3. CASE Begin(r, outcome)
  BY <1>3, BeginCarries DEF Begin
<1>4. CASE ApprovalUnavailable(r, outcome) \/ Succeed(r, outcome) \/ FailOperation(r, outcome)
  <2>1. PICK b \in BOOLEAN : \/ Answer(r, "APPROVAL_UNAVAILABLE", b)
                             \/ Answer(r, "ok", b) \/ Answer(r, "OPERATION_FAILED", b)
    BY <1>4 DEF ApprovalUnavailable, Succeed, FailOperation, Finish, Finalized
  <2>2. request[r].pc # "new" /\ UNCHANGED <<approvals, executed>>
    BY <1>4 DEF ApprovalUnavailable, Succeed, FailOperation, Finish
  <2>3. QED
    BY <2>1, <2>2, AnswersCarry
<1>5. QED
  BY <1>1, <1>2, <1>3, <1>4

-----------------------------------------------------------------------------
LEMMA FewerOwe ==
    ASSUME LedgerInv, NEW a \in Refs, Owing(a)' \subseteq Owing(a), Uses(a)' >= Uses(a),
           Uses(a) \in Nat, Uses(a)' \in Nat
    PROVE  IsFiniteSet(Owing(a))' /\ Cardinality(Owing(a))' <= Uses(a)'
<1>1. IsFiniteSet(Owing(a)) /\ Cardinality(Owing(a)) <= Uses(a)
  BY DEF LedgerInv
<1>2. IsFiniteSet(Owing(a)') /\ Cardinality(Owing(a)') <= Cardinality(Owing(a))
  BY <1>1, FS_Subset
<1>3. Cardinality(Owing(a)) \in Nat /\ Cardinality(Owing(a)') \in Nat
  BY <1>1, <1>2, FS_CardinalityType
<1>4. QED
  BY <1>1, <1>2, <1>3

LEMMA UsesAreCounted ==
    ASSUME NEW a \in Refs
    PROVE  (OperationsTypeOK => Uses(a) \in Nat) /\ (OperationsTypeOK' => Uses(a)' \in Nat)
BY DEF OperationsTypeOK, Uses, Approval

\* Where nobody comes to owe more, and no use is lost.
LEMMA LedgerRests ==
    ASSUME IInv, IInv', LedgerInv, \A a \in Refs : Uses(a)' >= Uses(a),
           \A r \in Requests, a \in Refs : Owes(r, a)' => Owes(r, a)
    PROVE  LedgerInv'
<1> SUFFICES ASSUME NEW a \in Refs PROVE IsFiniteSet(Owing(a))' /\ Cardinality(Owing(a))' <= Uses(a)'
  BY DEF LedgerInv
<1>1. Uses(a) \in Nat /\ Uses(a)' \in Nat
  BY UsesAreCounted DEF IInv
<1>2. Owing(a)' \subseteq Owing(a)
  BY DEF Owing
<1>3. QED
  BY <1>1, <1>2, FewerOwe

LEMMA ConsumeSpends ==
    ASSUME IInv, NEW r \in Requests, NEW outcome \in Outcomes, Consume(r, outcome)
    PROVE  LET a == request[r].ref
               uses == Takes(outcome) /\ Usable(approvals[a], request[r].at)
           IN  /\ Carries(r) /\ UNCHANGED executed /\ r \notin executed
               /\ a \in Refs /\ approvals[a] \in Approval /\ approvals[a] # NoApproval
               /\ approvals' = IF uses THEN [approvals EXCEPT ![a].uses = @ + 1] ELSE approvals
               /\ request'[r].pc = "execute" => uses
<1> DEFINE q == request[r]
           a == q.ref
           uses == Takes(outcome) /\ Usable(approvals[a], q.at)
           pc == IF Consumed(r, outcome) THEN "execute" ELSE "unapproved"
<1>1. /\ q.pc = "consume" /\ Step(r, pc) /\ pc \in Steps /\ UNCHANGED executed
      /\ approvals' = IF uses THEN [approvals EXCEPT ![a].uses = @ + 1] ELSE approvals
  BY DEF Consume, Steps
<1>2. OperationsTypeOK /\ ApprovalFollows(r) /\ AuditFollows(r)
  BY <1>1, At
<1>3. Carries(r) /\ request'[r].pc = pc
  BY <1>1, MovesCarry
<1>4. r \notin executed /\ a \in Refs /\ approvals[a] # NoApproval
  BY <1>1, <1>2 DEF ApprovalFollows, AuditFollows, Approved
<1>5. approvals[a] \in Approval
  BY <1>2, <1>4 DEF OperationsTypeOK
<1>6. pc = "execute" => uses
  BY DEF Consumed, Takes
<1>7. QED
  BY <1>1, <1>3, <1>4, <1>5, <1>6

LEMMA ConsumeKeepsLedger ==
    ASSUME IInv, IInv', LedgerInv, NEW r \in Requests, NEW outcome \in Outcomes, Consume(r, outcome)
    PROVE  LedgerInv'
<1>0. PICK a \in Refs : a = request[r].ref
  BY ConsumeSpends
<1> DEFINE uses == Takes(outcome) /\ Usable(approvals[a], request[r].at)
<1>1. /\ Carries(r) /\ UNCHANGED executed /\ r \notin executed
      /\ approvals[a] \in Approval /\ approvals[a] # NoApproval
      /\ approvals' = IF uses THEN [approvals EXCEPT ![a].uses = @ + 1] ELSE approvals
      /\ request'[r].pc = "execute" => uses
  BY <1>0, ConsumeSpends
<1> HIDE DEF uses
<1>2. OperationsTypeOK
  BY DEF IInv
<1>3. CASE ~uses
  <2>1. approvals' = approvals
    BY <1>1, <1>3
  <2>2. \A c \in Refs : Uses(c)' >= Uses(c)
    BY <1>2, <2>1, UsesAreCounted DEF Uses
  <2>3. \A s \in Requests, c \in Refs : Owes(s, c)' => Owes(s, c)
    BY <1>1, <1>3 DEF Owes, Carries, Writes, Called, NotAsked
  <2>4. QED
    BY <2>2, <2>3, LedgerRests
<1>4. CASE uses
  <2> DEFINE used == [approvals[a] EXCEPT !.uses = @ + 1]
  <2>1. approvals' = [approvals EXCEPT ![a] = used] /\ used \in Approval
    BY <1>1, <1>4 DEF Approval
  <2>2. approvals'[a] = used /\ \A c \in Refs \ {a} : approvals'[c] = approvals[c]
    BY <1>1, <1>2, <2>1 DEF OperationsTypeOK
  <2>3. used.uses = approvals[a].uses + 1
    BY <1>1 DEF Approval
  <2>4. Uses(a)' = Uses(a) + 1 /\ \A c \in Refs \ {a} : Uses(c)' = Uses(c)
    <3>1. used # NoApproval
      BY <2>1, NoApprovalIsNone
    <3> HIDE DEF used
    <3>2. Uses(a)' = used.uses /\ Uses(a) = approvals[a].uses
      BY <1>1, <2>2, <3>1 DEF Uses
    <3>3. \A c \in Refs \ {a} : Uses(c)' = Uses(c)
      BY <2>2 DEF Uses
    <3>4. QED
      BY <2>3, <3>2, <3>3
  <2>5. \A s \in Requests, c \in Refs : Owes(s, c)' => Owes(s, c) \/ (s = r /\ c = a)
    BY <1>0, <1>1, NotAskedIsNoCall DEF Owes, Carries, Writes, Called
  <2> SUFFICES ASSUME NEW c \in Refs PROVE IsFiniteSet(Owing(c))' /\ Cardinality(Owing(c))' <= Uses(c)'
    BY DEF LedgerInv
  <2>6. IsFiniteSet(Owing(c)) /\ Cardinality(Owing(c)) <= Uses(c) /\ Uses(c) \in Nat /\ Uses(c)' \in Nat
    BY <1>2, UsesAreCounted DEF LedgerInv, IInv
  <2>7. CASE c # a
    <3>1. Owing(c)' \subseteq Owing(c)
      BY <2>5, <2>7 DEF Owing
    <3>2. Uses(c)' >= Uses(c)
      BY <2>4, <2>6, <2>7
    <3>3. QED
      BY <2>6, <3>1, <3>2, FewerOwe
  <2>8. CASE c = a
    <3> DEFINE more == Owing(a) \union {r}
    <3>1. Owing(c)' \subseteq more
      BY <2>5, <2>8 DEF Owing
    <3>2. IsFiniteSet(more) /\ Cardinality(more) <= Cardinality(Owing(a)) + 1
      <4>1. IsFiniteSet(Owing(a)) /\ Cardinality(Owing(a)) \in Nat
        BY <2>6, <2>8, FS_CardinalityType
      <4>2. /\ IsFiniteSet(more)
            /\ Cardinality(more) = IF r \in Owing(a) THEN Cardinality(Owing(a)) ELSE Cardinality(Owing(a)) + 1
        BY <4>1, FS_AddElement, Zenon
      <4>3. QED
        BY <4>1, <4>2
    <3>3. IsFiniteSet(Owing(c)') /\ Cardinality(Owing(c)') <= Cardinality(more)
      BY <3>1, <3>2, FS_Subset
    <3>4. Cardinality(Owing(c)') \in Nat /\ Cardinality(more) \in Nat /\ Cardinality(Owing(a)) \in Nat
      BY <2>6, <2>8, <3>2, <3>3, FS_CardinalityType
    <3>5. QED
      BY <2>4, <2>6, <2>8, <3>2, <3>3, <3>4
  <2>9. QED
    BY <2>7, <2>8
<1>5. QED
  BY <1>3, <1>4

LEMMA AdvanceKeepsLedger ==
    ASSUME IInv, IInv', LedgerInv, NEW r \in Requests, Advance(r)
    PROVE  LedgerInv'
<1>1. CASE Execute(r)
  <2>1. PICK pc \in {"succeed", "fail"} : Step(r, pc)
    BY <1>1 DEF Execute
  <2>2. /\ request[r].pc = "execute" /\ pc \in Steps /\ executed' = executed \union {r}
        /\ UNCHANGED approvals
    BY <1>1 DEF Execute, Steps
  <2>3. Carries(r)
    BY <2>1, <2>2, MovesCarry
  <2>4. \A a \in Refs : Uses(a)' >= Uses(a)
    BY <2>2, UsesAreCounted DEF Uses, IInv
  <2>5. \A s \in Requests, a \in Refs : Owes(s, a)' => Owes(s, a)
    BY <2>2, <2>3, NotAskedIsNoCall DEF Owes, Carries, Writes, Called
  <2>6. QED
    BY <2>4, <2>5, LedgerRests
<1>2. ASSUME NEW outcome \in Outcomes,
             \/ Resolve(r, outcome) \/ Deny(r, outcome) \/ Begin(r, outcome)
             \/ ApprovalUnavailable(r, outcome) \/ Succeed(r, outcome) \/ FailOperation(r, outcome)
      PROVE  LedgerInv'
  <2>1. /\ Carries(r) /\ UNCHANGED <<approvals, executed>>
        /\ request'[r].pc = "execute" => request[r].risk = ReadOnly
    BY <1>2, OthersOweNoMore
  <2>2. \A a \in Refs : Uses(a)' >= Uses(a)
    BY <2>1, UsesAreCounted DEF Uses, IInv
  <2>3. \A s \in Requests, a \in Refs : Owes(s, a)' => Owes(s, a)
    BY <2>1, NotAskedIsNoCall DEF Owes, Carries, Writes, Called
  <2>4. QED
    BY <2>2, <2>3, LedgerRests
<1>3. ASSUME NEW outcome \in Outcomes, Consume(r, outcome) PROVE LedgerInv'
  BY <1>3, ConsumeKeepsLedger
<1>4. QED
  BY <1>1, <1>2, <1>3 DEF Advance

LEMMA LedgerInit == OperationsInit => LedgerInv
<1> SUFFICES ASSUME OperationsInit, NEW a \in Refs
             PROVE  IsFiniteSet(Owing(a)) /\ Cardinality(Owing(a)) <= Uses(a)
  BY DEF LedgerInv
<1>1. Owing(a) = {}
  BY DEF OperationsInit, Owing, Owes, Writes, Called
<1>2. Uses(a) = 0
  BY DEF OperationsInit, Uses
<1>3. QED
  BY <1>1, <1>2, FS_EmptySet

LEMMA LedgerStep == IInv /\ IInv' /\ LedgerInv /\ [OperationsNext]_opVars => LedgerInv'
<1> SUFFICES ASSUME IInv, IInv', LedgerInv, [OperationsNext]_opVars PROVE LedgerInv'
  OBVIOUS
<1>1. OperationsTypeOK
  BY DEF IInv
<1>2. CASE Give
  <2>1. /\ UNCHANGED <<request, executed>>
        /\ \E a \in Refs : \E approval : Issue(a, approval)
    BY <1>2 DEF Give, IssueExplicit, IssueSessionPolicy, Issue
  <2>2. \A a \in Refs : Uses(a) \in Nat /\ (approvals[a] = NoApproval \/ Uses(a)' = Uses(a)) /\ Uses(a)' \in Nat
    <3>a. PICK c \in Refs : \E approval : Issue(c, approval)
      BY <2>1
    <3>1. PICK approval : Issue(c, approval)
      BY <3>a
    <3>2. \A a \in Refs \ {c} : approvals'[a] = approvals[a]
      BY <1>1, <3>1 DEF Issue, OperationsTypeOK
    <3>3. approvals[c] = NoApproval
      BY <3>1 DEF Issue
    <3>4. QED
      BY <1>1, <3>2, <3>3, UsesAreCounted DEF Uses, IInv
  <2>3. \A a \in Refs : Uses(a)' >= Uses(a)
    BY <2>2 DEF Uses
  <2>4. \A s \in Requests, a \in Refs : Owes(s, a)' => Owes(s, a)
    BY <2>1 DEF Owes, Writes, Called
  <2>5. QED
    BY <2>3, <2>4, LedgerRests
<1>3. CASE \E a \in Refs : Revoke(a)
  <2>1. PICK a \in Refs : Revoke(a)
    BY <1>3
  <2>2. /\ approvals[a] \in Approval /\ UNCHANGED <<request, executed>>
        /\ approvals' = [approvals EXCEPT ![a].revoked = TRUE]
    BY <1>1, <2>1 DEF Revoke, OperationsTypeOK
  <2>3. \A c \in Refs : Uses(c) \in Nat /\ Uses(c)' = Uses(c)
    BY <1>1, <2>2, UsesAreCounted DEF Uses, OperationsTypeOK, Approval, NoApproval
  <2>4. \A c \in Refs : Uses(c)' >= Uses(c)
    BY <2>3
  <2>5. \A s \in Requests, c \in Refs : Owes(s, c)' => Owes(s, c)
    BY <2>2 DEF Owes, Writes, Called
  <2>6. QED
    BY <2>4, <2>5, LedgerRests
<1>4. CASE \E r \in Requests, call \in Calls : Ask(r, call)
  <2>1. PICK r \in Requests, call \in Calls : Ask(r, call)
    BY <1>4
  <2>2. UNCHANGED <<approvals, executed>> /\ request[r] = NotAsked /\ r \notin executed
    BY <2>1 DEF Ask, AskWith, IInv, RequestInv
  <2>3. request'[r].pc # "execute" /\ \A s \in Requests \ {r} : request'[s] = request[s]
    BY <1>1, <2>1 DEF Ask, AskWith, OperationsTypeOK
  <2>4. \A c \in Refs : Uses(c)' >= Uses(c)
    BY <1>1, <2>2, UsesAreCounted DEF Uses
  <2>5. \A s \in Requests, c \in Refs : Owes(s, c)' => Owes(s, c)
    BY <2>2, <2>3 DEF Owes, Writes, Called
  <2>6. QED
    BY <2>4, <2>5, LedgerRests
<1>5. CASE \E r \in Requests : Advance(r)
  BY <1>5, AdvanceKeepsLedger
<1>6. CASE TimePasses \/ UNCHANGED opVars
  <2>1. UNCHANGED <<approvals, request, executed>>
    BY <1>6 DEF TimePasses, opVars
  <2>2. \A c \in Refs : Uses(c)' >= Uses(c)
    BY <1>1, <2>1, UsesAreCounted DEF Uses
  <2>3. \A s \in Requests, c \in Refs : Owes(s, c)' => Owes(s, c)
    BY <2>1 DEF Owes, Writes, Called
  <2>4. QED
    BY <2>2, <2>3, LedgerRests
<1>7. CASE StopProcess
  <2>1. UNCHANGED <<approvals, executed>>
    BY <1>7 DEF StopProcess
  <2>2. ASSUME NEW r \in Requests
        PROVE  \/ request'[r] = request[r]
               \/ /\ request[r] \in Asked /\ request[r] # NotAsked
                  /\ request'[r] = [request[r] EXCEPT !.pc = "lost"]
    BY <1>1, <1>7 DEF StopProcess, StopOperations, Underway, OperationsTypeOK, NotAsked
  <2>3. \A c \in Refs : Uses(c)' >= Uses(c)
    BY <1>1, <2>1, UsesAreCounted DEF Uses
  <2>4. \A s \in Requests, c \in Refs : Owes(s, c)' => Owes(s, c)
    BY <2>1, <2>2 DEF Owes, Writes, Called, Asked
  <2>5. QED
    BY <2>3, <2>4, LedgerRests
<1>8. QED
  BY <1>2, <1>3, <1>4, <1>5, <1>6, <1>7 DEF OperationsNext, Operate

LEMMA LedgerInvariance == OperationsSpec => [](IInv /\ LedgerInv)
<1>1. OperationsInit => IInv /\ LedgerInv
  BY InvInit, LedgerInit
<1>2. IInv /\ LedgerInv /\ [OperationsNext]_opVars => IInv' /\ LedgerInv'
  BY InvStep, LedgerStep
<1>3. QED
  BY <1>1, <1>2, PTL DEF OperationsSpec

\* What the ledger sees of the operations.
Max(a) == IF approvals[a] = NoApproval THEN 0 ELSE approvals[a].max
Revoked == {a \in Refs : approvals[a] # NoApproval /\ approvals[a].revoked}
Under(a) == {r \in executed : Writes(r) /\ request[r].ref = a}

LEMMA LimitsArePositive ==
    /\ 0 \notin Limits
    /\ \A x \in Approval : x.max \in Limits
BY OperationBoundsAssumption, UnlimitedAssumption DEF Limits, Approval

LEMMA LedgerStarts == OperationsInit => Ledger!Init
<1> SUFFICES ASSUME OperationsInit PROVE Ledger!Init
  OBVIOUS
<1>1. \A a \in Refs : Max(a) = 0 /\ Uses(a) = 0 /\ Under(a) = {}
  BY DEF OperationsInit, Max, Uses, Under
<1>2. QED
  BY <1>1 DEF Ledger!Init, OperationsInit, Max, Uses, Under

\* A step by which nothing that the ledger sees changes.
LEMMA LedgerStutters ==
    ASSUME IInv, UNCHANGED <<approvals, executed>>,
           \A r \in executed : Writes(r)' = Writes(r) /\ request'[r].ref = request[r].ref
    PROVE  UNCHANGED Ledger!vars
BY DEF Ledger!vars, Writes

LEMMA IssueRefines ==
    ASSUME IInv, NEW a \in Refs, NEW approval \in Approval, ~approval.revoked, approval.uses = 0,
           Issue(a, approval)
    PROVE  Ledger!Issue(a)
<1>1. /\ OperationsTypeOK /\ approvals[a] = NoApproval /\ approvals' = [approvals EXCEPT ![a] = approval]
      /\ UNCHANGED <<request, executed>> /\ approval # NoApproval /\ approval.max \in Limits
  BY NoApprovalIsNone, LimitsArePositive DEF Issue, IInv
<1>2. approvals'[a] = approval /\ \A c \in Refs \ {a} : approvals'[c] = approvals[c]
  BY <1>1 DEF OperationsTypeOK
<1>3. /\ Max(a) = 0 /\ Max(a)' = approval.max /\ \A c \in Refs \ {a} : Max(c)' = Max(c)
      /\ \A c \in Refs : Uses(c)' = Uses(c) /\ (c \in Revoked)' = (c \in Revoked)
  BY <1>1, <1>2 DEF Max, Uses, Revoked
<1>4. [c \in Refs |-> Max(c)][a] = 0
      /\ [c \in Refs |-> Max(c)]' = [[c \in Refs |-> Max(c)] EXCEPT ![a] = approval.max]
  BY <1>3
<1>5. /\ [c \in Refs |-> Uses(c)]' = [c \in Refs |-> Uses(c)]
      /\ Revoked' = Revoked
      /\ [c \in Refs |-> Under(c)]' = [c \in Refs |-> Under(c)]
  BY <1>1, <1>3 DEF Revoked, Under, Writes, Called
<1>6. QED
  BY <1>1, <1>4, <1>5 DEF Ledger!Issue, Max, Uses, Revoked, Under

LEMMA RevokeRefines ==
    ASSUME IInv, NEW a \in Refs, Revoke(a)
    PROVE  Ledger!Revoke(a)
<1> DEFINE taken == [approvals[a] EXCEPT !.revoked = TRUE]
<1>1. /\ OperationsTypeOK /\ approvals[a] \in Approval /\ approvals[a] # NoApproval
      /\ approvals' = [approvals EXCEPT ![a] = taken] /\ UNCHANGED <<request, executed>>
  BY DEF Revoke, IInv, OperationsTypeOK
<1>2. taken # NoApproval /\ taken.revoked /\ taken.max = approvals[a].max /\ taken.uses = approvals[a].uses
  BY <1>1, NoApprovalIsNone DEF Approval
<1>3. approvals'[a] = taken /\ \A c \in Refs \ {a} : approvals'[c] = approvals[c]
  BY <1>1 DEF OperationsTypeOK
<1> HIDE DEF taken
<1>4. \A c \in Refs : Max(c)' = Max(c) /\ Uses(c)' = Uses(c)
  BY <1>1, <1>2, <1>3 DEF Max, Uses
<1>5. Revoked' = Revoked \union {a}
  BY <1>1, <1>2, <1>3 DEF Revoked
<1>6. /\ [c \in Refs |-> Max(c)]' = [c \in Refs |-> Max(c)]
      /\ [c \in Refs |-> Uses(c)]' = [c \in Refs |-> Uses(c)]
      /\ [c \in Refs |-> Under(c)]' = [c \in Refs |-> Under(c)]
  BY <1>1, <1>4 DEF Under, Writes, Called
<1>7. QED
  BY <1>5, <1>6 DEF Ledger!Revoke, Max, Uses, Revoked, Under

LEMMA ConsumeRefines ==
    ASSUME IInv, NEW r \in Requests, NEW outcome \in Outcomes, Consume(r, outcome)
    PROVE  (\E a \in Refs : Ledger!Spend(a)) \/ UNCHANGED Ledger!vars
<1>0. PICK a \in Refs : a = request[r].ref
  BY ConsumeSpends
<1> DEFINE uses == Takes(outcome) /\ Usable(approvals[a], request[r].at)
           used == [approvals[a] EXCEPT !.uses = @ + 1]
<1>1. /\ Carries(r) /\ UNCHANGED executed /\ r \notin executed
      /\ approvals[a] \in Approval /\ approvals[a] # NoApproval
      /\ approvals' = IF uses THEN [approvals EXCEPT ![a].uses = @ + 1] ELSE approvals
  BY <1>0, ConsumeSpends
<1>2. OperationsTypeOK /\ executed \subseteq Requests
  BY DEF IInv, OperationsTypeOK
<1>3. \A s \in executed : Writes(s)' = Writes(s) /\ request'[s].ref = request[s].ref
  BY <1>1, <1>2 DEF Carries, Writes, Called
<1>4. CASE ~uses
  BY <1>1, <1>3, <1>4, LedgerStutters
<1>5. CASE uses
  <2>1. ~approvals[a].revoked /\ (approvals[a].max # Unlimited => approvals[a].uses < approvals[a].max)
    BY <1>5 DEF Usable
  <2> HIDE DEF uses
  <2>2. approvals' = [approvals EXCEPT ![a] = used]
    BY <1>1, <1>5
  <2>3. /\ used # NoApproval /\ used.revoked = approvals[a].revoked /\ used.max = approvals[a].max
        /\ used.uses = approvals[a].uses + 1
    BY <1>1, NoApprovalIsNone DEF Approval
  <2> HIDE DEF used
  <2>4. approvals'[a] = used /\ \A c \in Refs \ {a} : approvals'[c] = approvals[c]
    BY <1>2, <2>2 DEF OperationsTypeOK
  <2>5. /\ \A c \in Refs : Max(c)' = Max(c)
        /\ Uses(a)' = Uses(a) + 1 /\ \A c \in Refs \ {a} : Uses(c)' = Uses(c)
    BY <1>1, <2>3, <2>4 DEF Max, Uses
  <2>6. Revoked' = Revoked /\ a \notin Revoked
    BY <1>1, <2>1, <2>3, <2>4 DEF Revoked
  <2>7. Max(a) # 0 /\ (Max(a) # Unlimited => Uses(a) < Max(a))
    BY <1>1, <2>1, LimitsArePositive DEF Max, Uses
  <2>8. /\ [c \in Refs |-> Max(c)]' = [c \in Refs |-> Max(c)]
        /\ [c \in Refs |-> Uses(c)]' = [[c \in Refs |-> Uses(c)] EXCEPT ![a] = @ + 1]
        /\ [c \in Refs |-> Under(c)]' = [c \in Refs |-> Under(c)]
    BY <1>1, <1>3, <2>5 DEF Under
  <2>9. Ledger!Spend(a)
    BY <2>6, <2>7, <2>8 DEF Ledger!Spend, Max, Uses, Revoked, Under
  <2>10. QED
    BY <2>9
<1>6. QED
  BY <1>4, <1>5

\* The request that is executed owes a use which those executed before it do not.
LEMMA ExecuteIsOwed ==
    ASSUME IInv, LedgerInv, NEW r \in Requests, Execute(r), Writes(r), NEW a \in Refs, request[r].ref = a
    PROVE  r \notin Under(a) /\ Cardinality(Under(a)) < Uses(a)
<1>1. request[r].pc = "execute" /\ OperationsTypeOK /\ executed \subseteq Requests
  BY DEF Execute, IInv, OperationsTypeOK
<1>2. r \notin executed
  BY <1>1, At DEF AuditFollows
<1>3. r \in Owing(a) /\ Under(a) \subseteq Owing(a) \ {r}
  BY <1>1, <1>2 DEF Owing, Owes, Under
<1>4. IsFiniteSet(Owing(a)) /\ Cardinality(Owing(a)) <= Uses(a) /\ Uses(a) \in Nat
  BY <1>1, UsesAreCounted DEF LedgerInv
<1>5. Cardinality(Owing(a)) \in Nat
  BY <1>4, FS_CardinalityType
<1>6. IsFiniteSet(Owing(a) \ {r}) /\ Cardinality(Owing(a) \ {r}) = Cardinality(Owing(a)) - 1
  BY <1>3, <1>4, FS_RemoveElement, Zenon
<1>7. IsFiniteSet(Under(a)) /\ Cardinality(Under(a)) <= Cardinality(Owing(a) \ {r})
  BY <1>3, <1>6, FS_Subset
<1>8. Cardinality(Under(a)) \in Nat
  BY <1>7, FS_CardinalityType
<1>9. QED
  BY <1>2, <1>4, <1>5, <1>6, <1>7, <1>8 DEF Under

LEMMA ExecuteRefines ==
    ASSUME IInv, LedgerInv, NEW r \in Requests, Execute(r)
    PROVE  (\E a \in Refs : Ledger!Execute(a, r)) \/ UNCHANGED Ledger!vars
<1>1. PICK pc \in {"succeed", "fail"} : Step(r, pc)
  BY DEF Execute
<1>2. /\ request[r].pc = "execute" /\ pc \in Steps /\ executed' = executed \union {r} /\ UNCHANGED approvals
  BY DEF Execute, Steps
<1>3. Carries(r) /\ ApprovalFollows(r) /\ r \notin executed /\ executed \subseteq Requests
  BY <1>1, <1>2, MovesCarry, At DEF AuditFollows, IInv, OperationsTypeOK
<1>4. /\ \A s \in Requests : (s # r => s \in executed' <=> s \in executed) /\ Writes(s)' = Writes(s)
      /\ \A s \in Requests : request'[s].ref = request[s].ref
  BY <1>2, <1>3, NotAskedIsNoCall DEF Carries, Writes, Called
<1>5. \A c \in Refs : Max(c)' = Max(c) /\ Uses(c)' = Uses(c) /\ (c \in Revoked)' = (c \in Revoked)
  BY <1>2 DEF Max, Uses, Revoked
<1>6. /\ [c \in Refs |-> Max(c)]' = [c \in Refs |-> Max(c)]
      /\ [c \in Refs |-> Uses(c)]' = [c \in Refs |-> Uses(c)]
      /\ Revoked' = Revoked
  BY <1>2, <1>5 DEF Revoked
<1>7. CASE ~Writes(r)
  <2>1. \A c \in Refs : Under(c)' = Under(c)
    BY <1>2, <1>3, <1>4, <1>7 DEF Under
  <2>2. [c \in Refs |-> Under(c)]' = [c \in Refs |-> Under(c)]
    BY <2>1
  <2>3. QED
    BY <1>6, <2>2 DEF Ledger!vars, Max, Uses, Revoked, Under
<1>8. CASE Writes(r)
  <2>1. PICK a \in Refs : a = request[r].ref
    BY <1>2, <1>3, <1>8 DEF ApprovalFollows, Granted, Approved, Writes
  <2>2. r \notin Under(a) /\ Cardinality(Under(a)) < Uses(a)
    BY <1>8, <2>1, ExecuteIsOwed
  <2>3. Under(a)' = Under(a) \union {r} /\ \A c \in Refs \ {a} : Under(c)' = Under(c)
    BY <1>2, <1>3, <1>4, <1>8, <2>1 DEF Under
  <2>4. [c \in Refs |-> Under(c)]' = [[c \in Refs |-> Under(c)] EXCEPT ![a] = @ \union {r}]
    BY <2>3
  <2>5. /\ r \notin [c \in Refs |-> Under(c)][a]
        /\ Cardinality([c \in Refs |-> Under(c)][a]) < [c \in Refs |-> Uses(c)][a]
    <3>1. [c \in Refs |-> Under(c)][a] = Under(a) /\ [c \in Refs |-> Uses(c)][a] = Uses(a)
      OBVIOUS
    <3>2. QED
      BY <2>2, <3>1, Zenon
  <2>6. \A S : Ledger!Cardinality(S) = Cardinality(S)
    BY DEF Ledger!Cardinality, Cardinality
  <2>7. Ledger!Execute(a, r)
    BY <2>6,  <1>6, <2>4, <2>5 DEF Ledger!Execute, Max, Uses, Revoked, Under
  <2>8. QED
    BY <2>7
<1>9. QED
  BY <1>7, <1>8

LEMMA OthersRefine ==
    ASSUME IInv, NEW r \in Requests, NEW outcome \in Outcomes,
           \/ Resolve(r, outcome) \/ Deny(r, outcome) \/ Begin(r, outcome)
           \/ ApprovalUnavailable(r, outcome) \/ Succeed(r, outcome) \/ FailOperation(r, outcome)
    PROVE  UNCHANGED Ledger!vars
<1>1. Carries(r) /\ UNCHANGED <<approvals, executed>>
  BY OthersOweNoMore
<1>2. \A s \in executed : Writes(s)' = Writes(s) /\ request'[s].ref = request[s].ref
  BY <1>1, NotAskedIsNoCall DEF Carries, Writes, Called, IInv, OperationsTypeOK
<1>3. QED
  BY <1>1, <1>2, LedgerStutters

LEMMA StepRefines ==
    IInv /\ LedgerInv /\ [OperationsNext]_opVars => [Ledger!Next]_(Ledger!vars)
<1> SUFFICES ASSUME IInv, LedgerInv, [OperationsNext]_opVars PROVE Ledger!Next \/ UNCHANGED Ledger!vars
  OBVIOUS
<1>0. OperationsTypeOK /\ executed \subseteq Requests /\ now \in 0..MaxTime /\ MaxTime \in Nat
  BY OperationBoundsAssumption DEF IInv, OperationsTypeOK
<1>1. CASE Give
  <2>1. PICK a \in Refs, expires \in (now + 1)..(MaxTime + 1) :
           \/ \E single \in Singles : IssueExplicit(a, single[1], single[2], expires)
           \/ \E policy \in Policies : IssueSessionPolicy(a, policy, expires)
    BY <1>1 DEF Give
  <2>2. \E approval \in Approval : ~approval.revoked /\ approval.uses = 0 /\ Issue(a, approval)
    <3>1. expires \in 1..(MaxTime + 1)
      BY <1>0
    <3>2. CASE \E single \in Singles : IssueExplicit(a, single[1], single[2], expires)
      <4>1. PICK single \in Singles : IssueExplicit(a, single[1], single[2], expires)
        BY <3>2
      <4> DEFINE approval == [kind |-> "EXPLICIT", names |-> {single[1]}, resources |-> {single[2]},
             sensitive |-> FALSE, issued |-> now, expires |-> expires, max |-> 1, uses |-> 0, revoked |-> FALSE]
      <4>2. single[1] \in Names /\ single[2] \in Resources
        BY ScopesAssumption
      <4>3. approval \in Approval
        BY <1>0, <3>1, <4>2 DEF Approval, Kinds, Limits
      <4>4. QED
        BY <4>1, <4>3 DEF IssueExplicit
    <3>3. CASE \E policy \in Policies : IssueSessionPolicy(a, policy, expires)
      <4>1. PICK policy \in Policies : IssueSessionPolicy(a, policy, expires)
        BY <3>3
      <4> DEFINE approval == [kind |-> "SESSION_POLICY", names |-> policy.names,
             resources |-> policy.resources, sensitive |-> policy.sensitive, issued |-> now,
             expires |-> expires, max |-> policy.max, uses |-> 0, revoked |-> FALSE]
      <4>2. policy \in [names : SUBSET Names, resources : SUBSET Resources, sensitive : BOOLEAN,
                        max : (1..MaxUses) \union {Unlimited}]
        BY ScopesAssumption
      <4>3. approval \in Approval
        BY <1>0, <3>1, <4>2 DEF Approval, Kinds, Limits
      <4>4. QED
        BY <4>1, <4>3 DEF IssueSessionPolicy
    <3>4. QED
      BY <2>1, <3>2, <3>3
  <2>3. QED
    BY <2>2, IssueRefines DEF Ledger!Next
<1>2. CASE \E a \in Refs : Revoke(a)
  BY <1>2, RevokeRefines DEF Ledger!Next
<1>3. CASE \E r \in Requests, call \in Calls : Ask(r, call)
  <2>1. PICK r \in Requests, call \in Calls : Ask(r, call)
    BY <1>3
  <2>2. UNCHANGED <<approvals, executed>> /\ r \notin executed
    BY <2>1 DEF Ask, AskWith, IInv, RequestInv
  <2>3. \A s \in Requests \ {r} : request'[s] = request[s]
    BY <1>0, <2>1 DEF Ask, AskWith, OperationsTypeOK
  <2>4. \A s \in executed : Writes(s)' = Writes(s) /\ request'[s].ref = request[s].ref
    BY <1>0, <2>2, <2>3 DEF Writes, Called
  <2>5. QED
    BY <2>2, <2>4, LedgerStutters
<1>4. CASE \E r \in Requests : Advance(r)
  <2>1. PICK r \in Requests : Advance(r)
    BY <1>4
  <2>2. CASE Execute(r)
    BY <2>2, ExecuteRefines DEF Ledger!Next
  <2>3. CASE \E outcome \in Outcomes : Consume(r, outcome)
    BY <2>3, ConsumeRefines DEF Ledger!Next
  <2>4. CASE ~Execute(r) /\ ~\E outcome \in Outcomes : Consume(r, outcome)
    BY <2>1, <2>4, OthersRefine DEF Advance
  <2>5. QED
    BY <2>2, <2>3, <2>4
<1>5. CASE TimePasses \/ UNCHANGED opVars
  <2>1. UNCHANGED <<approvals, request, executed>>
    BY <1>5 DEF TimePasses, opVars
  <2>2. QED
    BY <2>1, LedgerStutters DEF Writes, Called
<1>6. CASE StopProcess
  <2>1. UNCHANGED <<approvals, executed>>
    BY <1>6 DEF StopProcess
  <2>2. ASSUME NEW r \in Requests
        PROVE  \/ request'[r] = request[r]
               \/ /\ request[r] \in Asked /\ request[r] # NotAsked
                  /\ request'[r] = [request[r] EXCEPT !.pc = "lost"]
    BY <1>0, <1>6 DEF StopProcess, StopOperations, Underway, OperationsTypeOK, NotAsked
  <2>3. \A s \in executed : Writes(s)' = Writes(s) /\ request'[s].ref = request[s].ref
    <3> SUFFICES ASSUME NEW s \in executed PROVE Writes(s)' = Writes(s) /\ request'[s].ref = request[s].ref
      OBVIOUS
    <3>1. CASE request'[s] = request[s]
      BY <3>1 DEF Writes, Called
    <3>2. CASE /\ request[s] \in Asked /\ request[s] # NotAsked
               /\ request'[s] = [request[s] EXCEPT !.pc = "lost"]
      <4>1. /\ request'[s] \in Asked /\ request'[s].risk = request[s].risk
            /\ request'[s].ref = request[s].ref
        BY <3>2 DEF Asked, Steps
      <4>2. QED
        BY <3>2, <4>1, NotAskedIsNoCall DEF Writes, Called
    <3>3. QED
      BY <1>0, <2>2, <3>1, <3>2
  <2>4. QED
    BY <2>1, <2>3, LedgerStutters
<1>7. QED
  BY <1>1, <1>2, <1>3, <1>4, <1>5, <1>6 DEF OperationsNext, Operate

\* No approval is stretched, for any number of requests that run under it in any
\* interleaving, whatever fails and whenever it is revoked: an execution has a
\* use of its own, and a use is spent only while the approval allows it
\* (operation-approval-store.ts, operation-execution.ts).
THEOREM Refines_Ledger == OperationsSpec => RefinesApprovalLedger
BY LedgerInvariance, LedgerStarts, StepRefines, PTL DEF OperationsSpec, RefinesApprovalLedger, Ledger!Spec
=============================================================================
