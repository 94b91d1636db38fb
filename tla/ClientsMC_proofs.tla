---------------------------- MODULE ClientsMC_proofs ----------------------------
(***************************************************************************)
(* Proofs about the two clients that ClientsMC puts together.  McpServer,  *)
(* for any clients, requests, tokens and calls: tokens come from one       *)
(* consent each, and what tools did was allowed.  WebConsole and           *)
(* ImportPanel, for any projects, services, requests and runs.             *)
(***************************************************************************)
EXTENDS ClientsMC, Operations_proofs, SequenceTheorems, WellFoundedInduction

\* where a code is, and who may still get tokens for it: a code that is being
\* exchanged is in no Map, and a code gives one exchange and one refresh token
TokenInv ==
    /\ \A i \in DOMAIN consents : consents[i].code
    /\ \A x \in exchanging : x.by = consents[x.consent].challenge /\ x.consent \notin codes
    /\ \A x, y \in exchanging : x.consent = y.consent => x = y
    /\ \A t \in DOMAIN refresh :
          /\ refresh[t].client = consents[refresh[t].consent].client
          /\ refresh[t].by = consents[refresh[t].consent].challenge
          /\ refresh[t].consent \notin codes
          /\ \A x \in exchanging : x.consent # refresh[t].consent
    /\ \A t, u \in DOMAIN refresh : refresh[t].consent = refresh[u].consent => t = u

\* What control tools changed, with which token; and a request for what was not
\* granted is denied, or was, or is lost before.
CallInv ==
    /\ Len(access) <= MaxTokens
    /\ \A i \in DOMAIN changes :
          /\ mode # "oauth"
          /\ mode = "oauth-builtin" =>
                /\ changes[i].token \in DOMAIN access
                /\ access[changes[i].token].scope = "operator"
                /\ access[changes[i].token].key = changes[i].key
    /\ mode # "static" => \A r \in Requests : ~reads[r] =>
          request[r].pc \in {"deny", "done", "lost"} /\ r \notin executed

McpInv == TypeOK /\ IInv /\ TokenInv /\ CallInv

-----------------------------------------------------------------------------
(* Sequences that grow *)

LEMMA Grows ==
    ASSUME NEW S, NEW s \in Seq(S), NEW e \in S
    PROVE  /\ Append(s, e) \in Seq(S)
           /\ Len(Append(s, e)) = Len(s) + 1 /\ Len(s) \in Nat
           /\ DOMAIN s = 1..Len(s) /\ DOMAIN Append(s, e) = 1..(Len(s) + 1)
           /\ Append(s, e)[Len(s) + 1] = e
           /\ \A i \in DOMAIN s : Append(s, e)[i] = s[i] /\ i \in DOMAIN Append(s, e)
           /\ \A i \in DOMAIN Append(s, e) : i \in DOMAIN s \/ i = Len(s) + 1
<1>1. /\ Append(s, e) \in Seq(S) /\ Len(Append(s, e)) = Len(s) + 1 /\ Len(s) \in Nat
      /\ DOMAIN s = 1..Len(s)
      /\ \A i \in 1..Len(s) : Append(s, e)[i] = s[i]
      /\ Append(s, e)[Len(s) + 1] = e
  BY AppendProperties, LenProperties
<1>2. DOMAIN Append(s, e) = 1..(Len(s) + 1)
  BY <1>1, LenProperties
<1>3. QED
  BY <1>1, <1>2

ExchangingType(n) == [consent : n, by : Clients]
RefreshType(n) == [consent : n, client : Clients, by : Clients, expires : Nat]
AccessType(n) == [consent : n, scope : Scopes, key : Nat, expires : Nat]
ChangeType == [token : 0..MaxTokens, key : Nat]

\* What the authorization server has stays of its type when consents are added.
LEMMA TypesGrow ==
    ASSUME NEW n, NEW m, n \subseteq m
    PROVE  /\ ExchangingType(n) \subseteq ExchangingType(m)
           /\ \A s \in Seq(RefreshType(n)) : s \in Seq(RefreshType(m))
           /\ \A s \in Seq(AccessType(n)) : s \in Seq(AccessType(m))
<1>1. /\ ExchangingType(n) \subseteq ExchangingType(m)
      /\ RefreshType(n) \subseteq RefreshType(m) /\ AccessType(n) \subseteq AccessType(m)
  BY DEF ExchangingType, RefreshType, AccessType
<1>2. QED
  BY <1>1, SeqMonotonic

OAuthTypeOK ==
    /\ registered \subseteq Clients
    /\ consents \in Seq(Consent)
    /\ codes \subseteq DOMAIN consents
    /\ exchanging \subseteq ExchangingType(DOMAIN consents)
    /\ refresh \in Seq(RefreshType(DOMAIN consents))
    /\ access \in Seq(AccessType(DOMAIN consents))
RestTypeOK ==
    /\ mode \in Modes /\ grants \subseteq Resources
    /\ key \in Nat
    /\ reads \in [Requests -> BOOLEAN]
    /\ changes \in Seq(ChangeType)

LEMMA TypeParts ==
    /\ TypeOK <=> OperationsTypeOK /\ OAuthTypeOK /\ RestTypeOK
    /\ TypeOK' <=> OperationsTypeOK' /\ OAuthTypeOK' /\ RestTypeOK'
BY DEF TypeOK, OAuthTypeOK, RestTypeOK, ExchangingType, RefreshType, AccessType, ChangeType

\* whatever was issued is for a consent that was given
LEMMA ConsentsExist ==
    ASSUME OAuthTypeOK
    PROVE  /\ \A x \in exchanging : x.consent \in DOMAIN consents /\ x.by \in Clients
           /\ \A t \in DOMAIN refresh : refresh[t].consent \in DOMAIN consents
           /\ \A t \in DOMAIN access : access[t].consent \in DOMAIN consents
<1>1. ASSUME NEW S, NEW s \in Seq(S), NEW i \in DOMAIN s PROVE s[i] \in S
  BY <1>1, ElementOfSeq, LenProperties
<1>2. /\ \A t \in DOMAIN refresh : refresh[t] \in RefreshType(DOMAIN consents)
      /\ \A t \in DOMAIN access : access[t] \in AccessType(DOMAIN consents)
  BY <1>1 DEF OAuthTypeOK
<1>3. QED
  BY <1>2 DEF RefreshType, AccessType, ExchangingType, OAuthTypeOK

-----------------------------------------------------------------------------
(* The authorization server *)

\* a consent is given, and a code returned
LEMMA AuthorizeStep ==
    ASSUME OAuthTypeOK, RestTypeOK, OperationsTypeOK, TokenInv,
           NEW c \in Clients, NEW redirect \in Clients, NEW challenge \in Clients, NEW scope \in Scopes,
           NEW operator \in BOOLEAN, Authorize(c, redirect, challenge, scope, operator)
    PROVE  OAuthTypeOK' /\ TokenInv' /\ UNCHANGED access
<1> DEFINE given == [client |-> c, redirect |-> redirect, challenge |-> challenge,
                     scope |-> scope, code |-> operator, expires |-> now + CodeLife]
           n == Len(consents) + 1
<1>1. /\ consents' = Append(consents, given) /\ codes' = codes \union {n} /\ operator
      /\ UNCHANGED <<registered, exchanging, refresh, access>>
  BY DEF Authorize
<1>2. given \in Consent /\ given.code = operator
  BY LivesAssumption, OperationBoundsAssumption DEF Consent, OperationsTypeOK
<1>3. /\ consents' \in Seq(Consent) /\ n \in DOMAIN consents' /\ n \notin DOMAIN consents
      /\ consents'[n] = given
      /\ \A i \in DOMAIN consents : consents'[i] = consents[i] /\ i \in DOMAIN consents'
      /\ \A i \in DOMAIN consents' : i \in DOMAIN consents \/ i = n
  BY <1>1, <1>2, Grows DEF OAuthTypeOK
<1>4. /\ \A x \in exchanging : x.consent \in DOMAIN consents
      /\ \A t \in DOMAIN refresh : refresh[t].consent \in DOMAIN consents
  BY ConsentsExist
<1> HIDE DEF given, n
<1>5. OAuthTypeOK'
  <2>1. DOMAIN consents \subseteq DOMAIN consents'
    BY <1>3
  <2>2. /\ exchanging \subseteq ExchangingType(DOMAIN consents')
        /\ refresh \in Seq(RefreshType(DOMAIN consents')) /\ access \in Seq(AccessType(DOMAIN consents'))
    BY <2>1, TypesGrow DEF OAuthTypeOK
  <2>3. QED
    BY <1>1, <1>3, <2>1, <2>2 DEF OAuthTypeOK
<1>6. TokenInv'
  <2>1. \A i \in DOMAIN consents' : consents'[i].code
    BY <1>1, <1>2, <1>3 DEF TokenInv
  <2>2. \A x \in exchanging : x.by = consents'[x.consent].challenge /\ x.consent \notin codes'
    BY <1>1, <1>3, <1>4 DEF TokenInv
  <2>3. \A t \in DOMAIN refresh :
           /\ refresh[t].client = consents'[refresh[t].consent].client
           /\ refresh[t].by = consents'[refresh[t].consent].challenge
           /\ refresh[t].consent \notin codes'
    BY <1>1, <1>3, <1>4 DEF TokenInv
  <2>4. QED
    BY <1>1, <2>1, <2>2, <2>3 DEF TokenInv
<1>7. QED
  BY <1>1, <1>5, <1>6

LEMMA ExchangeStep ==
    ASSUME OAuthTypeOK, TokenInv,
           NEW code \in codes, NEW c \in Clients, NEW redirect \in Clients, NEW verifier \in Clients,
           Exchange(code, c, redirect, verifier)
    PROVE  OAuthTypeOK' /\ TokenInv' /\ UNCHANGED access
<1> DEFINE x == [consent |-> code, by |-> verifier]
<1>1. /\ codes' = codes \ {code}
      /\ exchanging' = exchanging \/ (consents[code].challenge = verifier /\ exchanging' = exchanging \union {x})
      /\ UNCHANGED <<registered, consents, refresh, access>>
  BY DEF Exchange, Forget, GrantedTo
<1>2. x \in ExchangingType(DOMAIN consents)
  BY DEF OAuthTypeOK, ExchangingType
<1>3. x.consent = code /\ x.by = verifier /\ code \in codes
  OBVIOUS
<1> HIDE DEF x
<1>4. OAuthTypeOK'
  BY <1>1, <1>2 DEF OAuthTypeOK
<1>5. TokenInv'
  BY <1>1, <1>3 DEF TokenInv
<1>6. QED
  BY <1>1, <1>4, <1>5

LEMMA StoreRefreshStep ==
    ASSUME OAuthTypeOK, RestTypeOK, OperationsTypeOK, TokenInv,
           NEW x \in exchanging, NEW outcome \in Outcomes, StoreRefresh(x, outcome)
    PROVE  /\ OAuthTypeOK' /\ TokenInv'
           /\ \/ access' = access
              \/ \E e \in AccessType(DOMAIN consents) : access' = Append(access, e) /\ Len(access) < MaxTokens
<1> DEFINE stored == [consent |-> x.consent, client |-> consents[x.consent].client, by |-> x.by,
                      expires |-> now + RefreshLife]
           minted == [consent |-> x.consent, scope |-> consents[x.consent].scope, key |-> key,
                      expires |-> now + AccessLife]
           n == Len(refresh) + 1
<1>1. /\ exchanging' = exchanging \ {x} /\ Len(access) < MaxTokens
      /\ refresh' = refresh \/ refresh' = Append(refresh, stored)
      /\ access' = access \/ access' = Append(access, minted)
      /\ UNCHANGED <<registered, consents, codes>>
  BY DEF StoreRefresh, Minted
<1>2. x.consent \in DOMAIN consents /\ x.by \in Clients /\ consents[x.consent] \in Consent
  BY ElementOfSeq, LenProperties DEF OAuthTypeOK, ExchangingType
<1>3. /\ stored \in RefreshType(DOMAIN consents) /\ minted \in AccessType(DOMAIN consents)
      /\ stored.consent = x.consent /\ stored.client = consents[x.consent].client /\ stored.by = x.by
  BY <1>2, LivesAssumption, OperationBoundsAssumption
     DEF OperationsTypeOK, RestTypeOK, Consent, RefreshType, AccessType
<1> HIDE DEF stored, minted, n
<1>4. access' \in Seq(AccessType(DOMAIN consents))
  BY <1>1, <1>3, Grows DEF OAuthTypeOK
<1>5. CASE refresh' = refresh
  <2>1. OAuthTypeOK'
    BY <1>1, <1>4, <1>5 DEF OAuthTypeOK
  <2>2. TokenInv'
    BY <1>1, <1>5 DEF TokenInv
  <2>3. QED
    BY <1>1, <1>3, <2>1, <2>2
<1>6. CASE refresh' = Append(refresh, stored)
  <2>1. /\ refresh' \in Seq(RefreshType(DOMAIN consents))
        /\ n \in DOMAIN refresh' /\ n \notin DOMAIN refresh /\ refresh'[n] = stored
        /\ \A t \in DOMAIN refresh : refresh'[t] = refresh[t] /\ t \in DOMAIN refresh'
        /\ \A t \in DOMAIN refresh' : t \in DOMAIN refresh \/ t = n
    BY <1>3, <1>6, Grows DEF OAuthTypeOK, n
  <2>2. OAuthTypeOK'
    BY <1>1, <1>4, <2>1 DEF OAuthTypeOK
  <2>3. TokenInv'
    BY <1>1, <1>3, <2>1 DEF TokenInv
  <2>4. QED
    BY <1>1, <1>3, <2>2, <2>3
<1>7. QED
  BY <1>1, <1>5, <1>6

LEMMA RefreshStep ==
    ASSUME OAuthTypeOK, RestTypeOK, OperationsTypeOK, TokenInv,
           NEW t \in DOMAIN refresh, NEW c \in Clients, Refresh(t, c)
    PROVE  /\ OAuthTypeOK' /\ TokenInv'
           /\ \E e \in AccessType(DOMAIN consents) : access' = Append(access, e) /\ Len(access) < MaxTokens
<1> DEFINE minted == [consent |-> refresh[t].consent, scope |-> consents[refresh[t].consent].scope, key |-> key,
                      expires |-> now + AccessLife]
<1>1. /\ access' = Append(access, minted) /\ Len(access) < MaxTokens
      /\ UNCHANGED <<registered, consents, codes, exchanging, refresh>>
  BY DEF Refresh, Minted
<1>2. refresh[t].consent \in DOMAIN consents
  BY ConsentsExist
<1>3. consents[refresh[t].consent] \in Consent
  BY <1>2, ElementOfSeq, LenProperties DEF OAuthTypeOK
<1>4. minted \in AccessType(DOMAIN consents)
  BY <1>2, <1>3, LivesAssumption, OperationBoundsAssumption
     DEF OperationsTypeOK, RestTypeOK, Consent, AccessType
<1> HIDE DEF minted
<1>5. OAuthTypeOK'
  BY <1>1, <1>4, Grows DEF OAuthTypeOK
<1>6. TokenInv'
  BY <1>1 DEF TokenInv
<1>7. QED
  BY <1>1, <1>4, <1>5, <1>6

\* a token that is minted leaves what was done with the others as it is
LEMMA CallsKept ==
    ASSUME OAuthTypeOK, CallInv, MaxTokens \in Nat,
           UNCHANGED <<mode, changes, reads, request, executed>>,
           \/ access' = access
           \/ \E e \in AccessType(DOMAIN consents) : access' = Append(access, e) /\ Len(access) < MaxTokens
    PROVE  CallInv'
<1>1. /\ Len(access') <= MaxTokens
      /\ \A t \in DOMAIN access : t \in DOMAIN access' /\ access'[t] = access[t]
  BY Grows DEF OAuthTypeOK, CallInv
<1>2. QED
  BY <1>1 DEF CallInv

LEMMA OAuthStep ==
    ASSUME McpInv, OAuth
    PROVE  McpInv'
<1>1. OAuthTypeOK /\ RestTypeOK /\ OperationsTypeOK /\ TokenInv /\ CallInv /\ IInv
  BY TypeParts DEF McpInv
<1>2. /\ UNCHANGED <<mode, grants, key, reads, changes, now, approvals, request, audit, executed>>
      /\ faults' \in 0..MaxFaults
  <2>1. CASE \E x \in exchanging, outcome \in Outcomes : StoreRefresh(x, outcome)
    BY <1>1, <2>1, StatementCounts DEF StoreRefresh
  <2>2. CASE ~\E x \in exchanging, outcome \in Outcomes : StoreRefresh(x, outcome)
    BY <1>1, <2>2 DEF OAuth, Register, Authorize, Exchange, Refresh, BuiltIn, opVars, OperationsTypeOK
  <2>3. QED
    BY <2>1, <2>2
<1>3. /\ OAuthTypeOK' /\ TokenInv'
      /\ \/ access' = access
         \/ \E e \in AccessType(DOMAIN consents) : access' = Append(access, e) /\ Len(access) < MaxTokens
  <2>1. CASE \E c \in Clients : Register(c)
    BY <1>1, <2>1 DEF Register, OAuthTypeOK, TokenInv
  <2>2. CASE ~\E c \in Clients : Register(c)
    BY <1>1, <2>2, AuthorizeStep, ExchangeStep, StoreRefreshStep, RefreshStep DEF OAuth
  <2>3. QED
    BY <2>1, <2>2
<1>4. CallInv'
  BY <1>1, <1>2, <1>3, CallsKept, TokensAssumption
<1>5. IInv'
  <2>1. OperationsTypeOK'
    BY <1>1, <1>2 DEF OperationsTypeOK
  <2>2. (\A a \in Refs : Kept(a)) /\ \A s \in Requests : Rests(s)
    BY <1>1, <1>2, KeptUnchanged DEF Rests
  <2>3. QED
    BY <1>1, <2>1, <2>2, OthersRest
<1>6. RestTypeOK'
  BY <1>1, <1>2 DEF RestTypeOK
<1>7. QED
  BY <1>3, <1>4, <1>5, <1>6, TypeParts DEF McpInv, IInv

-----------------------------------------------------------------------------
(* Tools *)

\* A read is denied when the resource was not granted, and goes through the
\* operation layer.
LEMMA ReadToolStep ==
    ASSUME McpInv, NEW r \in Requests, NEW d \in Diagnostics, NEW token, NEW found \in BOOLEAN,
           ReadTool(r, d, token, found)
    PROVE  McpInv'
<1> DEFINE call == [name |-> d[1], resource |-> d[2], contextual |-> ReadOnly,
                    granted |-> MayRead(d[2], found), ref |-> NoRef]
<1>1. OAuthTypeOK /\ RestTypeOK /\ OperationsTypeOK /\ TokenInv /\ CallInv /\ IInv
  BY TypeParts DEF McpInv
<1>2. /\ AskWith(r, call) /\ reads' = [reads EXCEPT ![r] = (d[2] \in grants)]
      /\ UNCHANGED <<now, approvals, audit, executed, faults, mode, grants, key, changes>>
      /\ UNCHANGED <<registered, consents, codes, exchanging, refresh, access>>
  BY DEF ReadTool, oauthVars
<1>3. call \in CallType /\ call.granted = MayRead(d[2], found)
  BY DiagnosticsAssumption, RisksAreFour DEF CallType, MayRead
<1> HIDE DEF call
<1>4. IInv'
  BY <1>1, <1>2, <1>3, AskWithStep, PreservedIsInvariant
<1>5. /\ request[r] = NotAsked
      /\ \A s \in Requests \ {r} : request'[s] = request[s]
      /\ ~call.granted => request'[r].pc = "deny"
  BY <1>1, <1>2 DEF AskWith, OperationsTypeOK
<1>6. r \notin executed
  BY <1>1, <1>5 DEF IInv, RequestInv
<1>7. CallInv'
  <2>1. mode # "static" /\ ~reads'[r] => ~call.granted
    BY <1>1, <1>2, <1>3 DEF MayRead, RestTypeOK
  <2>2. \A s \in Requests \ {r} : reads'[s] = reads[s]
    BY <1>1, <1>2 DEF RestTypeOK
  <2>3. QED
    BY <1>1, <1>2, <1>5, <1>6, <2>1, <2>2 DEF CallInv
<1>8. OAuthTypeOK' /\ RestTypeOK' /\ TokenInv'
  BY <1>1, <1>2 DEF OAuthTypeOK, RestTypeOK, TokenInv
<1>9. QED
  BY <1>4, <1>7, <1>8, TypeParts DEF McpInv, IInv

LEMMA ControlToolStep ==
    ASSUME McpInv, NEW token \in 0..Len(access), NEW tool, ControlTool(tool, token)
    PROVE  McpInv'
<1> DEFINE change == [token |-> token, key |-> key]
           n == Len(changes) + 1
<1>1. OAuthTypeOK /\ RestTypeOK /\ OperationsTypeOK /\ TokenInv /\ CallInv /\ IInv
  BY TypeParts DEF McpInv
<1>2. /\ Authorized(token) /\ mode # "oauth" /\ changes' = Append(changes, change)
      /\ UNCHANGED <<mode, grants, key, reads, opVars>>
      /\ UNCHANGED <<registered, consents, codes, exchanging, refresh, access>>
  BY DEF ControlTool, HasControl, oauthVars
<1>3. change \in ChangeType /\ change.token = token /\ change.key = key
  <2>1. Len(access) \in Nat
    BY <1>1, LenProperties DEF OAuthTypeOK
  <2>2. QED
    BY <1>1, <2>1, TokensAssumption DEF ChangeType, CallInv, RestTypeOK
<1> HIDE DEF change
<1>4. /\ changes' \in Seq(ChangeType) /\ n \in DOMAIN changes' /\ changes'[n] = change
      /\ \A i \in DOMAIN changes : changes'[i] = changes[i]
      /\ \A i \in DOMAIN changes' : i \in DOMAIN changes \/ i = n
  BY <1>1, <1>2, <1>3, Grows DEF RestTypeOK
<1> HIDE DEF n
<1>5. CallInv'
  BY <1>1, <1>2, <1>3, <1>4 DEF CallInv, Authorized, Verified, opVars
<1>6. OAuthTypeOK' /\ RestTypeOK' /\ TokenInv'
  BY <1>1, <1>2, <1>4 DEF OAuthTypeOK, RestTypeOK, TokenInv
<1>7. IInv'
  BY <1>1, <1>2, StutterKeeps
<1>8. QED
  BY <1>5, <1>6, <1>7, TypeParts DEF McpInv, IInv

-----------------------------------------------------------------------------
(* The operation layer, grants and restarts *)

\* a request that is denied, over or lost is only ever finished
LEMMA DeniedStays ==
    ASSUME OperationsTypeOK, Operate \/ StopProcess, NEW r \in Requests,
           request[r].pc \in {"deny", "done", "lost"}, r \notin executed
    PROVE  request'[r].pc \in {"deny", "done", "lost"} /\ r \notin executed'
<1>0. request[r] \in Asked /\ request[r] # NotAsked
  BY DEF OperationsTypeOK, NotAsked
<1>1. CASE Give \/ (\E a \in Refs : Revoke(a)) \/ TimePasses
  BY <1>1 DEF Give, IssueExplicit, IssueSessionPolicy, Issue, Revoke, TimePasses
<1>2. CASE \E s \in Requests, call \in Calls : Ask(s, call)
  BY <1>0, <1>2 DEF Ask, AskWith, OperationsTypeOK
<1>3. ASSUME NEW s \in Requests, Advance(s), s # r PROVE request'[r] = request[r] /\ r \notin executed'
  BY <1>3 DEF Advance, Resolve, Deny, Begin, Consume, ApprovalUnavailable, Succeed, FailOperation, Finish, Execute,
       Step, Answer, OperationsTypeOK
<1>4. CASE Advance(r)
  <2>1. PICK outcome \in Outcomes : Deny(r, outcome)
    BY <1>4 DEF Advance, Resolve, Begin, Consume, ApprovalUnavailable, Succeed, FailOperation, Execute
  <2>2. request'[r] = [request[r] EXCEPT !.pc = "done", !.answer = "OPERATION_NOT_AUTHORIZED",
                                         !.finalized = (outcome = "answered")]
        /\ executed' = executed
    BY <1>0, <2>1, RequestAnswers DEF Deny
  <2>3. QED
    BY <1>0, <2>2 DEF Asked
<1>5. CASE StopProcess
  BY <1>5 DEF StopProcess, StopOperations, Underway, Asked
<1>6. QED
  BY <1>1, <1>2, <1>3, <1>4, <1>5 DEF Operate

LEMMA OperateStep ==
    ASSUME McpInv, \/ Operate /\ UNCHANGED mcpVars
                   \/ Restart
                   \/ \E d \in Diagnostics : ChangeGrant(d[2])
                   \/ UNCHANGED vars
    PROVE  McpInv'
<1>1. OAuthTypeOK /\ RestTypeOK /\ OperationsTypeOK /\ TokenInv /\ CallInv /\ IInv
  BY TypeParts DEF McpInv
<1>2. Operate \/ StopProcess \/ UNCHANGED opVars
  BY DEF Restart, StopProcess, ChangeGrant, vars
<1>3. IInv'
  BY <1>1, <1>2, InvStep DEF OperationsNext
<1>4. /\ UNCHANGED <<mode, changes, reads, registered, consents, refresh, access>>
      /\ codes' \subseteq codes /\ exchanging' \subseteq exchanging
      /\ key' \in Nat /\ grants' \subseteq Resources
  BY <1>1, DiagnosticsAssumption DEF Restart, ChangeGrant, mcpVars, vars, RestTypeOK
<1>5. OAuthTypeOK' /\ RestTypeOK'
  BY <1>1, <1>4 DEF OAuthTypeOK, RestTypeOK
<1>6. TokenInv'
  BY <1>1, <1>4 DEF TokenInv
<1>7. CallInv'
  <2>1. \A r \in Requests : request[r].pc \in {"deny", "done", "lost"} /\ r \notin executed =>
            request'[r].pc \in {"deny", "done", "lost"} /\ r \notin executed'
    BY <1>1, <1>2, DeniedStays DEF opVars
  <2>2. QED
    BY <1>1, <1>4, <2>1 DEF CallInv
<1>8. QED
  BY <1>3, <1>5, <1>6, <1>7, TypeParts DEF McpInv, IInv

-----------------------------------------------------------------------------
(* The invariant and what follows from it *)

LEMMA McpInvInit == Init => McpInv
<1> SUFFICES ASSUME Init PROVE McpInv
  OBVIOUS
<1>1. IInv /\ OperationsTypeOK
  BY InvInit, TypeInit DEF Init
<1>2. /\ mode \in Modes /\ grants = Resources /\ registered = {}
      /\ consents = <<>> /\ codes = {} /\ exchanging = {} /\ refresh = <<>> /\ access = <<>>
      /\ key = 0 /\ reads = [r \in Requests |-> TRUE] /\ changes = <<>>
  BY DEF Init, McpInit
<1>3. OAuthTypeOK /\ RestTypeOK
  BY <1>2, EmptySeq DEF OAuthTypeOK, RestTypeOK
<1>4. TokenInv /\ CallInv
  BY <1>2, TokensAssumption DEF TokenInv, CallInv
<1>5. QED
  BY <1>1, <1>3, <1>4, TypeParts DEF McpInv

LEMMA McpInvStep == McpInv /\ [Next]_vars => McpInv'
BY OAuthStep, ReadToolStep, ControlToolStep, OperateStep DEF Next

LEMMA McpInductive == Spec => []McpInv
BY McpInvInit, McpInvStep, PTL DEF Spec

\* Every variable of the server keeps its type, and with it every token and code
\* refers to a consent that was given (mcp-builtin-oauth.ts).
THEOREM McpTypeCorrect == Spec => []TypeOK
<1>1. McpInv => TypeOK
  BY DEF McpInv
<1>2. QED
  BY <1>1, McpInductive, PTL

LEMMA AllowedFollows == McpInv => McpAllowed
<1> SUFFICES ASSUME McpInv PROVE TokensWereGranted /\ CallsWereAllowed
  BY DEF McpAllowed
<1>1. OAuthTypeOK /\ RestTypeOK /\ OperationsTypeOK /\ TokenInv /\ CallInv
  BY TypeParts DEF McpInv
<1>2. TokensWereGranted
  <2>1. \A t \in DOMAIN refresh : refresh[t].consent \in DOMAIN consents
    BY <1>1, ConsentsExist
  <2>2. QED
    BY <1>1, <2>1 DEF TokenInv, TokensWereGranted
<1>3. CallsWereAllowed
  <2>1. \A r \in executed : mode # "static" => reads[r]
    BY <1>1 DEF CallInv, OperationsTypeOK
  <2>2. \A t \in DOMAIN access : access[t].consent \in DOMAIN consents
    BY <1>1, ConsentsExist
  <2>3. QED
    BY <1>1, <2>1, <2>2 DEF CallInv, TokenInv, CallsWereAllowed
<1>4. QED
  BY <1>2, <1>3

\* For any number of clients, codes, tokens and calls, and across restarts:
\* tokens come from one exchange of one consent, and what tools read or changed
\* was allowed to who asked (mcp-builtin-oauth.ts, mcp-http.ts).
THEOREM AllowsRightly == Spec => []McpAllowed
BY AllowedFollows, McpInductive, PTL

\* Tools add nothing that escapes the operation layer: what runs in the server
\* was approved, and the audit log of it is true (mcp-readonly-catalog.ts).
THEOREM ApprovedUnderTools == Spec => []ExecutedWasApproved
<1>1. McpInv => ExecutedWasApproved
  BY ExecutedFollows DEF McpInv
<1>2. QED
  BY <1>1, McpInductive, PTL

\* Control tools reach the operation layer through their own approval, and the
\* audit rows of what they did and of what was refused stay true, whichever
\* statement of a call failed (mcp-control-tools.ts, operation-executor.ts).
THEOREM TrueUnderTools == Spec => []AuditIsTrue
<1>1. McpInv => AuditIsTrue
  BY AuditTrueFollows DEF McpInv
<1>2. QED
  BY <1>1, McpInductive, PTL

-----------------------------------------------------------------------------
(* ImportPanel *)

RunType == [s : Resources, pc : {"variables", "autodeploy", "post", "undo", "over"}]
PanelType ==
    [asking : {"nothing", "discover", "confirm", "deploy"}, chosen : SUBSET Resources,
     confirmed : SUBSET Resources, status : [Resources -> P!Statuses]]
ImportTypes ==
    /\ panel \in PanelType
    /\ all \in Seq(Resources) /\ enabled \subseteq Resources /\ overtaken \subseteq Resources
    /\ runs \in Seq(RunType) /\ queued \subseteq DOMAIN runs

\* Of a service no run was overtaken of, one run at most is under way, and none
\* while it is shown as queued; a run that is about to ask for the deployment
\* has configured push autodeploy.
OneRun(s) == \A r, q \in DOMAIN runs :
    runs[r].s = s /\ runs[q].s = s /\ runs[r].pc # "over" /\ runs[q].pc # "over" => r = q
QueuedInv(s) == panel.status[s] = "QUEUED" =>
    /\ \A r \in DOMAIN runs : runs[r].s = s => runs[r].pc = "over"
    /\ s \in enabled /\ \E r \in queued : runs[r].s = s
PostInv(s) == \A r \in DOMAIN runs : runs[r].s = s /\ runs[r].pc = "post" => s \in enabled
ServiceInv(s) == s \notin overtaken => OneRun(s) /\ QueuedInv(s) /\ PostInv(s)
ImportInv == ImportTypes /\ \A s \in Resources : ServiceInv(s)

\* The modules' sets are finite, and counted, as the library's theorems say.
LEMMA SameFiniteSets == \A S : (P!IsFiniteSet(S) <=> IsFiniteSet(S)) /\ (W!IsFiniteSet(S) <=> IsFiniteSet(S))
BY Zenon DEF P!IsFiniteSet, W!IsFiniteSet, IsFiniteSet

LEMMA SameCardinalities == \A S : P!Cardinality(S) = Cardinality(S) /\ W!Cardinality(S) = Cardinality(S)
<1>1. \A S : P!Cardinality(S) = Cardinality(S)
  BY SameFiniteSets, Zenon DEF P!Cardinality, Cardinality
<1>2. \A S : W!Cardinality(S) = Cardinality(S)
  BY SameFiniteSets, Zenon DEF W!Cardinality, Cardinality
<1>3. QED
  BY <1>1, <1>2, Zenon

LEMMA ImportFollows == ImportInv => P!TypeOK /\ P!QueuedIsEnabled
BY DEF ImportInv, ImportTypes, PanelType, RunType, ServiceInv, QueuedInv, P!TypeOK, P!QueuedIsEnabled

LEMMA ImportStart == P!Init => ImportInv
<1>1. ASSUME P!Init PROVE ImportInv
  <2>1. <<>> \in Seq(Resources) /\ <<>> \in Seq(RunType) /\ DOMAIN <<>> = {}
    OBVIOUS
  <2>2. ImportTypes
    BY <1>1, <2>1 DEF P!Init, P!Unshown, P!Statuses, ImportTypes, PanelType
  <2>3. \A s \in Resources : panel.status[s] = "none"
    BY <1>1 DEF P!Init, P!Unshown
  <2>4. \A s \in Resources : ServiceInv(s)
    BY <1>1, <2>1, <2>3 DEF P!Init, ServiceInv, OneRun, QueuedInv, PostInv
  <2>5. QED
    BY <2>2, <2>4 DEF ImportInv
<1>2. QED
  BY <1>1

\* What a step does that leaves the runs alone, and shows nothing more as queued.
LEMMA PanelMoves ==
    ASSUME ImportInv, panel' \in PanelType, all' \in Seq(Resources),
           \A s \in Resources : panel'.status[s] = "QUEUED" => panel.status[s] = "QUEUED",
           UNCHANGED <<runs, enabled, queued, overtaken>>
    PROVE  ImportInv'
<1>1. ImportTypes'
  BY DEF ImportInv, ImportTypes
<1>2. \A s \in Resources : ServiceInv(s)'
  BY DEF ImportInv, ServiceInv, OneRun, QueuedInv, PostInv
<1>3. QED
  BY <1>1, <1>2 DEF ImportInv

\* Fields of the panel
LEMMA PanelFields ==
    ASSUME ImportInv
    PROVE  /\ panel \in PanelType
           /\ panel.status \in [Resources -> P!Statuses] /\ panel.confirmed \subseteq Resources
           /\ panel.chosen \subseteq Resources /\ panel.asking \in {"nothing", "discover", "confirm", "deploy"}
           /\ P!Unshown \in [Resources -> P!Statuses] /\ \A s \in Resources : P!Unshown[s] = "none"
           /\ all \in Seq(Resources) /\ runs \in Seq(RunType)
           /\ enabled \subseteq Resources /\ overtaken \subseteq Resources /\ queued \subseteq DOMAIN runs
BY DEF ImportInv, ImportTypes, PanelType, P!Unshown, P!Statuses

LEMMA DiscoveryStep ==
    ASSUME ImportInv,
           \/ P!LeaveProject \/ P!Discover \/ P!Answered
           \/ \E S \in SUBSET Resources : P!ConfirmServices(S)
    PROVE  ImportInv'
<1>1. UNCHANGED <<all, runs, enabled, queued, overtaken>>
  BY DEF P!LeaveProject, P!Discover, P!Answered, P!ConfirmServices, P!serverRests
<1>2. CASE P!LeaveProject \/ P!Discover
  <2>1. panel' \in PanelType /\ panel'.status = P!Unshown
    BY <1>2, PanelFields DEF P!LeaveProject, P!Discover, PanelType
  <2>2. QED
    BY <1>1, <2>1, PanelFields, PanelMoves
<1>3. ASSUME NEW S \in SUBSET Resources, P!ConfirmServices(S) PROVE ImportInv'
  <2>1. panel' \in PanelType /\ panel'.status = panel.status
    BY <1>3, PanelFields DEF P!ConfirmServices, PanelType
  <2>2. QED
    BY <1>1, <2>1, PanelFields, PanelMoves
<1>4. CASE P!Answered
  <2>1. CASE panel' = [panel EXCEPT !.asking = "nothing", !.chosen = {}]
    <3>1. panel' \in PanelType /\ panel'.status = panel.status
      BY <2>1, PanelFields DEF PanelType
    <3>2. QED
      BY <1>1, <3>1, PanelFields, PanelMoves
  <2>2. CASE panel' = [asking |-> "nothing", chosen |-> {}, confirmed |-> panel.chosen,
                       status |-> [s \in Resources |-> IF s \in panel.chosen THEN "IDLE" ELSE "none"]]
    <3>1. panel' \in PanelType
      BY <2>2, PanelFields DEF PanelType, P!Statuses
    <3>2. \A s \in Resources : panel'.status[s] \in {"IDLE", "none"}
      BY <2>2
    <3>3. QED
      BY <1>1, <3>1, <3>2, PanelFields, PanelMoves
  <2>3. QED
    BY <1>4, <2>1, <2>2 DEF P!Answered
<1>5. QED
  BY <1>2, <1>3, <1>4

\* The panel shows something of one service.
LEMMA ShowsIs ==
    ASSUME ImportInv, NEW s \in Resources, NEW status \in P!Statuses,
           NEW asking \in {"nothing", "discover", "confirm", "deploy"}, P!Shows(s, status, asking)
    PROVE  /\ panel' \in PanelType
           /\ \A t \in Resources : panel'.status[t] = IF t = s THEN status ELSE panel.status[t]
BY PanelFields DEF P!Shows, PanelType

\* A run is begun, and overtakes the one that is under way; or it fails at once.
LEMMA BeginRunStep ==
    ASSUME ImportInv, NEW s \in Resources, NEW asking \in {"nothing", "deploy"}, P!Begin(s, asking),
           all' \in Seq(Resources), P!serverRests
    PROVE  ImportInv'
<1>1. UNCHANGED <<enabled, queued>>
  BY DEF P!serverRests
<1>2. CASE P!Shows(s, "FAILED", asking) /\ UNCHANGED <<runs, overtaken>>
  <2>1. /\ panel' \in PanelType
        /\ \A t \in Resources : panel'.status[t] = IF t = s THEN "FAILED" ELSE panel.status[t]
    BY <1>2, ShowsIs DEF P!Statuses
  <2>2. QED
    BY <1>1, <1>2, <2>1, PanelMoves
<1>3. CASE /\ runs' = Append(runs, [s |-> s, pc |-> "variables"]) /\ P!Shows(s, "DEPLOYING", asking)
           /\ overtaken' = IF P!Underway(s) = {} THEN overtaken ELSE overtaken \union {s}
  <2>1. /\ panel' \in PanelType
        /\ \A t \in Resources : panel'.status[t] = IF t = s THEN "DEPLOYING" ELSE panel.status[t]
    BY <1>3, ShowsIs DEF P!Statuses
  <2>2. runs \in Seq(RunType) /\ [s |-> s, pc |-> "variables"] \in RunType
    BY PanelFields DEF RunType
  <2>3. /\ runs' \in Seq(RunType) /\ Len(runs') = Len(runs) + 1 /\ Len(runs) \in Nat
        /\ DOMAIN runs = 1..Len(runs) /\ DOMAIN runs' = 1..(Len(runs) + 1)
        /\ \A r \in 1..Len(runs) : runs'[r] = runs[r]
        /\ runs'[Len(runs) + 1] = [s |-> s, pc |-> "variables"]
    BY <1>3, <2>2
  <2>4. ImportTypes'
    BY <1>1, <1>3, <2>1, <2>3, PanelFields DEF ImportTypes
  <2>5. ASSUME NEW t \in Resources, t \notin overtaken' PROVE OneRun(t)' /\ QueuedInv(t)' /\ PostInv(t)'
    <3>1. t \notin overtaken /\ OneRun(t) /\ QueuedInv(t) /\ PostInv(t)
      BY <1>3, <2>5 DEF ImportInv, ServiceInv
    <3>2. \A r \in DOMAIN runs' : r \in DOMAIN runs \/ r = Len(runs) + 1
      BY <2>3
    <3>3. PostInv(t)'
      BY <1>1, <2>3, <3>1, <3>2 DEF PostInv
    <3>4. t = s => \A r \in DOMAIN runs : runs[r].s = t => runs[r].pc = "over"
      BY <1>3, <2>5 DEF P!Underway
    <3>5. OneRun(t)'
      BY <2>3, <3>1, <3>2, <3>4 DEF OneRun
    <3>6. QueuedInv(t)'
      <4>1. ASSUME panel'.status[t] = "QUEUED"
            PROVE  /\ \A r \in DOMAIN runs' : runs'[r].s = t => runs'[r].pc = "over"
                   /\ t \in enabled' /\ \E r \in queued' : runs'[r].s = t
        <5>1. t # s /\ panel.status[t] = "QUEUED"
          BY <2>1, <4>1
        <5>2. /\ \A r \in DOMAIN runs : runs[r].s = t => runs[r].pc = "over"
              /\ t \in enabled /\ \E r \in queued : runs[r].s = t
          BY <3>1, <5>1 DEF QueuedInv
        <5>3. queued \subseteq DOMAIN runs
          BY PanelFields
        <5>4. QED
          BY <1>1, <2>3, <3>2, <5>1, <5>2, <5>3
      <4>2. QED
        BY <4>1 DEF QueuedInv
    <3>7. QED
      BY <3>3, <3>5, <3>6
  <2>6. QED
    BY <2>4, <2>5 DEF ImportInv, ServiceInv
<1>4. QED
  BY <1>2, <1>3 DEF P!Begin

LEMMA DeployStep ==
    ASSUME ImportInv,
           (\E s \in Resources : P!DeployService(s)) \/ P!DeployAll \/ P!DeployNext \/ P!AllDeployed
    PROVE  ImportInv'
<1>1. ASSUME NEW s \in Resources, P!DeployService(s) PROVE ImportInv'
  <2>1. P!Begin(s, "nothing") /\ all' = all /\ P!serverRests
    BY <1>1 DEF P!DeployService
  <2>2. all' \in Seq(Resources)
    BY <2>1, PanelFields
  <2>3. QED
    BY <2>1, <2>2, BeginRunStep
<1>2. CASE P!DeployAll
  <2>1. panel' = [panel EXCEPT !.asking = "deploy"] /\ UNCHANGED <<runs, enabled, queued, overtaken>>
    BY <1>2 DEF P!DeployAll, P!serverRests
  <2>2. panel' \in PanelType /\ panel'.status = panel.status
    BY <2>1, PanelFields DEF PanelType
  <2>3. IsFiniteSet(panel.confirmed)
    <3>1. IsFiniteSet(Resources)
      BY ConsoleConstants, SameFiniteSets DEF P!ImportBound
    <3>2. panel.confirmed \in SUBSET Resources
      BY PanelFields
    <3>3. QED
      BY <3>1, <3>2, FS_Subset
  <2>4. Cardinality(panel.confirmed) \in Nat
    BY <2>3, FS_CardinalityType
  <2>5. all' \in [1..Cardinality(panel.confirmed) -> panel.confirmed]
    <3> DEFINE F == [1..Cardinality(panel.confirmed) -> panel.confirmed]
    <3>1. all' \in {q \in F : \A s \in panel.confirmed : \E i \in DOMAIN q : q[i] = s}
      BY <1>2, SameCardinalities, Zenon DEF P!DeployAll
    <3> HIDE DEF F
    <3>2. all' \in F
      BY <3>1, Zenon
    <3>3. QED
      BY <3>2 DEF F
  <2>6. all' \in [1..Cardinality(panel.confirmed) -> Resources]
    BY <2>5, PanelFields
  <2>7. all' \in Seq(Resources)
    BY <2>4, <2>6
  <2>8. QED
    BY <2>1, <2>2, <2>7, PanelMoves
<1>3. CASE P!DeployNext
  <2>1. all # <<>> /\ P!Begin(Head(all), "deploy") /\ all' = Tail(all) /\ P!serverRests
    BY <1>3 DEF P!DeployNext
  <2>2. Head(all) \in Resources /\ all' \in Seq(Resources)
    BY <2>1, PanelFields
  <2>3. QED
    BY <2>1, <2>2, BeginRunStep
<1>4. CASE P!AllDeployed
  <2>1. panel' = [panel EXCEPT !.asking = "nothing"] /\ UNCHANGED <<all, runs, enabled, queued, overtaken>>
    BY <1>4 DEF P!AllDeployed, P!serverRests
  <2>2. panel' \in PanelType /\ panel'.status = panel.status
    BY <2>1, PanelFields DEF PanelType
  <2>3. QED
    BY <2>1, <2>2, PanelFields, PanelMoves
<1>5. QED
  BY <1>1, <1>2, <1>3, <1>4

\* A run goes on.
LEMMA GoesIs ==
    ASSUME ImportInv, NEW r \in DOMAIN runs,
           NEW pc \in {"variables", "autodeploy", "post", "undo", "over"}, P!Goes(r, pc)
    PROVE  /\ runs' \in Seq(RunType) /\ DOMAIN runs' = DOMAIN runs
           /\ \A q \in DOMAIN runs : /\ runs'[q].s = runs[q].s
                                     /\ runs'[q].pc = IF q = r THEN pc ELSE runs[q].pc
           /\ runs[r].s \in Resources
<1>1. runs \in Seq(RunType) /\ runs[r] \in RunType
  BY PanelFields
<1>2. /\ [runs[r] EXCEPT !.pc = pc] \in RunType
      /\ [runs[r] EXCEPT !.pc = pc].s = runs[r].s /\ [runs[r] EXCEPT !.pc = pc].pc = pc
  BY <1>1 DEF RunType
<1>3. runs' = [runs EXCEPT ![r] = [runs[r] EXCEPT !.pc = pc]]
  BY DEF P!Goes
<1>4. runs' \in Seq(RunType) /\ DOMAIN runs' = DOMAIN runs
  BY <1>1, <1>2, <1>3
<1>5. \A q \in DOMAIN runs : runs'[q] = IF q = r THEN [runs[r] EXCEPT !.pc = pc] ELSE runs[q]
  BY <1>3
<1>6. runs[r].s \in Resources
  BY <1>1 DEF RunType
<1>7. QED
  BY <1>2, <1>4, <1>5, <1>6

LEMMA FailStep ==
    ASSUME ImportInv, NEW r \in DOMAIN runs, P!Fail(r), runs[r].pc # "over",
           enabled' \subseteq Resources, queued' = queued, UNCHANGED <<all, overtaken>>,
           \A s \in Resources : s # runs[r].s => (s \in enabled' <=> s \in enabled)
    PROVE  ImportInv'
<1> DEFINE s == runs[r].s
<1>1. /\ runs' \in Seq(RunType) /\ DOMAIN runs' = DOMAIN runs
      /\ \A q \in DOMAIN runs : /\ runs'[q].s = runs[q].s
                                /\ runs'[q].pc = IF q = r THEN "over" ELSE runs[q].pc
      /\ s \in Resources
  BY GoesIs DEF P!Fail
<1>2. /\ panel' \in PanelType
      /\ \A t \in Resources : panel'.status[t] = IF t = s THEN "FAILED" ELSE panel.status[t]
  BY <1>1, PanelFields, ShowsIs DEF P!Fail, P!Statuses
<1>3. ImportTypes'
  BY <1>1, <1>2, PanelFields DEF ImportTypes
<1>4. ASSUME NEW t \in Resources, t \notin overtaken' PROVE OneRun(t)' /\ QueuedInv(t)' /\ PostInv(t)'
  <2>1. OneRun(t) /\ QueuedInv(t) /\ PostInv(t)
    BY <1>4 DEF ImportInv, ServiceInv
  <2>2. OneRun(t)'
    BY <1>1, <2>1 DEF OneRun
  <2>3. PostInv(t)'
    BY <1>1, <2>1 DEF PostInv, OneRun
  <2>4. QueuedInv(t)'
    BY <1>1, <1>2, <2>1, PanelFields DEF QueuedInv
  <2>5. QED
    BY <2>2, <2>3, <2>4
<1>5. QED
  BY <1>3, <1>4 DEF ImportInv, ServiceInv

LEMMA RunStep ==
    ASSUME ImportInv, NEW r \in DOMAIN runs,
           P!PutVariables(r) \/ P!PutAutodeploy(r) \/ P!Post(r) \/ P!Undo(r)
    PROVE  ImportInv'
<1> DEFINE s == runs[r].s
<1>1. s \in Resources /\ panel.asking \in {"nothing", "discover", "confirm", "deploy"}
  <2>1. runs \in Seq(RunType) /\ runs[r] \in RunType
    BY PanelFields
  <2>2. QED
    BY <2>1, PanelFields DEF RunType
<1>2. CASE P!Fail(r) /\ runs[r].pc # "over" /\ queued' = queued /\ UNCHANGED <<all, overtaken>>
           /\ enabled' \in {enabled, enabled \union {s}, enabled \ {s}}
  BY <1>1, <1>2, PanelFields, FailStep
<1>3. ASSUME NEW pc \in {"autodeploy", "post", "undo"}, P!Goes(r, pc), runs[r].pc # "over",
             UNCHANGED <<panel, all, overtaken>>,
             enabled' = (IF pc = "post" THEN enabled \union {s} ELSE enabled),
             queued' \in {queued, queued \union {r}}
      PROVE  ImportInv'
  <2>1. /\ runs' \in Seq(RunType) /\ DOMAIN runs' = DOMAIN runs
        /\ \A q \in DOMAIN runs : /\ runs'[q].s = runs[q].s
                                  /\ runs'[q].pc = IF q = r THEN pc ELSE runs[q].pc
    BY <1>3, GoesIs
  <2>2. ImportTypes'
    BY <1>1, <1>3, <2>1, PanelFields DEF ImportTypes
  <2>3. ASSUME NEW t \in Resources, t \notin overtaken' PROVE OneRun(t)' /\ QueuedInv(t)' /\ PostInv(t)'
    <3>1. OneRun(t) /\ QueuedInv(t) /\ PostInv(t)
      BY <1>3, <2>3 DEF ImportInv, ServiceInv
    <3>2. OneRun(t)'
      BY <1>3, <2>1, <3>1 DEF OneRun
    <3>3. PostInv(t)'
      BY <1>3, <2>1, <3>1 DEF PostInv
    <3>4. QueuedInv(t)'
      BY <1>3, <2>1, <3>1, PanelFields DEF QueuedInv
    <3>5. QED
      BY <3>2, <3>3, <3>4
  <2>4. QED
    BY <2>2, <2>3 DEF ImportInv, ServiceInv
<1>4. CASE P!PutVariables(r)
  BY <1>2, <1>3, <1>4 DEF P!PutVariables, P!At, P!serverRests
<1>5. CASE P!PutAutodeploy(r)
  BY <1>2, <1>3, <1>5 DEF P!PutAutodeploy, P!At
<1>6. CASE P!Undo(r)
  BY <1>2, <1>6 DEF P!Undo, P!At
<1>7. CASE P!Post(r)
  <2>1. CASE P!Goes(r, "undo") /\ queued' \in {queued, queued \union {r}} /\ UNCHANGED panel
    BY <1>3, <1>7, <2>1 DEF P!Post, P!At
  <2>2. CASE P!Goes(r, "over") /\ P!Shows(s, "QUEUED", panel.asking) /\ queued' = queued \union {r}
    <3>1. /\ runs' \in Seq(RunType) /\ DOMAIN runs' = DOMAIN runs
          /\ \A q \in DOMAIN runs : /\ runs'[q].s = runs[q].s
                                    /\ runs'[q].pc = IF q = r THEN "over" ELSE runs[q].pc
      BY <2>2, GoesIs
    <3>2. /\ panel' \in PanelType
          /\ \A t \in Resources : panel'.status[t] = IF t = s THEN "QUEUED" ELSE panel.status[t]
      BY <1>1, <2>2, ShowsIs DEF P!Statuses
    <3>3. runs[r].pc = "post" /\ UNCHANGED <<all, enabled, overtaken>>
      BY <1>7 DEF P!Post, P!At
    <3>4. ImportTypes'
      BY <2>2, <3>1, <3>2, <3>3, PanelFields DEF ImportTypes
    <3>5. ASSUME NEW t \in Resources, t \notin overtaken' PROVE OneRun(t)' /\ QueuedInv(t)' /\ PostInv(t)'
      <4>1. OneRun(t) /\ QueuedInv(t) /\ PostInv(t)
        BY <3>3, <3>5 DEF ImportInv, ServiceInv
      <4>2. OneRun(t)'
        BY <3>1, <4>1 DEF OneRun
      <4>3. PostInv(t)'
        BY <3>1, <3>3, <4>1 DEF PostInv
      <4>4. QueuedInv(t)'
        <5>1. CASE t = s
          <6>1. \A q \in DOMAIN runs : runs[q].s = t /\ runs[q].pc # "over" => q = r
            BY <3>3, <4>1, <5>1 DEF OneRun
          <6>2. t \in enabled
            BY <3>3, <4>1, <5>1 DEF PostInv
          <6>3. QED
            BY <2>2, <3>1, <3>3, <5>1, <6>1, <6>2 DEF QueuedInv
        <5>2. CASE t # s
          <6>1. panel'.status[t] = panel.status[t] /\ queued \subseteq queued' /\ queued \subseteq DOMAIN runs
            BY <2>2, <3>2, <5>2, PanelFields
          <6>2. \A q \in DOMAIN runs : runs[q].s = t => (runs'[q].pc = "over" <=> runs[q].pc = "over")
            BY <3>1, <5>2
          <6>3. QED
            BY <3>1, <3>3, <4>1, <6>1, <6>2 DEF QueuedInv
        <5>3. QED
          BY <5>1, <5>2
      <4>5. QED
        BY <4>2, <4>3, <4>4
    <3>6. QED
      BY <3>4, <3>5 DEF ImportInv, ServiceInv
  <2>3. QED
    BY <1>7, <2>1, <2>2 DEF P!Post
<1>8. QED
  BY <1>4, <1>5, <1>6, <1>7

LEMMA ImportStep == ImportInv /\ [P!Next]_P!vars => ImportInv'
<1>1. ASSUME ImportInv, P!Next PROVE ImportInv'
  BY <1>1, DiscoveryStep, DeployStep, RunStep DEF P!Next
<1>2. ASSUME ImportInv, UNCHANGED P!vars PROVE ImportInv'
  <2>1. panel' \in PanelType /\ all' \in Seq(Resources) /\ panel' = panel
        /\ UNCHANGED <<runs, enabled, queued, overtaken>>
    BY <1>2, PanelFields DEF P!vars
  <2>2. QED
    BY <1>2, <2>1, PanelMoves
<1>3. QED
  BY <1>1, <1>2

-----------------------------------------------------------------------------
(* WebConsole *)

Ids == ProjectIds \union ServiceIds \union {0}
PageType ==
    [project : ProjectIds \union {0}, service : ServiceIds \union {0}, projects : SUBSET ProjectIds,
     listed : SUBSET ServiceIds, deployments : W!Lists, variables : ServiceIds \union {0},
     domains : ServiceIds \union {0}, section : {"overview", "observability"},
     events : W!Watches, metrics : W!Watches, busy : BOOLEAN]
RowsType ==
    [projects : SUBSET ProjectIds, gone : SUBSET ProjectIds, services : SUBSET ServiceIds,
     left : SUBSET ServiceIds, count : [ServiceIds -> 0..MaxShown], ready : [ServiceIds -> 0..MaxShown]]
AskedType ==
    [kind : {"none", "workspace", "project", "service", "observe", "projects", "services", "deployments"},
     id : Ids, sel : Ids, got : SUBSET Ids, list : W!Lists, watch : W!Watches,
     then : {"none", "select", "leave", "overview", "stay"}, made : Ids, act : BOOLEAN]

\* A request has what its kind needs; the list it may bring is that of its service.
AskedInv(c) ==
    /\ c \in AskedType
    /\ c.kind = "workspace" => c.got \subseteq ProjectIds
    /\ c.kind = "project" => c.got \subseteq ServiceIds
    /\ c.kind \in {"workspace", "projects"} /\ c.then = "select" => c.made \in ProjectIds
    /\ c.kind \in {"project", "services"} /\ c.then = "select" => c.made \in ServiceIds
    /\ c.kind \in {"service", "deployments"} => c.id \in ServiceIds
    /\ c.kind = "service" => c.list.of = c.id
\* A watch that is under way is of what the page observes now.
WatchInv(c, pg) == c.kind = "observe" => c.watch = W!Watched(pg)
OneService(pg) == pg.variables = pg.deployments.of /\ pg.domains = pg.deployments.of

PageInv ==
    /\ rows \in RowsType /\ page \in PageType /\ OneService(page)
    /\ \A c \in asked : AskedInv(c) /\ WatchInv(c, page)
    /\ W!Cardinality(asked) <= MaxAsked /\ events \in 0..MaxEvents

\* What a step may do to the events and metrics that are shown.
WatchStep ==
    \A f \in {"events", "metrics"} :
        page'[f] # page[f] /\ page'[f] # <<0, 0>> => page'[f] = W!Watched(page)

LEMMA ConsoleIds ==
    /\ ProjectIds \subseteq Nat \ {0} /\ ServiceIds \subseteq Nat \ {0} /\ 1 \in ProjectIds /\ 1 \in ServiceIds
    /\ MaxShown \in Nat /\ MaxAsked \in Nat /\ MaxEvents \in Nat /\ MaxAsked >= 3
    /\ 0 \in 0..MaxShown
BY ConsoleConstants DEF W!IdsAreNumbers, W!ConsoleBounds

LEMMA PageFollows == PageInv => W!TypeOK /\ W!ShowsOneService
BY DEF PageInv, RowsType, PageType, OneService, W!TypeOK, W!ShowsOneService, W!Selection

LEMMA Minimum == ASSUME NEW S \in SUBSET Nat, S # {} PROVE \E i \in S : \A j \in S : i <= j
<1> DEFINE R == {ss \in Nat \X Nat : ss[1] < ss[2]}
<1>1. IsWellFoundedOn(R, Nat)
  BY NatLessThanWellFounded, Zenon DEF OpToRel
<1>2. PICK x \in S : \A y \in S : ~ (<<y, x>> \in R)
  <2> HIDE DEF R
  <2> QED BY <1>1, WFMin
<1>3. ASSUME NEW j \in S PROVE x <= j
  <2>1. <<j, x>> \in Nat \X Nat /\ ~(<<j, x>> \in R)
    BY <1>2
  <2>2. ~(j < x)
    BY <2>1
  <2>3. QED
    BY <2>1, <2>2
<1>4. QED
  BY <1>3

LEMMA LeastOf ==
    ASSUME NEW S, S \subseteq ProjectIds \/ S \subseteq ServiceIds
    PROVE  W!Least(S) \in S \union {0}
<1>1. CASE S = {}
  BY <1>1 DEF W!Least
<1>2. CASE S # {}
  <2>1. S \in SUBSET Nat
    BY ConsoleIds
  <2>2. \E i \in S : \A j \in S : i <= j
    BY <1>2, <2>1, Minimum
  <2>3. (CHOOSE i \in S : \A j \in S : i <= j) \in S
    BY <2>2, Zenon
  <2>4. QED
    BY <1>2, <2>3, Zenon DEF W!Least
<1>3. QED
  BY <1>1, <1>2

LEMMA NoListIs == W!NoList \in W!Lists /\ W!NoList.of = 0 /\ <<0, 0>> \in W!Watches
BY ConsoleIds DEF W!NoList, W!Lists, W!Watches

LEMMA ClearedIs ==
    ASSUME NEW pg \in PageType
    PROVE  /\ W!Cleared(pg) \in PageType /\ OneService(W!Cleared(pg))
           /\ W!Cleared(pg).events = pg.events /\ W!Cleared(pg).metrics = pg.metrics
           /\ W!Cleared(pg).section = pg.section
BY NoListIs DEF PageType, OneService, W!Cleared

LEMMA UnwatchedIs ==
    ASSUME NEW pg \in PageType
    PROVE  LET new == [pg EXCEPT !.events = <<0, 0>>, !.metrics = <<0, 0>>]
           IN  /\ new \in PageType /\ (OneService(pg) => OneService(new))
               /\ new.events = <<0, 0>> /\ new.metrics = <<0, 0>> /\ new.section = pg.section
               /\ new.deployments = pg.deployments
BY NoListIs DEF PageType, OneService

\* The effects of a render clear what is shown, or leave it.
LEMMA SelectionIs ==
    ASSUME NEW set \in PageType, OneService(set)
    PROVE  LET new == W!AfterSelection(set)
           IN  /\ new \in PageType /\ OneService(new) /\ new.section = set.section
               /\ new.events \in {set.events, <<0, 0>>} /\ new.metrics \in {set.metrics, <<0, 0>>}
<1> DEFINE moved == IF set.project # page.project THEN W!Cleared(set) ELSE set
           listed == IF set.project # page.project /\ set.project = 0 THEN [moved EXCEPT !.listed = {}] ELSE moved
           last == [W!Cleared(listed) EXCEPT !.events = <<0, 0>>, !.metrics = <<0, 0>>]
<1>1. moved \in PageType /\ OneService(moved) /\ moved.section = set.section
      /\ moved.events = set.events /\ moved.metrics = set.metrics
  BY ClearedIs
<1> HIDE DEF moved
<1>2. listed \in PageType /\ OneService(listed) /\ listed.section = set.section
      /\ listed.events = set.events /\ listed.metrics = set.metrics
  BY <1>1 DEF PageType, OneService
<1> HIDE DEF listed
<1>3. last \in PageType /\ OneService(last) /\ last.section = set.section
      /\ last.events = <<0, 0>> /\ last.metrics = <<0, 0>>
  BY <1>2, ClearedIs, UnwatchedIs
<1> HIDE DEF last
<1>4. W!AfterSelection(set) = IF set.service # page.service /\ set.service = 0 THEN last ELSE listed
  BY Zenon DEF W!AfterSelection, moved, listed, last
<1>5. QED
  BY <1>2, <1>3, <1>4

LEMMA AfterWatchIs ==
    ASSUME NEW set \in PageType, OneService(set)
    PROVE  LET new == W!AfterWatch(set)
           IN  /\ new \in PageType /\ OneService(new) /\ new.section = set.section
               /\ new.deployments = set.deployments
               /\ new.events \in {set.events, <<0, 0>>} /\ new.metrics \in {set.metrics, <<0, 0>>}
BY UnwatchedIs DEF W!AfterWatch

LEMMA WatchedType ==
    ASSUME NEW pg \in PageType
    PROVE  W!Watched(pg) \in W!Watches
<1>1. pg.deployments \in W!Lists
  BY DEF PageType
<1>2. W!Observed(pg.deployments) \in W!Watches
  BY <1>1, NoListIs, ConsoleIds DEF W!Observed, W!Lists, W!Watches
<1>3. QED
  BY <1>2, NoListIs DEF W!Watched

LEMMA ListNowIs ==
    ASSUME rows \in RowsType, NEW s \in ServiceIds
    PROVE  W!ListNow(s) \in W!Lists /\ W!ListNow(s).of = s
BY DEF RowsType, W!ListNow, W!Lists

LEMMA AnswersNow ==
    ASSUME rows \in RowsType
    PROVE  W!ProjectsNow \subseteq ProjectIds /\ \A p : W!ServicesNow(p) \subseteq ServiceIds
BY DEF RowsType, W!ProjectsNow, W!ServicesNow

LEMMA NoCallIs == W!NoCall \in AskedType /\ W!NoCall.then = "none"
BY NoListIs DEF W!NoCall, AskedType, Ids

\* What the page asks has what its kind needs.
LEMMA AskWorkspaceIs ==
    ASSUME rows \in RowsType, NEW p \in ProjectIds \union {0}, NEW c \in W!AskWorkspace(p)
    PROVE  AskedInv(c) /\ c.kind = "workspace"
<1>1. c = [W!NoCall EXCEPT !.kind = "workspace", !.sel = p, !.got = W!ProjectsNow]
  BY DEF W!AskWorkspace
<1>2. c \in AskedType /\ c.kind = "workspace" /\ c.then = "none" /\ c.got = W!ProjectsNow
  BY <1>1, NoCallIs, AnswersNow DEF AskedType, Ids
<1>3. QED
  BY <1>2, AnswersNow DEF AskedInv

LEMMA AskProjectIs ==
    ASSUME rows \in RowsType, NEW p \in ProjectIds \union {0}, NEW s \in ServiceIds \union {0},
           NEW c \in W!AskProject(p, s)
    PROVE  AskedInv(c) /\ c.kind = "project"
<1>1. c = [W!NoCall EXCEPT !.kind = "project", !.id = p, !.sel = s, !.got = W!ServicesNow(p)]
  BY DEF W!AskProject
<1>2. c \in AskedType /\ c.kind = "project" /\ c.then = "none" /\ c.got = W!ServicesNow(p)
  BY <1>1, NoCallIs, AnswersNow DEF AskedType, Ids
<1>3. QED
  BY <1>2, AnswersNow DEF AskedInv

LEMMA AskServiceIs ==
    ASSUME rows \in RowsType, NEW s \in ServiceIds \union {0}, NEW c \in W!AskService(s)
    PROVE  AskedInv(c) /\ c.kind = "service"
<1>1. s \in ServiceIds
      /\ c = [W!NoCall EXCEPT !.kind = "service", !.id = s, !.got = {s} \intersect rows.services,
                              !.list = W!ListNow(s)]
  BY DEF W!AskService
<1>2. {s} \intersect rows.services \subseteq Ids
  BY <1>1 DEF Ids
<1>3. /\ c \in AskedType /\ c.kind = "service" /\ c.then = "none" /\ c.id = s /\ c.list = W!ListNow(s)
  BY <1>1, <1>2, NoCallIs, ListNowIs DEF AskedType, Ids
<1>4. QED
  BY <1>1, <1>3, ListNowIs DEF AskedInv

LEMMA AskWatchedIs ==
    ASSUME NEW pg \in PageType, NEW c \in W!AskWatched(pg)
    PROVE  AskedInv(c) /\ c.kind = "observe" /\ c.watch = W!Watched(pg)
<1>1. c = [W!NoCall EXCEPT !.kind = "observe", !.watch = W!Watched(pg)]
  BY DEF W!AskWatched
<1>2. /\ c \in AskedType /\ c.kind = "observe" /\ c.then = "none" /\ c.watch = W!Watched(pg)
  BY <1>1, NoCallIs, WatchedType DEF AskedType
<1>3. QED
  BY <1>2 DEF AskedInv

\* What a render leaves: one service is shown, requests that are under way fit,
\* and watches are of what is observed; events and metrics are cleared, or are
\* those the step sets.
Rendered ==
    /\ page' \in PageType /\ OneService(page')
    /\ \A c \in asked' : AskedInv(c) /\ WatchInv(c, page')
    /\ W!Cardinality(asked') <= MaxAsked
    /\ WatchStep

LEMMA ShowsStep ==
    ASSUME PageInv, NEW set \in PageType, OneService(set),
           set.events \in {page.events, W!Watched(page)}, set.metrics \in {page.metrics, W!Watched(page)},
           NEW under, \A c \in under : AskedInv(c) /\ WatchInv(c, page),
           W!Shows(set, under)
    PROVE  Rendered
<1> DEFINE sel == W!AfterSelection(set)
           new == W!AfterWatch(sel)
<1>1. /\ page' = new
      /\ asked' = W!Uncancelled(new, under)
             \union (IF set.project # page.project THEN W!AskProject(set.project, set.service) ELSE {})
             \union (IF set.service # page.service THEN W!AskService(set.service) ELSE {})
             \union (IF W!Rewatches(new) THEN W!AskWatched(new) ELSE {})
      /\ W!Cardinality(asked') <= MaxAsked
  BY Zenon DEF W!Shows
<1>2. /\ sel \in PageType /\ OneService(sel) /\ sel.section = set.section
      /\ sel.events \in {set.events, <<0, 0>>} /\ sel.metrics \in {set.metrics, <<0, 0>>}
  BY SelectionIs
<1> HIDE DEF sel
<1>3. /\ new \in PageType /\ OneService(new)
      /\ new.events \in {sel.events, <<0, 0>>} /\ new.metrics \in {sel.metrics, <<0, 0>>}
  BY <1>2, AfterWatchIs
<1> HIDE DEF new
<1>4. rows \in RowsType /\ set.project \in ProjectIds \union {0} /\ set.service \in ServiceIds \union {0}
  BY DEF PageInv, PageType
<1>5. ASSUME NEW c \in asked' PROVE AskedInv(c) /\ WatchInv(c, new)
  <2>1. CASE c \in W!Uncancelled(new, under)
    <3>1. c \in under /\ AskedInv(c) /\ WatchInv(c, page)
      BY <2>1 DEF W!Uncancelled
    <3>2. CASE W!Rewatches(new)
      <4>1. c.kind # "observe"
        BY <2>1, <3>2 DEF W!Uncancelled
      <4>2. QED
        BY <3>1, <4>1 DEF WatchInv
    <3>3. CASE ~W!Rewatches(new)
      <4>1. W!Watched(new) = W!Watched(page)
        BY <3>3 DEF W!Rewatches, W!Watched
      <4>2. QED
        BY <3>1, <4>1 DEF WatchInv
    <3>4. QED
      BY <3>2, <3>3
  <2>2. CASE c \in W!AskProject(set.project, set.service)
    BY <1>4, <2>2, AskProjectIs DEF WatchInv
  <2>3. CASE c \in W!AskService(set.service)
    BY <1>4, <2>3, AskServiceIs DEF WatchInv
  <2>4. CASE c \in W!AskWatched(new)
    BY <1>3, <2>4, AskWatchedIs DEF WatchInv
  <2>5. QED
    BY <1>1, <1>5, <2>1, <2>2, <2>3, <2>4
<1>6. WatchStep
  BY <1>1, <1>2, <1>3 DEF WatchStep
<1>7. QED
  BY <1>1, <1>3, <1>5, <1>6 DEF Rendered

\* A step that renders, and leaves the server's tables in order, keeps the invariant.
LEMMA RenderedKeeps ==
    ASSUME Rendered, rows' \in RowsType, events' \in 0..MaxEvents
    PROVE  PageInv' /\ WatchStep
BY DEF Rendered, PageInv

LEMMA CountedIs == PageInv /\ W!Counted => events' \in 0..MaxEvents
BY ConsoleIds DEF PageInv, W!Counted

\* fields of the page
LEMMA PageFields ==
    ASSUME PageInv
    PROVE  /\ rows \in RowsType /\ page \in PageType /\ OneService(page) /\ events \in 0..MaxEvents
           /\ \A c \in asked : AskedInv(c) /\ WatchInv(c, page)
           /\ page.project \in ProjectIds \union {0} /\ page.service \in ServiceIds \union {0}
           /\ page.projects \subseteq ProjectIds /\ page.listed \subseteq ServiceIds
BY DEF PageInv, PageType

-----------------------------------------------------------------------------
(* Events of the page *)

LEMMA PickStep ==
    ASSUME PageInv,
           \/ \E p \in ProjectIds : W!PickProject(p)
           \/ \E s \in ServiceIds \union {0} : W!PickService(s)
           \/ \E x \in {"overview", "observability"} : W!OpenSection(x)
    PROVE  PageInv' /\ WatchStep
<1>1. ASSUME NEW set \in PageType, OneService(set), set.events = page.events, set.metrics = page.metrics,
             W!Shows(set, asked), UNCHANGED rows, W!Counted
      PROVE  PageInv' /\ WatchStep
  <2>1. Rendered
    BY <1>1, PageFields, ShowsStep
  <2>2. QED
    BY <1>1, <2>1, CountedIs, PageFields, RenderedKeeps
<1>2. ASSUME NEW p \in ProjectIds, W!PickProject(p) PROVE PageInv' /\ WatchStep
  <2> DEFINE set == [page EXCEPT !.project = p, !.service = 0]
  <2>1. set \in PageType /\ OneService(set) /\ set.events = page.events /\ set.metrics = page.metrics
    BY PageFields DEF PageType, OneService
  <2>2. W!Shows(set, asked) /\ UNCHANGED rows /\ W!Counted
    BY <1>2 DEF W!PickProject
  <2> HIDE DEF set
  <2>3. QED
    BY <1>1, <2>1, <2>2
<1>3. ASSUME NEW s \in ServiceIds \union {0}, W!PickService(s) PROVE PageInv' /\ WatchStep
  <2> DEFINE set == [page EXCEPT !.service = s]
  <2>1. set \in PageType /\ OneService(set) /\ set.events = page.events /\ set.metrics = page.metrics
    BY PageFields DEF PageType, OneService
  <2>2. W!Shows(set, asked) /\ UNCHANGED rows /\ W!Counted
    BY <1>3 DEF W!PickService
  <2> HIDE DEF set
  <2>3. QED
    BY <1>1, <2>1, <2>2
<1>4. ASSUME NEW x \in {"overview", "observability"}, W!OpenSection(x) PROVE PageInv' /\ WatchStep
  <2> DEFINE set == [page EXCEPT !.section = x]
  <2>1. set \in PageType /\ OneService(set) /\ set.events = page.events /\ set.metrics = page.metrics
    BY PageFields DEF PageType, OneService
  <2>2. W!Shows(set, asked) /\ UNCHANGED rows /\ W!Counted
    BY <1>4 DEF W!OpenSection
  <2> HIDE DEF set
  <2>3. QED
    BY <1>1, <2>1, <2>2
<1>5. QED
  BY <1>2, <1>3, <1>4

LEMMA PollStep ==
    ASSUME PageInv, W!Poll
    PROVE  PageInv' /\ WatchStep
<1>1. PICK more \in {W!AskWorkspace(page.project), W!AskService(page.service), W!AskWatched(page)} :
         W!Shows(page, asked \union more)
  BY DEF W!Poll
<1>2. ASSUME NEW c \in more PROVE AskedInv(c) /\ WatchInv(c, page)
  <2>1. CASE more = W!AskWorkspace(page.project)
    BY <1>2, <2>1, PageFields, AskWorkspaceIs DEF WatchInv
  <2>2. CASE more = W!AskService(page.service)
    BY <1>2, <2>2, PageFields, AskServiceIs DEF WatchInv
  <2>3. CASE more = W!AskWatched(page)
    BY <1>2, <2>3, PageFields, AskWatchedIs DEF WatchInv
  <2>4. QED
    BY <2>1, <2>2, <2>3
<1>3. \A c \in asked \union more : AskedInv(c) /\ WatchInv(c, page)
  BY <1>2, PageFields
<1>4. Rendered
  BY <1>1, <1>3, PageFields, ShowsStep
<1>5. W!Counted /\ rows' = rows
  BY DEF W!Poll
<1>6. QED
  BY <1>4, <1>5, CountedIs, PageFields, RenderedKeeps

\* A button sends a request.
LEMMA ActingStep ==
    ASSUME PageInv, NEW c \in AskedType, W!Acting(c), rows' \in RowsType,
           c.kind \in {"projects", "services", "deployments"},
           c.kind = "projects" /\ c.then = "select" => c.made \in ProjectIds,
           c.kind = "services" /\ c.then = "select" => c.made \in ServiceIds,
           c.kind = "deployments" => c.id \in ServiceIds
    PROVE  PageInv' /\ WatchStep
<1> DEFINE set == [page EXCEPT !.busy = TRUE]
           call == [c EXCEPT !.act = TRUE]
<1>1. W!Shows(set, asked \union {call}) /\ W!Counted
  BY DEF W!Acting
<1>2. set \in PageType /\ OneService(set) /\ set.events = page.events /\ set.metrics = page.metrics
  BY PageFields DEF PageType, OneService
<1>3. /\ call \in AskedType /\ call.kind = c.kind /\ call.then = c.then /\ call.made = c.made
      /\ call.id = c.id
  BY DEF AskedType
<1> HIDE DEF set, call
<1>4. AskedInv(call) /\ WatchInv(call, page)
  BY <1>3 DEF AskedInv, WatchInv
<1>5. \A d \in asked \union {call} : AskedInv(d) /\ WatchInv(d, page)
  BY <1>4, PageFields
<1>6. Rendered
  BY <1>1, <1>2, <1>5, ShowsStep
<1>7. QED
  BY <1>1, <1>6, CountedIs, RenderedKeeps

LEMMA ActOnIs ==
    ASSUME PageInv, NEW kind \in {"projects", "services", "deployments"},
           NEW then \in {"none", "select", "leave", "overview", "stay"}
    PROVE  LET c == W!ActOn(kind, then)
           IN  /\ c \in AskedType /\ c.kind = kind /\ c.then = then /\ c.id = page.service
               /\ \A n \in Ids : /\ [c EXCEPT !.made = n] \in AskedType
                                 /\ [c EXCEPT !.made = n].kind = kind /\ [c EXCEPT !.made = n].then = then
                                 /\ [c EXCEPT !.made = n].made = n
<1> DEFINE c == W!ActOn(kind, then)
<1>1. page.service \in Ids /\ page.project \in Ids
  BY PageFields DEF Ids
<1>2. c = [W!NoCall EXCEPT !.kind = kind, !.id = page.service, !.sel = page.project, !.then = then]
  BY DEF W!ActOn
<1>3. c \in AskedType /\ c.kind = kind /\ c.then = then /\ c.id = page.service
  BY <1>1, <1>2, NoCallIs DEF AskedType
<1> HIDE DEF c
<1>4. ASSUME NEW n \in Ids
      PROVE  /\ [c EXCEPT !.made = n] \in AskedType
             /\ [c EXCEPT !.made = n].kind = kind /\ [c EXCEPT !.made = n].then = then
             /\ [c EXCEPT !.made = n].made = n
  BY <1>3 DEF AskedType
<1>5. QED
  BY <1>3, <1>4 DEF c

LEMMA CreateStep ==
    ASSUME PageInv, (\E p \in ProjectIds : W!CreateProject(p)) \/ \E s \in ServiceIds : W!CreateService(s)
    PROVE  PageInv' /\ WatchStep
<1>1. ASSUME NEW p \in ProjectIds, W!CreateProject(p) PROVE PageInv' /\ WatchStep
  <2> DEFINE c == [W!ActOn("projects", "select") EXCEPT !.made = p]
  <2>1. W!Acting(c) /\ rows' = [rows EXCEPT !.projects = @ \union {p}]
    BY <1>1 DEF W!CreateProject
  <2>2. rows' \in RowsType
    BY <2>1, PageFields DEF RowsType
  <2>3. c \in AskedType /\ c.kind = "projects" /\ c.made = p
    BY ActOnIs DEF Ids
  <2> HIDE DEF c
  <2>4. QED
    BY <2>1, <2>2, <2>3, ActingStep
<1>2. ASSUME NEW s \in ServiceIds, W!CreateService(s) PROVE PageInv' /\ WatchStep
  <2> DEFINE c == [W!ActOn("services", "select") EXCEPT !.made = s]
  <2>1. W!Acting(c) /\ rows' = [rows EXCEPT !.services = @ \union {s}]
    BY <1>2 DEF W!CreateService
  <2>2. rows' \in RowsType
    BY <2>1, PageFields DEF RowsType
  <2>3. c \in AskedType /\ c.kind = "services" /\ c.made = s
    BY ActOnIs DEF Ids
  <2> HIDE DEF c
  <2>4. QED
    BY <2>1, <2>2, <2>3, ActingStep
<1>3. QED
  BY <1>1, <1>2

LEMMA ArchiveStep ==
    ASSUME PageInv, W!ArchiveProject \/ W!ArchiveService
    PROVE  PageInv' /\ WatchStep
<1>1. CASE W!ArchiveProject
  <2>1. /\ W!Acting(W!ActOn("projects", "leave")) /\ page.project \in rows.projects
        /\ rows' = [rows EXCEPT !.projects = @ \ {page.project}, !.gone = @ \union {page.project},
                                !.services = @ \ W!ServicesNow(page.project),
                                !.left = @ \union W!ServicesNow(page.project)]
    BY <1>1 DEF W!ArchiveProject
  <2>2. rows' \in RowsType
    BY <2>1, PageFields, AnswersNow DEF RowsType
  <2>3. QED
    BY <2>1, <2>2, ActOnIs, ActingStep
<1>2. CASE W!ArchiveService
  <2>1. /\ W!Acting(W!ActOn("services", "leave")) /\ page.service \in rows.services
        /\ rows' = [rows EXCEPT !.services = @ \ {page.service}, !.left = @ \union {page.service}]
    BY <1>2 DEF W!ArchiveService
  <2>2. rows' \in RowsType
    BY <2>1, PageFields DEF RowsType
  <2>3. QED
    BY <2>1, <2>2, ActOnIs, ActingStep
<1>3. QED
  BY <1>1, <1>2

LEMMA DeployIsStep ==
    ASSUME PageInv, W!Deploy \/ W!ActOnNodes
    PROVE  PageInv' /\ WatchStep
<1>1. CASE W!Deploy
  <2>1. /\ W!Acting(W!ActOn("deployments", "overview")) /\ page.service \in rows.services
        /\ rows.count[page.service] < MaxShown
        /\ rows' = [rows EXCEPT !.count[page.service] = @ + 1]
    BY <1>1 DEF W!Deploy
  <2>2. page.service \in ServiceIds /\ rows.count \in [ServiceIds -> 0..MaxShown]
    BY <2>1, PageFields DEF RowsType
  <2>3. [rows.count EXCEPT ![page.service] = @ + 1] \in [ServiceIds -> 0..MaxShown]
    BY <2>1, <2>2, ConsoleIds
  <2>4. rows' \in RowsType
    BY <2>1, <2>3, PageFields DEF RowsType
  <2>5. QED
    BY <2>1, <2>2, <2>4, ActOnIs, ActingStep
<1>2. CASE W!ActOnNodes
  <2>1. W!Acting(W!ActOn("projects", "stay")) /\ rows' = rows
    BY <1>2 DEF W!ActOnNodes
  <2>2. QED
    BY <2>1, PageFields, ActOnIs, ActingStep
<1>3. QED
  BY <1>1, <1>2

LEMMA ReadyStep ==
    ASSUME PageInv, NEW s \in ServiceIds, W!BecomesReady(s)
    PROVE  PageInv' /\ WatchStep
<1>1. /\ rows' = [rows EXCEPT !.ready[s] = rows.count[s]] /\ page' = page /\ asked' = asked /\ W!Counted
  BY DEF W!BecomesReady
<1>2. rows.count[s] \in 0..MaxShown /\ rows.ready \in [ServiceIds -> 0..MaxShown]
  BY PageFields DEF RowsType
<1>3. [rows.ready EXCEPT ![s] = rows.count[s]] \in [ServiceIds -> 0..MaxShown]
  BY <1>2
<1>4. rows' \in RowsType
  BY <1>1, <1>3, PageFields DEF RowsType
<1>5. WatchStep
  BY <1>1 DEF WatchStep
<1>6. QED
  BY <1>1, <1>4, <1>5, CountedIs DEF PageInv

-----------------------------------------------------------------------------
(* Answers *)

\* what an answer may set
AnswerSet(set) ==
    /\ set \in PageType /\ OneService(set)
    /\ set.events \in {page.events, W!Watched(page)} /\ set.metrics \in {page.metrics, W!Watched(page)}

LEMMA EndedIs ==
    ASSUME NEW c, NEW set, AnswerSet(set)
    PROVE  AnswerSet(W!Ended(c, set))
<1>1. set \in PageType /\ [set EXCEPT !.busy = FALSE] \in PageType
      /\ [set EXCEPT !.busy = FALSE].events = set.events /\ [set EXCEPT !.busy = FALSE].metrics = set.metrics
      /\ OneService([set EXCEPT !.busy = FALSE])
  BY DEF AnswerSet, PageType, OneService
<1>2. QED
  BY <1>1 DEF AnswerSet, W!Ended

\* An answer that is the end of its request.
LEMMA LastAnswerStep ==
    ASSUME PageInv, NEW c, NEW set, AnswerSet(set), W!Shows(set, asked \ {c}), UNCHANGED <<rows, events>>
    PROVE  PageInv' /\ WatchStep
<1>1. \A d \in asked \ {c} : AskedInv(d) /\ WatchInv(d, page)
  BY PageFields
<1>2. Rendered
  BY <1>1, ShowsStep DEF AnswerSet
<1>3. QED
  BY <1>2, PageFields, RenderedKeeps

\* The answer of an act: the refresh that follows is for the scope of the act.
LEMMA ActAnsweredStep ==
    ASSUME PageInv, NEW c \in asked, W!ActAnswered(c)
    PROVE  PageInv' /\ WatchStep
<1>1. AskedInv(c) /\ c \in AskedType /\ rows \in RowsType
  BY PageFields DEF AskedInv
<1>2. UNCHANGED <<rows, events>>
  BY DEF W!ActAnswered
<1>3. ASSUME NEW set, AnswerSet(set), NEW next, AskedInv(next), next.kind # "observe",
             W!Shows(set, (asked \ {c}) \union {next})
      PROVE  PageInv' /\ WatchStep
  <2>1. \A d \in (asked \ {c}) \union {next} : AskedInv(d) /\ WatchInv(d, page)
    BY <1>3, PageFields DEF WatchInv
  <2>2. Rendered
    BY <1>3, <2>1, ShowsStep DEF AnswerSet
  <2>3. QED
    BY <1>2, <2>2, PageFields, RenderedKeeps
<1>4. /\ AnswerSet(page)
      /\ AnswerSet([page EXCEPT !.project = 0]) /\ AnswerSet([page EXCEPT !.service = 0])
  <2>1. AnswerSet(page)
    BY PageFields DEF AnswerSet
  <2>2. AnswerSet([page EXCEPT !.project = 0])
    BY PageFields DEF AnswerSet, PageType, OneService
  <2>3. AnswerSet([page EXCEPT !.service = 0])
    BY PageFields DEF AnswerSet, PageType, OneService
  <2>4. QED
    BY <2>1, <2>2, <2>3
<1>5. CASE c.kind = "projects"
  <2> DEFINE set == IF c.then = "leave" THEN [page EXCEPT !.project = 0] ELSE page
             base == [c EXCEPT !.kind = "workspace", !.got = W!ProjectsNow, !.id = 0]
  <2>1. W!Shows(set, (asked \ {c}) \union {base})
    BY <1>5, Zenon DEF W!ActAnswered
  <2>2. /\ base \in AskedType /\ base.kind = "workspace" /\ base.got = W!ProjectsNow
        /\ base.then = c.then /\ base.made = c.made
    BY <1>1, AnswersNow DEF AskedType, Ids
  <2>3. AnswerSet(set)
    BY <1>4
  <2> HIDE DEF base, set
  <2>4. AskedInv(base)
    BY <1>1, <1>5, <2>2, AnswersNow DEF AskedInv
  <2>5. QED
    BY <1>3, <2>1, <2>2, <2>3, <2>4
<1>6. CASE c.kind = "services"
  <2> DEFINE set == IF c.then = "leave" THEN [page EXCEPT !.service = 0] ELSE page
             base == [c EXCEPT !.kind = "project", !.id = c.sel, !.sel = c.id, !.got = W!ServicesNow(c.sel)]
  <2>1. W!Shows(set, (asked \ {c}) \union {base})
    BY <1>6, Zenon DEF W!ActAnswered
  <2>2. /\ base \in AskedType /\ base.kind = "project" /\ base.got = W!ServicesNow(c.sel)
        /\ base.then = c.then /\ base.made = c.made
    BY <1>1, AnswersNow DEF AskedType, Ids
  <2>3. AnswerSet(set)
    BY <1>4
  <2> HIDE DEF base, set
  <2>4. AskedInv(base)
    BY <1>1, <1>6, <2>2, AnswersNow DEF AskedInv
  <2>5. QED
    BY <1>3, <2>1, <2>2, <2>3, <2>4
<1>7. CASE c.kind = "deployments"
  <2> DEFINE base == [c EXCEPT !.kind = "service", !.got = {c.id} \intersect rows.services,
                               !.list = W!ListNow(c.id)]
  <2>1. W!Shows(page, (asked \ {c}) \union {base})
    BY <1>7, Zenon DEF W!ActAnswered
  <2>2. c.id \in ServiceIds
    BY <1>1, <1>7 DEF AskedInv
  <2>3. W!ListNow(c.id) \in W!Lists /\ W!ListNow(c.id).of = c.id /\ {c.id} \intersect rows.services \subseteq Ids
    BY <1>1, <2>2, ListNowIs DEF Ids
  <2>4. base \in AskedType /\ base.kind = "service" /\ base.id = c.id /\ base.list = W!ListNow(c.id)
    BY <1>1, <2>3 DEF AskedType
  <2> HIDE DEF base
  <2>5. AskedInv(base)
    BY <2>2, <2>3, <2>4 DEF AskedInv
  <2>6. QED
    BY <1>3, <1>4, <2>1, <2>4, <2>5
<1>8. QED
  BY <1>5, <1>6, <1>7 DEF W!ActAnswered

\* The selection stays, or is something the answer has, or what was made.
LEMMA ProjectsAnsweredStep ==
    ASSUME PageInv, NEW c \in asked, W!ProjectsAnswered(c)
    PROVE  PageInv' /\ WatchStep
<1> DEFINE kept == [page EXCEPT !.projects = c.got, !.project = IF c.sel \in c.got THEN @ ELSE W!Least(c.got)]
           set == IF c.then = "select" THEN [kept EXCEPT !.project = c.made] ELSE kept
<1>1. c.kind = "workspace" /\ W!Shows(W!Ended(c, set), asked \ {c}) /\ UNCHANGED <<rows, events>>
  BY Zenon DEF W!ProjectsAnswered
<1>2. /\ c.got \subseteq ProjectIds /\ (c.then = "select" => c.made \in ProjectIds)
      /\ W!Least(c.got) \in ProjectIds \union {0}
  <2>1. c.got \subseteq ProjectIds /\ (c.then = "select" => c.made \in ProjectIds)
    BY <1>1, PageFields DEF AskedInv
  <2>2. QED
    BY <2>1, LeastOf
<1>3. AnswerSet(kept)
  BY <1>2, PageFields DEF AnswerSet, PageType, OneService
<1> HIDE DEF kept
<1>4. AnswerSet(set)
  BY <1>2, <1>3 DEF AnswerSet, PageType, OneService
<1> HIDE DEF set
<1>5. QED
  BY <1>1, <1>4, EndedIs, LastAnswerStep

LEMMA ServicesAnsweredStep ==
    ASSUME PageInv, NEW c \in asked, W!ServicesAnswered(c)
    PROVE  PageInv' /\ WatchStep
<1> DEFINE kept == [page EXCEPT !.listed = c.got, !.service = IF c.sel \in c.got THEN @ ELSE W!Least(c.got)]
           set == IF c.then = "select" THEN [kept EXCEPT !.service = c.made] ELSE kept
<1>1. c.kind = "project" /\ W!Shows(W!Ended(c, set), asked \ {c}) /\ UNCHANGED <<rows, events>>
  BY Zenon DEF W!ServicesAnswered
<1>2. /\ c.got \subseteq ServiceIds /\ (c.then = "select" => c.made \in ServiceIds)
      /\ W!Least(c.got) \in ServiceIds \union {0}
  <2>1. c.got \subseteq ServiceIds /\ (c.then = "select" => c.made \in ServiceIds)
    BY <1>1, PageFields DEF AskedInv
  <2>2. QED
    BY <2>1, LeastOf
<1>3. AnswerSet(kept)
  BY <1>2, PageFields DEF AnswerSet, PageType, OneService
<1> HIDE DEF kept
<1>4. AnswerSet(set)
  BY <1>2, <1>3 DEF AnswerSet, PageType, OneService
<1> HIDE DEF set
<1>5. QED
  BY <1>1, <1>4, EndedIs, LastAnswerStep

\* The three answers of a service are set together.
LEMMA ServiceAnsweredStep ==
    ASSUME PageInv, NEW c \in asked, W!ServiceAnswered(c)
    PROVE  PageInv' /\ WatchStep
<1> DEFINE set == [page EXCEPT !.deployments = c.list, !.variables = c.id, !.domains = c.id,
                               !.section = IF c.then = "overview" THEN "overview" ELSE @]
<1>1. c.kind = "service" /\ W!Shows(W!Ended(c, set), asked \ {c}) /\ UNCHANGED <<rows, events>>
  BY Zenon DEF W!ServiceAnswered
<1>2. c.id \in ServiceIds /\ c.list \in W!Lists /\ c.list.of = c.id
  BY <1>1, PageFields DEF AskedInv, AskedType
<1>3. AnswerSet(set)
  BY <1>2, PageFields DEF AnswerSet, PageType, OneService
<1> HIDE DEF set
<1>4. QED
  BY <1>1, <1>3, EndedIs, LastAnswerStep

LEMMA WatchAnsweredStep ==
    ASSUME PageInv, NEW c \in asked, W!WatchAnswered(c)
    PROVE  PageInv' /\ WatchStep
<1>1. c.kind = "observe" /\ UNCHANGED <<rows, events>>
  BY DEF W!WatchAnswered
<1>2. PICK got \in SUBSET {"events", "metrics"} :
         W!Shows([page EXCEPT !.events = IF "events" \in got THEN c.watch ELSE @,
                              !.metrics = IF "metrics" \in got THEN c.watch ELSE @], asked \ {c})
  BY DEF W!WatchAnswered
<1> DEFINE set == [page EXCEPT !.events = IF "events" \in got THEN c.watch ELSE @,
                               !.metrics = IF "metrics" \in got THEN c.watch ELSE @]
<1>3. c.watch = W!Watched(page) /\ c.watch \in W!Watches
  BY <1>1, PageFields, WatchedType DEF WatchInv
<1>4. set \in PageType /\ OneService(set)
  BY <1>3, PageFields DEF PageType, OneService
<1>5. set.events \in {page.events, c.watch} /\ set.metrics \in {page.metrics, c.watch}
  BY PageFields DEF PageType
<1> HIDE DEF set
<1>6. AnswerSet(set)
  BY <1>3, <1>4, <1>5 DEF AnswerSet
<1>7. QED
  BY <1>1, <1>2, <1>6, LastAnswerStep DEF set

LEMMA FailsStep ==
    ASSUME PageInv, NEW c \in asked, W!Fails(c)
    PROVE  PageInv' /\ WatchStep
<1>1. W!Shows(W!Ended(c, page), asked \ {c}) /\ UNCHANGED <<rows, events>>
  BY DEF W!Fails
<1>2. AnswerSet(page)
  BY PageFields DEF AnswerSet
<1>3. QED
  BY <1>1, <1>2, EndedIs, LastAnswerStep

LEMMA PageStep ==
    ASSUME PageInv, [W!Next]_W!vars
    PROVE  PageInv' /\ WatchStep
<1>1. CASE W!Next
  BY <1>1, PickStep, PollStep, CreateStep, ArchiveStep, DeployIsStep, ReadyStep, ActAnsweredStep,
     ProjectsAnsweredStep, ServicesAnsweredStep, ServiceAnsweredStep, WatchAnsweredStep, FailsStep
     DEF W!Next
<1>2. CASE UNCHANGED W!vars
  <2>1. UNCHANGED <<rows, page, asked, events>>
    BY <1>2 DEF W!vars
  <2>2. QED
    BY <2>1 DEF PageInv, WatchStep
<1>3. QED
  BY <1>1, <1>2

\* A page that is loaded sends three requests at most.
LEMMA PageStart == W!Init => PageInv
<1> SUFFICES ASSUME W!Init PROVE PageInv
  OBVIOUS
<1>1. rows \in RowsType
  BY ConsoleIds DEF W!Init, RowsType
<1>2. page \in PageType /\ OneService(page) /\ page.deployments = W!NoList
  BY ConsoleIds, NoListIs DEF W!Init, PageType, OneService
<1>3. page.project \in ProjectIds \union {0} /\ page.service \in ServiceIds \union {0}
  BY <1>2 DEF PageType
<1>4. asked = W!AskWorkspace(page.project) \union W!AskProject(page.project, page.service)
                 \union W!AskService(page.service)
  BY DEF W!Init
<1>5. ASSUME NEW c \in asked PROVE AskedInv(c) /\ WatchInv(c, page)
  BY <1>1, <1>3, <1>4, <1>5, AskWorkspaceIs, AskProjectIs, AskServiceIs DEF WatchInv
<1>6. W!Cardinality(asked) <= MaxAsked
  <2>1. PICK a : W!AskWorkspace(page.project) \subseteq {a}
    BY DEF W!AskWorkspace
  <2>2. PICK b : W!AskProject(page.project, page.service) \subseteq {b}
    BY DEF W!AskProject
  <2>3. PICK d : W!AskService(page.service) \subseteq {d}
    BY DEF W!AskService
  <2>4. IsFiniteSet({}) /\ Cardinality({}) = 0
    BY FS_EmptySet
  <2>5. IsFiniteSet({a}) /\ Cardinality({a}) \in 0..1
    BY <2>4, FS_AddElement
  <2>6. IsFiniteSet({a} \union {b}) /\ Cardinality({a} \union {b}) \in 0..2
    BY <2>5, FS_AddElement
  <2>7. IsFiniteSet({a} \union {b} \union {d}) /\ Cardinality({a} \union {b} \union {d}) \in 0..3
    BY <2>6, FS_AddElement
  <2>8. asked \subseteq {a} \union {b} \union {d}
    BY <1>4, <2>1, <2>2, <2>3
  <2>9. IsFiniteSet(asked) /\ Cardinality(asked) <= Cardinality({a} \union {b} \union {d})
    BY <2>7, <2>8, FS_Subset
  <2>10. Cardinality(asked) \in Nat
    BY <2>9, FS_CardinalityType
  <2>11. W!Cardinality(asked) = Cardinality(asked)
    BY SameCardinalities
  <2>12. QED
    BY <2>7, <2>9, <2>10, <2>11, ConsoleIds
<1>7. events \in 0..MaxEvents
  BY ConsoleIds DEF W!Init
<1>8. QED
  BY <1>1, <1>2, <1>5, <1>6, <1>7 DEF PageInv

-----------------------------------------------------------------------------
(* ConsoleHolds *)

\* WebConsole by itself: whatever answers come late, the page shows the
\* deployments, variables and domains of one service (refreshServiceScope), and
\* events and metrics of what it observes now (CanonicalApp).
THEOREM WebConsoleIsHeld == W!Spec => [](W!TypeOK /\ W!ShowsOneService) /\ W!WatchesOne
<1>1. W!Init => PageInv
  BY PageStart
<1>2. PageInv /\ [W!Next]_W!vars => PageInv' /\ WatchStep
  BY PageStep
<1>3. PageInv => W!TypeOK /\ W!ShowsOneService
  BY PageFollows
<1>4. QED
  BY <1>1, <1>2, <1>3, PTL DEF W!Spec, W!WatchesOne, WatchStep

\* ImportPanel by itself: what is shown as queued has its deployment and its push
\* autodeploy (deployService of GitHubConnectPanel), unless a run was overtaken.
THEOREM ImportPanelIsHeld == P!Spec => [](P!TypeOK /\ P!QueuedIsEnabled)
<1>1. P!Init => ImportInv
  BY ImportStart
<1>2. ImportInv /\ [P!Next]_P!vars => ImportInv'
  BY ImportStep
<1>3. ImportInv => P!TypeOK /\ P!QueuedIsEnabled
  BY ImportFollows
<1>4. QED
  BY <1>1, <1>2, <1>3, PTL DEF P!Spec

\* The same of the behaviours ClientsMC checks, in which the console, its panel
\* or the MCP server moves.
THEOREM ConsoleIsHeld == FocusedSpec => ConsoleHolds
<1> DEFINE all_vars == <<vars, focus, rows, page, asked, events, panel, all, runs, enabled, queued, overtaken>>
<1>1. FocusedInit => PageInv /\ ImportInv
  BY PageStart, ImportStart DEF FocusedInit, ConsoleInit
<1>2. PageInv /\ ImportInv /\ [FocusedNext]_all_vars => PageInv' /\ ImportInv' /\ WatchStep
  <2>1. ASSUME [FocusedNext]_all_vars PROVE [W!Next]_W!vars /\ [P!Next]_P!vars
    <3>1. CASE focus \in {"operations", "calls"} /\ Next /\ ConsoleRests /\ PanelRests /\ UNCHANGED focus
      BY <3>1 DEF ConsoleRests, PanelRests, W!vars, P!vars
    <3>2. CASE focus = "console" /\ W!Next /\ McpRests /\ PanelRests /\ UNCHANGED focus
      BY <3>2 DEF PanelRests, P!vars
    <3>3. CASE focus = "import" /\ P!Next /\ McpRests /\ ConsoleRests /\ UNCHANGED focus
      BY <3>3 DEF ConsoleRests, W!vars
    <3>4. CASE UNCHANGED all_vars
      BY <3>4 DEF W!vars, P!vars
    <3>5. QED
      BY <2>1, <3>1, <3>2, <3>3, <3>4 DEF FocusedNext
  <2>2. QED
    BY <2>1, PageStep, ImportStep
<1>3. PageInv /\ ImportInv => W!TypeOK /\ W!ShowsOneService /\ P!TypeOK /\ P!QueuedIsEnabled
  BY PageFollows, ImportFollows
<1>4. QED
  BY <1>1, <1>2, <1>3, PTL DEF FocusedSpec, ConsoleHolds, W!WatchesOne, WatchStep

=============================================================================
