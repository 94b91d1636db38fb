------------------------------ MODULE McpServer ------------------------------
(***************************************************************************)
(* The MCP server of the API: who may call its tools (mcp-http.ts), the    *)
(* built-in authorization server (mcp-builtin-oauth.ts), the read-only     *)
(* tools, which go through Operations (mcp-readonly-catalog.ts,            *)
(* mcp-resource-access.ts), and the control tools, which call the API with *)
(* the control token (mcp-control-tools.ts).                               *)
(*                                                                         *)
(* Codes and signing keys are in memory and die with the process; refresh  *)
(* tokens are rows.  A client is who made the PKCE verifier and owns the   *)
(* redirect URI; a request may claim any client, code, redirect and        *)
(* verifier.  Tokens of an external issuer are left to the issuer.         *)
(***************************************************************************)
EXTENDS Operations, Sequences, TLC

CONSTANTS
    Modes,          \* authMode of the configuration
    Clients,
    Diagnostics,    \* <<operation, resource>> of the read-only tools
    CodeLife, AccessLife, RefreshLife,
    MaxConsents,    \* bound: codes issued
    MaxTokens,      \* bound: access tokens
    MaxCalls        \* bound: tool calls

ASSUME DiagnosticsAssumption ==
    Diagnostics \subseteq Names \X Resources /\ \A d \in Diagnostics : BaseRisk[d[1]] = ReadOnly
ASSUME LivesAssumption == CodeLife \in Nat /\ AccessLife \in Nat /\ RefreshLife \in Nat
ASSUME TokensAssumption == MaxTokens \in Nat

VARIABLES
    mode,
    grants,         \* resources of mcp_resource_grants for the operator's subject
    registered,     \* mcp_oauth_clients
    consents,       \* what the authorization page was sent, with the code it returned
    codes,          \* codes of this process's Map, as indices of consents
    exchanging,     \* codes taken out of the Map, before their refresh token is stored
    refresh,        \* mcp_oauth_refresh_tokens, in the order they were stored
    access,         \* access tokens issued
    key,            \* which process signs
    reads,          \* for requests of read-only tools: whether the resource was granted
    changes         \* what control tools changed

mcpVars == <<mode, grants, registered, consents, codes, exchanging, refresh, access, key, reads, changes>>
oauthVars == <<registered, consents, codes, exchanging, refresh, access>>
vars == <<opVars, mcpVars>>

Scopes == {"operator", "other"}
Consent == [client : Clients, redirect : Clients, challenge : Clients, scope : Scopes,
            code : BOOLEAN, expires : Nat]
NoToken == 0

TypeOK ==
    /\ OperationsTypeOK
    /\ mode \in Modes
    /\ grants \subseteq Resources /\ registered \subseteq Clients
    /\ consents \in Seq(Consent)
    /\ codes \subseteq DOMAIN consents
    /\ exchanging \subseteq [consent : DOMAIN consents, by : Clients]
    /\ refresh \in Seq([consent : DOMAIN consents, client : Clients, by : Clients, expires : Nat])
    /\ access \in Seq([consent : DOMAIN consents, scope : Scopes, key : Nat, expires : Nat])
    /\ key \in Nat
    /\ reads \in [Requests -> BOOLEAN]
    /\ changes \in Seq([token : 0..MaxTokens, key : Nat])

McpInit ==
    /\ mode \in Modes
    /\ grants = Resources /\ registered = {}
    /\ consents = <<>> /\ codes = {} /\ exchanging = {} /\ refresh = <<>> /\ access = <<>>
    /\ key = 0 /\ reads = [r \in Requests |-> TRUE] /\ changes = <<>>

Init == OperationsInit /\ McpInit

-----------------------------------------------------------------------------
(* The built-in authorization server *)

BuiltIn == mode = "oauth-builtin" /\ UNCHANGED <<opVars, mode, grants, key, reads, changes>>

Register(c) ==
    /\ BuiltIn
    /\ registered' = registered \union {c}
    /\ UNCHANGED <<consents, codes, exchanging, refresh, access>>

\* POST /oauth/authorize: the page is shown for the operator's scope, but what
\* is posted may name another.  `operator': the connector code was right.
Authorize(client, redirect, challenge, scope, operator) ==
    /\ BuiltIn
    /\ Len(consents) < MaxConsents
    /\ client \in registered /\ redirect = client
    /\ operator
    /\ consents' = Append(consents, [client |-> client, redirect |-> redirect, challenge |-> challenge,
                                     scope |-> scope, code |-> operator, expires |-> now + CodeLife])
    /\ codes' = codes \union {Len(consents) + 1}
    /\ UNCHANGED <<registered, exchanging, refresh, access>>

\* Mutant: only a code that was refused is taken out of the Map.
ForgetRefused(code, valid) == IF valid THEN codes ELSE codes \ {code}
Forget(code, valid) == codes \ {code}

GrantedTo(code, client, redirect, verifier) ==
    LET grant == consents[code]
    IN  grant.client = client /\ grant.redirect = redirect /\ grant.challenge = verifier

\* POST /oauth/token with a code: it is taken out of the Map before anything
\* about the request is compared, and all of it before the first await
Exchange(code, client, redirect, verifier) ==
    LET valid == consents[code].expires >= now /\ GrantedTo(code, client, redirect, verifier)
    IN  /\ BuiltIn
        /\ code \in codes
        /\ codes' = Forget(code, valid)
        /\ exchanging' = IF valid THEN exchanging \union {[consent |-> code, by |-> verifier]} ELSE exchanging
        /\ UNCHANGED <<registered, consents, refresh, access>>

Minted(consent, scope) ==
    Append(access, [consent |-> consent, scope |-> scope, key |-> key, expires |-> now + AccessLife])

\* ... the refresh token is stored, or that fails, and both tokens are answered
StoreRefresh(x, outcome) ==
    LET grant == consents[x.consent]
    IN  /\ mode = "oauth-builtin"
        /\ Len(access) < MaxTokens
        /\ x \in exchanging /\ exchanging' = exchanging \ {x}
        /\ refresh' = IF Takes(outcome)
              THEN Append(refresh, [consent |-> x.consent, client |-> grant.client, by |-> x.by,
                                    expires |-> now + RefreshLife])
              ELSE refresh
        /\ access' = IF outcome = "answered" THEN Minted(x.consent, grant.scope) ELSE access
        /\ Statement(outcome)
        /\ UNCHANGED <<now, approvals, request, audit, executed, mode, grants, registered, consents, codes,
                       key, reads, changes>>

\* POST /oauth/token with a refresh token, which stays as it is
Refresh(t, client) ==
    /\ BuiltIn
    /\ Len(access) < MaxTokens
    /\ refresh[t].expires > now /\ refresh[t].client = client
    /\ access' = Minted(refresh[t].consent, consents[refresh[t].consent].scope)
    /\ UNCHANGED <<registered, consents, codes, exchanging, refresh>>

-----------------------------------------------------------------------------
(* Calls of tools *)

\* verifyBuiltinMcpToken: signature, issuer, expiry and scope
Verified(token) ==
    /\ access[token].key = key /\ access[token].expires >= now
    /\ access[token].scope = "operator"

\* authorizeMcpRequest: the bearer is the static token, a token of the built-in
\* server, or one that the external issuer vouches for
Authorized(token) ==
    \/ mode = "oauth-builtin" /\ token \in DOMAIN access /\ Verified(token)
    \/ mode # "oauth-builtin" /\ token = NoToken

\* A read-only tool: an OAuth actor needs a grant for the resource, and a grant
\* that cannot be looked up is none.
MayRead(resource, found) == mode = "static" \/ (found /\ resource \in grants)

ReadTool(r, d, token, found) ==
    /\ Authorized(token)
    /\ Cardinality({q \in Requests : request[q] # NotAsked /\ request[q].risk = ReadOnly}) < MaxCalls
    /\ AskWith(r, [name |-> d[1], resource |-> d[2], contextual |-> ReadOnly,
                   granted |-> MayRead(d[2], found), ref |-> NoRef])
    /\ reads' = [reads EXCEPT ![r] = (d[2] \in grants)]
    /\ UNCHANGED <<now, approvals, audit, executed, faults, mode, grants, key, changes, oauthVars>>

WorkspaceTools ==
    [rundea_workspaces_list |-> "GET", rundea_workspace_create |-> "POST", rundea_projects_list |-> "GET",
     rundea_project_create |-> "POST", rundea_services_list |-> "GET", rundea_service_create |-> "POST",
     rundea_nodes_list |-> "GET", rundea_workspace_nodes_list |-> "GET", rundea_workspace_node_adopt |-> "POST"]
ServiceTools ==
    [rundea_service_variables_read |-> "GET", rundea_service_variables_upsert |-> "PUT",
     rundea_service_volumes_list |-> "GET", rundea_service_volume_create |-> "POST",
     rundea_service_deployments_list |-> "GET", rundea_service_deploy |-> "POST"]
RuntimeTools ==
    [rundea_deployment_events_read |-> "GET", rundea_node_maintenance_list |-> "GET",
     rundea_node_agent_update |-> "POST", rundea_deployment_restart |-> "POST",
     rundea_deployment_rollback |-> "POST", rundea_service_domains_list |-> "GET",
     rundea_service_domain_attach |-> "POST", rundea_service_domain_reconcile |-> "POST"]
ControlTools == WorkspaceTools @@ ServiceTools @@ RuntimeTools

\* with an external issuer there are the read-only tools only
HasControl == mode # "oauth"

\* a control tool is a request to the API with the control token: what it
\* changes is the API's, and no row of operation_audit is written
ControlTool(tool, token) ==
    /\ Authorized(token) /\ HasControl
    /\ ControlTools[tool] # "GET"
    /\ Len(changes) < MaxCalls
    /\ changes' = Append(changes, [token |-> token, key |-> key])
    /\ UNCHANGED <<opVars, mode, grants, key, reads, oauthVars>>

-----------------------------------------------------------------------------

\* rows of mcp_resource_grants are edited by the operator; static tokens need none
ChangeGrant(resource) ==
    /\ mode # "static"
    /\ grants' = IF resource \in grants THEN grants \ {resource} ELSE grants \union {resource}
    /\ UNCHANGED <<opVars, mode, registered, consents, codes, exchanging, refresh, access, key, reads, changes>>

\* The API restarts: codes, keys and what was under way are lost.
Restart ==
    /\ faults < MaxFaults /\ faults' = faults + 1
    /\ StopOperations
    /\ codes' = {} /\ exchanging' = {} /\ key' = key + 1
    /\ UNCHANGED <<now, approvals, audit, executed, mode, grants, registered, consents, refresh, access,
                   reads, changes>>

OAuth ==
    \/ \E c \in Clients : Register(c)
    \/ \E c, redirect, challenge \in Clients, scope \in Scopes, operator \in BOOLEAN :
          Authorize(c, redirect, challenge, scope, operator)
    \/ \E code \in codes, c, redirect, verifier \in Clients : Exchange(code, c, redirect, verifier)
    \/ \E x \in exchanging, outcome \in Outcomes : StoreRefresh(x, outcome)
    \/ \E t \in DOMAIN refresh, c \in Clients : Refresh(t, c)

Next ==
    \/ OAuth
    \/ \E token \in 0..Len(access) :
          \/ \E r \in Requests, d \in Diagnostics, found \in BOOLEAN : ReadTool(r, d, token, found)
          \/ \E tool \in DOMAIN ControlTools : ControlTool(tool, token)
    \/ \E d \in Diagnostics : ChangeGrant(d[2])
    \/ Operate /\ UNCHANGED mcpVars
    \/ Restart

Spec == Init /\ [][Next]_vars

-----------------------------------------------------------------------------
(* Properties *)

\* Tokens come from a consent of the operator, and a code gives them once: to
\* the client that asked for it and holds the verifier, however often the code
\* is presented, and also around a restart (mcp-builtin-oauth.ts).
TokensWereGranted ==
    /\ \A t \in DOMAIN refresh :
          LET grant == consents[refresh[t].consent]
          IN  grant.code /\ refresh[t].client = grant.client /\ refresh[t].by = grant.challenge
    /\ \A t, u \in DOMAIN refresh : refresh[t].consent = refresh[u].consent => t = u
    /\ \A t \in DOMAIN refresh : refresh[t].consent \notin codes

\* What tools do was asked for by who may ask.  A resource is read for an OAuth
\* identity only if it was granted when it asked; and what control tools changed
\* came with the static token, or with a token of the operator's scope, signed
\* by the process it was used with, from a consent with the connector code: with
\* an external issuer nothing is ever changed (docs/MCP_OPERATOR.md).
CallsWereAllowed ==
    /\ \A r \in executed : mode # "static" => reads[r]
    /\ \A i \in DOMAIN changes :
          /\ mode # "oauth"
          /\ mode = "oauth-builtin" =>
                LET token == access[changes[i].token]
                IN  consents[token.consent].code /\ token.scope = "operator" /\ token.key = changes[i].key

\* Both: whoever calls, and however a token was come by.
McpAllowed == TokensWereGranted /\ CallsWereAllowed

\* "The static token is intentionally the only mode that exposes
\* infrastructure-changing tools" (docs/MCP_OPERATOR.md).
OnlyStaticChanges == changes # <<>> => mode = "static"
=============================================================================
