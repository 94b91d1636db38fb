------------------------- MODULE ProviderConnections -------------------------
(***************************************************************************)
(* The connection of a project to its cloud providers: a provider is       *)
(* selected, authenticated with a credential, and asked again with the     *)
(* credential that is stored.  Each request reads the connection, marks it *)
(* DISCOVERING, asks the provider and writes the outcome, every step a     *)
(* statement of its own: requests to one connection interleave freely.     *)
(*                                                                         *)
(* A credential is the number of the request that brought it; what the     *)
(* provider shows is the number of the credential it was asked with.  The  *)
(* actor is one whose role can manage the workspace.                       *)
(***************************************************************************)
EXTENDS Naturals, FiniteSets

CONSTANTS
    Providers, Adapted,     \* those with an adapter that is AVAILABLE
    Requests,               \* bound: requests, by number
    MaxCrashes              \* bound: requests the control plane stops in

ProvidersAssumption == Providers # {} /\ Adapted \subseteq Providers
RequestsAssumption == Requests \subseteq Nat \ {0} /\ IsFiniteSet(Requests) /\ MaxCrashes \in Nat

VARIABLES
    connection,     \* project_provider_connections
    request,
    accepted,       \* history: credentials the provider has accepted
    crashes         \* history

vars == <<connection, request, accepted, crashes>>

Failures == {"AUTH_FAILED", "INSUFFICIENT_PERMISSION", "PROVIDER_UNAVAILABLE", "VERIFICATION_FAILED"}
States == {"AUTH_REQUIRED", "NEEDS_USER_STEP", "DISCOVERING", "READY"} \union Failures
Credentials == Requests \union {0}      \* 0: NULL
NoRow == "none"

TypeOK ==
    /\ connection \in [Providers -> [state : States \union {NoRow}, credential : Credentials, found : Credentials]]
    /\ request \in [Requests -> [pc : {"none", "read", "discovering", "answered", "over"}, to : Providers,
                                 credential : Credentials, outcome : Failures \union {"", "found"}]]
    /\ accepted \subseteq Requests /\ crashes \in 0..MaxCrashes

Init ==
    /\ connection = [p \in Providers |-> [state |-> NoRow, credential |-> 0, found |-> 0]]
    /\ request = [r \in Requests |-> [pc |-> "none", to |-> CHOOSE p \in Providers : TRUE, credential |-> 0, outcome |-> ""]]
    /\ accepted = {} /\ crashes = 0

Arrives(r) == request[r].pc = "none" /\ \A q \in Requests : q < r => request[q].pc # "none"
Ask(r, p, pc, c) == request' = [request EXCEPT ![r] = [pc |-> pc, to |-> p, credential |-> c, outcome |-> ""]]
SetState(p, state) == connection' = [connection EXCEPT ![p].state = state]

\* selectProviderForActor: whatever was stored is forgotten
InitialState(p) == IF p \in Adapted THEN "AUTH_REQUIRED" ELSE "NEEDS_USER_STEP"
Select(r, p) ==
    /\ Arrives(r)
    /\ connection' = [connection EXCEPT ![p] = [state |-> InitialState(p), credential |-> 0, found |-> 0]]
    /\ Ask(r, p, "over", 0)
    /\ UNCHANGED <<accepted, crashes>>

\* authenticateProviderForActor, with a new credential
Authenticate(r, p) ==
    /\ Arrives(r) /\ p \in Adapted /\ connection[p].state # NoRow
    /\ Ask(r, p, "read", r)
    /\ UNCHANGED <<connection, accepted, crashes>>

\* refreshProviderForActor, with the one that is stored
Refresh(r, p) ==
    /\ Arrives(r) /\ connection[p].credential # 0
    /\ Ask(r, p, "read", connection[p].credential)
    /\ UNCHANGED <<connection, accepted, crashes>>

\* the stored credential cannot be decrypted
RefreshFails(r, p) ==
    /\ Arrives(r) /\ connection[p].credential # 0
    /\ SetState(p, "VERIFICATION_FAILED") /\ Ask(r, p, "over", 0)
    /\ UNCHANGED <<accepted, crashes>>

\* discoverProvider
BeginDiscovery(r) ==
    /\ request[r].pc = "read"
    /\ SetState(request[r].to, "DISCOVERING")
    /\ request' = [request EXCEPT ![r].pc = "discovering"]
    /\ UNCHANGED <<accepted, crashes>>

\* the pages of servers, networks and firewalls, or the first failure among
\* them; what a provider accepts once it may refuse later
Discover(r, outcome) ==
    /\ request[r].pc = "discovering"
    /\ request' = [request EXCEPT ![r].pc = "answered", ![r].outcome = outcome]
    /\ accepted' = IF outcome = "found" THEN accepted \union {request[r].credential} ELSE accepted
    /\ UNCHANGED <<connection, crashes>>

Saved(r, old) == [state |-> "READY", credential |-> request[r].credential, found |-> request[r].credential]

\* Mutant: the credential is stored before it is verified.
FailedWithCredential(r, old) == [old EXCEPT !.state = request[r].outcome, !.credential = request[r].credential]
Failed(r, old) == [old EXCEPT !.state = request[r].outcome]

\* saveReady, or setState with the failure
EndDiscovery(r) ==
    LET p == request[r].to
    IN  /\ request[r].pc = "answered"
        /\ connection' = [connection EXCEPT ![p] = IF request[r].outcome = "found" THEN Saved(r, @) ELSE Failed(r, @)]
        /\ request' = [request EXCEPT ![r].pc = "over"]
        /\ UNCHANGED <<accepted, crashes>>

Crash(r) ==
    /\ request[r].pc \in {"read", "discovering", "answered"} /\ crashes < MaxCrashes
    /\ crashes' = crashes + 1
    /\ request' = [request EXCEPT ![r].pc = "over"]
    /\ UNCHANGED <<connection, accepted>>

Next ==
    \E r \in Requests :
       \/ \E p \in Providers : Select(r, p) \/ Authenticate(r, p) \/ Refresh(r, p) \/ RefreshFails(r, p)
       \/ BeginDiscovery(r) \/ EndDiscovery(r) \/ Crash(r)
       \/ \E o \in Failures \union {"found"} : Discover(r, o)

Spec == Init /\ [][Next]_vars

-----------------------------------------------------------------------------
(* Properties *)

\* What a connection shows of the provider was found with the credential it
\* stores, though requests with other credentials, or a selection, come between.
ShowsWhatItStores == \A p \in Providers : connection[p].found = connection[p].credential

\* "Rundea verifies the token by reading the project server inventory before
\* storing the encrypted credential" (provider-registry.ts): a credential that was
\* never accepted is never stored, and what failed replaces no one's.
StoredWasAccepted == \A p \in Providers : connection[p].credential \in accepted \union {0}

\* A connection is not left DISCOVERING: as long as the control plane did not
\* stop, a request is at work that will end it, also when several overlap.
DiscoveringIsAttended ==
    \A p \in Providers : connection[p].state = "DISCOVERING" =>
        crashes > 0 \/ \E r \in Requests : request[r].to = p /\ request[r].pc \in {"discovering", "answered"}
=============================================================================
