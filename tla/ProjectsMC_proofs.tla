--------------------------- MODULE ProjectsMC_proofs ---------------------------
(***************************************************************************)
(* Proofs about what belongs to a project: its connections to providers,   *)
(* the workspace that owns it, its variables, its source, and where it is  *)
(* placed; for any services, nodes, ports, requests and deployments.  An   *)
(* invariant and how its module's steps keep it come first for each; the   *)
(* theorems about ProjectsMC, where one of them moves, are at the end.     *)
(***************************************************************************)
EXTENDS ProjectsMC, FiniteSetTheorems, TLAPS

-----------------------------------------------------------------------------
(* ProviderConnections *)

ConnectionType == [state : C!States \union {C!NoRow}, credential : C!Credentials, found : C!Credentials]
AskedType == [pc : {"none", "read", "discovering", "answered", "over"}, to : Providers,
              credential : C!Credentials, outcome : C!Failures \union {"", "found"}]

\* What a request asks the provider with, and what it was told of it.
AskedInv ==
    \A r \in Requests :
       /\ asked[r].pc \in {"read", "discovering", "answered"} => asked[r].credential # 0
       /\ asked[r].pc = "answered" => asked[r].outcome # ""
       /\ asked[r].pc = "answered" /\ asked[r].outcome = "found" => asked[r].credential \in accepted

ConnectionsInv ==
    /\ C!TypeOK /\ AskedInv
    /\ C!ShowsWhatItStores /\ C!StoredWasAccepted /\ C!DiscoveringIsAttended

LEMMA ConnectionsBounds ==
    Providers # {} /\ Requests \subseteq Nat \ {0} /\ MaxCrashes \in Nat
BY ConnectionConstants DEF C!ProvidersAssumption, C!RequestsAssumption

LEMMA ConnectionsTyped ==
    C!TypeOK <=> /\ connection \in [Providers -> ConnectionType] /\ asked \in [Requests -> AskedType]
                 /\ accepted \subseteq Requests /\ crashes \in 0..MaxCrashes
BY DEF C!TypeOK, ConnectionType, AskedType

LEMMA ConnectionsInit == C!Init => ConnectionsInv
  <1> SUFFICES ASSUME C!Init PROVE ConnectionsInv
    OBVIOUS
  <1> DEFINE p0 == CHOOSE q \in Providers : TRUE
  <1>1. p0 \in Providers
    BY ConnectionsBounds
  <1>2. [state |-> C!NoRow, credential |-> 0, found |-> 0] \in ConnectionType
    BY DEF ConnectionType, C!NoRow, C!Credentials
  <1>3. [pc |-> "none", to |-> p0, credential |-> 0, outcome |-> ""] \in AskedType
    BY <1>1 DEF AskedType, C!Credentials
  <1> HIDE DEF p0
  <1>4. /\ connection = [p \in Providers |-> [state |-> C!NoRow, credential |-> 0, found |-> 0]]
        /\ asked = [r \in Requests |-> [pc |-> "none", to |-> p0, credential |-> 0, outcome |-> ""]]
        /\ accepted = {} /\ crashes = 0
    BY DEF C!Init, p0
  <1>5. C!TypeOK
    <2>1. connection \in [Providers -> ConnectionType]
      BY <1>2, <1>4
    <2>2. asked \in [Requests -> AskedType]
      BY <1>3, <1>4
    <2>3. accepted \subseteq Requests /\ crashes \in 0..MaxCrashes
      <3>1. accepted = {} /\ crashes = 0 /\ MaxCrashes \in Nat
        BY <1>4, ConnectionsBounds
      <3> QED
        BY <3>1
    <2> QED
      BY <2>1, <2>2, <2>3, ConnectionsTyped
  <1>6. AskedInv
    BY <1>4 DEF AskedInv
  <1>7. C!ShowsWhatItStores /\ C!StoredWasAccepted /\ C!DiscoveringIsAttended
    BY <1>4 DEF C!ShowsWhatItStores, C!StoredWasAccepted, C!DiscoveringIsAttended, C!NoRow
  <1> QED
    BY <1>5, <1>6, <1>7 DEF ConnectionsInv

LEMMA AskedFields ==
    ASSUME NEW a \in AskedType, NEW pc \in {"none", "read", "discovering", "answered", "over"},
           NEW o \in C!Failures \union {"found"}
    PROVE  /\ [a EXCEPT !.pc = pc] \in AskedType
           /\ [a EXCEPT !.pc = pc, !.outcome = o] \in AskedType
BY DEF AskedType
LEMMA ConnectionFields ==
    ASSUME NEW c \in ConnectionType, NEW st \in C!States
    PROVE  [c EXCEPT !.state = st] \in ConnectionType
BY DEF ConnectionType

LEMMA ConnectionsTypes ==
    ASSUME ConnectionsInv, C!Next
    PROVE  C!TypeOK'
  <1> USE ConnectionsBounds, ConnectionsTyped
  <1>0. /\ connection \in [Providers -> ConnectionType] /\ asked \in [Requests -> AskedType]
        /\ accepted \subseteq Requests /\ crashes \in 0..MaxCrashes /\ AskedInv
    BY DEF ConnectionsInv
  <1>t. C!TypeOK' <=> /\ connection' \in [Providers -> ConnectionType] /\ asked' \in [Requests -> AskedType]
                      /\ accepted' \subseteq Requests /\ crashes' \in 0..MaxCrashes
    BY DEF C!TypeOK, ConnectionType, AskedType
  <1>a. ASSUME NEW r \in Requests, NEW p \in Providers, NEW c \in C!Credentials,
               NEW pc \in {"none", "read", "discovering", "answered", "over"}, C!Ask(r, p, pc, c)
        PROVE  asked' \in [Requests -> AskedType]
    <2>1. [pc |-> pc, to |-> p, credential |-> c, outcome |-> ""] \in AskedType
      BY DEF AskedType
    <2> QED
      BY <1>0, <1>a, <2>1 DEF C!Ask
  <1>c. ASSUME NEW p \in Providers, NEW st \in C!States, C!SetState(p, st)
        PROVE  connection' \in [Providers -> ConnectionType]
    BY <1>0, <1>c, ConnectionFields DEF C!SetState
  <1>m. ASSUME NEW r \in Requests, NEW pc \in {"none", "read", "discovering", "answered", "over"},
               asked' = [asked EXCEPT ![r].pc = pc]
        PROVE  asked' \in [Requests -> AskedType]
    <2>1. \E o : o \in C!Failures \union {"found"}
      BY DEF C!Failures
    <2> QED
      BY <1>0, <1>m, <2>1, AskedFields
  <1>z. 0 \in C!Credentials /\ \A r \in Requests : r \in C!Credentials /\ asked[r].to \in Providers
    BY <1>0 DEF C!Credentials, AskedType
  <1>1. ASSUME NEW r \in Requests, NEW p \in Providers, C!Select(r, p) PROVE C!TypeOK'
    <2>1. [state |-> C!InitialState(p), credential |-> 0, found |-> 0] \in ConnectionType
      BY <1>z DEF ConnectionType, C!InitialState, C!States
    <2>2. connection' \in [Providers -> ConnectionType]
      BY <1>0, <1>1, <2>1 DEF C!Select
    <2> QED
      BY <1>0, <1>1, <1>a, <1>z, <1>t, <2>2 DEF C!Select
  <1>2. ASSUME NEW r \in Requests, NEW p \in Providers, C!Authenticate(r, p) PROVE C!TypeOK'
    BY <1>0, <1>2, <1>a, <1>z, <1>t DEF C!Authenticate
  <1>3. ASSUME NEW r \in Requests, NEW p \in Providers, C!Refresh(r, p) PROVE C!TypeOK'
    <2>1. connection[p].credential \in C!Credentials
      BY <1>0 DEF ConnectionType
    <2> QED
      BY <1>0, <1>3, <1>a, <1>t, <2>1 DEF C!Refresh
  <1>4. ASSUME NEW r \in Requests, NEW p \in Providers, C!RefreshFails(r, p) PROVE C!TypeOK'
    <2>1. "VERIFICATION_FAILED" \in C!States
      BY DEF C!States, C!Failures
    <2> QED
      BY <1>0, <1>4, <1>a, <1>c, <1>z, <1>t, <2>1 DEF C!RefreshFails
  <1>5. ASSUME NEW r \in Requests, C!BeginDiscovery(r) PROVE C!TypeOK'
    <2>1. "DISCOVERING" \in C!States
      BY DEF C!States
    <2> QED
      BY <1>0, <1>5, <1>c, <1>m, <1>z, <1>t, <2>1 DEF C!BeginDiscovery
  <1>6. ASSUME NEW r \in Requests, C!EndDiscovery(r) PROVE C!TypeOK'
    <2> DEFINE p == asked[r].to
    <2>1. C!Saved(r, connection[p]) \in ConnectionType
      BY <1>0 DEF C!Saved, ConnectionType, AskedType, C!States
    <2>2. asked[r].outcome # "found" => asked[r].outcome \in C!States
      BY <1>0, <1>6 DEF C!EndDiscovery, AskedType, AskedInv, C!States
    <2>3. asked[r].outcome # "found" => C!Failed(r, connection[p]) \in ConnectionType
      BY <1>0, <1>z, <2>2, ConnectionFields DEF C!Failed
    <2>4. connection' \in [Providers -> ConnectionType]
      BY <1>0, <1>6, <1>z, <2>1, <2>3 DEF C!EndDiscovery
    <2> QED
      BY <1>0, <1>6, <1>m, <1>t, <2>4 DEF C!EndDiscovery
  <1>7. ASSUME NEW r \in Requests, C!Crash(r) PROVE C!TypeOK'
    <2>1. crashes' \in 0..MaxCrashes
      BY <1>0, <1>7, ConnectionsBounds DEF C!Crash
    <2>2. asked' \in [Requests -> AskedType]
      BY <1>7, <1>m DEF C!Crash
    <2> QED
      BY <1>0, <1>7, <1>t, <2>1, <2>2 DEF C!Crash
  <1>8. ASSUME NEW r \in Requests, NEW o \in C!Failures \union {"found"}, C!Discover(r, o) PROVE C!TypeOK'
    <2>1. asked' \in [Requests -> AskedType]
      BY <1>0, <1>8, AskedFields DEF C!Discover
    <2>2. asked[r].credential \in Requests
      BY <1>0, <1>8 DEF C!Discover, AskedInv, AskedType, C!Credentials
    <2> QED
      BY <1>0, <1>8, <1>t, <2>1, <2>2 DEF C!Discover
  <1> QED
    BY <1>1, <1>2, <1>3, <1>4, <1>5, <1>6, <1>7, <1>8 DEF C!Next

LEMMA AskedStep ==
    ASSUME ConnectionsInv, C!Next
    PROVE  AskedInv'
  <1>0. /\ connection \in [Providers -> ConnectionType] /\ asked \in [Requests -> AskedType] /\ AskedInv
        /\ \A r \in Requests : r # 0
    BY ConnectionsTyped, ConnectionsBounds DEF ConnectionsInv
  <1>1. PICK r \in Requests :
           \/ \E p \in Providers : C!Select(r, p) \/ C!Authenticate(r, p) \/ C!Refresh(r, p) \/ C!RefreshFails(r, p)
           \/ C!BeginDiscovery(r) \/ C!EndDiscovery(r) \/ C!Crash(r)
           \/ \E o \in C!Failures \union {"found"} : C!Discover(r, o)
    BY DEF C!Next
  <1>2. accepted \subseteq accepted' /\ \A q \in Requests \ {r} : asked'[q] = asked[q]
    BY <1>0, <1>1 DEF C!Select, C!Authenticate, C!Refresh, C!RefreshFails, C!BeginDiscovery, C!EndDiscovery, C!Crash, C!Discover, C!Ask
  <1>3. \/ asked'[r].pc = "over"
        \/ asked'[r].pc = "read" /\ asked'[r].credential # 0
        \/ asked'[r].pc = "discovering" /\ asked[r].pc = "read" /\ asked'[r].credential = asked[r].credential
        \/ /\ asked'[r].pc = "answered" /\ asked[r].pc = "discovering" /\ asked'[r].credential = asked[r].credential
           /\ asked'[r].outcome # ""
           /\ asked'[r].outcome = "found" => asked[r].credential \in accepted'
    <2>1. ASSUME NEW p \in Providers,
                 C!Select(r, p) \/ C!Authenticate(r, p) \/ C!Refresh(r, p) \/ C!RefreshFails(r, p)
          PROVE  asked'[r].pc = "over" \/ (asked'[r].pc = "read" /\ asked'[r].credential # 0)
      <3>1. CASE C!Select(r, p)
        BY <1>0, <3>1 DEF C!Select, C!Ask
      <3>2. CASE C!Authenticate(r, p)
        BY <1>0, <3>2 DEF C!Authenticate, C!Ask
      <3>3. CASE C!Refresh(r, p)
        BY <1>0, <3>3 DEF C!Refresh, C!Ask
      <3>4. CASE C!RefreshFails(r, p)
        BY <1>0, <3>4 DEF C!RefreshFails, C!Ask
      <3> QED
        BY <2>1, <3>1, <3>2, <3>3, <3>4
    <2>2. CASE C!BeginDiscovery(r) \/ C!EndDiscovery(r) \/ C!Crash(r)
      BY <1>0, <2>2 DEF C!BeginDiscovery, C!EndDiscovery, C!Crash, AskedType
    <2>3. CASE \E o \in C!Failures \union {"found"} : C!Discover(r, o)
      <3>1. PICK o \in C!Failures \union {"found"} : C!Discover(r, o)
        BY <2>3
      <3>2. asked'[r] = [asked[r] EXCEPT !.pc = "answered", !.outcome = o] /\ asked[r] \in AskedType
        BY <1>0, <3>1 DEF C!Discover
      <3>3. asked'[r].pc = "answered" /\ asked'[r].outcome = o /\ asked'[r].credential = asked[r].credential
        BY <3>2 DEF AskedType
      <3>4. o = "found" => asked[r].credential \in accepted'
        BY <3>1 DEF C!Discover
      <3>5. o # "" /\ asked[r].pc = "discovering"
        BY <3>1 DEF C!Failures, C!Discover
      <3> QED
        BY <3>3, <3>4, <3>5
    <2> QED
      BY <1>1, <2>1, <2>2, <2>3
  <1> QED
    BY <1>0, <1>2, <1>3 DEF AskedInv

LEMMA ConnectionRowsStep ==
    ASSUME ConnectionsInv, C!Next
    PROVE  (C!ShowsWhatItStores /\ C!StoredWasAccepted /\ C!DiscoveringIsAttended)'
  <1>0. /\ connection \in [Providers -> ConnectionType] /\ asked \in [Requests -> AskedType] /\ AskedInv
        /\ crashes \in Nat /\ MaxCrashes \in Nat
        /\ C!ShowsWhatItStores /\ C!StoredWasAccepted /\ C!DiscoveringIsAttended
    BY ConnectionsTyped, ConnectionsBounds DEF ConnectionsInv
  <1>1. PICK r \in Requests :
           \/ \E p \in Providers : C!Select(r, p) \/ C!Authenticate(r, p) \/ C!Refresh(r, p) \/ C!RefreshFails(r, p)
           \/ C!BeginDiscovery(r) \/ C!EndDiscovery(r) \/ C!Crash(r)
           \/ \E o \in C!Failures \union {"found"} : C!Discover(r, o)
    BY DEF C!Next
  <1>2. accepted \subseteq accepted' /\ crashes' \in Nat /\ crashes' >= crashes
        /\ \A q \in Requests \ {r} : asked'[q] = asked[q]
    <2>1. accepted \subseteq accepted' /\ \A q \in Requests \ {r} : asked'[q] = asked[q]
      BY <1>0, <1>1 DEF C!Select, C!Authenticate, C!Refresh, C!RefreshFails, C!BeginDiscovery, C!EndDiscovery, C!Crash, C!Discover, C!Ask
    <2>2. crashes' = crashes \/ crashes' = crashes + 1
      BY <1>1 DEF C!Select, C!Authenticate, C!Refresh, C!RefreshFails, C!BeginDiscovery, C!EndDiscovery, C!Crash, C!Discover
    <2> QED
      BY <1>0, <2>1, <2>2
  \* a row as it was, or with another state, or forgotten, or with what was found
  <1>3. \A p \in Providers :
           \/ connection'[p] = connection[p]
           \/ connection'[p].found = connection[p].found /\ connection'[p].credential = connection[p].credential
           \/ connection'[p].found = 0 /\ connection'[p].credential = 0
           \/ connection'[p].found = connection'[p].credential /\ connection'[p].credential \in accepted
    <2> SUFFICES ASSUME NEW p \in Providers
                 PROVE  \/ connection'[p] = connection[p]
                        \/ connection'[p].found = connection[p].found /\ connection'[p].credential = connection[p].credential
                        \/ connection'[p].found = 0 /\ connection'[p].credential = 0
                        \/ connection'[p].found = connection'[p].credential /\ connection'[p].credential \in accepted
      OBVIOUS
    <2>0. connection[p] \in ConnectionType
      BY <1>0
    <2>1. ASSUME NEW q \in Providers, C!Select(r, q) \/ C!Authenticate(r, q) \/ C!Refresh(r, q)
          PROVE  connection'[p] = connection[p] \/ (connection'[p].found = 0 /\ connection'[p].credential = 0)
      BY <1>0, <2>1 DEF C!Select, C!Authenticate, C!Refresh
    <2>2. ASSUME NEW q \in Providers, NEW st, C!SetState(q, st)
          PROVE  connection'[p].found = connection[p].found /\ connection'[p].credential = connection[p].credential
      BY <1>0, <2>0, <2>2 DEF C!SetState, ConnectionType
    <2>3. CASE C!EndDiscovery(r)
      <3>1. CASE asked[r].outcome = "found"
        BY <1>0, <2>3, <3>1 DEF C!EndDiscovery, C!Saved, AskedInv
      <3>2. CASE asked[r].outcome # "found"
        <4>1. connection'[p] = connection[p] \/ connection'[p] = [connection[p] EXCEPT !.state = asked[r].outcome]
          BY <1>0, <2>3, <3>2 DEF C!EndDiscovery, C!Failed
        <4> QED
          BY <2>0, <4>1 DEF ConnectionType
      <3> QED
        BY <3>1, <3>2
    <2>4. CASE C!Crash(r) \/ \E o \in C!Failures \union {"found"} : C!Discover(r, o)
      BY <2>4 DEF C!Crash, C!Discover
    <2>5. asked[r].to \in Providers
      BY <1>0 DEF AskedType
    <2> QED
      BY <1>1, <2>1, <2>2, <2>3, <2>4, <2>5 DEF C!RefreshFails, C!BeginDiscovery
  <1>4. C!ShowsWhatItStores'
    BY <1>0, <1>3 DEF C!ShowsWhatItStores
  <1>5. C!StoredWasAccepted'
    BY <1>0, <1>2, <1>3 DEF C!StoredWasAccepted
  <1>6. C!DiscoveringIsAttended'
    <2>1. ASSUME NEW p \in Providers, connection'[p].state = "DISCOVERING", crashes' = 0
          PROVE  \E q \in Requests : asked'[q].to = p /\ asked'[q].pc \in {"discovering", "answered"}
      <3>0. connection[p] \in ConnectionType /\ asked[r] \in AskedType /\ crashes = 0 /\ ~C!Crash(r)
        BY <1>0, <1>2, <2>1 DEF C!Crash
      <3>1. CASE C!BeginDiscovery(r)
        <4>1. asked'[r] = [asked[r] EXCEPT !.pc = "discovering"]
          BY <1>0, <3>1 DEF C!BeginDiscovery
        <4>2. asked'[r].to = asked[r].to /\ asked'[r].pc = "discovering"
          BY <3>0, <4>1 DEF AskedType
        <4>3. CASE asked[r].to = p
          BY <4>2, <4>3
        <4>4. CASE asked[r].to # p
          <5>1. connection[p].state = "DISCOVERING"
            BY <1>0, <2>1, <3>1, <4>4 DEF C!BeginDiscovery, C!SetState
          <5>2. PICK q \in Requests : asked[q].to = p /\ asked[q].pc \in {"discovering", "answered"}
            BY <1>0, <3>0, <5>1 DEF C!DiscoveringIsAttended
          <5> QED
            BY <1>2, <4>4, <5>2
        <4> QED
          BY <4>3, <4>4
      <3>2. CASE \E o \in C!Failures \union {"found"} : C!Discover(r, o)
        <4>1. PICK o \in C!Failures \union {"found"} : C!Discover(r, o)
          BY <3>2
        <4>2. asked'[r] = [asked[r] EXCEPT !.pc = "answered", !.outcome = o] /\ connection' = connection
          BY <1>0, <4>1 DEF C!Discover
        <4>3. asked'[r].to = asked[r].to /\ asked'[r].pc = "answered"
          BY <3>0, <4>2 DEF AskedType
        <4>4. PICK q \in Requests : asked[q].to = p /\ asked[q].pc \in {"discovering", "answered"}
          BY <1>0, <2>1, <3>0, <4>2 DEF C!DiscoveringIsAttended
        <4> QED
          BY <1>2, <4>3, <4>4
      <3>3. CASE C!EndDiscovery(r)
        <4>1. asked[r].to # p
          <5> SUFFICES ASSUME asked[r].to = p PROVE FALSE
            OBVIOUS
          <5>1. CASE asked[r].outcome = "found"
            BY <1>0, <2>1, <3>3, <5>1 DEF C!EndDiscovery, C!Saved
          <5>2. CASE asked[r].outcome # "found"
            <6>1. connection'[p] = [connection[p] EXCEPT !.state = asked[r].outcome]
              BY <1>0, <3>3, <5>2 DEF C!EndDiscovery, C!Failed
            <6>2. connection'[p].state = asked[r].outcome
              BY <3>0, <6>1 DEF ConnectionType
            <6>3. asked[r].outcome \in C!Failures
              BY <1>0, <3>0, <3>3, <5>2 DEF AskedType, AskedInv, C!EndDiscovery
            <6> QED
              BY <2>1, <6>2, <6>3 DEF C!Failures
          <5> QED
            BY <5>1, <5>2
        <4>2. connection'[p] = connection[p]
          BY <1>0, <3>3, <4>1 DEF C!EndDiscovery
        <4>3. PICK q \in Requests : asked[q].to = p /\ asked[q].pc \in {"discovering", "answered"}
          BY <1>0, <2>1, <3>0, <4>2 DEF C!DiscoveringIsAttended
        <4> QED
          BY <1>2, <4>1, <4>3
      <3>4. ASSUME NEW o \in Providers,
                   C!Select(r, o) \/ C!Authenticate(r, o) \/ C!Refresh(r, o) \/ C!RefreshFails(r, o)
            PROVE  \E q \in Requests : asked'[q].to = p /\ asked'[q].pc \in {"discovering", "answered"}
        <4>1. asked[r].pc = "none"
          BY <3>4 DEF C!Select, C!Authenticate, C!Refresh, C!RefreshFails, C!Arrives
        <4>2. CASE C!Select(r, o)
          <5>1. connection[p].state = "DISCOVERING"
            BY <1>0, <2>1, <4>2 DEF C!Select, C!InitialState
          <5> QED
            BY <1>0, <1>2, <3>0, <4>1, <5>1 DEF C!DiscoveringIsAttended
        <4>3. CASE C!Authenticate(r, o) \/ C!Refresh(r, o)
          <5>1. connection[p].state = "DISCOVERING"
            BY <2>1, <4>3 DEF C!Authenticate, C!Refresh
          <5> QED
            BY <1>0, <1>2, <3>0, <4>1, <5>1 DEF C!DiscoveringIsAttended
        <4>4. CASE C!RefreshFails(r, o)
          <5>1. connection' = [connection EXCEPT ![o] = [connection[o] EXCEPT !.state = "VERIFICATION_FAILED"]]
            BY <4>4 DEF C!RefreshFails, C!SetState
          <5>2. connection[p].state = "DISCOVERING"
            BY <1>0, <2>1, <3>0, <5>1 DEF ConnectionType
          <5> QED
            BY <1>0, <1>2, <3>0, <4>1, <5>2 DEF C!DiscoveringIsAttended
        <4> QED
          BY <3>4, <4>2, <4>3, <4>4
      <3> QED
        BY <1>1, <3>0, <3>1, <3>2, <3>3, <3>4
    <2> QED
      BY <1>2, <2>1 DEF C!DiscoveringIsAttended
  <1> QED
    BY <1>4, <1>5, <1>6

LEMMA ConnectionsStep ==
    ASSUME ConnectionsInv, C!Next
    PROVE  ConnectionsInv'
BY ConnectionsTypes, AskedStep, ConnectionRowsStep DEF ConnectionsInv

-----------------------------------------------------------------------------
(* WorkspaceScope *)

ScopeType == [st : {"none", "ACTIVE", "ARCHIVED"}, ws : W!Owners \union {NoNode}]
MemberType == [st : {"none", "ACTIVE", "ARCHIVED"}, p : DOMAIN Home \union {NoNode}]
PlacingType == [pc : {"new", "resolved", "holds", "checked", "done"}, kind : W!Kinds \union {"none"},
                s : DOMAIN In \union {NoNode}, ws : W!Owners \union {NoNode}, n : Nodes \union {NoNode},
                over : SUBSET (1..2)]
PlacedType == [st : {"none", "QUEUED", "READY", "FAILED", "ROLLED_BACK"},
               s : DOMAIN In \union {NoNode}, n : Nodes \union {NoNode}]
DomainType == [st : {"none", "there", "DELETING"}, s : DOMAIN In \union {NoNode}, n : Nodes \union {NoNode}]

LEMMA ScopesTyped ==
    W!TypeOK <=> /\ scope \in [DOMAIN Home -> ScopeType] /\ member \in [DOMAIN In -> MemberType]
                 /\ owner \in [Nodes -> W!Owners \union {NoNode}] /\ placing \in [ScopeRequests -> PlacingType]
                 /\ placed \in [1..2 -> PlacedType] /\ domain \in [{x} -> DomainType] /\ moving \subseteq 1..2
BY DEF W!TypeOK, ScopeType, MemberType, PlacingType, PlacedType, DomainType

LEMMA OwnersKnown == W!Owners = {"w1", "w2", "internal"} /\ NoNode \notin W!Owners \union DOMAIN Home
BY ScopeConstants DEF W!NoneAssumption, W!Owners

\* A service that is known has a project, which has a workspace, for good.
ScopeRows ==
    /\ \A p \in DOMAIN Home : scope[p].st # "none" => scope[p].ws \in W!Owners
    /\ \A s \in DOMAIN In :
          IF member[s].st = "none" THEN member[s].p = NoNode
          ELSE member[s].p \in DOMAIN Home /\ scope[member[s].p].st # "none"

\* What is of service s may be on node n, when the rows of services, projects and
\* nodes are these.
MayBe(s, n, services, projects, nodes) ==
    /\ s \in DOMAIN In /\ services[s].st # "none" /\ n \in Nodes
    /\ projects[services[s].p].ws # "internal" => nodes[n] = projects[services[s].p].ws
Belongs(s, n) == MayBe(s, n, member, scope, owner)

\* What a request knows of its service and its node from when it looked at them.
Knows(a, services, projects, nodes) ==
    /\ a.pc = "resolved" =>
          /\ a.kind \in {"deploy", "attach"} /\ a.s \in DOMAIN In /\ services[a.s].st # "none"
          /\ a.ws = projects[services[a.s].p].ws
    /\ a.pc \in {"holds", "checked"} /\ a.kind # "adopt" => MayBe(a.s, a.n, services, projects, nodes)
    /\ a.pc \in {"holds", "checked"} /\ a.kind = "adopt" =>
          a.n \in Nodes /\ nodes[a.n] = "internal" /\ a.ws \in W!Owners
PlacingInv == \A r \in ScopeRequests : Knows(placing[r], member, scope, owner)

\* Who deploys to a node, or adopts it, holds it alone.
HoldsAlone ==
    \A n \in Nodes : \A r \in W!Exclusive(n) : \A q \in W!Holders(n) : q = r

\* What an adoption has looked for it still knows when it commits.
AdoptionInv ==
    \A r \in ScopeRequests : placing[r].pc = "checked" /\ placing[r].kind = "adopt" =>
       /\ domain[x].n = placing[r].n => domain[x].st # "there"
       /\ \A d \in 1..2 : placed[d].st # "none" /\ placed[d].n = placing[r].n =>
             d \in placing[r].over /\ placed[d].st # "QUEUED"

ThereInv ==
    /\ \A d \in 1..2 : placed[d].st # "none" => Belongs(placed[d].s, placed[d].n)
    /\ \A d \in moving : placed[d].st # "none"
    /\ domain[x].st # "none" => Belongs(domain[x].s, domain[x].n)

ScopesInv == W!TypeOK /\ ScopeRows /\ PlacingInv /\ HoldsAlone /\ AdoptionInv /\ ThereInv

LEMMA ScopesInit == ScopeInit => ScopesInv
  <1> SUFFICES ASSUME ScopeInit PROVE ScopesInv
    OBVIOUS
  <1>1. DOMAIN Home = {"own", "other", "legacy"} /\ \A p \in DOMAIN Home : Home[p] \in W!Owners
    BY OwnersKnown DEF Home
  <1>2. DOMAIN In = Services \union {"old"} /\ \A s \in DOMAIN In : In[s] \in DOMAIN Home /\ (In[s] = "other" => s = s2)
    BY <1>1 DEF In
  <1>3. /\ scope = [p \in DOMAIN Home |-> IF p = "other" THEN [st |-> "none", ws |-> NoNode]
                                          ELSE [st |-> "ACTIVE", ws |-> Home[p]]]
        /\ member = [s \in DOMAIN In |-> IF s = s2 THEN [st |-> "none", p |-> NoNode]
                                         ELSE [st |-> "ACTIVE", p |-> In[s]]]
        /\ owner = [n \in Nodes |-> IF n = n1 THEN "internal" ELSE NoNode]
        /\ placing = [r \in ScopeRequests |-> W!NewRequest]
        /\ placed = [d \in 1..2 |-> [st |-> "none", s |-> NoNode, n |-> NoNode]]
        /\ domain = [d \in {x} |-> [st |-> "none", s |-> NoNode, n |-> NoNode]]
        /\ moving = {}
    BY DEF ScopeInit
  <1>4. W!NewRequest \in PlacingType /\ W!NewRequest.pc = "new"
    BY DEF W!NewRequest, PlacingType
  <1>5. W!TypeOK
    <2>1. scope \in [DOMAIN Home -> ScopeType]
      BY <1>1, <1>3 DEF ScopeType
    <2>2. member \in [DOMAIN In -> MemberType]
      BY <1>2, <1>3 DEF MemberType
    <2>3. owner \in [Nodes -> W!Owners \union {NoNode}] /\ placing \in [ScopeRequests -> PlacingType]
      BY <1>3, <1>4, OwnersKnown
    <2>4. placed \in [1..2 -> PlacedType] /\ domain \in [{x} -> DomainType] /\ moving \subseteq 1..2
      BY <1>3 DEF PlacedType, DomainType
    <2> QED
      BY <2>1, <2>2, <2>3, <2>4, ScopesTyped
  <1>6. ScopeRows
    BY <1>1, <1>2, <1>3 DEF ScopeRows
  <1>7. PlacingInv /\ AdoptionInv
    BY <1>3, <1>4 DEF PlacingInv, AdoptionInv, Knows
  <1>8. HoldsAlone
    BY <1>3, <1>4 DEF HoldsAlone, W!Exclusive, W!Holders
  <1>9. ThereInv
    BY <1>3 DEF ThereInv
  <1> QED
    BY <1>5, <1>6, <1>7, <1>8, <1>9 DEF ScopesInv

LEMMA PlacingFields ==
    ASSUME NEW a \in PlacingType, NEW pc \in {"new", "resolved", "holds", "checked", "done"}
    PROVE  /\ [a EXCEPT !.pc = pc] \in PlacingType
           /\ \A n \in Nodes : [a EXCEPT !.pc = pc, !.n = n] \in PlacingType
           /\ \A o \in SUBSET (1..2) : [a EXCEPT !.pc = pc, !.over = o] \in PlacingType
BY DEF PlacingType

\* What a new request is made into.
Requested(a, pc, k, s, w, n) ==
    a \in PlacingType /\ a.pc = pc /\ a.kind = k /\ a.s = s /\ a.ws = w /\ a.n = n
LEMMA NewRequests ==
    ASSUME NEW k \in W!Kinds, NEW s \in DOMAIN In, NEW w \in W!Owners, NEW n \in Nodes \union {NoNode}
    PROVE  /\ Requested([W!NewRequest EXCEPT !.pc = "resolved", !.kind = k, !.s = s, !.ws = w], "resolved", k, s, w, NoNode)
           /\ Requested([W!NewRequest EXCEPT !.pc = "holds", !.kind = k, !.s = s, !.n = n], "holds", k, s, NoNode, n)
           /\ Requested([W!NewRequest EXCEPT !.pc = "checked", !.kind = k, !.s = s, !.n = n], "checked", k, s, NoNode, n)
           /\ Requested([W!NewRequest EXCEPT !.pc = "holds", !.kind = k, !.ws = w, !.n = n], "holds", k, NoNode, w, n)
  <1>0. PICK a : a = W!NewRequest
    OBVIOUS
  <1>1. a \in PlacingType /\ a.s = NoNode /\ a.ws = NoNode /\ a.n = NoNode
    BY <1>0 DEF W!NewRequest, PlacingType
  <1>2. Requested([a EXCEPT !.pc = "resolved", !.kind = k, !.s = s, !.ws = w], "resolved", k, s, w, NoNode)
    BY <1>1 DEF Requested, PlacingType
  <1>3. Requested([a EXCEPT !.pc = "holds", !.kind = k, !.s = s, !.n = n], "holds", k, s, NoNode, n)
    BY <1>1 DEF Requested, PlacingType
  <1>4. Requested([a EXCEPT !.pc = "checked", !.kind = k, !.s = s, !.n = n], "checked", k, s, NoNode, n)
    BY <1>1 DEF Requested, PlacingType
  <1>5. Requested([a EXCEPT !.pc = "holds", !.kind = k, !.ws = w, !.n = n], "holds", k, NoNode, w, n)
    BY <1>1 DEF Requested, PlacingType
  <1> QED
    BY <1>0, <1>2, <1>3, <1>4, <1>5

\* What a step does to who owns what.
ScopeMove ==
    /\ \A p \in DOMAIN Home : scope[p].st # "none" => scope'[p].st # "none" /\ scope'[p].ws = scope[p].ws
    /\ \A s \in DOMAIN In : member[s].st # "none" => member'[s].st # "none" /\ member'[s].p = member[s].p
    /\ scope' \in [DOMAIN Home -> ScopeType] /\ member' \in [DOMAIN In -> MemberType]
    /\ ScopeRows'

LEMMA ScopeMoves ==
    ASSUME ScopesInv, W!Next
    PROVE  ScopeMove
  <1>0. /\ scope \in [DOMAIN Home -> ScopeType] /\ member \in [DOMAIN In -> MemberType] /\ ScopeRows
    BY ScopesTyped DEF ScopesInv
  <1>1. ASSUME NEW p \in DOMAIN Home, NEW w \in W!Owners, W!CreateProject(p, w) PROVE ScopeMove
    <2>1. /\ scope[p].st = "none" /\ scope' = [scope EXCEPT ![p] = [st |-> "ACTIVE", ws |-> w]] /\ member' = member
      BY <1>1 DEF W!CreateProject
    <2>2. [st |-> "ACTIVE", ws |-> w] \in ScopeType
      BY DEF ScopeType
    <2>3. scope' \in [DOMAIN Home -> ScopeType] /\ scope'[p] = [st |-> "ACTIVE", ws |-> w]
          /\ \A q \in DOMAIN Home \ {p} : scope'[q] = scope[q]
      BY <1>0, <2>1, <2>2
    <2> QED
      BY <1>0, <2>1, <2>3 DEF ScopeRows, ScopeMove
  <1>2. ASSUME NEW s \in DOMAIN In, NEW p \in DOMAIN Home, W!CreateService(s, p) PROVE ScopeMove
    <2>1. /\ member[s].st = "none" /\ scope[p].st = "ACTIVE" /\ scope' = scope
          /\ member' = [member EXCEPT ![s] = [st |-> "ACTIVE", p |-> p]]
      BY <1>2 DEF W!CreateService
    <2>2. [st |-> "ACTIVE", p |-> p] \in MemberType
      BY DEF MemberType
    <2>3. member' \in [DOMAIN In -> MemberType] /\ member'[s] = [st |-> "ACTIVE", p |-> p]
          /\ \A q \in DOMAIN In \ {s} : member'[q] = member[q]
      BY <1>0, <2>1, <2>2
    <2> QED
      BY <1>0, <2>1, <2>3 DEF ScopeRows, ScopeMove
  <1>3. ASSUME \A p \in DOMAIN Home : scope[p].st # "none" => scope'[p].st # "none" /\ scope'[p].ws = scope[p].ws,
               \A p \in DOMAIN Home : scope[p].st = "none" => scope'[p] = scope[p],
               \A s \in DOMAIN In : member[s].st # "none" => member'[s].st # "none" /\ member'[s].p = member[s].p,
               \A s \in DOMAIN In : member[s].st = "none" => member'[s] = member[s],
               scope' \in [DOMAIN Home -> ScopeType], member' \in [DOMAIN In -> MemberType]
        PROVE  ScopeMove
    BY <1>0, <1>3 DEF ScopeRows, ScopeMove
  <1>4. \A a \in MemberType : [a EXCEPT !.st = "ARCHIVED"] \in MemberType
                              /\ [a EXCEPT !.st = "ARCHIVED"].p = a.p /\ [a EXCEPT !.st = "ARCHIVED"].st = "ARCHIVED"
    BY DEF MemberType
  <1>5. \A a \in ScopeType : [a EXCEPT !.st = "ARCHIVED"] \in ScopeType
                              /\ [a EXCEPT !.st = "ARCHIVED"].ws = a.ws /\ [a EXCEPT !.st = "ARCHIVED"].st = "ARCHIVED"
    BY DEF ScopeType
  <1>6. ASSUME NEW s \in DOMAIN In, W!ArchiveService(s) PROVE ScopeMove
    <2>1. member' = [member EXCEPT ![s] = [member[s] EXCEPT !.st = "ARCHIVED"]] /\ member[s].st = "ACTIVE" /\ scope' = scope
      BY <1>6 DEF W!ArchiveService
    <2>2. member' \in [DOMAIN In -> MemberType] /\ member'[s] = [member[s] EXCEPT !.st = "ARCHIVED"]
          /\ \A q \in DOMAIN In \ {s} : member'[q] = member[q]
      BY <1>0, <1>4, <2>1
    <2>3. member'[s].st = "ARCHIVED" /\ member'[s].p = member[s].p
      BY <1>0, <1>4, <2>2
    <2> QED
      BY <1>0, <1>3, <2>1, <2>2, <2>3
  <1>7. ASSUME NEW p \in DOMAIN Home, W!ArchiveProject(p) PROVE ScopeMove
    <2>1. /\ scope' = [scope EXCEPT ![p] = [scope[p] EXCEPT !.st = "ARCHIVED"]] /\ scope[p].st = "ACTIVE"
          /\ member' = [s \in DOMAIN In |-> IF member[s].p = p THEN [member[s] EXCEPT !.st = "ARCHIVED"] ELSE member[s]]
      BY <1>7 DEF W!ArchiveProject
    <2>2. scope' \in [DOMAIN Home -> ScopeType] /\ scope'[p] = [scope[p] EXCEPT !.st = "ARCHIVED"]
          /\ \A q \in DOMAIN Home \ {p} : scope'[q] = scope[q]
      BY <1>0, <1>5, <2>1
    <2>3. scope'[p].st = "ARCHIVED" /\ scope'[p].ws = scope[p].ws
      BY <1>0, <1>5, <2>2
    <2>4. member' \in [DOMAIN In -> MemberType]
      BY <1>0, <1>4, <2>1
    <2>5. \A s \in DOMAIN In : member'[s] = member[s] \/ (member[s].p = p /\ member'[s] = [member[s] EXCEPT !.st = "ARCHIVED"])
      BY <2>1
    <2>6. \A s \in DOMAIN In : member[s].st # "none" => member'[s].st # "none" /\ member'[s].p = member[s].p
      BY <1>0, <1>4, <2>5
    <2>7. \A s \in DOMAIN In : member[s].st = "none" => member'[s] = member[s]
      BY <1>0, <2>5, OwnersKnown DEF ScopeRows
    <2> QED
      BY <1>3, <2>1, <2>2, <2>3, <2>4, <2>6, <2>7
  <1>8. ASSUME UNCHANGED <<scope, member>> PROVE ScopeMove
    BY <1>0, <1>3, <1>8
  <1> QED
    BY <1>1, <1>2, <1>6, <1>7, <1>8 DEF W!Next, W!CreateNode, W!Resolve, W!Place, W!InsertLegacy, W!EndInsert, W!Abandon,
       W!ReadReady, W!Attach, W!LockNode, W!Check, W!Adopt, W!DeleteDomain, W!BecomesReady, W!Fails, W!MoveDomains

\* The owner of a node changes once it is given one, or when it is adopted.
LEMMA OwnerMoves ==
    ASSUME ScopesInv, W!Next
    PROVE  /\ owner' \in [Nodes -> W!Owners \union {NoNode}]
           /\ \A n \in Nodes : owner[n] # NoNode /\ owner'[n] # owner[n] =>
                 \E r \in ScopeRequests : W!Adopt(r) /\ placing[r].n = n
           /\ \A n \in Nodes : owner[n] \notin {NoNode, "internal"} => owner'[n] = owner[n]
  <1>0. owner \in [Nodes -> W!Owners \union {NoNode}] /\ PlacingInv /\ "internal" \in W!Owners
    BY ScopesTyped, OwnersKnown DEF ScopesInv
  <1>1. ASSUME NEW n \in Nodes, NEW w \in W!Owners, W!CreateNode(n, w)
        PROVE  owner' \in [Nodes -> W!Owners \union {NoNode}] /\ owner[n] = NoNode /\ \A m \in Nodes \ {n} : owner'[m] = owner[m]
    BY <1>0, <1>1 DEF W!CreateNode
  <1>2. ASSUME NEW r \in ScopeRequests, W!Adopt(r)
        PROVE  /\ owner' \in [Nodes -> W!Owners \union {NoNode}] /\ owner[placing[r].n] = "internal"
               /\ \A m \in Nodes \ {placing[r].n} : owner'[m] = owner[m]
    BY <1>0, <1>2 DEF W!Adopt, PlacingInv, Knows
  <1>3. (\E n \in Nodes, w \in W!Owners : W!CreateNode(n, w)) \/ (\E r \in ScopeRequests : W!Adopt(r)) \/ owner' = owner
    BY DEF W!Next, W!CreateProject, W!ArchiveProject, W!CreateService, W!ArchiveService, W!Resolve, W!Place, W!InsertLegacy, W!EndInsert, W!Abandon,
       W!ReadReady, W!Attach, W!LockNode, W!Check, W!DeleteDomain, W!BecomesReady, W!Fails, W!MoveDomains
  <1> QED
    BY <1>0, <1>1, <1>2, <1>3

\* What is of a service may stay where it is.
LEMMA BelongsStays ==
    ASSUME ScopesInv, W!Next, NEW s, NEW n, Belongs(s, n)
    PROVE  MayBe(s, n, member', scope', owner')
  <1>0. ScopeRows /\ ScopeMove
    BY ScopeMoves DEF ScopesInv
  <1>1. /\ s \in DOMAIN In /\ member[s].st # "none" /\ member[s].p \in DOMAIN Home /\ n \in Nodes
        /\ scope[member[s].p].st # "none" /\ scope[member[s].p].ws \in W!Owners
        /\ scope[member[s].p].ws # "internal" => owner[n] = scope[member[s].p].ws
    BY <1>0 DEF Belongs, MayBe, ScopeRows
  <1>2. member'[s].st # "none" /\ member'[s].p = member[s].p /\ scope'[member[s].p].ws = scope[member[s].p].ws
    BY <1>0, <1>1 DEF ScopeMove
  <1>3. scope[member[s].p].ws # "internal" => owner'[n] = owner[n]
    BY <1>1, OwnersKnown, OwnerMoves
  <1> QED
    BY <1>1, <1>2, <1>3 DEF MayBe


\* The ways a request begins, with what it knows then.
Begins(r) ==
    /\ placing[r].pc = "new"
    /\ \/ \E k \in {"deploy", "attach"}, s \in DOMAIN In :
             W!Resolves(s) /\ Requested(placing'[r], "resolved", k, s, W!WorkspaceOf(s), NoNode)
       \/ \E s \in DOMAIN In, n \in Nodes :
             /\ member[s].st # "none" /\ W!IsLegacy(s) /\ W!Exclusive(n) = {}
             /\ Requested(placing'[r], "holds", "import", s, NoNode, n)
       \/ \E w \in {"w1", "w2"}, n \in Nodes :
             owner[n] = "internal" /\ W!Holders(n) = {} /\ Requested(placing'[r], "holds", "adopt", NoNode, w, n)
\* and how it goes on.
GoesOn(r) ==
    \/ \E s \in DOMAIN In, d \in 1..2 :
          /\ placing[r].pc = "new" \/ (placing[r].kind = "attach" /\ placing[r].pc = "resolved")
          /\ placed[d].st = "READY" /\ placed[d].s = s
          /\ Requested(placing'[r], "checked", "attach", s, NoNode, placed[d].n)
    \/ \E n \in Nodes :
          /\ placing[r].pc = "resolved" /\ placing[r].kind = "deploy" /\ owner[n] = placing[r].ws /\ W!Holders(n) = {}
          /\ placing'[r] = [placing[r] EXCEPT !.pc = "holds", !.n = n]
    \/ /\ placing[r].pc = "holds" /\ placing[r].kind = "adopt" /\ ~W!Blocked(placing[r].n)
       /\ placing'[r] = [placing[r] EXCEPT !.pc = "checked", !.over = W!OnNode(placing[r].n)]
       /\ UNCHANGED <<placed, domain>>
    \/ placing'[r] = [placing[r] EXCEPT !.pc = "done"]

LEMMA PlacingMoves ==
    ASSUME ScopesInv, W!Next
    PROVE  \/ placing' = placing
           \/ \E r \in ScopeRequests :
                 /\ Begins(r) \/ GoesOn(r)
                 /\ placing' = [placing EXCEPT ![r] = placing'[r]]
                 /\ UNCHANGED <<scope, member, moving>>
                 /\ owner' # owner => W!Adopt(r)
  <1>0. placing \in [ScopeRequests -> PlacingType]
    BY ScopesTyped DEF ScopesInv
  <1>00. ScopeRows /\ placed \in [1..2 -> PlacedType]
    BY ScopesTyped DEF ScopesInv
  <1> DEFINE Good(r) == /\ Begins(r) \/ GoesOn(r)
                        /\ placing' = [placing EXCEPT ![r] = placing'[r]]
                        /\ UNCHANGED <<scope, member, moving>>
                        /\ owner' # owner => W!Adopt(r)
  <1>1. ASSUME NEW r \in ScopeRequests, NEW k \in W!Kinds, NEW s \in DOMAIN In, W!Resolve(r, k, s) PROVE Good(r)
    <2>1. /\ placing[r].pc = "new" /\ k \in {"deploy", "attach"} /\ W!Resolves(s)
          /\ placing' = [placing EXCEPT ![r] = [W!NewRequest EXCEPT !.pc = "resolved", !.kind = k, !.s = s, !.ws = W!WorkspaceOf(s)]]
          /\ UNCHANGED <<scope, member, moving, owner>>
      BY <1>1 DEF W!Resolve
    <2>2. W!WorkspaceOf(s) \in W!Owners
      BY <2>1, <1>00 DEF W!Resolves, W!Known, W!WorkspaceOf, ScopeRows
    <2>3. Requested(placing'[r], "resolved", k, s, W!WorkspaceOf(s), NoNode)
      BY <1>0, <2>1, <2>2, NewRequests
    <2>4. placing' = [placing EXCEPT ![r] = placing'[r]]
      BY <1>0, <2>1
    <2> QED
      BY <2>1, <2>3, <2>4 DEF Begins
  <1>2. ASSUME NEW r \in ScopeRequests, NEW n \in Nodes, W!Place(r, n) PROVE Good(r)
    <2>1. /\ placing[r].kind = "deploy" /\ placing[r].pc = "resolved" /\ owner[n] = placing[r].ws /\ W!Holders(n) = {}
          /\ placing' = [placing EXCEPT ![r] = [placing[r] EXCEPT !.pc = "holds", !.n = n]]
          /\ UNCHANGED <<scope, member, moving, owner>>
      BY <1>2 DEF W!Place, W!Offered
    <2>2. placing'[r] = [placing[r] EXCEPT !.pc = "holds", !.n = n] /\ placing' = [placing EXCEPT ![r] = placing'[r]]
      BY <1>0, <2>1
    <2> QED
      BY <2>1, <2>2 DEF GoesOn
  <1>3. ASSUME NEW r \in ScopeRequests, NEW n \in Nodes, NEW s \in DOMAIN In, W!InsertLegacy(r, s, n) PROVE Good(r)
    <2>1. /\ placing[r].pc = "new" /\ member[s].st # "none" /\ W!IsLegacy(s) /\ W!Exclusive(n) = {}
          /\ placing' = [placing EXCEPT ![r] = [W!NewRequest EXCEPT !.pc = "holds", !.kind = "import", !.s = s, !.n = n]]
          /\ UNCHANGED <<scope, member, moving, owner>>
      BY <1>3 DEF W!InsertLegacy, W!Known
    <2>2. "import" \in W!Kinds /\ "internal" \in W!Owners
      BY OwnersKnown DEF W!Kinds
    <2>3. Requested(placing'[r], "holds", "import", s, NoNode, n)
      BY <1>0, <2>1, <2>2, NewRequests
    <2>4. placing' = [placing EXCEPT ![r] = placing'[r]]
      BY <1>0, <2>1
    <2> QED
      BY <2>1, <2>3, <2>4 DEF Begins
  <1>5. ASSUME NEW r \in ScopeRequests, NEW d \in 1..2, NEW s \in DOMAIN In, W!ReadReady(r, s, d) PROVE Good(r)
    <2>1. /\ placing[r].pc = "new" \/ (placing[r].kind = "attach" /\ placing[r].pc = "resolved")
          /\ placed[d].st = "READY" /\ placed[d].s = s
          /\ placing' = [placing EXCEPT ![r] = [W!NewRequest EXCEPT !.pc = "checked", !.kind = "attach", !.s = s, !.n = placed[d].n]]
          /\ UNCHANGED <<scope, member, moving, owner>>
      BY <1>5 DEF W!ReadReady, W!ReadyOf
    <2>2. "attach" \in W!Kinds /\ "internal" \in W!Owners /\ placed[d].n \in Nodes \union {NoNode}
      BY <1>00, OwnersKnown DEF W!Kinds, PlacedType
    <2>3. Requested(placing'[r], "checked", "attach", s, NoNode, placed[d].n)
      BY <1>0, <2>1, <2>2, NewRequests
    <2>4. placing' = [placing EXCEPT ![r] = placing'[r]]
      BY <1>0, <2>1
    <2> QED
      BY <2>1, <2>3, <2>4 DEF GoesOn
  <1>7. ASSUME NEW r \in ScopeRequests, NEW w \in {"w1", "w2"}, NEW n \in Nodes, W!LockNode(r, w, n) PROVE Good(r)
    <2>1. /\ placing[r].pc = "new" /\ owner[n] = "internal" /\ W!Holders(n) = {}
          /\ placing' = [placing EXCEPT ![r] = [W!NewRequest EXCEPT !.pc = "holds", !.kind = "adopt", !.ws = w, !.n = n]]
          /\ UNCHANGED <<scope, member, moving, owner>>
      BY <1>7 DEF W!LockNode, W!Adoptable
    <2>2. "adopt" \in W!Kinds /\ w \in W!Owners /\ "old" \in DOMAIN In
      BY OwnersKnown DEF W!Kinds, In
    <2>3. Requested(placing'[r], "holds", "adopt", NoNode, w, n)
      BY <1>0, <2>1, <2>2, NewRequests
    <2>4. placing' = [placing EXCEPT ![r] = placing'[r]]
      BY <1>0, <2>1
    <2> QED
      BY <2>1, <2>3, <2>4 DEF Begins
  <1>8. ASSUME NEW r \in ScopeRequests, W!Check(r) PROVE Good(r)
    <2>1. /\ placing[r].kind = "adopt" /\ placing[r].pc = "holds" /\ ~W!Blocked(placing[r].n)
          /\ placing' = [placing EXCEPT ![r] = [placing[r] EXCEPT !.pc = "checked", !.over = W!OnNode(placing[r].n)]]
          /\ UNCHANGED <<scope, member, moving, owner, placed, domain>>
      BY <1>8 DEF W!Check
    <2>2. placing'[r] = [placing[r] EXCEPT !.pc = "checked", !.over = W!OnNode(placing[r].n)]
          /\ placing' = [placing EXCEPT ![r] = placing'[r]]
      BY <1>0, <2>1
    <2> QED
      BY <2>1, <2>2 DEF GoesOn
  <1>9. ASSUME NEW r \in ScopeRequests, NEW d \in 1..2, NEW z \in {x},
               W!EndInsert(r, d) \/ W!Attach(r, z) \/ W!Adopt(r) \/ W!Abandon(r)
        PROVE  Good(r)
    <2>1. /\ placing' = [placing EXCEPT ![r] = [placing[r] EXCEPT !.pc = "done"]]
          /\ UNCHANGED <<scope, member, moving>>
          /\ owner' = owner \/ W!Adopt(r)
      BY <1>9 DEF W!EndInsert, W!Attach, W!Adopt, W!Abandon
    <2>2. placing'[r] = [placing[r] EXCEPT !.pc = "done"] /\ placing' = [placing EXCEPT ![r] = placing'[r]]
      BY <1>0, <2>1
    <2> QED
      BY <2>1, <2>2 DEF GoesOn
  <1>10. (\E r \in ScopeRequests : Good(r)) \/ placing' = placing
    BY <1>1, <1>2, <1>3, <1>5, <1>7, <1>8, <1>9
       DEF W!Next, W!CreateProject, W!ArchiveProject, W!CreateService, W!ArchiveService, W!CreateNode, W!DeleteDomain,
           W!BecomesReady, W!Fails, W!MoveDomains
  <1> QED
    BY <1>10

LEMMA PlacingStep ==
    ASSUME ScopesInv, W!Next
    PROVE  placing' \in [ScopeRequests -> PlacingType] /\ PlacingInv'
  <1>0. /\ placing \in [ScopeRequests -> PlacingType] /\ placed \in [1..2 -> PlacedType]
        /\ ScopeRows /\ PlacingInv /\ HoldsAlone /\ ThereInv
    BY ScopesTyped DEF ScopesInv
  <1> DEFINE Known(a) == Knows(a, member', scope', owner')
  <1>a. ASSUME NEW a \in PlacingType, Knows(a, member, scope, owner),
               a.pc \in {"holds", "checked"} /\ a.kind = "adopt" => owner'[a.n] = owner[a.n]
        PROVE  Known(a)
    <2>1. a.pc \in {"holds", "checked"} /\ a.kind # "adopt" => MayBe(a.s, a.n, member', scope', owner')
      <3> SUFFICES ASSUME a.pc \in {"holds", "checked"}, a.kind # "adopt" PROVE MayBe(a.s, a.n, member', scope', owner')
        OBVIOUS
      <3>1. Belongs(a.s, a.n)
        BY <1>a DEF Knows, Belongs
      <3> QED
        BY <3>1, BelongsStays
    <2>2. a.pc = "resolved" =>
             /\ a.kind \in {"deploy", "attach"} /\ a.s \in DOMAIN In /\ member'[a.s].st # "none"
             /\ a.ws = scope'[member'[a.s].p].ws
      BY <1>0, <1>a, ScopeMoves DEF Knows, ScopeMove, ScopeRows
    <2> QED
      BY <1>a, <2>1, <2>2 DEF Knows
  <1>1. CASE placing' = placing
    <2>1. ~\E r \in ScopeRequests : W!Adopt(r)
      <3> SUFFICES ASSUME NEW r \in ScopeRequests, W!Adopt(r) PROVE FALSE
        OBVIOUS
      <3>1. placing[r].pc = "checked" /\ placing'[r] = [placing[r] EXCEPT !.pc = "done"] /\ placing[r] \in PlacingType
        BY <1>0 DEF W!Adopt
      <3>2. placing'[r].pc = "done"
        BY <3>1 DEF PlacingType
      <3> QED
        BY <1>1, <3>1, <3>2
    <2>2. \A n \in Nodes : owner[n] # NoNode => owner'[n] = owner[n]
      BY <2>1, OwnerMoves
    <2>3. ASSUME NEW r \in ScopeRequests PROVE Known(placing[r])
      <3>1. PICK a : a = placing[r]
        OBVIOUS
      <3>2. a \in PlacingType /\ Knows(a, member, scope, owner)
        BY <1>0, <3>1 DEF PlacingInv
      <3>3. a.pc \in {"holds", "checked"} /\ a.kind = "adopt" => owner'[a.n] = owner[a.n]
        BY <2>2, <3>2, OwnersKnown DEF Knows
      <3> QED
        BY <1>a, <3>1, <3>2, <3>3
    <2> QED
      BY <1>0, <1>1, <2>3 DEF PlacingInv
  <1>2. CASE placing' # placing
    <2>1. PICK r \in ScopeRequests :
             /\ Begins(r) \/ GoesOn(r)
             /\ placing' = [placing EXCEPT ![r] = placing'[r]]
             /\ UNCHANGED <<scope, member, moving>>
             /\ owner' # owner => W!Adopt(r)
      BY <1>2, PlacingMoves
    <2>2. placing[r] \in PlacingType /\ Knows(placing[r], member, scope, owner)
          /\ \A q \in ScopeRequests \ {r} : placing'[q] = placing[q]
      BY <1>0, <2>1 DEF PlacingInv
    <2>3. ASSUME NEW q \in ScopeRequests \ {r} PROVE Known(placing[q])
      <3>1. PICK a : a = placing[q]
        OBVIOUS
      <3>2. a \in PlacingType /\ Knows(a, member, scope, owner)
        BY <1>0, <3>1 DEF PlacingInv
      <3>3. a.pc \in {"holds", "checked"} /\ a.kind = "adopt" => owner'[a.n] = owner[a.n]
        <4> SUFFICES ASSUME a.pc \in {"holds", "checked"}, a.kind = "adopt", W!Adopt(r) PROVE owner'[a.n] = owner[a.n]
          BY <2>1
        <4>1. a.n \in Nodes
          BY <3>2 DEF Knows
        <4>2. placing[r].n # a.n
          BY <1>0, <3>1, <4>1 DEF HoldsAlone, W!Exclusive, W!Holders, W!Adopt
        <4> QED
          BY <4>1, <4>2 DEF W!Adopt
      <3> QED
        BY <1>a, <3>1, <3>2, <3>3
    <2>4. PICK a : a = placing'[r]
      OBVIOUS
    <2>5. PICK b : b = placing[r]
      OBVIOUS
    <2>6. b \in PlacingType /\ Knows(b, member, scope, owner)
      BY <2>2, <2>5
    <2>7. a \in PlacingType /\ Known(a)
      <3>1. CASE Begins(r)
        <4>1. ~W!Adopt(r)
          BY <3>1 DEF Begins, W!Adopt
        <4>2. ASSUME NEW k \in {"deploy", "attach"}, NEW s \in DOMAIN In,
                     W!Resolves(s), Requested(a, "resolved", k, s, W!WorkspaceOf(s), NoNode)
              PROVE  a \in PlacingType /\ Known(a)
          BY <2>1, <4>2 DEF Requested, W!Resolves, W!Known, W!WorkspaceOf, Knows
        <4>3. ASSUME NEW s \in DOMAIN In, NEW n \in Nodes,
                     member[s].st # "none", W!IsLegacy(s), Requested(a, "holds", "import", s, NoNode, n)
              PROVE  a \in PlacingType /\ Known(a)
          BY <2>1, <4>3 DEF Requested, Knows, MayBe, W!IsLegacy, W!WorkspaceOf
        <4>4. ASSUME NEW w \in {"w1", "w2"}, NEW n \in Nodes,
                     owner[n] = "internal", Requested(a, "holds", "adopt", NoNode, w, n)
              PROVE  a \in PlacingType /\ Known(a)
          BY <2>1, <4>1, <4>4, OwnersKnown DEF Requested, Knows
        <4> QED
          BY <2>4, <3>1, <4>2, <4>3, <4>4 DEF Begins
      <3>2. ASSUME NEW s \in DOMAIN In, NEW d \in 1..2,
                   placed[d].st = "READY", placed[d].s = s,
                   Requested(a, "checked", "attach", s, NoNode, placed[d].n)
            PROVE  a \in PlacingType /\ Known(a)
        <4>1. Belongs(s, placed[d].n)
          BY <1>0, <3>2 DEF ThereInv
        <4>2. a \in PlacingType /\ a.pc = "checked" /\ a.kind = "attach" /\ a.s = s /\ a.n = placed[d].n
          BY <3>2 DEF Requested
        <4>3. MayBe(a.s, a.n, member', scope', owner')
          BY <4>1, <4>2, BelongsStays
        <4> QED
          BY <4>2, <4>3 DEF Knows
      <3>3. ASSUME NEW n \in Nodes, b.pc = "resolved", b.kind = "deploy", owner[n] = b.ws,
                   a = [b EXCEPT !.pc = "holds", !.n = n]
            PROVE  a \in PlacingType /\ Known(a)
        <4>0. a \in PlacingType
          BY <2>6, <3>3, PlacingFields
        <4>1. a.pc = "holds" /\ a.kind = "deploy" /\ a.n = n /\ a.s = b.s
          BY <2>6, <3>3 DEF PlacingType
        <4>2. Belongs(b.s, n)
          BY <2>6, <3>3 DEF Knows, Belongs, MayBe
        <4>3. MayBe(a.s, a.n, member', scope', owner')
          BY <4>1, <4>2, BelongsStays
        <4> QED
          BY <4>0, <4>1, <4>3 DEF Knows
      <3>4. ASSUME b.pc = "holds", b.kind = "adopt", a = [b EXCEPT !.pc = "checked", !.over = W!OnNode(b.n)]
            PROVE  a \in PlacingType /\ Known(a)
        <4>0. W!OnNode(b.n) \in SUBSET (1..2)
          BY DEF W!OnNode
        <4>1. a \in PlacingType
          BY <2>6, <3>4, <4>0, PlacingFields
        <4>3. a.pc = "checked" /\ a.kind = "adopt" /\ a.n = b.n /\ a.ws = b.ws
          BY <2>6, <3>4 DEF PlacingType
        <4>2. owner' = owner
          BY <2>1, <2>5, <3>4 DEF W!Adopt
        <4> QED
          BY <2>6, <3>4, <4>1, <4>2, <4>3 DEF Knows
      <3>5. ASSUME a = [b EXCEPT !.pc = "done"]
            PROVE  a \in PlacingType /\ Known(a)
        <4>1. a \in PlacingType
          BY <2>6, <3>5, PlacingFields
        <4>2. a.pc = "done"
          BY <2>6, <3>5 DEF PlacingType
        <4> QED
          BY <4>1, <4>2 DEF Knows
      <3> QED
        BY <2>1, <2>4, <2>5, <3>1, <3>2, <3>3, <3>4, <3>5 DEF GoesOn
    <2>8. placing' \in [ScopeRequests -> PlacingType]
      BY <1>0, <2>1, <2>4, <2>7
    <2>9. \A q \in ScopeRequests : Known(placing'[q])
      BY <2>2, <2>3, <2>4, <2>7
    <2> QED
      BY <2>8, <2>9 DEF PlacingInv
  <1> QED
    BY <1>1, <1>2

LEMMA HoldsAloneStep ==
    ASSUME ScopesInv, W!Next
    PROVE  HoldsAlone'
  <1>0. placing \in [ScopeRequests -> PlacingType] /\ HoldsAlone
    BY ScopesTyped DEF ScopesInv
  <1>1. CASE placing' = placing
    BY <1>0, <1>1 DEF HoldsAlone, W!Exclusive, W!Holders
  <1>2. CASE placing' # placing
    <2>1. PICK r \in ScopeRequests :
             (Begins(r) \/ GoesOn(r)) /\ placing' = [placing EXCEPT ![r] = placing'[r]]
      BY <1>2, PlacingMoves
    <2>2. placing[r] \in PlacingType /\ \A q \in ScopeRequests \ {r} : placing'[q] = placing[q]
      BY <1>0, <2>1
    <2>3. PICK a : a = placing'[r]
      OBVIOUS
    <2>4. PICK b : b = placing[r]
      OBVIOUS
    \* who comes to hold a node finds it free, or held by those who share it
    <2>5. ASSUME NEW n \in Nodes, a.n = n, a.pc \in {"holds", "checked"}, a.kind # "attach"
          PROVE  \/ W!Holders(n) = {}
                 \/ W!Exclusive(n) = {} /\ a.kind = "import"
                 \/ b.n = n /\ b.pc \in {"holds", "checked"} /\ b.kind = a.kind
      <3>1. CASE Begins(r)
        BY <2>3, <2>4, <2>5, <3>1 DEF Begins, Requested
      <3>2. CASE GoesOn(r)
        <4>1. CASE \E s \in DOMAIN In, d \in 1..2 : Requested(a, "checked", "attach", s, NoNode, placed[d].n)
          BY <2>5, <4>1 DEF Requested
        <4>2. ASSUME NEW m \in Nodes, b.pc = "resolved", W!Holders(m) = {}, a = [b EXCEPT !.pc = "holds", !.n = m]
              PROVE  W!Holders(n) = {}
          <5>1. a.n = m
            BY <2>2, <2>4, <4>2 DEF PlacingType
          <5> QED
            BY <2>5, <4>2, <5>1
        <4>3. ASSUME b.pc = "holds", b.kind = "adopt", a = [b EXCEPT !.pc = "checked", !.over = W!OnNode(b.n)]
              PROVE  b.n = n /\ b.pc \in {"holds", "checked"} /\ b.kind = a.kind
          BY <2>2, <2>4, <2>5, <4>3 DEF PlacingType
        <4>4. a # [b EXCEPT !.pc = "done"]
          BY <2>2, <2>4, <2>5 DEF PlacingType
        <4> QED
          BY <2>3, <2>4, <3>2, <4>1, <4>2, <4>3, <4>4 DEF GoesOn
      <3> QED
        BY <2>1, <3>1, <3>2
    <2>6. ASSUME NEW n \in Nodes, NEW p \in ScopeRequests, NEW q \in ScopeRequests,
                 placing'[p].n = n, placing'[p].pc \in {"holds", "checked"}, placing'[p].kind \in {"deploy", "adopt"},
                 placing'[q].n = n, placing'[q].pc \in {"holds", "checked"}, placing'[q].kind # "attach"
          PROVE  q = p
      <3>1. ASSUME NEW z \in ScopeRequests, z # r, placing'[z].n = n, placing'[z].pc \in {"holds", "checked"}, placing'[z].kind # "attach"
            PROVE  z \in W!Holders(n) /\ (placing'[z].kind \in {"deploy", "adopt"} => z \in W!Exclusive(n))
        BY <2>2, <3>1 DEF W!Holders, W!Exclusive
      <3>2. CASE p = r /\ q # r
        BY <1>0, <2>3, <2>4, <2>5, <2>6, <3>1, <3>2 DEF HoldsAlone, W!Exclusive, W!Holders
      <3>3. CASE q = r /\ p # r
        BY <1>0, <2>3, <2>4, <2>5, <2>6, <3>1, <3>3 DEF HoldsAlone, W!Exclusive, W!Holders
      <3>4. CASE q # r /\ p # r
        BY <1>0, <2>6, <3>1, <3>4 DEF HoldsAlone
      <3> QED
        BY <3>2, <3>3, <3>4
    <2> QED
      BY <2>6 DEF HoldsAlone, W!Exclusive, W!Holders
  <1> QED
    BY <1>1, <1>2

\* What a step does to a deployment, and to the domain.
PlacedMove(d) ==
    \/ placed'[d] = placed[d]
    \/ /\ placed[d].st = "none" /\ placed'[d].st = "QUEUED"
       /\ \E r \in ScopeRequests :
             /\ placing[r].kind \in {"deploy", "import"} /\ placing[r].pc = "holds"
             /\ placed'[d].s = placing[r].s /\ placed'[d].n = placing[r].n
    \/ /\ placed[d].st # "none" /\ placed'[d].s = placed[d].s /\ placed'[d].n = placed[d].n
       /\ placed'[d].st \in {"READY", "FAILED", "ROLLED_BACK"}

LEMMA PlacedMoves ==
    ASSUME ScopesInv, W!Next
    PROVE  placed' \in [1..2 -> PlacedType] /\ (\A d \in 1..2 : PlacedMove(d)) /\ moving' \subseteq 1..2
           /\ \A d \in moving' : placed'[d].st # "none"
  <1>0. /\ placed \in [1..2 -> PlacedType] /\ placing \in [ScopeRequests -> PlacingType] /\ moving \subseteq 1..2
        /\ \A d \in moving : placed[d].st # "none"
    BY ScopesTyped DEF ScopesInv, ThereInv
  <1>t. \A a \in PlacedType, st \in {"none", "QUEUED", "READY", "FAILED", "ROLLED_BACK"} :
           /\ [a EXCEPT !.st = st] \in PlacedType /\ [a EXCEPT !.st = st].st = st
           /\ [a EXCEPT !.st = st].s = a.s /\ [a EXCEPT !.st = st].n = a.n
    BY DEF PlacedType
  <1>1. ASSUME NEW r \in ScopeRequests, NEW d \in 1..2, W!EndInsert(r, d)
        PROVE  /\ placed' \in [1..2 -> PlacedType] /\ \A e \in 1..2 : PlacedMove(e)
               /\ moving' = moving /\ placed'[d].st = "QUEUED" /\ \A e \in (1..2) \ {d} : placed'[e] = placed[e]
    <2>1. /\ placing[r].kind \in {"deploy", "import"} /\ placing[r].pc = "holds" /\ placed[d].st = "none"
          /\ placed' = [placed EXCEPT ![d] = [st |-> "QUEUED", s |-> placing[r].s, n |-> placing[r].n]]
          /\ moving' = moving
      BY <1>1 DEF W!EndInsert
    <2>2. [st |-> "QUEUED", s |-> placing[r].s, n |-> placing[r].n] \in PlacedType
      BY <1>0 DEF PlacedType, PlacingType
    <2>3. placed' \in [1..2 -> PlacedType] /\ \A e \in (1..2) \ {d} : placed'[e] = placed[e]
      BY <1>0, <2>1, <2>2
    <2>4. placed'[d].st = "QUEUED" /\ placed'[d].s = placing[r].s /\ placed'[d].n = placing[r].n
      BY <1>0, <2>1
    <2> QED
      BY <2>1, <2>3, <2>4 DEF PlacedMove
  <1>2. ASSUME NEW d \in 1..2, W!BecomesReady(d)
        PROVE  /\ placed' \in [1..2 -> PlacedType] /\ \A e \in 1..2 : PlacedMove(e) /\ (placed[e].st # "none" => placed'[e].st # "none")
               /\ moving' = moving \union {d} /\ placed[d].st # "none"
    <2>1. /\ placed[d].st \in {"QUEUED", "FAILED"} /\ moving' = moving \union {d}
          /\ placed' = [e \in 1..2 |->
                IF e = d THEN [placed[d] EXCEPT !.st = "READY"]
                ELSE IF e \in W!ReadyOf(placed[d].s) THEN [placed[e] EXCEPT !.st = "ROLLED_BACK"]
                ELSE placed[e]]
      BY <1>2 DEF W!BecomesReady
    <2>2. placed' \in [1..2 -> PlacedType]
      BY <1>0, <1>t, <2>1
    <2>3. ASSUME NEW e \in 1..2 PROVE PlacedMove(e) /\ (placed[e].st # "none" => placed'[e].st # "none")
      <3>0. placed[e] \in PlacedType
        BY <1>0
      <3>1. CASE e = d
        <4>1. placed'[e] = [placed[e] EXCEPT !.st = "READY"]
          BY <2>1, <3>1
        <4>2. placed'[e].st = "READY" /\ placed'[e].s = placed[e].s /\ placed'[e].n = placed[e].n
          BY <1>t, <3>0, <4>1
        <4>3. placed[e].st # "none"
          BY <2>1, <3>1
        <4> QED
          BY <4>2, <4>3 DEF PlacedMove
      <3>2. CASE e # d /\ e \in W!ReadyOf(placed[d].s)
        <4>1. placed'[e] = [placed[e] EXCEPT !.st = "ROLLED_BACK"] /\ placed[e].st = "READY"
          BY <2>1, <3>2 DEF W!ReadyOf
        <4> QED
          BY <1>t, <3>0, <4>1 DEF PlacedMove
      <3>3. CASE e # d /\ e \notin W!ReadyOf(placed[d].s)
        BY <2>1, <3>3 DEF PlacedMove
      <3> QED
        BY <3>1, <3>2, <3>3
    <2> QED
      BY <2>1, <2>2, <2>3
  <1>3. ASSUME NEW d \in 1..2, W!Fails(d)
        PROVE  /\ placed' \in [1..2 -> PlacedType] /\ \A e \in 1..2 : PlacedMove(e) /\ (placed[e].st # "none" => placed'[e].st # "none")
               /\ moving' = moving
    <2>1. placed' = [placed EXCEPT ![d] = [placed[d] EXCEPT !.st = "FAILED"]] /\ placed[d].st = "QUEUED" /\ moving' = moving
      BY <1>3 DEF W!Fails
    <2>2. placed'[d] = [placed[d] EXCEPT !.st = "FAILED"] /\ \A e \in (1..2) \ {d} : placed'[e] = placed[e]
      BY <1>0, <2>1
    <2>3. placed' \in [1..2 -> PlacedType]
      BY <1>0, <1>t, <2>1
    <2> QED
      BY <1>0, <1>t, <2>1, <2>2, <2>3 DEF PlacedMove
  <1>4. ASSUME placed' = placed, moving' \subseteq moving
        PROVE  /\ placed' \in [1..2 -> PlacedType] /\ (\A e \in 1..2 : PlacedMove(e)) /\ moving' \subseteq 1..2
               /\ \A e \in moving' : placed'[e].st # "none"
    BY <1>0, <1>4 DEF PlacedMove
  <1>5. \/ \E r \in ScopeRequests, d \in 1..2 : W!EndInsert(r, d)
        \/ \E d \in 1..2 : W!BecomesReady(d) \/ W!Fails(d)
        \/ placed' = placed /\ moving' \subseteq moving
    BY DEF W!Next, W!CreateProject, W!ArchiveProject, W!CreateService, W!ArchiveService, W!CreateNode, W!Resolve, W!Place,
       W!InsertLegacy, W!Abandon, W!ReadReady, W!Attach, W!LockNode, W!Check, W!Adopt, W!DeleteDomain, W!MoveDomains
  <1>6. CASE \E r \in ScopeRequests, d \in 1..2 : W!EndInsert(r, d)
    BY <1>0, <1>1, <1>6
  <1>7. CASE \E d \in 1..2 : W!BecomesReady(d) \/ W!Fails(d)
    BY <1>0, <1>2, <1>3, <1>7
  <1> QED
    BY <1>4, <1>5, <1>6, <1>7

DomainMove ==
    \/ domain'[x] = domain[x]
    \/ \E r \in ScopeRequests :
          /\ placing[r].kind = "attach" /\ placing[r].pc = "checked" /\ W!Exclusive(placing[r].n) = {}
          /\ domain'[x].st # "none" /\ domain'[x].s = placing[r].s /\ domain'[x].n = placing[r].n
    \/ domain[x].st # "none" /\ domain'[x].st = "DELETING" /\ domain'[x].s = domain[x].s /\ domain'[x].n = domain[x].n
    \/ \E d \in moving :
          /\ W!Exclusive(placed[d].n) = {} /\ domain[x].st # "none" /\ domain[x].s = placed[d].s
          /\ domain'[x].st # "none" /\ domain'[x].s = placed[d].s /\ domain'[x].n = placed[d].n

LEMMA DomainMoves ==
    ASSUME ScopesInv, W!Next
    PROVE  domain' \in [{x} -> DomainType] /\ DomainMove
  <1>0. /\ domain \in [{x} -> DomainType] /\ domain[x] \in DomainType /\ placed \in [1..2 -> PlacedType]
        /\ placing \in [ScopeRequests -> PlacingType] /\ moving \subseteq 1..2
    BY ScopesTyped DEF ScopesInv
  <1>1. ASSUME NEW r \in ScopeRequests, W!Attach(r, x) PROVE domain' \in [{x} -> DomainType] /\ DomainMove
    <2>1. /\ placing[r].kind = "attach" /\ placing[r].pc = "checked" /\ W!Exclusive(placing[r].n) = {}
          /\ domain' = [domain EXCEPT ![x] = [st |-> "there", s |-> placing[r].s, n |-> placing[r].n]]
      BY <1>1 DEF W!Attach
    <2>2. [st |-> "there", s |-> placing[r].s, n |-> placing[r].n] \in DomainType
      BY <1>0 DEF DomainType, PlacingType
    <2>3. domain' \in [{x} -> DomainType]
      BY <1>0, <2>1, <2>2
    <2>4. domain'[x].st = "there" /\ domain'[x].s = placing[r].s /\ domain'[x].n = placing[r].n
      BY <1>0, <2>1
    <2> QED
      BY <2>1, <2>3, <2>4 DEF DomainMove
  <1>2. ASSUME W!DeleteDomain(x) PROVE domain' \in [{x} -> DomainType] /\ DomainMove
    <2>1. domain[x].st = "there" /\ domain' = [domain EXCEPT ![x] = [domain[x] EXCEPT !.st = "DELETING"]]
      BY <1>2 DEF W!DeleteDomain
    <2>2. /\ [domain[x] EXCEPT !.st = "DELETING"] \in DomainType
          /\ [domain[x] EXCEPT !.st = "DELETING"].st = "DELETING"
          /\ [domain[x] EXCEPT !.st = "DELETING"].s = domain[x].s /\ [domain[x] EXCEPT !.st = "DELETING"].n = domain[x].n
      BY <1>0 DEF DomainType
    <2>3. domain' \in [{x} -> DomainType] /\ domain'[x] = [domain[x] EXCEPT !.st = "DELETING"]
      BY <1>0, <2>1, <2>2
    <2> QED
      BY <2>1, <2>2, <2>3 DEF DomainMove
  <1>3. ASSUME NEW d \in 1..2, W!MoveDomains(d) PROVE domain' \in [{x} -> DomainType] /\ DomainMove
    <2>1. /\ d \in moving /\ W!Exclusive(placed[d].n) = {}
          /\ domain' = [z \in {x} |-> IF z \in W!Followers(d) THEN [domain[z] EXCEPT !.n = placed[d].n] ELSE domain[z]]
      BY <1>3 DEF W!MoveDomains
    <2>2. placed[d].n \in Nodes \union {NoNode}
      BY <1>0 DEF PlacedType
    <2>3. /\ [domain[x] EXCEPT !.n = placed[d].n] \in DomainType
          /\ [domain[x] EXCEPT !.n = placed[d].n].st = domain[x].st
          /\ [domain[x] EXCEPT !.n = placed[d].n].s = domain[x].s /\ [domain[x] EXCEPT !.n = placed[d].n].n = placed[d].n
      BY <1>0, <2>2 DEF DomainType
    <2>4. domain' \in [{x} -> DomainType]
      BY <1>0, <2>1, <2>3
    <2>5. CASE x \in W!Followers(d)
      <3>1. domain'[x] = [domain[x] EXCEPT !.n = placed[d].n] /\ domain[x].st = "there" /\ domain[x].s = placed[d].s
        BY <2>1, <2>5 DEF W!Followers
      <3> QED
        BY <2>1, <2>3, <2>4, <3>1 DEF DomainMove
    <2>6. CASE x \notin W!Followers(d)
      BY <2>1, <2>4, <2>6 DEF DomainMove
    <2> QED
      BY <2>5, <2>6
  <1>4. \/ \E r \in ScopeRequests, z \in {x} : W!Attach(r, z)
        \/ \E z \in {x} : W!DeleteDomain(z)
        \/ \E d \in 1..2 : W!MoveDomains(d)
        \/ domain' = domain
    BY DEF W!Next, W!CreateProject, W!ArchiveProject, W!CreateService, W!ArchiveService, W!CreateNode, W!Resolve, W!Place,
       W!InsertLegacy, W!Abandon, W!ReadReady, W!EndInsert, W!LockNode, W!Check, W!Adopt, W!BecomesReady, W!Fails
  <1>5. CASE domain' = domain
    BY <1>0, <1>5 DEF DomainMove
  <1> QED
    BY <1>1, <1>2, <1>3, <1>4, <1>5

LEMMA ThereStep ==
    ASSUME ScopesInv, W!Next
    PROVE  ThereInv'
  <1>0. PlacingInv /\ ThereInv /\ moving \subseteq 1..2
    BY ScopesTyped DEF ScopesInv
  <1>h. ASSUME NEW r \in ScopeRequests, placing[r].pc \in {"holds", "checked"}, placing[r].kind # "adopt"
        PROVE  MayBe(placing[r].s, placing[r].n, member', scope', owner')
    <2>1. Belongs(placing[r].s, placing[r].n)
      BY <1>0, <1>h DEF PlacingInv, Knows, Belongs
    <2> QED
      BY <2>1, BelongsStays
  <1>1. ASSUME NEW d \in 1..2, placed'[d].st # "none"
        PROVE  MayBe(placed'[d].s, placed'[d].n, member', scope', owner')
    <2>1. CASE placed[d].st # "none" /\ placed'[d].s = placed[d].s /\ placed'[d].n = placed[d].n
      <3>1. Belongs(placed[d].s, placed[d].n)
        BY <1>0, <2>1 DEF ThereInv
      <3>2. MayBe(placed[d].s, placed[d].n, member', scope', owner')
        BY <3>1, BelongsStays
      <3> QED
        BY <2>1, <3>2
    <2>2. ASSUME NEW r \in ScopeRequests, placing[r].kind \in {"deploy", "import"}, placing[r].pc = "holds",
                 placed'[d].s = placing[r].s, placed'[d].n = placing[r].n
          PROVE  MayBe(placed'[d].s, placed'[d].n, member', scope', owner')
      <3>1. MayBe(placing[r].s, placing[r].n, member', scope', owner')
        BY <1>h, <2>2
      <3> QED
        BY <2>2, <3>1
    <2>3. PlacedMove(d)
      BY PlacedMoves
    <2> QED
      BY <1>1, <2>1, <2>2, <2>3 DEF PlacedMove
  <1>2. ASSUME domain'[x].st # "none"
        PROVE  MayBe(domain'[x].s, domain'[x].n, member', scope', owner')
    <2>1. CASE domain[x].st # "none" /\ domain'[x].s = domain[x].s /\ domain'[x].n = domain[x].n
      <3>1. Belongs(domain[x].s, domain[x].n)
        BY <1>0, <2>1 DEF ThereInv
      <3>2. MayBe(domain[x].s, domain[x].n, member', scope', owner')
        BY <3>1, BelongsStays
      <3> QED
        BY <2>1, <3>2
    <2>2. ASSUME NEW r \in ScopeRequests, placing[r].kind = "attach", placing[r].pc = "checked",
                 domain'[x].s = placing[r].s, domain'[x].n = placing[r].n
          PROVE  MayBe(domain'[x].s, domain'[x].n, member', scope', owner')
      <3>1. MayBe(placing[r].s, placing[r].n, member', scope', owner')
        BY <1>h, <2>2
      <3> QED
        BY <2>2, <3>1
    <2>3. ASSUME NEW d \in moving, domain'[x].s = placed[d].s, domain'[x].n = placed[d].n
          PROVE  MayBe(domain'[x].s, domain'[x].n, member', scope', owner')
      <3>1. Belongs(placed[d].s, placed[d].n)
        BY <1>0 DEF ThereInv
      <3>2. MayBe(placed[d].s, placed[d].n, member', scope', owner')
        BY <3>1, BelongsStays
      <3> QED
        BY <2>3, <3>2
    <2>4. DomainMove
      BY DomainMoves
    <2> QED
      BY <1>2, <2>1, <2>2, <2>3, <2>4 DEF DomainMove
  <1>3. \A d \in moving' : placed'[d].st # "none"
    BY PlacedMoves
  <1> QED
    BY <1>1, <1>2, <1>3 DEF ThereInv, Belongs

\* Nothing comes to a node that is being adopted.
LEMMA AdoptionStep ==
    ASSUME ScopesInv, W!Next
    PROVE  AdoptionInv'
  <1>0. /\ placing \in [ScopeRequests -> PlacingType] /\ PlacingInv /\ HoldsAlone /\ AdoptionInv
        /\ placed \in [1..2 -> PlacedType]
    BY ScopesTyped DEF ScopesInv
  <1>1. ASSUME NEW r \in ScopeRequests, placing'[r].pc = "checked", placing'[r].kind = "adopt"
        PROVE  /\ domain'[x].n = placing'[r].n => domain'[x].st # "there"
               /\ \A d \in 1..2 : placed'[d].st # "none" /\ placed'[d].n = placing'[r].n =>
                     d \in placing'[r].over /\ placed'[d].st # "QUEUED"
    <2>1. CASE placing'[r] = placing[r]
      <3>1. r \in W!Exclusive(placing[r].n) /\ placing[r].n \in Nodes
        BY <1>0, <1>1, <2>1 DEF W!Exclusive, W!Holders, PlacingInv, Knows
      <3>2. domain'[x].n = placing[r].n => domain'[x].st # "there"
        BY <1>0, <1>1, <2>1, <3>1, DomainMoves DEF AdoptionInv, DomainMove
      <3>3. ASSUME NEW d \in 1..2, placed'[d].st # "none", placed'[d].n = placing[r].n
            PROVE  d \in placing[r].over /\ placed'[d].st # "QUEUED"
        <4>1. ASSUME NEW q \in ScopeRequests, placing[q].kind \in {"deploy", "import"}, placing[q].pc = "holds",
                     placed'[d].n = placing[q].n
              PROVE  FALSE
          <5>1. q \in W!Holders(placing[r].n)
            BY <3>3, <4>1 DEF W!Holders
          <5>2. q = r
            BY <1>0, <3>1, <5>1 DEF HoldsAlone
          <5> QED
            BY <1>1, <2>1, <4>1, <5>2
        <4>2. PlacedMove(d)
          BY PlacedMoves
        <4> QED
          BY <1>0, <1>1, <2>1, <3>3, <4>1, <4>2 DEF PlacedMove, AdoptionInv
      <3> QED
        BY <2>1, <3>2, <3>3
    <2>2. CASE placing'[r] # placing[r]
      <3>1. Begins(r) \/ GoesOn(r)
        <4>1. PICK q \in ScopeRequests : (Begins(q) \/ GoesOn(q)) /\ placing' = [placing EXCEPT ![q] = placing'[q]]
          BY <2>2, PlacingMoves
        <4>2. q = r
          BY <1>0, <2>2, <4>1
        <4> QED
          BY <4>1, <4>2
      <3>2. PICK a : a = placing'[r]
        OBVIOUS
      <3>3. PICK b : b = placing[r] /\ b \in PlacingType
        BY <1>0
      <3>4. ~Begins(r)
        BY <1>1 DEF Begins, Requested
      <3>5. a # [b EXCEPT !.pc = "done"]
        BY <1>1, <3>2, <3>3 DEF PlacingType
      <3>6. ~\E n \in Nodes : a = [b EXCEPT !.pc = "holds", !.n = n]
        BY <1>1, <3>2, <3>3 DEF PlacingType
      <3>7. ~\E s \in DOMAIN In, d \in 1..2 : Requested(a, "checked", "attach", s, NoNode, placed[d].n)
        BY <1>1, <3>2 DEF Requested
      <3>8. /\ b.pc = "holds" /\ b.kind = "adopt" /\ ~W!Blocked(b.n)
            /\ a = [b EXCEPT !.pc = "checked", !.over = W!OnNode(b.n)]
            /\ UNCHANGED <<placed, domain>>
        BY <3>1, <3>2, <3>3, <3>4, <3>5, <3>6, <3>7 DEF GoesOn
      <3>9. a.n = b.n /\ a.over = W!OnNode(b.n)
        BY <3>3, <3>8 DEF PlacingType
      <3> QED
        BY <3>2, <3>8, <3>9 DEF W!Blocked, W!OnNode, W!Active
    <2> QED
      BY <2>1, <2>2
  <1> QED
    BY <1>1 DEF AdoptionInv

LEMMA ScopesStep ==
    ASSUME ScopesInv, W!Next
    PROVE  ScopesInv'
  <1>1. /\ scope' \in [DOMAIN Home -> ScopeType] /\ member' \in [DOMAIN In -> MemberType] /\ ScopeRows'
    BY ScopeMoves DEF ScopeMove
  <1>2. owner' \in [Nodes -> W!Owners \union {NoNode}]
    BY OwnerMoves
  <1>3. placing' \in [ScopeRequests -> PlacingType] /\ PlacingInv'
    BY PlacingStep
  <1>4. placed' \in [1..2 -> PlacedType] /\ moving' \subseteq 1..2
    BY PlacedMoves
  <1>5. domain' \in [{x} -> DomainType]
    BY DomainMoves
  <1>6. W!TypeOK'
    BY <1>1, <1>2, <1>3, <1>4, <1>5 DEF W!TypeOK, ScopeType, MemberType, PlacingType, PlacedType, DomainType
  <1> QED
    BY <1>1, <1>3, <1>6, HoldsAloneStep, AdoptionStep, ThereStep DEF ScopesInv

LEMMA ScopesStay == ScopesInv => W!StaysInWorkspace
BY DEF ScopesInv, ThereInv, Belongs, MayBe, W!StaysInWorkspace, W!IsLegacy, W!WorkspaceOf

LEMMA ScopesAdopt ==
    ASSUME ScopesInv, W!Next
    PROVE  W!AdoptsEmpty
  <1>0. /\ placing \in [ScopeRequests -> PlacingType] /\ PlacingInv /\ AdoptionInv /\ placed \in [1..2 -> PlacedType]
    BY ScopesTyped DEF ScopesInv
  <1> SUFFICES ASSUME NEW n \in Nodes, owner[n] # NoNode, owner'[n] # owner[n]
               PROVE  /\ owner[n] = "internal"
                      /\ domain[x].n = n => domain[x].st # "there"
                      /\ \A d \in W!OnNode(n) : placed[d].st \in {"QUEUED", "READY"} =>
                            placed[d].st = "READY" /\ \E r \in W!Holders(n) : d \in placing[r].over
    BY DEF W!AdoptsEmpty, W!Active
  <1>1. PICK r \in ScopeRequests : W!Adopt(r) /\ placing[r].n = n
    BY OwnerMoves
  <1>2. placing[r].kind = "adopt" /\ placing[r].pc = "checked"
    BY <1>1 DEF W!Adopt
  <1>3. owner[n] = "internal" /\ r \in W!Holders(n)
    BY <1>0, <1>1, <1>2 DEF PlacingInv, Knows, W!Holders
  <1>4. /\ domain[x].n = n => domain[x].st # "there"
        /\ \A d \in W!OnNode(n) : d \in placing[r].over /\ placed[d].st # "QUEUED"
    BY <1>0, <1>1, <1>2 DEF AdoptionInv, W!OnNode
  <1> QED
    BY <1>3, <1>4

-----------------------------------------------------------------------------
(* ServiceVariables *)

WriteType == [pc : {"none", "open", "done", "failed"}, todo : Seq(Keys), wrote : SUBSET Keys,
              secret : BOOLEAN, at : V!Ticks]
CapturedType == [st : {"none", "open", "queued", "over"}, of : V!Captures \union {0}, env : V!Environment]

\* writes that may commit yet: each has its tick left
Pending == {w \in V!Writes : write[w].pc \in {"none", "open"}}

VariableTypes ==
    /\ stored \in V!Environment /\ write \in [V!Writes -> WriteType] /\ captured \in [V!Captures -> CapturedType]
    /\ sent \in [V!Captures -> SUBSET V!Environment] /\ logged \subseteq V!Variable
    /\ clock \in Nat /\ deletedAt \in [Keys -> V!Ticks]
ClockInv == clock + Cardinality(Pending) <= MaxWrites + MaxDeletes

\* Of a write w that committed, env still has the variable k, or a later write's,
\* or it was deleted since.
Intact(env, k, w, writes, deletions) ==
    IF env[k] = V!NoVar THEN deletions[k] >= writes[w].at
    ELSE env[k].by = w \/ writes[env[k].by].at >= writes[w].at

\* Variables come from writes that committed; what is stored has all of each,
\* what was captured has all of those it has something of.
Committed(env, writes) ==
    \A k \in Keys : env[k] # V!NoVar => env[k].by \in V!Writes /\ writes[env[k].by].pc = "done"
Whole(env, writes, deletions) ==
    /\ Committed(env, writes)
    /\ \A w \in V!Writes : (\E k \in Keys : env[k] # V!NoVar /\ env[k].by = w) =>
          \A k \in writes[w].wrote : Intact(env, k, w, writes, deletions)
\* no variable was deleted later than now
DeletedInv == \A k \in Keys : deletedAt[k] <= clock
CommitsInv ==
    /\ \A w \in V!Writes : write[w].pc = "done" => write[w].at <= clock
    /\ Committed(stored, write)
    /\ \A w \in V!Writes : write[w].pc = "done" => \A k \in write[w].wrote : Intact(stored, k, w, write, deletedAt)
WholeInv == \A d \in V!Captures : Whole(captured[d].env, write, deletedAt)

\* A deployment is sent what it captured, or what the target of a rollback did.
SentInv ==
    \A d \in V!Captures :
       /\ sent[d] \subseteq {captured[d].env}
       /\ sent[d] # {} => captured[d].st # "none"
       /\ captured[d].st = "none" => captured[d].of = 0
       /\ captured[d].of # 0 => sent[captured[d].of] # {} /\ captured[d].env = captured[captured[d].of].env

VariablesInv == VariableTypes /\ ClockInv /\ DeletedInv /\ CommitsInv /\ WholeInv /\ SentInv /\ V!LogsHideSecrets

LEMMA VariableConstantsKnown ==
    /\ MaxWrites \in Nat /\ MaxCaptures \in Nat /\ MaxDeletes \in Nat /\ \A o \in Orders : o \in Seq(Keys)
BY VariableConstants DEF V!OrdersAssumption, V!VariableBounds

\* The modules' Cardinality is the one the library's theorems are about.
LEMMA SameCardinality == \A Q : V!Cardinality(Q) = Cardinality(Q)
  <1>1. \A Q : V!IsFiniteSet(Q) <=> IsFiniteSet(Q)
    BY Zenon DEF V!IsFiniteSet, IsFiniteSet
  <1> QED
    BY <1>1, Zenon DEF V!Cardinality, Cardinality

LEMMA NoVarTyped == V!NoVar \in V!Variable /\ V!NoVar.by = 0 /\ V!NoVar.secret = FALSE /\ V!Empty \in V!Environment
BY DEF V!NoVar, V!Variable, V!Empty, V!Environment

\* Ticks are enough.
LEMMA WritesFinite == IsFiniteSet(V!Writes) /\ Cardinality(V!Writes) = MaxWrites
BY VariableConstantsKnown, FS_Interval DEF V!Writes

LEMMA PendingFinite == IsFiniteSet(Pending) /\ Cardinality(Pending) \in Nat
  <1>1. Pending \subseteq V!Writes
    BY DEF Pending
  <1> QED
    BY <1>1, WritesFinite, FS_Subset, FS_CardinalityType

LEMMA VariablesInit == V!Init => VariablesInv
  <1> SUFFICES ASSUME V!Init PROVE VariablesInv
    OBVIOUS
  <1>1. /\ stored = V!Empty
        /\ write = [w \in V!Writes |-> [pc |-> "none", todo |-> <<>>, wrote |-> {}, secret |-> FALSE, at |-> 0]]
        /\ captured = [d \in V!Captures |-> [st |-> "none", of |-> 0, env |-> V!Empty]]
        /\ sent = [d \in V!Captures |-> {}] /\ logged = {}
        /\ clock = 0 /\ deletedAt = [k \in Keys |-> 0]
    BY DEF V!Init
  <1>2. 0 \in V!Ticks
    BY VariableConstantsKnown DEF V!Ticks
  <1>3. [pc |-> "none", todo |-> <<>>, wrote |-> {}, secret |-> FALSE, at |-> 0] \in WriteType
    BY <1>2 DEF WriteType
  <1>4. [st |-> "none", of |-> 0, env |-> V!Empty] \in CapturedType
    BY NoVarTyped DEF CapturedType
  <1>5. VariableTypes
    <2>1. stored \in V!Environment /\ write \in [V!Writes -> WriteType]
      BY <1>1, <1>3, NoVarTyped
    <2>2. captured \in [V!Captures -> CapturedType] /\ sent \in [V!Captures -> SUBSET V!Environment]
      BY <1>1, <1>4
    <2>3. logged \subseteq V!Variable /\ clock \in Nat /\ deletedAt \in [Keys -> V!Ticks]
      BY <1>1, <1>2
    <2> QED
      BY <2>1, <2>2, <2>3 DEF VariableTypes
  <1>6. ClockInv
    <2>1. Pending \subseteq V!Writes
      BY DEF Pending
    <2>2. Cardinality(Pending) <= MaxWrites /\ Cardinality(Pending) \in Nat
      BY <2>1, WritesFinite, PendingFinite, FS_Subset
    <2> QED
      BY <1>1, <2>2, VariableConstantsKnown DEF ClockInv
  <1>13. DeletedInv
    BY <1>1 DEF DeletedInv
  <1>7. \A k \in Keys : V!Empty[k] = V!NoVar
    BY DEF V!Empty
  <1>8. CommitsInv
    BY <1>1, <1>7 DEF CommitsInv, Committed
  <1>9. \A d \in V!Captures : captured[d].env = V!Empty /\ captured[d].st = "none" /\ captured[d].of = 0 /\ sent[d] = {}
    BY <1>1
  <1>11. WholeInv
    BY <1>7, <1>9 DEF WholeInv, Whole, Committed
  <1>12. SentInv /\ V!LogsHideSecrets
    BY <1>1, <1>9 DEF SentInv, V!LogsHideSecrets
  <1> QED
    BY <1>5, <1>6, <1>13, <1>8, <1>11, <1>12 DEF VariablesInv

LEMMA WriteFields ==
    ASSUME NEW a \in WriteType
    PROVE  /\ \A o \in Orders, secret \in BOOLEAN : [a EXCEPT !.pc = "open", !.todo = o, !.secret = secret] \in WriteType
           /\ \A t \in Seq(Keys), u \in SUBSET Keys : [a EXCEPT !.wrote = u, !.todo = t] \in WriteType
           /\ \A t \in V!Ticks : [a EXCEPT !.pc = "done", !.at = t] \in WriteType
           /\ [a EXCEPT !.pc = "failed"] \in WriteType
  <1>1. \A o \in Orders : o \in Seq(Keys)
    BY VariableConstantsKnown
  <1>2. \A o \in Orders, secret \in BOOLEAN : [a EXCEPT !.pc = "open", !.todo = o, !.secret = secret] \in WriteType
    BY <1>1 DEF WriteType
  <1>3. \A t \in Seq(Keys), u \in SUBSET Keys : [a EXCEPT !.wrote = u, !.todo = t] \in WriteType
    BY DEF WriteType
  <1>4. \A t \in V!Ticks : [a EXCEPT !.pc = "done", !.at = t] \in WriteType
    BY DEF WriteType
  <1>5. [a EXCEPT !.pc = "failed"] \in WriteType
    BY DEF WriteType
  <1> QED
    BY <1>2, <1>3, <1>4, <1>5

\* A step begins, continues, commits or fails one write, or deletes a variable.
CommitsNow(w) ==
    /\ write[w].pc = "open" /\ clock' = clock + 1 /\ deletedAt' = deletedAt
    /\ write'[w].pc = "done" /\ write'[w].at = clock + 1 /\ write'[w].wrote = write[w].wrote
    /\ \A k \in Keys : IF k \in write[w].wrote THEN stored'[k] # V!NoVar /\ stored'[k].by = w ELSE stored'[k] = stored[k]
DeletesNow(k) ==
    /\ clock' = clock + 1 /\ write' = write
    /\ clock < MaxWrites + MaxDeletes - Cardinality(Pending)
    /\ deletedAt' = [deletedAt EXCEPT ![k] = clock + 1] /\ stored' = [stored EXCEPT ![k] = V!NoVar]
WriteMove ==
    \/ UNCHANGED <<write, stored, clock, deletedAt>>
    \/ \E k \in Keys : DeletesNow(k)
    \/ \E w \in V!Writes :
          /\ write[w].pc \in {"none", "open"} /\ \A u \in V!Writes \ {w} : write'[u] = write[u]
          /\ \/ write'[w].pc \in {"open", "failed"} /\ UNCHANGED <<stored, clock, deletedAt>>
             \/ CommitsNow(w)

LEMMA WriteMoves ==
    ASSUME VariablesInv, V!Next
    PROVE  WriteMove /\ write' \in [V!Writes -> WriteType]
  <1>0. VariableTypes /\ ClockInv
    BY DEF VariablesInv
  <1>00. stored \in V!Environment /\ write \in [V!Writes -> WriteType] /\ clock \in Nat
    BY <1>0 DEF VariableTypes
  <1>1. ASSUME NEW w \in V!Writes, NEW o \in Orders, NEW secret \in BOOLEAN, V!BeginWrite(w, o, secret)
        PROVE  WriteMove /\ write' \in [V!Writes -> WriteType]
    <2>1. /\ write[w].pc = "none" /\ write' = [write EXCEPT ![w] = [write[w] EXCEPT !.pc = "open", !.todo = o, !.secret = secret]]
          /\ UNCHANGED <<stored, clock, deletedAt>>
      BY <1>1 DEF V!BeginWrite, V!Arrives
    <2>2. PICK a \in WriteType : a = write[w]
      BY <1>00
    <2>3. [a EXCEPT !.pc = "open", !.todo = o, !.secret = secret] \in WriteType
      BY WriteFields
    <2>4. [a EXCEPT !.pc = "open", !.todo = o, !.secret = secret].pc = "open"
      BY DEF WriteType
    <2>5. write' \in [V!Writes -> WriteType] /\ write'[w].pc = "open" /\ \A u \in V!Writes \ {w} : write'[u] = write[u]
      BY <1>00, <2>1, <2>2, <2>3, <2>4
    <2> QED
      BY <2>1, <2>5 DEF WriteMove
  <1>2. ASSUME NEW w \in V!Writes, V!WriteVariable(w)
        PROVE  WriteMove /\ write' \in [V!Writes -> WriteType]
    <2> DEFINE h == Head(write[w].todo)  t == Tail(write[w].todo)
    <2>1. /\ write[w].pc = "open" /\ write[w].todo # <<>> /\ stored' = stored
          /\ write' = [write EXCEPT ![w] = [write[w] EXCEPT !.wrote = write[w].wrote \union {h}, !.todo = t]]
          /\ UNCHANGED <<clock, deletedAt>>
      BY <1>2 DEF V!WriteVariable, V!Visible
    <2>2. PICK a \in WriteType : a = write[w]
      BY <1>00
    <2>3. a.todo \in Seq(Keys) /\ a.todo # <<>> /\ a.wrote \subseteq Keys /\ a.pc = "open"
      BY <2>1, <2>2 DEF WriteType
    <2>4. PICK t0, w0 : t0 = Tail(a.todo) /\ w0 = a.wrote \union {Head(a.todo)}
      OBVIOUS
    <2>5. t0 \in Seq(Keys) /\ w0 \in SUBSET Keys
      BY <2>3, <2>4
    <2>6. [a EXCEPT !.wrote = w0, !.todo = t0] \in WriteType /\ [a EXCEPT !.wrote = w0, !.todo = t0].pc = "open"
      <3>1. [a EXCEPT !.wrote = w0, !.todo = t0] \in WriteType
        BY <2>5, WriteFields
      <3>2. [a EXCEPT !.wrote = w0, !.todo = t0].pc = a.pc
        BY <2>2 DEF WriteType
      <3> QED
        BY <2>3, <3>1, <3>2
    <2>7. write' = [write EXCEPT ![w] = [a EXCEPT !.wrote = w0, !.todo = t0]]
      BY <2>1, <2>2, <2>4
    <2>8. write' \in [V!Writes -> WriteType] /\ write'[w].pc = "open" /\ \A u \in V!Writes \ {w} : write'[u] = write[u]
      BY <1>00, <2>6, <2>7
    <2> QED
      BY <2>1, <2>8 DEF WriteMove
  <1>3. ASSUME NEW w \in V!Writes, V!CommitWrite(w)
        PROVE  WriteMove /\ write' \in [V!Writes -> WriteType]
    <2>1. /\ write[w].pc = "open" /\ clock' = clock + 1 /\ deletedAt' = deletedAt
          /\ write' = [write EXCEPT ![w] = [write[w] EXCEPT !.pc = "done", !.at = clock + 1]]
          /\ stored' = [k \in Keys |-> IF k \in write[w].wrote THEN [by |-> w, secret |-> write[w].secret] ELSE stored[k]]
      BY <1>3 DEF V!CommitWrite
    <2>2. PICK a \in WriteType : a = write[w]
      BY <1>00
    <2>3. w \in Pending
      BY <2>1 DEF Pending
    <2>4. Cardinality(Pending) # 0
      BY <2>3, PendingFinite, FS_EmptySet
    <2>5. clock + 1 \in V!Ticks
      BY <1>0, <1>00, <2>4, PendingFinite, VariableConstantsKnown DEF ClockInv, V!Ticks
    <2>6. [a EXCEPT !.pc = "done", !.at = clock + 1] \in WriteType
      BY <2>5, WriteFields
    <2>7. /\ [a EXCEPT !.pc = "done", !.at = clock + 1].pc = "done" /\ [a EXCEPT !.pc = "done", !.at = clock + 1].at = clock + 1
          /\ [a EXCEPT !.pc = "done", !.at = clock + 1].wrote = a.wrote
      BY DEF WriteType
    <2>8. /\ write' \in [V!Writes -> WriteType] /\ write'[w].pc = "done" /\ write'[w].at = clock + 1 /\ write'[w].wrote = write[w].wrote
          /\ \A u \in V!Writes \ {w} : write'[u] = write[u]
      BY <1>00, <2>1, <2>2, <2>6, <2>7
    <2>9. ASSUME NEW k \in Keys
          PROVE  IF k \in write[w].wrote THEN stored'[k] # V!NoVar /\ stored'[k].by = w ELSE stored'[k] = stored[k]
      <3>1. [by |-> w, secret |-> write[w].secret].by = w /\ w # 0
        BY DEF V!Writes
      <3>2. k \in write[w].wrote => stored'[k] = [by |-> w, secret |-> write[w].secret]
        BY <2>1
      <3>3. k \notin write[w].wrote => stored'[k] = stored[k]
        BY <2>1
      <3> QED
        BY <3>1, <3>2, <3>3, NoVarTyped
    <2> QED
      BY <2>1, <2>8, <2>9 DEF WriteMove, CommitsNow
  <1>4. ASSUME NEW w \in V!Writes, V!FailWrite(w)
        PROVE  WriteMove /\ write' \in [V!Writes -> WriteType]
    <2>1. /\ write[w].pc = "open" /\ write' = [write EXCEPT ![w] = [write[w] EXCEPT !.pc = "failed"]]
          /\ UNCHANGED <<stored, clock, deletedAt>>
      BY <1>4 DEF V!FailWrite
    <2>2. PICK a \in WriteType : a = write[w]
      BY <1>00
    <2>3. [a EXCEPT !.pc = "failed"] \in WriteType /\ [a EXCEPT !.pc = "failed"].pc = "failed"
      BY WriteFields DEF WriteType
    <2>4. write' \in [V!Writes -> WriteType] /\ write'[w].pc = "failed" /\ \A u \in V!Writes \ {w} : write'[u] = write[u]
      BY <1>00, <2>1, <2>2, <2>3
    <2> QED
      BY <2>1, <2>4 DEF WriteMove
  <1>5. ASSUME NEW k \in Keys, V!DeleteVariable(k)
        PROVE  WriteMove /\ write' \in [V!Writes -> WriteType]
    <2>1. Pending = {w \in V!Writes : write[w].pc \in {"none", "open"}}
      BY DEF Pending
    <2>2. clock' = clock + 1 /\ deletedAt' = [deletedAt EXCEPT ![k] = clock + 1] /\ write' = write
          /\ stored' = [stored EXCEPT ![k] = V!NoVar]
      BY <1>5 DEF V!DeleteVariable
    <2>3. clock < MaxWrites + MaxDeletes - Cardinality(Pending)
      BY <1>5, <2>1, SameCardinality DEF V!DeleteVariable
    <2>4. DeletesNow(k)
      BY <2>2, <2>3 DEF DeletesNow
    <2> QED
      BY <1>00, <2>2, <2>4 DEF WriteMove
  <1>6. ASSUME UNCHANGED <<write, stored, clock, deletedAt>>
        PROVE  WriteMove /\ write' \in [V!Writes -> WriteType]
    BY <1>00, <1>6 DEF WriteMove
  <1> QED
    BY <1>1, <1>2, <1>3, <1>4, <1>5, <1>6 DEF V!Next, V!Capture, V!EndCapture, V!Dispatch, V!Log, V!Copy

\* What a write that is over left stays: its tick, and the variables it is seen in.
LEMMA WholeStays ==
    ASSUME VariablesInv, WriteMove, NEW env, Whole(env, write, deletedAt)
    PROVE  Whole(env, write', deletedAt')
  <1>1. \A w \in V!Writes : write[w].pc = "done" => write'[w] = write[w]
    BY DEF WriteMove, DeletesNow, CommitsNow
  <1>2. \A k \in Keys : deletedAt[k] \in Nat /\ clock \in Nat /\ deletedAt[k] <= clock
    BY DEF VariablesInv, VariableTypes, DeletedInv, V!Ticks
  <1>3. \A k \in Keys : deletedAt'[k] \in Nat /\ deletedAt'[k] >= deletedAt[k]
    <2>1. deletedAt \in [Keys -> V!Ticks]
      BY DEF VariablesInv, VariableTypes
    <2>2. CASE deletedAt' = deletedAt
      BY <1>2, <2>2
    <2>3. ASSUME NEW j \in Keys, DeletesNow(j) PROVE \A k \in Keys : deletedAt'[k] \in Nat /\ deletedAt'[k] >= deletedAt[k]
      <3>1. \A k \in Keys : deletedAt'[k] = IF k = j THEN clock + 1 ELSE deletedAt[k]
        BY <2>1, <2>3 DEF DeletesNow
      <3> QED
        BY <1>2, <3>1
    <2> QED
      BY <2>2, <2>3 DEF WriteMove, CommitsNow
  <1>4. \A w \in V!Writes : write[w].at \in Nat
    BY VariableConstantsKnown DEF VariablesInv, VariableTypes, WriteType, V!Ticks
  <1>5. Committed(env, write) /\ Committed(env, write')
    BY <1>1 DEF Whole, Committed
  <1>6. ASSUME NEW w \in V!Writes, \E k \in Keys : env[k] # V!NoVar /\ env[k].by = w, NEW k \in write'[w].wrote
        PROVE  Intact(env, k, w, write', deletedAt')
    <2>1. write[w].pc = "done" /\ write'[w] = write[w]
      BY <1>1, <1>5, <1>6 DEF Committed
    <2>2. k \in Keys /\ Intact(env, k, w, write, deletedAt)
      BY <1>6, <2>1 DEF Whole, VariablesInv, VariableTypes, WriteType
    <2>3. CASE env[k] = V!NoVar
      BY <1>2, <1>3, <1>4, <2>1, <2>2, <2>3 DEF Intact
    <2>4. CASE env[k] # V!NoVar
      <3>1. env[k].by \in V!Writes /\ write'[env[k].by] = write[env[k].by]
        BY <1>1, <1>5, <2>2, <2>4 DEF Committed
      <3> QED
        BY <2>1, <2>2, <2>4, <3>1 DEF Intact
    <2> QED
      BY <2>3, <2>4
  <1> QED
    BY <1>5, <1>6 DEF Whole

\* What is stored has all of each write that is over, and is what a capture takes.
LEMMA StoredIsWhole ==
    ASSUME VariablesInv
    PROVE  Whole(stored, write, deletedAt)
  <1> QED
    BY DEF VariablesInv, CommitsInv, Whole, Committed

LEMMA CommitsStay ==
    ASSUME VariablesInv, WriteMove, write' \in [V!Writes -> WriteType]
    PROVE  CommitsInv'
  <1>0. /\ clock \in Nat /\ CommitsInv /\ stored \in V!Environment /\ deletedAt \in [Keys -> V!Ticks]
        /\ \A w \in V!Writes : write[w].at \in Nat /\ write'[w].at \in Nat /\ write[w].wrote \subseteq Keys /\ write'[w].wrote \subseteq Keys
    BY VariableConstantsKnown DEF VariablesInv, VariableTypes, WriteType, V!Ticks
  <1>1. CASE UNCHANGED <<write, stored, clock, deletedAt>>
    BY <1>0, <1>1 DEF CommitsInv, Committed, Intact
  <1>2. ASSUME NEW j \in Keys, DeletesNow(j)
        PROVE  CommitsInv'
    <2>1. clock' = clock + 1 /\ write' = write
      BY <1>2 DEF DeletesNow
    <2>2. \A k \in Keys : /\ stored'[k] = IF k = j THEN V!NoVar ELSE stored[k]
                          /\ deletedAt'[k] = IF k = j THEN clock + 1 ELSE deletedAt[k]
      BY <1>0, <1>2 DEF DeletesNow, V!Environment
    <2>3. \A w \in V!Writes : write'[w].pc = "done" => write'[w].at <= clock'
      BY <1>0, <2>1 DEF CommitsInv
    <2>4. Committed(stored', write')
      BY <1>0, <2>1, <2>2 DEF CommitsInv, Committed
    <2>5. ASSUME NEW w \in V!Writes, write'[w].pc = "done", NEW k \in write'[w].wrote
          PROVE  Intact(stored', k, w, write', deletedAt')
      <3>1. k \in Keys /\ write[w].at <= clock /\ Intact(stored, k, w, write, deletedAt)
        BY <1>0, <2>1, <2>5 DEF CommitsInv
      <3>2. CASE k = j
        BY <1>0, <2>1, <2>2, <3>1, <3>2 DEF Intact
      <3>3. CASE k # j
        BY <1>0, <2>1, <2>2, <3>1, <3>3 DEF Intact
      <3> QED
        BY <3>2, <3>3
    <2> QED
      BY <2>3, <2>4, <2>5 DEF CommitsInv
  <1>3. ASSUME NEW w0 \in V!Writes, write[w0].pc \in {"none", "open"}, \A u \in V!Writes \ {w0} : write'[u] = write[u],
               write'[w0].pc \in {"open", "failed"}, UNCHANGED <<stored, clock, deletedAt>>
        PROVE  CommitsInv'
    <2>1. \A w \in V!Writes : write[w].pc = "done" => write'[w] = write[w]
      BY <1>3
    <2>2. \A w \in V!Writes : write'[w].pc = "done" => write[w].pc = "done" /\ write'[w] = write[w]
      BY <1>3
    <2>3. Committed(stored', write')
      BY <1>0, <1>3, <2>1 DEF CommitsInv, Committed
    <2>4. ASSUME NEW w \in V!Writes, write'[w].pc = "done", NEW k \in write'[w].wrote
          PROVE  Intact(stored', k, w, write', deletedAt')
      <3>1. k \in Keys /\ Intact(stored, k, w, write, deletedAt) /\ write'[w] = write[w]
        BY <1>0, <2>2, <2>4 DEF CommitsInv
      <3>2. stored[k] # V!NoVar => write'[stored[k].by] = write[stored[k].by]
        BY <1>0, <2>1, <3>1 DEF CommitsInv, Committed
      <3> QED
        BY <1>3, <3>1, <3>2 DEF Intact
    <2> QED
      BY <1>0, <1>3, <2>2, <2>3, <2>4 DEF CommitsInv
  <1>4. ASSUME NEW w0 \in V!Writes, \A u \in V!Writes \ {w0} : write'[u] = write[u], CommitsNow(w0)
        PROVE  CommitsInv'
    <2>1. /\ write[w0].pc = "open" /\ clock' = clock + 1 /\ deletedAt' = deletedAt
          /\ write'[w0].pc = "done" /\ write'[w0].at = clock + 1 /\ write'[w0].wrote = write[w0].wrote
          /\ \A k \in Keys : IF k \in write[w0].wrote THEN stored'[k] # V!NoVar /\ stored'[k].by = w0 ELSE stored'[k] = stored[k]
      BY <1>4 DEF CommitsNow
    <2>2. \A w \in V!Writes : write[w].pc = "done" => write'[w] = write[w]
      BY <1>4, <2>1
    <2>3. \A w \in V!Writes : write'[w].pc = "done" => w = w0 \/ (write[w].pc = "done" /\ write'[w] = write[w])
      BY <1>4
    <2>4. \A w \in V!Writes : write'[w].pc = "done" => write'[w].at <= clock'
      BY <1>0, <2>1, <2>3 DEF CommitsInv
    <2>5. Committed(stored', write')
      <3> SUFFICES ASSUME NEW k \in Keys, stored'[k] # V!NoVar
                   PROVE  stored'[k].by \in V!Writes /\ write'[stored'[k].by].pc = "done"
        BY DEF Committed
      <3>1. CASE k \in write[w0].wrote
        BY <2>1, <3>1
      <3>2. CASE k \notin write[w0].wrote
        BY <1>0, <2>1, <2>2, <3>2 DEF CommitsInv, Committed
      <3> QED
        BY <3>1, <3>2
    <2>6. ASSUME NEW w \in V!Writes, write'[w].pc = "done", NEW k \in write'[w].wrote
          PROVE  Intact(stored', k, w, write', deletedAt')
      <3>1. k \in Keys
        BY <1>0
      <3>2. CASE k \in write[w0].wrote
        <4>1. stored'[k] # V!NoVar /\ stored'[k].by = w0
          BY <2>1, <3>1, <3>2
        <4>2. write'[w0].at >= write'[w].at
          BY <1>0, <2>1, <2>4, <2>6
        <4> QED
          BY <4>1, <4>2 DEF Intact
      <3>3. CASE k \notin write[w0].wrote
        <4>1. stored'[k] = stored[k] /\ write[w].pc = "done" /\ write'[w] = write[w]
          BY <2>1, <2>3, <2>6, <3>1, <3>3
        <4>2. Intact(stored, k, w, write, deletedAt)
          BY <1>0, <2>6, <4>1 DEF CommitsInv
        <4>3. stored[k] # V!NoVar => write'[stored[k].by] = write[stored[k].by]
          BY <1>0, <2>2, <3>1 DEF CommitsInv, Committed
        <4> QED
          BY <2>1, <4>1, <4>2, <4>3 DEF Intact
      <3> QED
        BY <3>2, <3>3
    <2> QED
      BY <2>4, <2>5, <2>6 DEF CommitsInv
  <1> QED
    BY <1>1, <1>2, <1>3, <1>4 DEF WriteMove

\* The clock counts commits: one for each write that is not over at most, and
\* one for each deletion.
LEMMA ClockStays ==
    ASSUME VariablesInv, WriteMove
    PROVE  ClockInv' /\ clock' \in Nat /\ deletedAt' \in [Keys -> V!Ticks] /\ DeletedInv'
  <1>0. /\ clock \in Nat /\ ClockInv /\ DeletedInv /\ deletedAt \in [Keys -> V!Ticks]
        /\ MaxWrites \in Nat /\ MaxDeletes \in Nat /\ IsFiniteSet(Pending) /\ Cardinality(Pending) \in Nat
    BY VariableConstantsKnown, PendingFinite DEF VariablesInv, VariableTypes
  <1>1. CASE UNCHANGED <<write, stored, clock, deletedAt>>
    <2>1. Pending' = Pending
      BY <1>1 DEF Pending
    <2> QED
      BY <1>0, <1>1, <2>1 DEF ClockInv, DeletedInv
  <1>2. ASSUME NEW j \in Keys, DeletesNow(j)
        PROVE  ClockInv' /\ clock' \in Nat /\ deletedAt' \in [Keys -> V!Ticks] /\ DeletedInv'
    <2>1. clock' = clock + 1 /\ clock < MaxWrites + MaxDeletes - Cardinality(Pending) /\ deletedAt' = [deletedAt EXCEPT ![j] = clock + 1]
      BY <1>2 DEF DeletesNow
    <2>2. Pending' = Pending
      BY <1>2 DEF DeletesNow, Pending
    <2>3. clock' + Cardinality(Pending) <= MaxWrites + MaxDeletes /\ clock + 1 \in 0..(MaxWrites + MaxDeletes)
      BY <1>0, <2>1
    <2>4. deletedAt' \in [Keys -> V!Ticks]
      BY <1>0, <2>1, <2>3 DEF V!Ticks
    <2>5. \A k \in Keys : deletedAt'[k] = IF k = j THEN clock + 1 ELSE deletedAt[k]
      BY <1>0, <2>1
    <2>6. \A k \in Keys : deletedAt[k] \in Nat
      BY <1>0 DEF V!Ticks
    <2>7. DeletedInv'
      BY <1>0, <2>1, <2>5, <2>6 DEF DeletedInv
    <2> QED
      BY <1>0, <2>1, <2>2, <2>3, <2>4, <2>7 DEF ClockInv
  <1>3. ASSUME NEW w0 \in V!Writes, write[w0].pc \in {"none", "open"}, \A u \in V!Writes \ {w0} : write'[u] = write[u],
               write'[w0].pc \in {"open", "failed"}, UNCHANGED <<stored, clock, deletedAt>>
        PROVE  ClockInv' /\ clock' \in Nat /\ deletedAt' \in [Keys -> V!Ticks] /\ DeletedInv'
    <2>1. Pending' \subseteq Pending
      BY <1>3 DEF Pending
    <2>2. Cardinality(Pending') <= Cardinality(Pending) /\ Cardinality(Pending') \in Nat
      BY <1>0, <2>1, FS_Subset, FS_CardinalityType
    <2> QED
      BY <1>0, <1>3, <2>2 DEF ClockInv, DeletedInv
  <1>4. ASSUME NEW w0 \in V!Writes, \A u \in V!Writes \ {w0} : write'[u] = write[u], CommitsNow(w0)
        PROVE  ClockInv' /\ clock' \in Nat /\ deletedAt' \in [Keys -> V!Ticks] /\ DeletedInv'
    <2>1. write[w0].pc = "open" /\ write'[w0].pc = "done" /\ clock' = clock + 1 /\ deletedAt' = deletedAt
      BY <1>4 DEF CommitsNow
    <2>2. w0 \in Pending /\ Pending' = Pending \ {w0}
      BY <1>4, <2>1 DEF Pending
    <2>3. Cardinality(Pending') = Cardinality(Pending) - 1
      BY <1>0, <2>2, FS_RemoveElement
    <2>4. \A k \in Keys : deletedAt[k] \in Nat
      BY <1>0 DEF V!Ticks
    <2> QED
      BY <1>0, <2>1, <2>3, <2>4 DEF ClockInv, DeletedInv
  <1> QED
    BY <1>1, <1>2, <1>3, <1>4 DEF WriteMove

\* A step creates one deployment, of what is stored or of what a deployment that
\* ran captured, ends its creation, or sends what it captured.
CaptureMove ==
    \/ UNCHANGED <<captured, sent>>
    \/ \E d \in V!Captures :
          /\ \A e \in V!Captures \ {d} : captured'[e] = captured[e]
          /\ sent' = sent
          /\ \/ captured[d].st = "none" /\ captured'[d].st = "open" /\ captured'[d].of = 0 /\ captured'[d].env = stored
             \/ /\ captured[d].st = "none" /\ captured'[d].st = "open"
                /\ \E t \in V!Captures : sent[t] # {} /\ captured'[d].of = t /\ captured'[d].env = captured[t].env
             \/ /\ captured[d].st # "none" /\ captured'[d].st # "none"
                /\ captured'[d].of = captured[d].of /\ captured'[d].env = captured[d].env
    \/ /\ captured' = captured
       /\ \E d \in V!Captures : captured[d].st # "none" /\ sent' = [sent EXCEPT ![d] = sent[d] \union {captured[d].env}]

LEMMA CapturedFields ==
    ASSUME NEW a \in CapturedType
    PROVE  \A st \in {"queued", "over"} : /\ [a EXCEPT !.st = st] \in CapturedType
                                          /\ [a EXCEPT !.st = st].st = st
                                          /\ [a EXCEPT !.st = st].of = a.of /\ [a EXCEPT !.st = st].env = a.env
BY DEF CapturedType

LEMMA CaptureMoves ==
    ASSUME VariablesInv, V!Next
    PROVE  /\ CaptureMove /\ captured' \in [V!Captures -> CapturedType]
           /\ sent' \in [V!Captures -> SUBSET V!Environment]
  <1>0. /\ captured \in [V!Captures -> CapturedType] /\ stored \in V!Environment
        /\ sent \in [V!Captures -> SUBSET V!Environment]
    BY DEF VariablesInv, VariableTypes
  <1>00. \A d \in V!Captures : captured[d].env \in V!Environment
    BY <1>0 DEF CapturedType
  <1> DEFINE Goal == /\ CaptureMove /\ captured' \in [V!Captures -> CapturedType]
                     /\ sent' \in [V!Captures -> SUBSET V!Environment]
  <1>1. ASSUME UNCHANGED <<captured, sent>> PROVE Goal
    BY <1>0, <1>1 DEF CaptureMove
  <1>2. ASSUME NEW d \in V!Captures, V!Capture(d) PROVE Goal
    <2>1. captured[d].st = "none" /\ captured' = [captured EXCEPT ![d] = [st |-> "open", of |-> 0, env |-> stored]] /\ sent' = sent
      BY <1>2 DEF V!Capture, V!Unused
    <2>2. [st |-> "open", of |-> 0, env |-> stored] \in CapturedType
      BY <1>0 DEF CapturedType
    <2>3. captured' \in [V!Captures -> CapturedType] /\ captured'[d] = [st |-> "open", of |-> 0, env |-> stored]
          /\ \A e \in V!Captures \ {d} : captured'[e] = captured[e]
      BY <1>0, <2>1, <2>2
    <2> QED
      BY <1>0, <2>1, <2>3 DEF CaptureMove
  <1>3. ASSUME NEW d \in V!Captures, NEW t \in V!Captures, V!Copy(d, t) PROVE Goal
    <2>1. captured[d].st = "none" /\ captured' = [captured EXCEPT ![d] = [st |-> "open", of |-> t, env |-> captured[t].env]] /\ sent' = sent
          /\ sent[t] # {}
      BY <1>3 DEF V!Copy, V!Unused, V!CopiedFrom
    <2>2. [st |-> "open", of |-> t, env |-> captured[t].env] \in CapturedType
      BY <1>00 DEF CapturedType
    <2>3. captured' \in [V!Captures -> CapturedType] /\ captured'[d] = [st |-> "open", of |-> t, env |-> captured[t].env]
          /\ \A e \in V!Captures \ {d} : captured'[e] = captured[e]
      BY <1>0, <2>1, <2>2
    <2> QED
      BY <1>0, <2>1, <2>3 DEF CaptureMove
  <1>4. ASSUME NEW d \in V!Captures, NEW result \in {"queued", "over"}, V!EndCapture(d, result) PROVE Goal
    <2>1. captured[d].st = "open" /\ captured' = [captured EXCEPT ![d] = [captured[d] EXCEPT !.st = result]] /\ sent' = sent
      BY <1>4 DEF V!EndCapture
    <2>2. PICK a \in CapturedType : a = captured[d]
      BY <1>0
    <2>3. captured' \in [V!Captures -> CapturedType] /\ captured'[d] = [a EXCEPT !.st = result]
          /\ \A e \in V!Captures \ {d} : captured'[e] = captured[e]
      BY <1>0, <2>1, <2>2, CapturedFields
    <2>4. captured'[d].st = result /\ captured'[d].of = captured[d].of /\ captured'[d].env = captured[d].env
      BY <2>2, <2>3, CapturedFields
    <2> QED
      BY <1>0, <2>1, <2>3, <2>4 DEF CaptureMove
  <1>5. ASSUME NEW d \in V!Captures, V!Dispatch(d) PROVE Goal
    <2>1. captured[d].st = "queued" /\ captured' = captured /\ sent' = [sent EXCEPT ![d] = sent[d] \union {captured[d].env}]
      BY <1>5 DEF V!Dispatch
    <2>2. sent[d] \union {captured[d].env} \in SUBSET V!Environment
      BY <1>0, <1>00
    <2> QED
      BY <1>0, <2>1, <2>2 DEF CaptureMove
  <1>6. ASSUME NEW w \in V!Writes,
               (\E o \in Orders, s \in BOOLEAN : V!BeginWrite(w, o, s)) \/ V!WriteVariable(w) \/ V!CommitWrite(w) \/ V!FailWrite(w)
        PROVE  Goal
    BY <1>1, <1>6 DEF V!BeginWrite, V!WriteVariable, V!CommitWrite, V!FailWrite
  <1>7. ASSUME NEW k \in Keys, V!DeleteVariable(k) PROVE Goal
    BY <1>1, <1>7 DEF V!DeleteVariable
  <1>8. ASSUME NEW d \in V!Captures, V!Log(d) PROVE Goal
    BY <1>1, <1>8 DEF V!Log
  <1> QED
    BY <1>2, <1>3, <1>4, <1>5, <1>6, <1>7, <1>8 DEF V!Next

LEMMA SentStays ==
    ASSUME VariablesInv, CaptureMove, captured' \in [V!Captures -> CapturedType]
    PROVE  SentInv'
  <1>0. /\ SentInv /\ sent \in [V!Captures -> SUBSET V!Environment]
        /\ \A d \in V!Captures : captured[d].of \in V!Captures \union {0} /\ captured'[d].of \in V!Captures \union {0}
    BY DEF VariablesInv, VariableTypes, CapturedType
  <1>1. CASE UNCHANGED <<captured, sent>>
    BY <1>0, <1>1 DEF SentInv
  <1>2. ASSUME NEW d \in V!Captures, \A e \in V!Captures \ {d} : captured'[e] = captured[e], sent' = sent,
               captured[d].st = "none", captured'[d].st = "open",
               \/ captured'[d].of = 0
               \/ \E t \in V!Captures : sent[t] # {} /\ captured'[d].of = t /\ captured'[d].env = captured[t].env
        PROVE  SentInv'
    <2>1. sent[d] = {}
      BY <1>0, <1>2 DEF SentInv
    <2>2. ASSUME NEW e \in V!Captures
          PROVE  /\ sent'[e] \subseteq {captured'[e].env}
                 /\ sent'[e] # {} => captured'[e].st # "none"
                 /\ captured'[e].st = "none" => captured'[e].of = 0
                 /\ captured'[e].of # 0 => sent'[captured'[e].of] # {} /\ captured'[e].env = captured'[captured'[e].of].env
      <3>1. CASE e = d
        <4>1. ASSUME captured'[d].of # 0
              PROVE  sent'[captured'[d].of] # {} /\ captured'[d].env = captured'[captured'[d].of].env
          <5>1. PICK t \in V!Captures : sent[t] # {} /\ captured'[d].of = t /\ captured'[d].env = captured[t].env
            BY <1>2, <4>1
          <5>2. t # d /\ captured'[t] = captured[t]
            BY <1>2, <2>1, <5>1
          <5> QED
            BY <1>2, <5>1, <5>2
        <4> QED
          BY <1>2, <2>1, <3>1, <4>1
      <3>2. CASE e # d
        <4>1. captured'[e] = captured[e] /\ sent'[e] = sent[e]
          BY <1>2, <3>2
        <4>2. captured[e].of # 0 => captured[e].of \in V!Captures \ {d}
          BY <1>0, <2>1 DEF SentInv
        <4>3. captured[e].of # 0 => captured'[captured[e].of] = captured[captured[e].of] /\ sent'[captured[e].of] = sent[captured[e].of]
          BY <1>2, <4>2
        <4> QED
          BY <1>0, <4>1, <4>3 DEF SentInv
      <3> QED
        BY <3>1, <3>2
    <2> QED
      BY <2>2 DEF SentInv
  <1>3. ASSUME NEW d \in V!Captures, \A e \in V!Captures \ {d} : captured'[e] = captured[e], sent' = sent,
               captured[d].st # "none", captured'[d].st # "none",
               captured'[d].of = captured[d].of, captured'[d].env = captured[d].env
        PROVE  SentInv'
    <2>1. \A e \in V!Captures : /\ captured'[e].of = captured[e].of /\ captured'[e].env = captured[e].env
                                /\ captured'[e].st = "none" <=> captured[e].st = "none"
      BY <1>3
    <2> QED
      BY <1>0, <1>3, <2>1 DEF SentInv
  <1>4. ASSUME captured' = captured, NEW d \in V!Captures, captured[d].st # "none",
               sent' = [sent EXCEPT ![d] = sent[d] \union {captured[d].env}]
        PROVE  SentInv'
    <2>1. \A e \in V!Captures : sent[e] \subseteq sent'[e] /\ (e # d => sent'[e] = sent[e])
      BY <1>0, <1>4
    <2>2. sent'[d] \subseteq {captured[d].env}
      BY <1>0, <1>4 DEF SentInv
    <2> QED
      BY <1>0, <1>4, <2>1, <2>2 DEF SentInv
  <1> QED
    BY <1>1, <1>2, <1>3, <1>4 DEF CaptureMove

LEMMA WholeStaysCaptured ==
    ASSUME VariablesInv, WriteMove, CaptureMove
    PROVE  WholeInv'
  <1> SUFFICES ASSUME NEW d \in V!Captures PROVE Whole(captured'[d].env, write', deletedAt')
    BY DEF WholeInv
  <1>1. \A e \in V!Captures : Whole(captured[e].env, write, deletedAt)
    BY DEF VariablesInv, WholeInv
  <1>2. Whole(stored, write, deletedAt)
    BY StoredIsWhole
  <1>3. captured'[d].env = stored \/ \E e \in V!Captures : captured'[d].env = captured[e].env
    BY DEF CaptureMove
  <1>4. PICK env : env = captured'[d].env
    OBVIOUS
  <1>5. Whole(env, write, deletedAt)
    BY <1>1, <1>2, <1>3, <1>4
  <1> QED
    BY <1>4, <1>5, WholeStays

LEMMA LoggedStays ==
    ASSUME VariablesInv, V!Next
    PROVE  logged' \subseteq V!Variable /\ V!LogsHideSecrets'
  <1>0. logged \subseteq V!Variable /\ \A v \in logged : ~v.secret
    BY DEF VariablesInv, VariableTypes, V!LogsHideSecrets
  <1>1. CASE UNCHANGED logged
    BY <1>0, <1>1 DEF V!LogsHideSecrets
  <1>2. ASSUME NEW d \in V!Captures, V!Log(d)
        PROVE  logged' \subseteq V!Variable /\ V!LogsHideSecrets'
    <2>1. PICK env \in sent[d] : logged' = logged \union ({env[k] : k \in Keys} \ (V!LogSecrets(d) \union {V!NoVar}))
      BY <1>2 DEF V!Log
    <2>2. env = captured[d].env /\ env \in V!Environment
      BY <2>1 DEF VariablesInv, SentInv, VariableTypes
    <2>3. ASSUME NEW v \in logged', v \notin logged PROVE v \in V!Variable /\ ~v.secret
      <3>1. PICK k \in Keys : v = env[k]
        BY <2>1, <2>3
      <3>2. v \in V!Variable /\ v \notin V!LogSecrets(d)
        BY <2>1, <2>2, <2>3, <3>1 DEF V!Environment
      <3>3. ~captured[d].env[k].secret
        BY <2>2, <3>1, <3>2 DEF V!LogSecrets
      <3> QED
        BY <2>2, <3>1, <3>2, <3>3
    <2> QED
      BY <1>0, <2>3 DEF V!LogsHideSecrets
  <1>3. ASSUME NEW w \in V!Writes,
               (\E o \in Orders, s \in BOOLEAN : V!BeginWrite(w, o, s)) \/ V!WriteVariable(w) \/ V!CommitWrite(w) \/ V!FailWrite(w)
        PROVE  UNCHANGED logged
    BY <1>3 DEF V!BeginWrite, V!WriteVariable, V!CommitWrite, V!FailWrite
  <1>4. ASSUME NEW k \in Keys, V!DeleteVariable(k) PROVE UNCHANGED logged
    BY <1>4 DEF V!DeleteVariable
  <1>5. ASSUME NEW d \in V!Captures,
               V!Capture(d) \/ V!EndCapture(d, "queued") \/ V!EndCapture(d, "over") \/ V!Dispatch(d) \/ \E t \in V!Captures : V!Copy(d, t)
        PROVE  UNCHANGED logged
    BY <1>5 DEF V!Capture, V!EndCapture, V!Dispatch, V!Copy
  <1> QED
    BY <1>1, <1>2, <1>3, <1>4, <1>5 DEF V!Next

LEMMA StoredStays ==
    ASSUME VariablesInv, V!Next
    PROVE  stored' \in V!Environment
  <1>0. stored \in V!Environment
    BY DEF VariablesInv, VariableTypes
  <1>1. CASE UNCHANGED stored
    BY <1>0, <1>1
  <1>2. ASSUME NEW w \in V!Writes, V!CommitWrite(w) PROVE stored' \in V!Environment
    <2>1. write[w].secret \in BOOLEAN
      BY DEF VariablesInv, VariableTypes, WriteType
    <2>2. [by |-> w, secret |-> write[w].secret] \in V!Variable
      BY <2>1 DEF V!Variable
    <2>3. stored' = [k \in Keys |-> IF k \in write[w].wrote THEN [by |-> w, secret |-> write[w].secret] ELSE stored[k]]
      BY <1>2 DEF V!CommitWrite
    <2> QED
      BY <1>0, <2>2, <2>3 DEF V!Environment
  <1>3. ASSUME NEW k \in Keys, V!DeleteVariable(k) PROVE stored' \in V!Environment
    <2>1. stored' = [stored EXCEPT ![k] = V!NoVar]
      BY <1>3 DEF V!DeleteVariable
    <2> QED
      BY <1>0, <2>1, NoVarTyped DEF V!Environment
  <1>4. ASSUME NEW w \in V!Writes,
               (\E o \in Orders, s \in BOOLEAN : V!BeginWrite(w, o, s)) \/ V!WriteVariable(w) \/ V!FailWrite(w)
        PROVE  UNCHANGED stored
    BY <1>4 DEF V!BeginWrite, V!WriteVariable, V!FailWrite, V!Visible
  <1>5. ASSUME NEW d \in V!Captures,
               V!Capture(d) \/ V!EndCapture(d, "queued") \/ V!EndCapture(d, "over") \/ V!Dispatch(d) \/ V!Log(d) \/ \E t \in V!Captures : V!Copy(d, t)
        PROVE  UNCHANGED stored
    BY <1>5 DEF V!Capture, V!EndCapture, V!Dispatch, V!Log, V!Copy
  <1> QED
    BY <1>1, <1>2, <1>3, <1>4, <1>5 DEF V!Next

LEMMA VariablesStep ==
    ASSUME VariablesInv, V!Next
    PROVE  VariablesInv'
  <1>1. WriteMove /\ write' \in [V!Writes -> WriteType]
    BY WriteMoves
  <1>2. CaptureMove /\ captured' \in [V!Captures -> CapturedType] /\ sent' \in [V!Captures -> SUBSET V!Environment]
    BY CaptureMoves
  <1>3. ClockInv' /\ clock' \in Nat /\ deletedAt' \in [Keys -> V!Ticks] /\ DeletedInv'
    BY <1>1, ClockStays
  <1>4. CommitsInv'
    BY <1>1, CommitsStay
  <1>5. WholeInv' /\ SentInv'
    BY <1>1, <1>2, WholeStaysCaptured, SentStays
  <1>6. logged' \subseteq V!Variable /\ V!LogsHideSecrets' /\ stored' \in V!Environment
    BY LoggedStays, StoredStays
  <1>7. VariableTypes'
    BY <1>1, <1>2, <1>3, <1>6 DEF VariableTypes
  <1> QED
    BY <1>3, <1>4, <1>5, <1>6, <1>7 DEF VariablesInv

-----------------------------------------------------------------------------
(* What it means for the properties of ServiceVariables *)

LEMMA VariablesHeld ==
    ASSUME VariablesInv
    PROVE  V!TypeOK /\ V!CapturesWholeWrites /\ V!SentAsCaptured /\ V!LogsHideSecrets
  <1>0. VariableTypes /\ ClockInv /\ CommitsInv /\ WholeInv /\ SentInv /\ V!LogsHideSecrets /\ Cardinality(Pending) \in Nat
    BY PendingFinite DEF VariablesInv
  <1>1. clock \in V!Ticks
    BY <1>0, VariableConstantsKnown DEF ClockInv, VariableTypes, V!Ticks
  <1>2. V!TypeOK
    <2>1. \A w \in V!Writes : write[w] \in WriteType
      BY <1>0 DEF VariableTypes
    <2>2. captured \in [V!Captures -> [st : {"none", "open", "queued", "over"}, of : V!Captures \union {0}, env : V!Environment]]
      BY <1>0 DEF VariableTypes, CapturedType
    <2> QED
      BY <1>0, <1>1, <2>1, <2>2 DEF VariableTypes, WriteType, V!TypeOK
  <1>3. ASSUME NEW d \in V!Captures, NEW w \in V!Writes, NEW j \in Keys, captured[d].env[j].by = w,
               NEW k \in write[w].wrote
        PROVE  ~V!Before(captured[d].env, k, w)
    <2> DEFINE env == captured[d].env
    <2>1. env \in V!Environment /\ k \in Keys /\ deletedAt[k] \in Nat /\ w # 0
      BY <1>0, <1>3, VariableConstantsKnown DEF VariableTypes, CapturedType, WriteType, V!Ticks, V!Writes
    <2>2. env[j] # V!NoVar
      BY <1>3, <2>1, NoVarTyped
    <2>3. write[w].pc = "done" /\ Intact(env, k, w, write, deletedAt)
      BY <1>0, <1>3, <2>2 DEF WholeInv, Whole, Committed
    <2>4. \A u \in V!Writes : write[u].at \in Nat
      BY <1>0, VariableConstantsKnown DEF VariableTypes, WriteType, V!Ticks
    <2>5. V!CommittedAt(w) = write[w].at
      BY <2>3 DEF V!CommittedAt
    <2>6. CASE env[k] = V!NoVar
      BY <2>1, <2>3, <2>4, <2>5, <2>6 DEF Intact, V!Before
    <2>7. CASE env[k] # V!NoVar
      <3>1. env[k].by \in V!Writes /\ write[env[k].by].pc = "done"
        BY <1>0, <2>1, <2>7 DEF WholeInv, Whole, Committed
      <3>2. V!CommittedAt(env[k].by) = write[env[k].by].at
        BY <3>1 DEF V!CommittedAt
      <3> QED
        BY <2>3, <2>4, <2>5, <2>7, <3>1, <3>2 DEF Intact, V!Before
    <2> QED
      BY <2>6, <2>7
  <1>4. V!CapturesWholeWrites
    BY <1>3 DEF V!CapturesWholeWrites
  <1>5. ASSUME NEW d \in V!Captures
        PROVE  V!Cardinality(sent[d]) <= 1 /\ (captured[d].of # 0 => sent[d] \subseteq sent[captured[d].of])
    <2>1. sent[d] \subseteq {captured[d].env}
      BY <1>0 DEF SentInv
    <2>2. IsFiniteSet({captured[d].env}) /\ Cardinality({captured[d].env}) = 1
      BY FS_Singleton
    <2>3. Cardinality(sent[d]) <= 1
      BY <2>1, <2>2, FS_Subset
    <2>4. ASSUME captured[d].of # 0 PROVE sent[d] \subseteq sent[captured[d].of]
      <3>1. captured[d].of \in V!Captures
        BY <1>0, <2>4 DEF VariableTypes, CapturedType
      <3>2. sent[captured[d].of] # {} /\ sent[captured[d].of] \subseteq {captured[captured[d].of].env}
        BY <1>0, <2>4, <3>1 DEF SentInv
      <3>3. captured[d].env = captured[captured[d].of].env
        BY <1>0, <2>4 DEF SentInv
      <3> QED
        BY <2>1, <3>2, <3>3
    <2> QED
      BY <2>3, <2>4, SameCardinality
  <1>6. V!SentAsCaptured
    BY <1>5 DEF V!SentAsCaptured
  <1> QED
    BY <1>0, <1>2, <1>4, <1>6

-----------------------------------------------------------------------------
(* ProjectSources *)

SourcePcs == {"new", "revision", "root", "tree", "upsert", "lock", "select", "insert", "services", "done", "failed", "refused port"}
SourceRequest == [kind : S!Kinds, pc : SourcePcs, seen : S!Source, todo : Seq(S!Selection), took : Seq(S!Selection),
                  inserted : SUBSET Slugs, locked : SUBSET Slugs]
ServiceRow == [st : {"none", "ACTIVE", "ARCHIVED"}, config : S!Config]
SourceTypes ==
    /\ head \in S!Commits /\ project \in {"ACTIVE", "ARCHIVED"} /\ source \in S!Source
    /\ service \in [Slugs -> ServiceRow] /\ request \in [Requests -> SourceRequest]

\* what the kind of a request, and what it has read, are at each point of it
KindOf(r) ==
    /\ r.pc \in {"revision", "root", "tree", "upsert"} => r.kind = "connect"
    /\ r.pc \in {"lock", "select", "refused port"} => r.kind = "confirm"
    /\ r.pc = "insert" => r.kind = "create"
    /\ r.pc = "services" => r.kind = "archive"
Reads(r) ==
    /\ r.pc \in {"root", "tree"} => r.seen.rev \in S!Commits
    /\ r.pc = "upsert" => r.seen.nested \in S!Commits /\ r.seen.rev = r.seen.nested
OwnInv(r) ==
    /\ KindOf(r) /\ Reads(r)
    /\ r.pc \in {"new", "lock"} => r.took = <<>>
    /\ r.pc = "refused port" => ~S!ReadyForReview(r.seen)

\* A confirmation holds the source it has seen.  Each service it took is one it
\* inserts or one it holds, which is active and of the selected path.
Chosen(r) == {r.took[i] : i \in DOMAIN r.took}
InRevision(p, c) == p = Root \/ p \in Tree[c].docker \union Tree[c].packages
TakenBy(r, rows) ==
    \A a \in Chosen(r) :
       /\ InRevision(a.path, r.seen.nested)
       /\ \/ a.slug \in r.inserted /\ rows[a.slug].st = "none"
          \/ a.slug \in r.locked /\ rows[a.slug].st = "ACTIVE" /\ rows[a.slug].config.path = a.path
       /\ \A b \in Chosen(r) : a.slug = b.slug => a.path = b.path
Holds(q) ==
    /\ request[q].seen = source /\ source.gen # 0 /\ TakenBy(request[q], service)
    /\ \A o \in Requests : request[o].pc = "select" => o = q

\* the requests that stored a discovery; the generation counts them
Stored == {q \in Requests : request[q].kind = "connect" /\ request[q].pc = "done"}
SourceRowInv ==
    /\ source.gen <= Cardinality(Stored)
    /\ source.gen # 0 => source.nested \in S!Commits /\ source.rev = source.nested
ConfirmingInv == \A q \in Requests : request[q].pc = "select" => Holds(q)
ConfigInv(c) ==
    /\ c.gen <= source.gen
    /\ c.by # 0 => c.by \in Requests /\ request[c.by].pc = "done"
    /\ c.path # "no path" => InRevision(c.path, c.rev)
ConfigsInv == \A s \in Slugs : ConfigInv(service[s].config)
ConfirmedInv ==
    \A q \in Requests : request[q].kind = "confirm" /\ request[q].pc = "done" =>
        \A a \in Chosen(request[q]) : service[a.slug].st # "none" /\ service[a.slug].config.path = a.path

SourcesInv ==
    /\ SourceTypes /\ \A q \in Requests : OwnInv(request[q])
    /\ SourceRowInv /\ ConfirmingInv /\ ConfigsInv /\ ConfirmedInv

LEMMA SameFiniteOfSources == \A Q : S!IsFiniteSet(Q) <=> IsFiniteSet(Q)
BY Zenon DEF S!IsFiniteSet, IsFiniteSet

LEMMA SameCardinalityOfSources == \A Q : S!Cardinality(Q) = Cardinality(Q)
BY SameFiniteOfSources, Zenon DEF S!Cardinality, Cardinality

LEMMA SourceConstantsKnown ==
    /\ IsFiniteSet(Requests) /\ Cardinality(Requests) \in Nat /\ S!Generations = 0..Cardinality(Requests)
    /\ 1 \in S!Commits /\ Plans \subseteq [Requests -> S!Kinds]
    /\ \A c \in Selections : c \in Seq(S!Selection)
  <1>1. IsFiniteSet(Requests)
    BY SourceConstants, SameFiniteOfSources DEF S!RequestsFinite
  <1>2. Len(Tree) = 3
    BY DEF Tree
  <1>3. 1 \in S!Commits
    BY <1>2 DEF S!Commits, S!MaxHead
  <1> QED
    BY <1>1, <1>3, SameCardinalityOfSources, SourceConstants, FS_CardinalityType
    DEF S!Generations, S!PlansAssumption, S!SelectionsAssumption

LEMMA NoSourceTyped == S!NoSource \in S!Source /\ S!NoSource.gen = 0 /\ S!NoConfig \in S!Config
                       /\ S!NoConfig.gen = 0 /\ S!NoConfig.by = 0 /\ S!NoConfig.path = "no path"
BY SourceConstantsKnown DEF S!NoSource, S!Source, S!NoConfig, S!Config, S!NoPath

LEMMA StoredFinite == IsFiniteSet(Stored) /\ Cardinality(Stored) \in Nat /\ Cardinality(Stored) <= Cardinality(Requests)
  <1>1. Stored \subseteq Requests
    BY DEF Stored
  <1> QED
    BY <1>1, SourceConstantsKnown, FS_Subset, FS_CardinalityType

LEMMA SourcesInit == S!Init => SourcesInv
  <1> SUFFICES ASSUME S!Init PROVE SourcesInv
    OBVIOUS
  <1>1. /\ head = 1 /\ project = "ACTIVE" /\ source = S!NoSource
        /\ service = [s \in Slugs |-> [st |-> "none", config |-> S!NoConfig]]
    BY DEF S!Init
  <1>2. PICK plan \in Plans :
          request = [q \in Requests |-> [kind |-> plan[q], pc |-> "new", seen |-> S!NoSource,
                                         todo |-> <<>>, took |-> <<>>, inserted |-> {}, locked |-> {}]]
    BY DEF S!Init
  <1>3. \A q \in Requests : plan[q] \in S!Kinds
    BY SourceConstantsKnown
  <1>4. \A kind \in S!Kinds : [kind |-> kind, pc |-> "new", seen |-> S!NoSource,
                               todo |-> <<>>, took |-> <<>>, inserted |-> {}, locked |-> {}] \in SourceRequest
    <2>1. <<>> \in Seq(S!Selection)
      OBVIOUS
    <2>2. {} \in SUBSET Slugs /\ S!NoSource \in S!Source /\ "new" \in SourcePcs
      BY NoSourceTyped DEF SourcePcs
    <2> QED
      BY <2>1, <2>2 DEF SourceRequest
  <1>5. [st |-> "none", config |-> S!NoConfig] \in ServiceRow
    BY NoSourceTyped DEF ServiceRow
  <1>6. request \in [Requests -> SourceRequest]
    BY <1>2, <1>3, <1>4
  <1>7. service \in [Slugs -> ServiceRow]
    BY <1>1, <1>5
  <1>8. SourceTypes
    BY <1>1, <1>6, <1>7, NoSourceTyped, SourceConstantsKnown DEF SourceTypes
  <1>9. \A q \in Requests : request[q].pc = "new" /\ request[q].took = <<>>
    BY <1>2
  <1>10. \A q \in Requests : OwnInv(request[q])
    BY <1>9 DEF OwnInv, KindOf, Reads
  <1>11. SourceRowInv
    <2>1. source.gen = 0
      BY <1>1, NoSourceTyped
    <2> QED
      BY <2>1, StoredFinite DEF SourceRowInv
  <1>12. ConfirmingInv /\ ConfirmedInv
    BY <1>9 DEF ConfirmingInv, ConfirmedInv
  <1>13. ConfigsInv
    <2>1. \A s \in Slugs : service[s].config = S!NoConfig
      BY <1>1
    <2>2. source.gen = 0
      BY <1>1, NoSourceTyped
    <2>4. \A s \in Slugs : service[s].config.gen = 0
      BY <2>1, NoSourceTyped
    <2>5. \A s \in Slugs : service[s].config.by = 0 /\ service[s].config.path = "no path"
      BY <2>1, NoSourceTyped
    <2>6. \A s \in Slugs : service[s].config.gen <= source.gen
      BY <2>2, <2>4
    <2>3. \A s \in Slugs : ConfigInv(service[s].config)
      BY <2>5, <2>6 DEF ConfigInv
    <2> QED
      BY <2>3 DEF ConfigsInv
  <1> QED
    BY <1>8, <1>10, <1>11, <1>12, <1>13 DEF SourcesInv

\* A step is of one request, q, which becomes r: it reads on or ends with nothing
\* stored, stores what it has seen, holds the source, commits what it took, or
\* is one of project-service-admin's.
StoresSource(q) ==
    /\ request[q].pc = "upsert" /\ service' = service
    /\ \A o \in Requests : request[o].pc # "select"
    /\ source'.gen = source.gen + 1 /\ source'.rev = request[q].seen.rev /\ source'.nested = request[q].seen.nested
CommitsConfirm(q, r) ==
    /\ request[q].pc = "select" /\ r.took = request[q].took /\ source' = source
    /\ \A s \in Slugs :
          \/ service'[s] = service[s] /\ \A a \in Chosen(r) : a.slug # s
          \/ \E a \in Chosen(r) :
                /\ a.slug = s /\ service'[s].config = S!ConfigOf(q, a)
                /\ service'[s].st = IF service[s].st = "none" THEN "ACTIVE" ELSE service[s].st
ChangesRows(q, r) ==
    /\ request[q].pc # "select" /\ source' = source /\ r.kind \notin {"connect", "confirm"}
    /\ \A s \in Slugs :
          /\ service'[s].config = service[s].config
          /\ \/ service'[s].st = service[s].st
             \/ service'[s].st # "none" /\ \A o \in Requests \ {q} : s \notin request[o].locked \union request[o].inserted
Becomes(q, r) ==
    /\ request' = [request EXCEPT ![q] = r] /\ r.kind = request[q].kind /\ OwnInv(r) /\ request[q].pc # "done"
    /\ \/ r.pc \notin {"select", "done"} /\ UNCHANGED <<source, service>>
       \/ /\ r.pc = "select" /\ r.seen = source /\ source.gen # 0 /\ UNCHANGED <<source, service>>
          /\ TakenBy(r, service) /\ \A o \in Requests : request[o].pc = "select" => o = q
       \/ r.pc = "done" /\ (StoresSource(q) \/ CommitsConfirm(q, r) \/ ChangesRows(q, r))
SourceMove == UNCHANGED <<source, service, request>> \/ \E q \in Requests, r \in SourceRequest : Becomes(q, r)
SourceRowsTyped ==
    /\ head' \in S!Commits /\ project' \in {"ACTIVE", "ARCHIVED"} /\ source' \in S!Source
    /\ service' \in [Slugs -> ServiceRow]

LEMMA RequestFields ==
    ASSUME NEW a \in SourceRequest, NEW pc \in SourcePcs
    PROVE  /\ [a EXCEPT !.pc = pc] \in SourceRequest
           /\ [a EXCEPT !.pc = pc].pc = pc /\ [a EXCEPT !.pc = pc].kind = a.kind
           /\ [a EXCEPT !.pc = pc].seen = a.seen /\ [a EXCEPT !.pc = pc].took = a.took
BY DEF SourceRequest

LEMMA RequestSeen ==
    ASSUME NEW a \in SourceRequest, NEW pc \in SourcePcs, NEW seen \in S!Source
    PROVE  /\ [a EXCEPT !.pc = pc, !.seen = seen] \in SourceRequest
           /\ [a EXCEPT !.pc = pc, !.seen = seen].pc = pc /\ [a EXCEPT !.pc = pc, !.seen = seen].kind = a.kind
           /\ [a EXCEPT !.pc = pc, !.seen = seen].seen = seen /\ [a EXCEPT !.pc = pc, !.seen = seen].took = a.took
BY DEF SourceRequest

LEMMA SeenFields ==
    ASSUME NEW seen \in S!Source, NEW c \in S!Commits
    PROVE  /\ [seen EXCEPT !.rev = c] \in S!Source /\ [seen EXCEPT !.rev = c].rev = c
           /\ [seen EXCEPT !.root = c] \in S!Source /\ [seen EXCEPT !.root = c].rev = seen.rev
           /\ [seen EXCEPT !.nested = c] \in S!Source
           /\ [seen EXCEPT !.nested = c].nested = c /\ [seen EXCEPT !.nested = c].rev = seen.rev
BY DEF S!Source

LEMMA SourceTyped ==
    ASSUME SourcesInv
    PROVE  /\ SourceTypes
           /\ UNCHANGED <<head, project, source, service>> => SourceRowsTyped
           /\ request \in [Requests -> SourceRequest]
           /\ \A q \in Requests : /\ request[q] \in SourceRequest /\ OwnInv(request[q])
                                  /\ request[q].seen \in S!Source /\ request[q].todo \in Seq(S!Selection)
BY DEF SourcesInv, SourceTypes, SourceRowsTyped, SourceRequest

\* steps that only set where a request is at
LEMMA GoesMoves ==
    ASSUME SourcesInv, NEW q \in Requests, NEW pc \in SourcePcs \ {"root", "tree", "upsert", "select", "done", "lock", "refused port"},
           S!Goes(q, pc), UNCHANGED <<head, project, source, service>>,
           request[q].pc # "done",
           pc = "revision" => request[q].kind = "connect", pc = "insert" => request[q].kind = "create",
           pc = "services" => request[q].kind = "archive", pc # "new"
    PROVE  SourceMove /\ SourceRowsTyped
  <1>1. request \in [Requests -> SourceRequest] /\ SourceRowsTyped
    BY SourceTyped
  <1>2. PICK a \in SourceRequest : a = request[q]
    BY <1>1
  <1>3. PICK r \in SourceRequest : r = [a EXCEPT !.pc = pc]
    BY RequestFields
  <1>4. r.pc = pc /\ r.kind = a.kind
    BY <1>3, RequestFields
  <1>5. request' = [request EXCEPT ![q] = r]
    BY <1>2, <1>3 DEF S!Goes
  <1>6. OwnInv(r)
    BY <1>2, <1>4 DEF OwnInv, KindOf, Reads
  <1>7. Becomes(q, r)
    BY <1>2, <1>4, <1>5, <1>6 DEF Becomes
  <1> QED
    BY <1>1, <1>7 DEF SourceMove

LEMMA GoingMoves ==
    ASSUME SourcesInv, NEW q \in Requests,
           S!Connect(q) \/ S!InspectFails(q) \/ S!Create(q) \/ S!Archive(q) \/ S!FailArchive(q)
    PROVE  SourceMove /\ SourceRowsTyped
  <1>1. CASE S!Connect(q)
    BY <1>1, GoesMoves DEF S!Connect, S!Starts, SourcePcs
  <1>2. CASE S!InspectFails(q)
    BY <1>2, GoesMoves DEF S!InspectFails, SourcePcs
  <1>3. CASE S!Create(q)
    BY <1>3, GoesMoves DEF S!Create, S!Starts, SourcePcs
  <1>4. CASE S!Archive(q)
    BY <1>4, GoesMoves DEF S!Archive, S!Starts, SourcePcs
  <1>5. CASE S!FailArchive(q)
    BY <1>5, GoesMoves DEF S!FailArchive, SourcePcs
  <1> QED
    BY <1>1, <1>2, <1>3, <1>4, <1>5

LEMMA ReadingMoves ==
    ASSUME SourcesInv, NEW q \in Requests, S!ReadRevision(q) \/ S!ReadRoot(q) \/ S!ReadTree(q)
    PROVE  SourceMove /\ SourceRowsTyped
  <1>0. request \in [Requests -> SourceRequest] /\ SourceTypes
    BY SourceTyped
  <1>1. PICK a \in SourceRequest : a = request[q]
    BY <1>0
  <1>2. a.seen \in S!Source /\ OwnInv(a) /\ head \in S!Commits
    BY <1>0, <1>1, SourceTyped DEF SourceTypes
  <1>3. UNCHANGED <<head, project, source, service>>
    BY DEF S!ReadRevision, S!ReadRoot, S!ReadTree
  <1>4. SourceRowsTyped
    BY <1>0, <1>3 DEF SourceTypes, SourceRowsTyped
  <1>5. ASSUME NEW pc \in {"root", "tree", "upsert"}, NEW seen \in S!Source, a.kind = "connect", a.pc # "done",
               request' = [request EXCEPT ![q] = [a EXCEPT !.pc = pc, !.seen = seen]],
               pc \in {"root", "tree"} => seen.rev \in S!Commits,
               pc = "upsert" => seen.nested \in S!Commits /\ seen.rev = seen.nested
        PROVE  SourceMove
    <2>1. pc \in SourcePcs
      BY DEF SourcePcs
    <2>3. PICK r \in SourceRequest : r = [a EXCEPT !.pc = pc, !.seen = seen]
      BY <2>1, RequestSeen
    <2>2. r.pc = pc /\ r.kind = a.kind /\ r.seen = seen
      BY <2>3 DEF SourceRequest
    <2>4. OwnInv(r)
      BY <1>5, <2>2 DEF OwnInv, KindOf, Reads
    <2>5. Becomes(q, r)
      BY <1>1, <1>3, <1>5, <2>2, <2>3, <2>4 DEF Becomes
    <2> QED
      BY <2>5 DEF SourceMove
  <1>6. CASE S!ReadRevision(q)
    <2>1. a.pc = "revision" /\ request' = [request EXCEPT ![q] = [a EXCEPT !.pc = "root", !.seen = [a.seen EXCEPT !.rev = head]]]
      BY <1>1, <1>6 DEF S!ReadRevision
    <2>2. [a.seen EXCEPT !.rev = head] \in S!Source /\ [a.seen EXCEPT !.rev = head].rev = head
      BY <1>2, SeenFields
    <2>3. a.kind = "connect"
      BY <1>2, <2>1 DEF OwnInv, KindOf
    <2> QED
      BY <1>2, <1>4, <1>5, <2>1, <2>2, <2>3
  <1>7. CASE S!ReadRoot(q)
    <2>1. a.pc = "root" /\ request' = [request EXCEPT ![q] = [a EXCEPT !.pc = "tree", !.seen = [a.seen EXCEPT !.root = head]]]
      BY <1>1, <1>7 DEF S!ReadRoot
    <2>2. [a.seen EXCEPT !.root = head] \in S!Source /\ [a.seen EXCEPT !.root = head].rev = a.seen.rev
      BY <1>2, SeenFields
    <2>3. a.kind = "connect" /\ a.seen.rev \in S!Commits
      BY <1>2, <2>1 DEF OwnInv, KindOf, Reads
    <2> QED
      BY <1>4, <1>5, <2>1, <2>2, <2>3
  <1>8. CASE S!ReadTree(q)
    <2>1. a.pc = "tree" /\ request' = [request EXCEPT ![q] = [a EXCEPT !.pc = "upsert", !.seen = [a.seen EXCEPT !.nested = a.seen.rev]]]
      BY <1>1, <1>8 DEF S!ReadTree, S!TreeOfRevision
    <2>2. a.kind = "connect" /\ a.seen.rev \in S!Commits
      BY <1>2, <2>1 DEF OwnInv, KindOf, Reads
    <2>3. [a.seen EXCEPT !.nested = a.seen.rev] \in S!Source /\ [a.seen EXCEPT !.nested = a.seen.rev].rev = a.seen.rev
          /\ [a.seen EXCEPT !.nested = a.seen.rev].nested = a.seen.rev
      BY <1>2, <2>2, SeenFields
    <2> QED
      BY <1>4, <1>5, <2>1, <2>2, <2>3
  <1> QED
    BY <1>6, <1>7, <1>8

LEMMA UpsertMoves ==
    ASSUME SourcesInv, NEW q \in Requests, S!Upsert(q)
    PROVE  SourceMove /\ SourceRowsTyped
  <1>0. request \in [Requests -> SourceRequest] /\ SourceTypes /\ SourceRowInv
    BY SourceTyped DEF SourcesInv
  <1>1. PICK a \in SourceRequest : a = request[q]
    BY <1>0
  <1>2. a.seen \in S!Source /\ OwnInv(a)
    BY <1>1, SourceTyped
  <1>3. /\ a.pc = "upsert" /\ S!Confirming = {} /\ source' = [a.seen EXCEPT !.gen = source.gen + 1]
        /\ request' = [request EXCEPT ![q] = [a EXCEPT !.pc = "done"]]
        /\ UNCHANGED <<head, project, service>>
    BY <1>1 DEF S!Upsert, S!SourceFree, S!Goes
  <1>4. PICK r \in SourceRequest : r = [a EXCEPT !.pc = "done"] /\ r.pc = "done" /\ r.kind = a.kind
    <2>1. "done" \in SourcePcs
      BY DEF SourcePcs
    <2> QED
      BY <2>1, RequestFields
  <1>5. a.kind = "connect"
    BY <1>2, <1>3 DEF OwnInv, KindOf
  <1>6. OwnInv(r)
    BY <1>4 DEF OwnInv, KindOf, Reads
  <1>7. source.gen + 1 \in S!Generations
    <2>1. Stored \subseteq Requests /\ q \in Requests \ Stored
      BY <1>1, <1>3 DEF Stored
    <2>2. Stored # Requests
      BY <2>1
    <2>3. Cardinality(Stored) < Cardinality(Requests)
      <3>1. Cardinality(Stored) # Cardinality(Requests)
        BY <2>1, <2>2, SourceConstantsKnown, FS_Subset
      <3> QED
        BY <3>1, StoredFinite, SourceConstantsKnown
    <2>4. source.gen \in Nat
      BY <1>0, SourceConstantsKnown DEF SourceTypes, S!Source
    <2> QED
      BY <1>0, <2>3, <2>4, StoredFinite, SourceConstantsKnown DEF SourceRowInv
  <1>8. PICK b \in S!Source : b = a.seen
    BY <1>2
  <1>9. [b EXCEPT !.gen = source.gen + 1] \in S!Source /\ [b EXCEPT !.gen = source.gen + 1].gen = source.gen + 1
        /\ [b EXCEPT !.gen = source.gen + 1].rev = b.rev /\ [b EXCEPT !.gen = source.gen + 1].nested = b.nested
    BY <1>7 DEF S!Source
  <1>10. SourceRowsTyped
    BY <1>0, <1>3, <1>8, <1>9 DEF SourceTypes, SourceRowsTyped
  <1>11. \A o \in Requests : request[o].pc # "select"
    BY <1>3 DEF S!Confirming
  <1>12. StoresSource(q)
    BY <1>1, <1>3, <1>8, <1>9, <1>11 DEF StoresSource
  <1>13. Becomes(q, r)
    BY <1>1, <1>3, <1>4, <1>6, <1>12 DEF Becomes
  <1> QED
    BY <1>10, <1>13 DEF SourceMove

LEMMA ConfirmMoves ==
    ASSUME SourcesInv, NEW q \in Requests, NEW selection \in Selections, S!Confirm(q, selection)
    PROVE  SourceMove /\ SourceRowsTyped
  <1>0. request \in [Requests -> SourceRequest] /\ selection \in Seq(S!Selection)
    BY SourceTyped, SourceConstantsKnown
  <1>1. PICK a \in SourceRequest : a = request[q]
    BY <1>0
  <1>2. /\ a.pc = "new" /\ a.kind = "confirm" /\ OwnInv(a)
        /\ request' = [request EXCEPT ![q] = [a EXCEPT !.pc = "lock", !.todo = selection]]
        /\ UNCHANGED <<head, project, source, service>>
    BY <1>1, SourceTyped DEF S!Confirm, S!Starts
  <1>3. a.took = <<>>
    BY <1>2 DEF OwnInv
  <1>4. [a EXCEPT !.pc = "lock", !.todo = selection] \in SourceRequest
    BY <1>0 DEF SourceRequest, SourcePcs
  <1>5. PICK r \in SourceRequest : r = [a EXCEPT !.pc = "lock", !.todo = selection]
    BY <1>4
  <1>6. r.pc = "lock" /\ r.kind = a.kind /\ r.took = a.took
    BY <1>5 DEF SourceRequest
  <1>7. OwnInv(r)
    BY <1>2, <1>3, <1>6 DEF OwnInv, KindOf, Reads
  <1>8. Becomes(q, r)
    BY <1>1, <1>2, <1>5, <1>6, <1>7 DEF Becomes
  <1> QED
    BY <1>2, <1>8, SourceTyped DEF SourceMove

LEMMA LockMoves ==
    ASSUME SourcesInv, NEW q \in Requests, S!LockSource(q)
    PROVE  SourceMove /\ SourceRowsTyped
  <1>0. request \in [Requests -> SourceRequest] /\ source \in S!Source
    BY SourceTyped DEF SourceTypes
  <1>1. PICK a \in SourceRequest : a = request[q]
    BY <1>0
  <1>2. PICK pc \in {"failed", "select"} : pc = IF source.gen = 0 THEN "failed" ELSE "select"
    OBVIOUS
  <1>3. /\ a.pc = "lock" /\ OwnInv(a) /\ S!Confirming = {}
        /\ request' = [request EXCEPT ![q] = [a EXCEPT !.pc = pc, !.seen = source]]
        /\ UNCHANGED <<head, project, source, service>>
    BY <1>1, <1>2, SourceTyped DEF S!LockSource, S!SourceFree
  <1>4. a.took = <<>> /\ a.kind = "confirm"
    BY <1>3 DEF OwnInv, KindOf
  <1>5. pc \in SourcePcs
    BY DEF SourcePcs
  <1>6. PICK r \in SourceRequest : r = [a EXCEPT !.pc = pc, !.seen = source]
    BY <1>0, <1>5, RequestSeen
  <1>7. r.pc = pc /\ r.kind = a.kind /\ r.took = a.took /\ r.seen = source
    BY <1>6 DEF SourceRequest
  <1>8. OwnInv(r)
    BY <1>4, <1>7 DEF OwnInv, KindOf, Reads
  <1>9. TakenBy(r, service)
    <2>1. Chosen(r) = {}
      BY <1>4, <1>7 DEF Chosen
    <2> QED
      BY <2>1 DEF TakenBy
  <1>10. \A o \in Requests : request[o].pc # "select"
    BY <1>3 DEF S!Confirming
  <1>11. Becomes(q, r)
    BY <1>1, <1>2, <1>3, <1>6, <1>7, <1>8, <1>9, <1>10 DEF Becomes
  <1> QED
    BY <1>3, <1>11, SourceTyped DEF SourceMove

\* what is a candidate below the root is in the nested commit's tree
LEMMA CandidateIsThere ==
    ASSUME NEW src, NEW p \in S!Candidates(src)
    PROVE  InRevision(p, src.nested)
  <1> DEFINE nested == Tree[src.nested]  root == Tree[src.root]
  <1>1. S!Files(src).docker = nested.docker \union (root.docker \intersect {Root})
    BY DEF S!Files
  <1>2. S!Files(src).packages = nested.packages \union (root.packages \intersect {Root})
    BY DEF S!Files
  <1>3. p \in {Root} \union S!Files(src).docker \union S!Files(src).packages
    BY Zenon DEF S!Candidates
  <1> QED
    BY <1>1, <1>2, <1>3 DEF InRevision

LEMMA TakeMoves ==
    ASSUME SourcesInv, NEW q \in Requests, S!Take(q)
    PROVE  SourceMove /\ SourceRowsTyped
  <1>0. request \in [Requests -> SourceRequest] /\ ConfirmingInv
    BY SourceTyped DEF SourcesInv
  <1>1. PICK a \in SourceRequest : a = request[q]
    BY <1>0
  <1>2. a.pc = "select" /\ a.todo # <<>> /\ a.todo \in Seq(S!Selection) /\ a.took \in Seq(S!Selection)
        /\ a.inserted \subseteq Slugs /\ a.locked \subseteq Slugs
    BY <1>1 DEF S!Take, SourceRequest
  <1>3. PICK sel \in S!Selection : sel = Head(a.todo)
    BY <1>2
  <1>4. sel.slug \in Slugs
    BY DEF S!Selection
  <1>5. PICK rest \in Seq(S!Selection), taken \in Seq(S!Selection), held \in SUBSET Slugs, added \in SUBSET Slugs :
          /\ rest = Tail(a.todo) /\ taken = Append(a.took, sel)
          /\ held = a.locked \union (IF service[sel.slug].st = "none" THEN {} ELSE {sel.slug})
          /\ added = IF service[sel.slug].st = "none" THEN a.inserted \union {sel.slug} ELSE a.inserted
    <2>1. Tail(a.todo) \in Seq(S!Selection) /\ Append(a.took, sel) \in Seq(S!Selection)
      BY <1>2
    <2>2. a.locked \union (IF service[sel.slug].st = "none" THEN {} ELSE {sel.slug}) \in SUBSET Slugs
      BY <1>2, <1>4
    <2>3. (IF service[sel.slug].st = "none" THEN a.inserted \union {sel.slug} ELSE a.inserted) \in SUBSET Slugs
      BY <1>2, <1>4
    <2> QED
      BY <2>1, <2>2, <2>3
  <1>6. /\ request' = [request EXCEPT ![q] = [a EXCEPT !.todo = rest, !.took = taken, !.locked = held, !.inserted = added]]
        /\ UNCHANGED <<head, project, source, service>>
    BY <1>1, <1>3, <1>5 DEF S!Take, S!LockedBy, S!StoredSoFar
  <1>7. /\ sel.path \in S!Candidates(a.seen) /\ sel.slug \notin a.inserted
        /\ \/ service[sel.slug].st = "none"
           \/ service[sel.slug].st = "ACTIVE" /\ service[sel.slug].config.path = sel.path
    BY <1>1, <1>3 DEF S!Take, S!Acceptable
  <1>8. [a EXCEPT !.todo = rest, !.took = taken, !.locked = held, !.inserted = added] \in SourceRequest
    BY DEF SourceRequest
  <1>9. PICK r \in SourceRequest : r = [a EXCEPT !.todo = rest, !.took = taken, !.locked = held, !.inserted = added]
    BY <1>8
  <1>10. r.pc = a.pc /\ r.kind = a.kind /\ r.seen = a.seen /\ r.took = taken /\ r.locked = held /\ r.inserted = added
    BY <1>9 DEF SourceRequest
  <1>11. OwnInv(a) /\ Holds(q)
    BY <1>0, <1>1, <1>2, SourceTyped DEF ConfirmingInv
  <1>12. OwnInv(r)
    BY <1>2, <1>10, <1>11 DEF OwnInv, KindOf, Reads
  <1>13. Chosen(r) = Chosen(a) \union {sel}
    <2>1. Len(a.took) \in Nat /\ DOMAIN a.took = 1..Len(a.took) /\ DOMAIN taken = 1..(Len(a.took) + 1)
          /\ \A i \in 1..Len(a.took) : taken[i] = a.took[i]
      BY <1>2, <1>5
    <2>2. taken[Len(a.took) + 1] = sel
      BY <1>2, <1>5
    <2> QED
      BY <1>10, <2>1, <2>2 DEF Chosen
  <1>14. TakenBy(a, service) /\ a.seen = source /\ source.gen # 0 /\ \A o \in Requests : request[o].pc = "select" => o = q
    BY <1>1, <1>11 DEF Holds
  <1>15. TakenBy(r, service)
    <2>1. InRevision(sel.path, r.seen.nested)
      BY <1>7, <1>10, CandidateIsThere
    <2>2. \/ sel.slug \in r.inserted /\ service[sel.slug].st = "none"
          \/ sel.slug \in r.locked /\ service[sel.slug].st = "ACTIVE" /\ service[sel.slug].config.path = sel.path
      BY <1>5, <1>7, <1>10
    <2>3. a.inserted \subseteq r.inserted /\ a.locked \subseteq r.locked
      BY <1>5, <1>10
    <2>4. ASSUME NEW b \in Chosen(a), b.slug = sel.slug PROVE b.path = sel.path
      BY <1>7, <1>14, <2>4 DEF TakenBy
    <2>5. ASSUME NEW b \in Chosen(r)
          PROVE  /\ InRevision(b.path, r.seen.nested)
                 /\ \/ b.slug \in r.inserted /\ service[b.slug].st = "none"
                    \/ b.slug \in r.locked /\ service[b.slug].st = "ACTIVE" /\ service[b.slug].config.path = b.path
                 /\ \A c \in Chosen(r) : b.slug = c.slug => b.path = c.path
      <3>1. CASE b = sel
        BY <1>13, <2>1, <2>2, <2>4, <3>1
      <3>2. CASE b \in Chosen(a)
        BY <1>10, <1>13, <1>14, <2>3, <2>4, <3>2 DEF TakenBy
      <3> QED
        BY <1>13, <3>1, <3>2
    <2> QED
      BY <2>5 DEF TakenBy
  <1>16. Becomes(q, r)
    BY <1>1, <1>2, <1>6, <1>9, <1>10, <1>12, <1>14, <1>15 DEF Becomes
  <1> QED
    BY <1>6, <1>16, SourceTyped DEF SourceMove

\* S!Release, as a record
LEMMA ReleaseFields ==
    ASSUME NEW a \in SourceRequest, NEW pc \in SourcePcs
    PROVE  /\ [a EXCEPT !.pc = pc, !.locked = {}, !.inserted = {}] \in SourceRequest
           /\ [a EXCEPT !.pc = pc, !.locked = {}, !.inserted = {}].pc = pc
           /\ [a EXCEPT !.pc = pc, !.locked = {}, !.inserted = {}].kind = a.kind
           /\ [a EXCEPT !.pc = pc, !.locked = {}, !.inserted = {}].seen = a.seen
           /\ [a EXCEPT !.pc = pc, !.locked = {}, !.inserted = {}].took = a.took
BY DEF SourceRequest

LEMMA FailConfirmMoves ==
    ASSUME SourcesInv, NEW q \in Requests, S!FailConfirm(q)
    PROVE  SourceMove /\ SourceRowsTyped
  <1>0. request \in [Requests -> SourceRequest]
    BY SourceTyped
  <1>1. PICK a \in SourceRequest : a = request[q]
    BY <1>0
  <1> DEFINE refused == /\ a.todo # <<>> /\ Head(a.todo).path \in S!Candidates(a.seen)
                        /\ ~(Head(a.todo).port \/ S!OnePort(a.seen, Head(a.todo).path))
  <1>2. PICK pc \in {"failed", "refused port"} : pc = IF refused THEN "refused port" ELSE "failed"
    OBVIOUS
  <1>3. /\ a.pc = "select" /\ request' = [request EXCEPT ![q] = [a EXCEPT !.pc = pc, !.locked = {}, !.inserted = {}]]
        /\ UNCHANGED <<head, project, source, service>>
    BY <1>1, <1>2 DEF S!FailConfirm, S!Release, S!HasPort
  <1>4. pc = "refused port" => ~S!ReadyForReview(a.seen)
    BY <1>2 DEF S!ReadyForReview
  <1>5. pc \in SourcePcs
    BY DEF SourcePcs
  <1>6. PICK r \in SourceRequest : r = [a EXCEPT !.pc = pc, !.locked = {}, !.inserted = {}]
    BY <1>5, ReleaseFields
  <1>7. r.pc = pc /\ r.kind = a.kind /\ r.seen = a.seen
    BY <1>6 DEF SourceRequest
  <1>8. OwnInv(a)
    BY <1>1, SourceTyped
  <1>9. OwnInv(r)
    BY <1>3, <1>4, <1>7, <1>8 DEF OwnInv, KindOf, Reads
  <1>10. Becomes(q, r)
    BY <1>1, <1>2, <1>3, <1>6, <1>7, <1>9 DEF Becomes
  <1> QED
    BY <1>3, <1>10, SourceTyped DEF SourceMove

LEMMA CommitConfirmMoves ==
    ASSUME SourcesInv, NEW q \in Requests, S!CommitConfirm(q)
    PROVE  SourceMove /\ SourceRowsTyped
  <1>0. request \in [Requests -> SourceRequest] /\ SourceTypes
    BY SourceTyped
  <1>1. PICK a \in SourceRequest : a = request[q]
    BY <1>0
  <1>2. /\ a.pc = "select" /\ request' = [request EXCEPT ![q] = [a EXCEPT !.pc = "done", !.locked = {}, !.inserted = {}]]
        /\ UNCHANGED <<head, project, source>>
    BY <1>1 DEF S!CommitConfirm, S!Release
  <1>3. "done" \in SourcePcs
    BY DEF SourcePcs
  <1>4. PICK r \in SourceRequest : r = [a EXCEPT !.pc = "done", !.locked = {}, !.inserted = {}]
    BY <1>3, ReleaseFields
  <1>5. r.pc = "done" /\ r.kind = a.kind /\ r.took = a.took
    BY <1>4 DEF SourceRequest
  <1>6. OwnInv(r)
    <2>1. r.kind = "confirm"
      BY <1>1, <1>2, <1>5, SourceTyped DEF OwnInv, KindOf
    <2> QED
      BY <1>5, <2>1 DEF OwnInv, KindOf, Reads
  <1>7. S!Written(q) = Chosen(r)
    BY <1>1, <1>5 DEF S!Written, Chosen
  <1>8. service' = [s \in Slugs |->
                      IF \E sel \in S!Written(q) : sel.slug = s
                      THEN LET sel == CHOOSE b \in S!Written(q) : b.slug = s
                           IN  [st |-> IF service[s].st = "none" THEN "ACTIVE" ELSE service[s].st, config |-> S!ConfigOf(q, sel)]
                      ELSE service[s]]
    BY DEF S!CommitConfirm
  <1>9. \A b \in Chosen(r) : b \in S!Selection
    BY <1>5 DEF Chosen, SourceRequest
  <1>10. \A b \in S!Selection : S!ConfigOf(q, b) \in S!Config
    <2>1. a.seen.gen \in S!Generations /\ a.seen.rev \in S!Commits \union {0}
      BY DEF SourceRequest, S!Source
    <2> QED
      BY <1>1, <2>1 DEF S!ConfigOf, S!Config, S!Selection
  <1>11. ASSUME NEW s \in Slugs
         PROVE  /\ service'[s] \in ServiceRow
                /\ \/ service'[s] = service[s] /\ \A b \in Chosen(r) : b.slug # s
                   \/ \E b \in Chosen(r) :
                         /\ b.slug = s /\ service'[s].config = S!ConfigOf(q, b)
                         /\ service'[s].st = IF service[s].st = "none" THEN "ACTIVE" ELSE service[s].st
    <2>0. service[s] \in ServiceRow
      BY <1>0 DEF SourceTypes
    <2>1. CASE \A b \in Chosen(r) : b.slug # s
      BY <1>7, <1>8, <2>0, <2>1
    <2>2. CASE \E b \in Chosen(r) : b.slug = s
      <3>1. PICK b : b = CHOOSE c \in Chosen(r) : c.slug = s
        OBVIOUS
      <3>2. b \in Chosen(r) /\ b.slug = s
        BY <2>2, <3>1
      <3>3. PICK st : st = IF service[s].st = "none" THEN "ACTIVE" ELSE service[s].st
        OBVIOUS
      <3>4. service'[s] = [st |-> st, config |-> S!ConfigOf(q, b)]
        BY <1>7, <1>8, <2>2, <3>1, <3>3, Zenon
      <3>5. st \in {"none", "ACTIVE", "ARCHIVED"}
        BY <2>0, <3>3 DEF ServiceRow
      <3>6. S!ConfigOf(q, b) \in S!Config
        BY <1>9, <1>10, <3>2
      <3>7. service'[s] \in ServiceRow
        BY <3>4, <3>5, <3>6 DEF ServiceRow
      <3>8. service'[s].config = S!ConfigOf(q, b) /\ service'[s].st = st
        BY <3>4
      <3> QED
        BY <3>2, <3>3, <3>7, <3>8
    <2> QED
      BY <2>1, <2>2
  <1>12. service' \in [Slugs -> ServiceRow]
    BY <1>8, <1>11
  <1>13. SourceRowsTyped
    BY <1>0, <1>2, <1>12 DEF SourceTypes, SourceRowsTyped
  <1>14. CommitsConfirm(q, r)
    BY <1>1, <1>2, <1>5, <1>11 DEF CommitsConfirm
  <1>15. Becomes(q, r)
    BY <1>1, <1>2, <1>4, <1>5, <1>6, <1>14 DEF Becomes
  <1> QED
    BY <1>13, <1>15 DEF SourceMove

\* a service row with another state
LEMMA RowFields ==
    ASSUME NEW row \in ServiceRow, NEW st \in {"none", "ACTIVE", "ARCHIVED"}
    PROVE  /\ [row EXCEPT !.st = st] \in ServiceRow
           /\ [row EXCEPT !.st = st].st = st /\ [row EXCEPT !.st = st].config = row.config
BY DEF ServiceRow

LEMMA AdminMoves ==
    ASSUME SourcesInv, NEW q \in Requests,
           \/ \E s \in Slugs : S!Insert(q, s) \/ S!Retire(q, s)
           \/ S!ArchiveServices(q)
    PROVE  SourceMove /\ SourceRowsTyped
  <1>0. request \in [Requests -> SourceRequest] /\ service \in [Slugs -> ServiceRow] /\ SourceTypes
    BY SourceTyped DEF SourceTypes
  <1>1. PICK a \in SourceRequest : a = request[q]
    BY <1>0
  <1>2. OwnInv(a)
    BY <1>1, SourceTyped
  <1> DEFINE Row(s) == /\ service'[s] \in ServiceRow
                       /\ service'[s].config = service[s].config
                       /\ \/ service'[s].st = service[s].st
                          \/ /\ service'[s].st # "none"
                             /\ \A o \in Requests \ {q} : s \notin request[o].locked \union request[o].inserted
  <1>3. ASSUME request' = [request EXCEPT ![q] = [a EXCEPT !.pc = "done"]], a.pc \notin {"select", "done"},
               a.kind \notin {"connect", "confirm"}, source' = source, head' = head, project' \in {"ACTIVE", "ARCHIVED"},
               service' \in [Slugs -> ServiceRow], \A s \in Slugs : Row(s)
        PROVE  SourceMove /\ SourceRowsTyped
    <2>1. "done" \in SourcePcs
      BY DEF SourcePcs
    <2>2. PICK r \in SourceRequest : r = [a EXCEPT !.pc = "done"] /\ r.pc = "done" /\ r.kind = a.kind
      BY <2>1, RequestFields
    <2>3. OwnInv(r)
      BY <2>2 DEF OwnInv, KindOf, Reads
    <2>4. ChangesRows(q, r)
      BY <1>1, <1>3, <2>2 DEF ChangesRows
    <2>5. Becomes(q, r)
      BY <1>1, <1>3, <2>2, <2>3, <2>4 DEF Becomes
    <2>6. SourceRowsTyped
      BY <1>0, <1>3 DEF SourceTypes, SourceRowsTyped
    <2> QED
      BY <2>5, <2>6 DEF SourceMove
  <1>4. ASSUME NEW s \in Slugs, NEW st \in {"ACTIVE", "ARCHIVED"}, service' = [service EXCEPT ![s] = [service[s] EXCEPT !.st = st]],
               \A o \in Requests \ {q} : s \notin request[o].locked \union request[o].inserted
        PROVE  service' \in [Slugs -> ServiceRow] /\ \A t \in Slugs : Row(t)
    <2>1. PICK row \in ServiceRow : row = service[s]
      BY <1>0
    <2>5. st \in {"none", "ACTIVE", "ARCHIVED"}
      OBVIOUS
    <2>2. PICK new \in ServiceRow : new = [row EXCEPT !.st = st] /\ new.st = st /\ new.config = row.config
      BY <2>5, RowFields
    <2>3. service' = [service EXCEPT ![s] = new]
      BY <1>4, <2>1, <2>2
    <2>4. service' \in [Slugs -> ServiceRow] /\ service'[s] = new /\ \A t \in Slugs \ {s} : service'[t] = service[t]
      BY <1>0, <2>3
    <2>6. ASSUME NEW t \in Slugs PROVE Row(t)
      <3>1. CASE t = s
        BY <1>4, <2>1, <2>2, <2>4, <3>1
      <3>2. CASE t # s
        BY <1>0, <2>4, <3>2
      <3> QED
        BY <3>1, <3>2
    <2> QED
      BY <2>4, <2>6
  <1> HIDE DEF Row
  <1>5. ASSUME NEW s \in Slugs, S!Insert(q, s) PROVE SourceMove /\ SourceRowsTyped
    <2>1. /\ a.pc = "insert" /\ UNCHANGED <<head, project, source>>
          /\ \A o \in Requests \ {q} : s \notin request[o].locked \union request[o].inserted
      BY <1>1, <1>5 DEF S!Insert, S!SlugFree
    <2>2. a.kind = "create"
      BY <1>2, <2>1 DEF OwnInv, KindOf
    <2>3. CASE service[s].st = "none"
      <3>1. service' = [service EXCEPT ![s] = [service[s] EXCEPT !.st = "ACTIVE"]] /\ request' = [request EXCEPT ![q] = [a EXCEPT !.pc = "done"]]
        BY <1>1, <1>5, <2>3 DEF S!Insert, S!Goes
      <3>2. service' \in [Slugs -> ServiceRow] /\ \A t \in Slugs : Row(t)
        BY <1>4, <2>1, <3>1
      <3>3. project' \in {"ACTIVE", "ARCHIVED"}
        BY <1>0, <2>1 DEF SourceTypes
      <3> QED
        BY <1>3, <2>1, <2>2, <3>1, <3>2, <3>3
    <2>4. CASE service[s].st # "none"
      <3>1. S!Goes(q, "failed") /\ service' = service
        BY <1>5, <2>4 DEF S!Insert
      <3>2. request[q].pc # "done" /\ "failed" \in SourcePcs \ {"root", "tree", "upsert", "select", "done", "lock", "refused port"}
        BY <1>1, <2>1 DEF SourcePcs
      <3> QED
        BY <2>1, <3>1, <3>2, GoesMoves
    <2> QED
      BY <2>3, <2>4
  <1>6. ASSUME NEW s \in Slugs, S!Retire(q, s) PROVE SourceMove /\ SourceRowsTyped
    <2>1. /\ a.pc = "new" /\ a.kind = "retire" /\ UNCHANGED <<head, project, source>>
          /\ \A o \in Requests \ {q} : s \notin request[o].locked \union request[o].inserted
      BY <1>1, <1>6 DEF S!Retire, S!SlugFree, S!Starts
    <2>2. service' = [service EXCEPT ![s] = [service[s] EXCEPT !.st = "ARCHIVED"]] /\ request' = [request EXCEPT ![q] = [a EXCEPT !.pc = "done"]]
      BY <1>1, <1>6 DEF S!Retire, S!Goes
    <2>3. service' \in [Slugs -> ServiceRow] /\ \A t \in Slugs : Row(t)
      BY <1>4, <2>1, <2>2
    <2>4. project' \in {"ACTIVE", "ARCHIVED"}
      BY <1>0, <2>1 DEF SourceTypes
    <2> QED
      BY <1>3, <2>1, <2>2, <2>3, <2>4
  <1>7. ASSUME S!ArchiveServices(q) PROVE SourceMove /\ SourceRowsTyped
    <2>1. /\ a.pc = "services" /\ UNCHANGED <<head, source>> /\ project' = "ARCHIVED"
          /\ request' = [request EXCEPT ![q] = [a EXCEPT !.pc = "done"]]
          /\ service' = [s \in Slugs |-> IF service[s].st = "ACTIVE" THEN [service[s] EXCEPT !.st = "ARCHIVED"] ELSE service[s]]
          /\ \A s \in Slugs : service[s].st = "ACTIVE" =>
                \A o \in Requests \ {q} : s \notin request[o].locked \union request[o].inserted
      BY <1>1, <1>7 DEF S!ArchiveServices, S!Goes, S!SlugFree
    <2>2. a.kind = "archive"
      BY <1>2, <2>1 DEF OwnInv, KindOf
    <2>3. ASSUME NEW s \in Slugs PROVE service'[s] \in ServiceRow /\ Row(s)
      <3>1. PICK row \in ServiceRow : row = service[s]
        BY <1>0
      <3>2. CASE row.st = "ACTIVE"
        <4>1. PICK new \in ServiceRow : new = [row EXCEPT !.st = "ARCHIVED"] /\ new.st = "ARCHIVED" /\ new.config = row.config
          BY RowFields
        <4>2. service'[s] = new
          BY <2>1, <3>1, <3>2, <4>1
        <4> QED
          BY <2>1, <3>1, <3>2, <4>1, <4>2 DEF Row
      <3>3. CASE row.st # "ACTIVE"
        BY <2>1, <3>1, <3>3 DEF Row
      <3> QED
        BY <3>2, <3>3
    <2>4. service' \in [Slugs -> ServiceRow]
      BY <2>1, <2>3
    <2> QED
      BY <1>3, <2>1, <2>2, <2>3, <2>4
  <1> QED
    BY <1>5, <1>6, <1>7

LEMMA SourceMoves ==
    ASSUME SourcesInv, S!Next
    PROVE  SourceMove /\ SourceRowsTyped
  <1>1. CASE S!Push
    <2>1. head < S!MaxHead /\ head' = head + 1 /\ UNCHANGED <<project, source, service, request>>
      BY <1>1 DEF S!Push
    <2>2. head \in 1..S!MaxHead /\ SourceTypes
      BY SourceTyped DEF SourceTypes, S!Commits
    <2>3. S!MaxHead \in Nat
      <3>1. Len(Tree) = 3
        BY DEF Tree
      <3> QED
        BY <3>1 DEF S!MaxHead
    <2>4. head' \in S!Commits
      BY <2>1, <2>2, <2>3 DEF S!Commits
    <2> QED
      BY <2>1, <2>2, <2>4 DEF SourceTypes, SourceRowsTyped, SourceMove
  <1>2. ASSUME NEW q \in Requests,
               S!Connect(q) \/ S!ReadRevision(q) \/ S!ReadRoot(q) \/ S!ReadTree(q) \/ S!InspectFails(q) \/ S!Upsert(q)
        PROVE  SourceMove /\ SourceRowsTyped
    BY <1>2, GoingMoves, ReadingMoves, UpsertMoves
  <1>3. ASSUME NEW q \in Requests, NEW selection \in Selections, S!Confirm(q, selection)
        PROVE  SourceMove /\ SourceRowsTyped
    BY <1>3, ConfirmMoves
  <1>4. ASSUME NEW q \in Requests, S!LockSource(q) \/ S!Take(q) \/ S!CommitConfirm(q) \/ S!FailConfirm(q)
        PROVE  SourceMove /\ SourceRowsTyped
    BY <1>4, LockMoves, TakeMoves, CommitConfirmMoves, FailConfirmMoves
  <1>5. ASSUME NEW q \in Requests, S!Create(q) \/ S!Archive(q) \/ S!FailArchive(q)
        PROVE  SourceMove /\ SourceRowsTyped
    BY <1>5, GoingMoves
  <1>6. ASSUME NEW q \in Requests, S!ArchiveServices(q) \/ \E s \in Slugs : S!Insert(q, s) \/ S!Retire(q, s)
        PROVE  SourceMove /\ SourceRowsTyped
    BY <1>6, AdminMoves
  <1> QED
    BY <1>1, <1>2, <1>3, <1>4, <1>5, <1>6 DEF S!Next

LEMMA ChosenTyped ==
    ASSUME NEW r \in SourceRequest
    PROVE  \A a \in Chosen(r) : a \in S!Selection /\ a.slug \in Slugs
  <1>1. \A a \in Chosen(r) : a \in S!Selection
    BY DEF Chosen, SourceRequest
  <1> QED
    BY <1>1 DEF S!Selection

\* The rows a confirmation took are as it found them, unless it commits.
LEMMA TakenStays ==
    ASSUME SourcesInv, NEW q \in Requests, NEW r \in SourceRequest, Becomes(q, r),
           NEW o \in Requests \ {q}, request[o].pc = "select"
    PROVE  TakenBy(request[o], service')
  <1>1. TakenBy(request[o], service) /\ \A p \in Requests : request[p].pc = "select" => p = o
    BY DEF SourcesInv, ConfirmingInv, Holds
  <1>2. request[o] \in SourceRequest
    BY SourceTyped
  <1>3. \A a \in Chosen(request[o]) : a.slug \in Slugs
    BY <1>2, ChosenTyped
  <1>4. CASE service' = service
    BY <1>1, <1>4
  <1>5. CASE ChangesRows(q, r)
    <2>1. ASSUME NEW s \in Slugs, s \in request[o].inserted \union request[o].locked
          PROVE  service'[s].st = service[s].st /\ service'[s].config = service[s].config
      BY <1>5, <2>1 DEF ChangesRows
    <2> QED
      BY <1>1, <1>3, <2>1 DEF TakenBy
  <1>6. CASE CommitsConfirm(q, r)
    BY <1>1, <1>6 DEF CommitsConfirm
  <1> QED
    BY <1>4, <1>5, <1>6 DEF Becomes, StoresSource

LEMMA ConfirmingStays ==
    ASSUME SourcesInv, NEW q \in Requests, NEW r \in SourceRequest, Becomes(q, r)
    PROVE  ConfirmingInv'
  <1>1. request' = [request EXCEPT ![q] = r] /\ request \in [Requests -> SourceRequest]
    BY SourceTyped DEF Becomes
  <1>2. request'[q] = r /\ \A o \in Requests \ {q} : request'[o] = request[o]
    BY <1>1
  <1> SUFFICES ASSUME NEW o \in Requests, request'[o].pc = "select"
               PROVE  /\ request'[o].seen = source' /\ source'.gen # 0 /\ TakenBy(request'[o], service')
                      /\ \A p \in Requests : request'[p].pc = "select" => p = o
    BY DEF ConfirmingInv, Holds
  <1>3. CASE o = q
    BY <1>2, <1>3 DEF Becomes
  <1>4. CASE o # q
    <2>1. /\ request[o].pc = "select" /\ request[o].seen = source /\ source.gen # 0
          /\ \A p \in Requests : request[p].pc = "select" => p = o
      BY <1>2, <1>4 DEF SourcesInv, ConfirmingInv, Holds
    <2>2. TakenBy(request[o], service')
      BY <1>4, <2>1, TakenStays
    <2>3. source' = source /\ r.pc # "select"
      BY <1>4, <2>1 DEF Becomes, StoresSource, CommitsConfirm, ChangesRows
    <2> QED
      BY <1>2, <1>4, <2>1, <2>2, <2>3
  <1> QED
    BY <1>3, <1>4

LEMMA SourceRowStays ==
    ASSUME SourcesInv, NEW q \in Requests, NEW r \in SourceRequest, Becomes(q, r)
    PROVE  SourceRowInv' /\ source'.gen >= source.gen
  <1>1. request' = [request EXCEPT ![q] = r] /\ request \in [Requests -> SourceRequest]
    BY SourceTyped DEF Becomes
  <1>2. request'[q] = r /\ \A o \in Requests \ {q} : request'[o] = request[o]
    BY <1>1
  <1>3. SourceRowInv /\ source.gen \in Nat
    BY SourceTyped, SourceConstantsKnown DEF SourcesInv, SourceTypes, S!Source
  <1>4. Stored \subseteq Stored' /\ IsFiniteSet(Stored')
    <2>1. Stored \subseteq Stored'
      BY <1>2 DEF Stored, Becomes
    <2>2. Stored' \subseteq Requests
      BY DEF Stored
    <2> QED
      BY <2>1, <2>2, SourceConstantsKnown, FS_Subset
  <1>5. CASE source' = source
    <2>1. Cardinality(Stored) <= Cardinality(Stored') /\ Cardinality(Stored') \in Nat
      BY <1>4, FS_Subset, FS_CardinalityType
    <2> QED
      BY <1>3, <1>5, <2>1, StoredFinite DEF SourceRowInv
  <1>6. CASE r.pc = "done" /\ StoresSource(q)
    <2>1. request[q].kind = "connect" /\ OwnInv(request[q]) /\ request[q].pc = "upsert"
      BY <1>6, SourceTyped DEF StoresSource, OwnInv, KindOf
    <2>2. Stored' = Stored \union {q} /\ q \notin Stored
      BY <1>2, <1>6, <2>1 DEF Stored, Becomes
    <2>3. Cardinality(Stored') = Cardinality(Stored) + 1
      BY <2>2, StoredFinite, FS_AddElement
    <2>4. source'.gen = source.gen + 1 /\ source'.nested \in S!Commits /\ source'.rev = source'.nested
      BY <1>6, <2>1 DEF StoresSource, OwnInv, Reads
    <2> QED
      BY <1>3, <2>3, <2>4, StoredFinite DEF SourceRowInv
  <1> QED
    BY <1>5, <1>6 DEF Becomes, CommitsConfirm, ChangesRows

LEMMA ConfigsStay ==
    ASSUME SourcesInv, NEW q \in Requests, NEW r \in SourceRequest, Becomes(q, r), SourceRowsTyped
    PROVE  ConfigsInv' /\ S!ConfirmsInOrder /\ S!ConfirmsActive
  <1>1. request' = [request EXCEPT ![q] = r] /\ request \in [Requests -> SourceRequest] /\ service \in [Slugs -> ServiceRow]
    BY SourceTyped DEF Becomes, SourceTypes
  <1>2. request'[q] = r /\ \A o \in Requests \ {q} : request'[o] = request[o]
    BY <1>1
  <1>3. source.gen \in Nat /\ source'.gen \in Nat /\ source'.gen >= source.gen
    BY SourceTyped, SourceConstantsKnown, SourceRowStays DEF SourceTypes, S!Source, SourceRowsTyped
  <1>4. \A s \in Slugs : service[s].config.gen \in Nat /\ ConfigInv(service[s].config)
    BY <1>1, SourceConstantsKnown DEF SourcesInv, ConfigsInv, ServiceRow, S!Config
  <1>5. \A o \in Requests : request[o].pc = "done" => request'[o].pc = "done"
    BY <1>2 DEF Becomes
  <1>6. ASSUME NEW s \in Slugs, service'[s].config = service[s].config
        PROVE  /\ service'[s].config.gen <= source'.gen /\ service[s].config.gen <= service'[s].config.gen
               /\ service'[s].config.by # 0 => service'[s].config.by \in Requests /\ request'[service'[s].config.by].pc = "done"
               /\ service'[s].config.path # "no path" => InRevision(service'[s].config.path, service'[s].config.rev)
    <2>1. PICK c : c = service[s].config
      OBVIOUS
    <2>2. c.gen \in Nat /\ ConfigInv(c) /\ service'[s].config = c
      BY <1>4, <1>6, <2>1
    <2>6. PICK i \in Nat, j \in Nat, k \in Nat : i = c.gen /\ j = source.gen /\ k = source'.gen /\ k >= j
      BY <1>3, <2>2
    <2>7. i <= j
      BY <2>2, <2>6 DEF ConfigInv
    <2>8. i <= k /\ i <= i
      BY <2>6, <2>7
    <2>3. c.gen <= source'.gen /\ c.gen <= c.gen
      BY <2>6, <2>8
    <2>4. c.by # 0 => c.by \in Requests /\ request'[c.by].pc = "done"
      BY <1>5, <2>2 DEF ConfigInv
    <2>5. c.path # "no path" => InRevision(c.path, c.rev)
      BY <2>2 DEF ConfigInv
    <2> QED
      BY <2>1, <2>2, <2>3, <2>4, <2>5
  <1>7. ASSUME NEW s \in Slugs, CommitsConfirm(q, r), r.pc = "done", NEW a \in Chosen(r), a.slug = s,
               service'[s].config = S!ConfigOf(q, a), service'[s].st = IF service[s].st = "none" THEN "ACTIVE" ELSE service[s].st
        PROVE  /\ service'[s].config.gen <= source'.gen /\ service[s].config.gen <= service'[s].config.gen
               /\ service'[s].config.by # 0 => service'[s].config.by \in Requests /\ request'[service'[s].config.by].pc = "done"
               /\ service'[s].config.path # "no path" => InRevision(service'[s].config.path, service'[s].config.rev)
               /\ service'[s].st = "ACTIVE"
    <2>1. request[q].pc = "select" /\ source' = source /\ Chosen(r) = Chosen(request[q])
      BY <1>7 DEF CommitsConfirm, Chosen
    <2>2. Holds(q) /\ SourceRowInv
      BY <2>1 DEF SourcesInv, ConfirmingInv
    <2>3. /\ request[q].seen = source /\ source.rev = source.nested /\ InRevision(a.path, source.nested)
          /\ \/ service[s].st = "none"
             \/ service[s].st = "ACTIVE"
      BY <1>7, <2>1, <2>2 DEF Holds, SourceRowInv, TakenBy
    <2>4. /\ service'[s].config.path = a.path /\ service'[s].config.gen = source.gen
          /\ service'[s].config.rev = source.rev /\ service'[s].config.by = q
      BY <1>7, <2>3 DEF S!ConfigOf
    <2> QED
      BY <1>2, <1>3, <1>4, <1>7, <2>1, <2>3, <2>4 DEF ConfigInv
  <1>8. \A s \in Slugs : service'[s].config = service[s].config \/ (CommitsConfirm(q, r) /\ r.pc = "done" /\ \E a \in Chosen(r) :
            a.slug = s /\ service'[s].config = S!ConfigOf(q, a) /\ service'[s].st = IF service[s].st = "none" THEN "ACTIVE" ELSE service[s].st)
    BY DEF Becomes, StoresSource, CommitsConfirm, ChangesRows
  <1>9. ASSUME NEW s \in Slugs
        PROVE  /\ service'[s].config.gen <= source'.gen /\ service[s].config.gen <= service'[s].config.gen
               /\ service'[s].config.by # 0 => service'[s].config.by \in Requests /\ request'[service'[s].config.by].pc = "done"
               /\ service'[s].config.path # "no path" => InRevision(service'[s].config.path, service'[s].config.rev)
               /\ service'[s].config # service[s].config => service'[s].st = "ACTIVE"
    BY <1>6, <1>7, <1>8
  <1>10. ConfigsInv'
    BY <1>9 DEF ConfigsInv, ConfigInv
  <1> QED
    BY <1>9, <1>10 DEF S!ConfirmsInOrder, S!ConfirmsActive

LEMMA ConfirmedStays ==
    ASSUME SourcesInv, NEW q \in Requests, NEW r \in SourceRequest, Becomes(q, r)
    PROVE  ConfirmedInv'
  <1>1. request' = [request EXCEPT ![q] = r] /\ request \in [Requests -> SourceRequest]
    BY SourceTyped DEF Becomes
  <1>2. request'[q] = r /\ \A o \in Requests \ {q} : request'[o] = request[o]
    BY <1>1
  <1>3. \A o \in Requests : \A a \in Chosen(request[o]) : a.slug \in Slugs
    BY <1>1, ChosenTyped
  <1>4. \A a \in Chosen(r) : a.slug \in Slugs
    BY ChosenTyped
  <1>5. ASSUME NEW s \in Slugs, service[s].st # "none", NEW p, service[s].config.path = p
        PROVE  service'[s].st # "none" /\ service'[s].config.path = p
    <2>1. CASE service'[s] = service[s]
      BY <1>5, <2>1
    <2>2. CASE ChangesRows(q, r)
      BY <1>5, <2>2 DEF ChangesRows
    <2>3. ASSUME CommitsConfirm(q, r), NEW a \in Chosen(r), a.slug = s, service'[s].config = S!ConfigOf(q, a),
                 service'[s].st = IF service[s].st = "none" THEN "ACTIVE" ELSE service[s].st
          PROVE  service'[s].st # "none" /\ service'[s].config.path = p
      <3>1. request[q].pc = "select" /\ Chosen(r) = Chosen(request[q])
        BY <2>3 DEF CommitsConfirm, Chosen
      <3>2. TakenBy(request[q], service)
        BY <3>1 DEF SourcesInv, ConfirmingInv, Holds
      <3>3. service[s].config.path = a.path
        BY <1>5, <2>3, <3>1, <3>2 DEF TakenBy
      <3>4. service'[s].config.path = a.path
        BY <2>3 DEF S!ConfigOf
      <3> QED
        BY <1>5, <2>3, <3>3, <3>4
    <2> QED
      BY <2>1, <2>2, <2>3 DEF Becomes, StoresSource, CommitsConfirm
  <1> SUFFICES ASSUME NEW o \in Requests, request'[o].kind = "confirm", request'[o].pc = "done", NEW a \in Chosen(request'[o])
               PROVE  service'[a.slug].st # "none" /\ service'[a.slug].config.path = a.path
    BY DEF ConfirmedInv
  <1>6. CASE o # q
    <2>1. service[a.slug].st # "none" /\ service[a.slug].config.path = a.path /\ a.slug \in Slugs
      BY <1>2, <1>3, <1>6 DEF SourcesInv, ConfirmedInv
    <2> QED
      BY <1>5, <2>1
  <1>7. CASE o = q
    <2>1. CommitsConfirm(q, r) /\ a \in Chosen(r) /\ a.slug \in Slugs
      <3>1. ~StoresSource(q)
        <4>1. request[q].kind = "confirm" /\ OwnInv(request[q])
          BY <1>2, <1>7, SourceTyped DEF Becomes
        <4> QED
          BY <4>1 DEF StoresSource, OwnInv, KindOf
      <3> QED
        BY <1>2, <1>4, <1>7, <3>1 DEF Becomes, ChangesRows
    <2>2. request[q].pc = "select" /\ Chosen(r) = Chosen(request[q])
      BY <2>1 DEF CommitsConfirm, Chosen
    <2>3. TakenBy(request[q], service)
      BY <2>2 DEF SourcesInv, ConfirmingInv, Holds
    <2>4. PICK b \in Chosen(r) : /\ b.slug = a.slug /\ service'[a.slug].config = S!ConfigOf(q, b)
                                 /\ service'[a.slug].st = IF service[a.slug].st = "none" THEN "ACTIVE" ELSE service[a.slug].st
      BY <2>1 DEF CommitsConfirm
    <2>5. b.path = a.path
      BY <2>1, <2>2, <2>3, <2>4 DEF TakenBy
    <2>6. service'[a.slug].config.path = b.path
      BY <2>4 DEF S!ConfigOf
    <2> QED
      BY <2>4, <2>5, <2>6
  <1> QED
    BY <1>6, <1>7

LEMMA SourcesStep ==
    ASSUME SourcesInv, S!Next
    PROVE  SourcesInv' /\ S!ConfirmsInOrder /\ S!ConfirmsActive
  <1>1. SourceMove /\ SourceRowsTyped
    BY SourceMoves
  <1>2. SourcesInv
    OBVIOUS
  <1>3. CASE UNCHANGED <<source, service, request>>
    <2>1. Stored' = Stored
      BY <1>3 DEF Stored
    <2>2. SourceTypes'
      BY <1>1, <1>2, <1>3 DEF SourcesInv, SourceTypes, SourceRowsTyped
    <2>3. SourceRowInv' /\ ConfirmingInv' /\ ConfigsInv' /\ ConfirmedInv' /\ \A q \in Requests : OwnInv(request'[q])
      BY <1>2, <1>3, <2>1 DEF SourcesInv, SourceRowInv, ConfirmingInv, Holds, ConfigsInv, ConfigInv, ConfirmedInv
    <2>4. \A s \in Slugs : service[s].config.gen \in Nat
      BY <1>2, SourceConstantsKnown DEF SourcesInv, SourceTypes, ServiceRow, S!Config
    <2> QED
      BY <1>3, <2>2, <2>3, <2>4 DEF SourcesInv, S!ConfirmsInOrder, S!ConfirmsActive
  <1>4. ASSUME NEW q \in Requests, NEW r \in SourceRequest, Becomes(q, r)
        PROVE  SourcesInv' /\ S!ConfirmsInOrder /\ S!ConfirmsActive
    <2>1. request' = [request EXCEPT ![q] = r] /\ OwnInv(r) /\ request \in [Requests -> SourceRequest]
          /\ \A o \in Requests : OwnInv(request[o])
      BY <1>4, SourceTyped DEF Becomes
    <2>2. request' \in [Requests -> SourceRequest] /\ \A o \in Requests : OwnInv(request'[o])
      BY <2>1
    <2>3. SourceTypes'
      BY <1>1, <2>2 DEF SourceTypes, SourceRowsTyped
    <2>4. ConfigsInv' /\ S!ConfirmsInOrder /\ S!ConfirmsActive
      BY <1>1, <1>4, ConfigsStay
    <2>5. SourceRowInv' /\ ConfirmingInv' /\ ConfirmedInv'
      BY <1>4, SourceRowStays, ConfirmingStays, ConfirmedStays
    <2> QED
      BY <2>2, <2>3, <2>4, <2>5 DEF SourcesInv
  <1> QED
    BY <1>1, <1>3, <1>4 DEF SourceMove

-----------------------------------------------------------------------------
(* What it means for the properties of ProjectSources *)

LEMMA SourcesHeld ==
    ASSUME SourcesInv
    PROVE  S!TypeOK /\ S!AllOrNothing /\ S!NestedExists /\ S!ReadyNeedsNoPort
  <1>1. SourceTypes /\ \A q \in Requests : request[q] \in SourceRequest /\ OwnInv(request[q])
    BY SourceTyped
  <1>2. S!TypeOK
    BY <1>1 DEF SourceTypes, ServiceRow, SourceRequest, SourcePcs, S!TypeOK
  <1>3. S!AllOrNothing
    BY DEF SourcesInv, ConfigsInv, ConfigInv, ConfirmedInv, Chosen, S!Written, S!AllOrNothing
  <1>4. S!NestedExists
    BY DEF SourcesInv, ConfigsInv, ConfigInv, InRevision, S!NestedExists, S!NoPath
  <1>5. S!ReadyNeedsNoPort
    BY <1>1 DEF OwnInv, S!ReadyNeedsNoPort
  <1> QED
    BY <1>2, <1>3, <1>4, <1>5

-----------------------------------------------------------------------------
(* Placement *)

DepStates == {"none", "chosen", "over"} \union P!InTransaction \union P!Rows
DepType == [st : DepStates, op : {"deploy", "rollback", "build"}, s : Services, n : P!Somewhere,
            port : Ports, of : P!Deps \union {0}, image : BOOLEAN,
            mounts : SUBSET Volumes, holds : SUBSET Volumes, addon : BOOLEAN,
            seen : P!Somewhere, redis : BOOLEAN]
VolType == [st : {"none", "counted", "chosen", "there"}, s : Services, n : P!Somewhere, share : P!Deps \union {0}]
AddonType == [st : {"none", "asked", "CONFIGURED", "READY"}, n : P!Somewhere]
Allocation == [s : Services, n : Nodes, port : Ports]
PlacementTypes ==
    /\ online \subseteq Nodes /\ ports \subseteq Allocation
    /\ target \in [Services -> SUBSET [n : Nodes, port : Ports]]
    /\ dep \in [P!Deps -> DepType] /\ vol \in [Volumes -> VolType] /\ addon \in AddonType
    /\ made \subseteq Nodes /\ slipped \subseteq Volumes /\ flips \in 0..MaxFlips

\* A deployment that is begun has a node, and one that rolls back a target; it
\* mounts and runs nothing before it is a row.
DepInv(r) ==
    /\ r.st \notin {"none", "over"} => r.n \in Nodes
    /\ r.st = "chosen" => r.op = "rollback"
    /\ r.st \in {"chosen", "placed", "written"} /\ r.op = "rollback" => r.of # 0
    /\ r.st \notin P!Rows => r.mounts = {} /\ ~r.redis

\* The node of a transaction is its own, unless they are builds; the port of a
\* deployment that is to be allocated when it commits is still free then.
Allocated(r) == [s |-> r.s, n |-> r.n, port |-> r.port]
Fits(rows, a) == a \in rows \/ \A b \in rows : b.n = a.n => b.s # a.s /\ b.port # a.port
OneEach(rows) == \A a, b \in rows : a.n = b.n => (a.s = b.s <=> a.port = b.port)
MayUse(r, rows) ==
    /\ r.st \in P!Rows \union {"chosen"} => Allocated(r) \in rows
    /\ r.st \in P!InTransaction /\ r.op # "deploy" => Allocated(r) \in rows
    /\ r.st \in P!InTransaction /\ r.op = "deploy" => Fits(rows, Allocated(r))
Apart(r, t) == r.st \in P!InTransaction /\ t.st \in P!InTransaction /\ r.n = t.n => r.op = "build" /\ t.op = "build"
PortsInv ==
    /\ OneEach(ports)
    /\ \A s \in Services : \A t \in target[s] : [s |-> s, n |-> t.n, port |-> t.port] \in ports
    /\ \A d \in P!Deps : MayUse(dep[d], ports)
    /\ \A d, e \in P!Deps : d # e => Apart(dep[d], dep[e])

\* What an insertion holds is there, and bound to its node or to none.
MountsInv ==
    /\ \A d \in P!Deps : \A v \in dep[d].mounts : vol[v].st = "there" /\ (v \notin slipped => vol[v].n = dep[d].n)
    /\ \A d \in P!Deps : dep[d].st = "written" =>
          \A v \in dep[d].holds : vol[v].st = "there" /\ vol[v].n \in {NoNode, dep[d].n}
    /\ \A d, e \in P!Deps : dep[d].st = "written" /\ dep[e].st = "written" /\ d # e => dep[d].holds \intersect dep[e].holds = {}

\* A deployment that runs the addon was sent when there was one.
AddonInv ==
    \A d \in P!Deps : /\ dep[d].st = "asked" => P!HasAddon
                      /\ dep[d].redis => P!HasAddon /\ addon.n = dep[d].n

PlacementInv ==
    PlacementTypes /\ (\A d \in P!Deps : DepInv(dep[d])) /\ PortsInv /\ MountsInv /\ AddonInv

LEMMA PlacementConstantsKnown ==
    Services # {} /\ Ports # {} /\ NoNode \notin Nodes /\ MaxDeployments \in Nat /\ MaxFlips \in Nat
BY PlacementConstants DEF P!ServicesAssumption, P!PortsAssumption, P!NoNodeAssumption, P!PlacementBounds

LEMMA PlacementTyped ==
    ASSUME PlacementInv
    PROVE  /\ PlacementTypes /\ dep \in [P!Deps -> DepType] /\ vol \in [Volumes -> VolType] /\ addon \in AddonType
           /\ \A d \in P!Deps : dep[d] \in DepType /\ DepInv(dep[d]) /\ MayUse(dep[d], ports)
           /\ \A v \in Volumes : vol[v] \in VolType
BY DEF PlacementInv, PlacementTypes, PortsInv

LEMMA UnusedTyped ==
    /\ P!Unused \in DepType /\ P!Unused.st = "none" /\ P!Unused.op = "deploy"
    /\ P!Unused.mounts = {} /\ P!Unused.redis = FALSE /\ P!Unused.holds = {}
    /\ P!Unused.n = NoNode /\ P!Unused.of = 0
  <1>1. PICK s \in Services : s = CHOOSE t \in Services : TRUE
    BY PlacementConstantsKnown
  <1>2. PICK p \in Ports : p = CHOOSE t \in Ports : TRUE
    BY PlacementConstantsKnown
  <1>3. P!Unused = [st |-> "none", op |-> "deploy", s |-> s, n |-> NoNode,
                    port |-> p, of |-> 0, image |-> FALSE, mounts |-> {}, holds |-> {},
                    addon |-> FALSE, seen |-> NoNode, redis |-> FALSE]
    BY <1>1, <1>2 DEF P!Unused
  <1>4. NoNode \in P!Somewhere /\ "none" \in DepStates
    BY DEF P!Somewhere, DepStates
  <1>5. P!Unused \in DepType
    BY <1>3, <1>4 DEF DepType
  <1> QED
    BY <1>3, <1>5

LEMMA RefusedTyped ==
    /\ P!Refused \in DepType /\ P!Refused.st = "over" /\ P!Refused.mounts = {} /\ P!Refused.redis = FALSE
  <1>1. PICK u \in DepType : u = P!Unused /\ u.mounts = {} /\ u.redis = FALSE
    BY UnusedTyped
  <1>2. P!Refused = [u EXCEPT !.st = "over"]
    BY <1>1 DEF P!Refused
  <1>3. "over" \in DepStates
    BY DEF DepStates
  <1>4. [u EXCEPT !.st = "over"] \in DepType
    BY <1>3 DEF DepType
  <1>5. [u EXCEPT !.st = "over"].st = "over" /\ [u EXCEPT !.st = "over"].mounts = u.mounts /\ [u EXCEPT !.st = "over"].redis = u.redis
    BY DEF DepType
  <1> QED
    BY <1>1, <1>2, <1>4, <1>5

LEMMA PlacementInit == P!Init => PlacementInv
  <1> SUFFICES ASSUME P!Init PROVE PlacementInv
    OBVIOUS
  <1>1. PICK s0 \in Services : s0 = CHOOSE t \in Services : TRUE
    BY PlacementConstantsKnown
  <1>2. /\ online = Nodes /\ ports = {} /\ target = [s \in Services |-> {}]
        /\ dep = [d \in P!Deps |-> P!Unused]
        /\ vol = [v \in Volumes |-> [st |-> "none", s |-> s0, n |-> NoNode, share |-> 0]]
        /\ addon = [st |-> "none", n |-> NoNode]
        /\ made = {} /\ slipped = {} /\ flips = 0
    BY <1>1 DEF P!Init
  <1>3. [st |-> "none", s |-> s0, n |-> NoNode, share |-> 0] \in VolType /\ [st |-> "none", n |-> NoNode] \in AddonType
    BY DEF VolType, AddonType, P!Somewhere
  <1>4. flips \in 0..MaxFlips
    BY <1>2, PlacementConstantsKnown
  <1>5. PlacementTypes
    <2>1. dep \in [P!Deps -> DepType]
      BY <1>2, UnusedTyped
    <2>2. vol \in [Volumes -> VolType] /\ addon \in AddonType
      BY <1>2, <1>3
    <2> QED
      BY <1>2, <1>4, <2>1, <2>2 DEF PlacementTypes
  <1>6. \A d \in P!Deps : dep[d].st = "none" /\ dep[d].mounts = {} /\ dep[d].redis = FALSE
    BY <1>2, UnusedTyped
  <1>7. \A d \in P!Deps : DepInv(dep[d])
    BY <1>6 DEF DepInv, P!Rows, P!Live
  <1>8. PortsInv
    BY <1>2, <1>6 DEF PortsInv, OneEach, MayUse, Apart, P!Rows, P!Live, P!InTransaction
  <1>9. MountsInv /\ AddonInv
    BY <1>6 DEF MountsInv, AddonInv
  <1> QED
    BY <1>5, <1>7, <1>8, <1>9 DEF PlacementInv

\* Steps: a port is configured, a volume or the addon is created, a transaction
\* goes on, or commits, or rows move.  What is bound stays.
VolumesStay == \A v \in Volumes : vol[v].st = "there" => vol'[v] = vol[v]
VolumesKept ==
    \A v \in Volumes : vol[v].st = "there" => vol'[v].st = "there" /\ (vol[v].n # NoNode => vol'[v].n = vol[v].n)
AddonKept == P!HasAddon => P!HasAddon' /\ (addon.n # NoNode => addon'.n = addon.n)
Configures ==
    /\ UNCHANGED <<dep, vol, addon, slipped>>
    /\ \/ UNCHANGED <<ports, target>>
       \/ \E a \in Allocation :
             /\ ports' = ports \union {a} /\ Fits(ports, a)
             /\ target' = [target EXCEPT ![a.s] = {[n |-> a.n, port |-> a.port]}]
             /\ \A e \in P!Deps : dep[e].st \in P!InTransaction => dep[e].n # a.n
Creates ==
    /\ UNCHANGED <<dep, ports, target, slipped>> /\ vol' \in [Volumes -> VolType] /\ addon' \in AddonType
    /\ VolumesStay /\ AddonKept
Starts(d, r) ==
    /\ r.st \in {"chosen", "placed"} /\ MayUse(r, ports)
    /\ \A e \in P!Deps \ {d} : Apart(dep[e], r) /\ Apart(r, dep[e])
Writes(d, r) ==
    /\ dep[d].st = "placed" /\ r.st = "written" /\ r.op = dep[d].op /\ Allocated(r) = Allocated(dep[d])
    /\ \A v \in r.holds : vol[v].st = "there" /\ vol[v].n \in {NoNode, r.n}
    /\ \A e \in P!Deps : dep[e].st = "written" => dep[e].holds \intersect r.holds = {}
Proceeds(d, r) ==
    /\ dep' = [dep EXCEPT ![d] = r] /\ DepInv(r) /\ UNCHANGED <<ports, target, vol, addon, slipped>>
    /\ Starts(d, r) \/ Writes(d, r) \/ r.st = "over"
Commits(d, r) ==
    /\ dep' = [dep EXCEPT ![d] = r] /\ DepInv(r) /\ dep[d].st = "written"
    /\ r.st = "QUEUED" /\ ~r.redis /\ Allocated(r) = Allocated(dep[d]) /\ target' = target
    /\ \A v \in r.mounts : vol[v].st = "there"
    /\ ports' = IF dep[d].op = "deploy" THEN ports \union {Allocated(r)} ELSE ports
    /\ \A v \in Volumes : IF v \in dep[d].holds /\ vol[v].n = NoNode
                          THEN vol'[v].n = r.n /\ vol'[v].st = vol[v].st ELSE vol'[v] = vol[v]
    /\ vol' \in [Volumes -> VolType] /\ addon' \in AddonType /\ AddonKept
    /\ slipped' = slipped \union (r.mounts \ dep[d].holds)
RowMoves(r, t) ==
    \/ t = r
    \/ /\ r.st \in P!Rows /\ t.st \in P!Rows /\ Allocated(t) = Allocated(r) /\ t.mounts = r.mounts
       /\ t.st = "asked" => P!HasAddon
       /\ t.redis => r.redis \/ (P!HasAddon /\ addon'.n = r.n)
Progresses ==
    /\ dep' \in [P!Deps -> DepType] /\ \A e \in P!Deps : RowMoves(dep[e], dep'[e])
    /\ addon' \in AddonType /\ AddonKept /\ UNCHANGED <<ports, target, vol, slipped>>
PlacementMove ==
    \/ Configures \/ Creates \/ Progresses
    \/ \E d \in P!Deps, r \in DepType : Proceeds(d, r) \/ Commits(d, r)
HistoryTyped == online' \subseteq Nodes /\ made' \subseteq Nodes /\ flips' \in 0..MaxFlips

LEMMA Unmoved ==
    ASSUME PlacementInv, UNCHANGED <<online, made, flips>>
    PROVE  HistoryTyped
BY DEF PlacementInv, PlacementTypes, HistoryTyped

LEMMA PortFits ==
    ASSUME PlacementInv, NEW s \in Services, NEW n \in Nodes, NEW p \in P!PortFor(s, n)
    PROVE  p \in Ports /\ Fits(ports, [s |-> s, n |-> n, port |-> p])
  <1> DEFINE mine == {a.port : a \in {b \in ports : b.s = s /\ b.n = n}}
             free == Ports \ {a.port : a \in {b \in ports : b.n = n}}
  <1>1. p \in IF mine # {} THEN mine ELSE {q \in free : \A t \in free : q <= t}
    BY DEF P!PortFor
  <1>2. ports \subseteq Allocation
    BY DEF PlacementInv, PlacementTypes
  <1>3. CASE mine # {}
    <2>1. PICK b \in ports : b.s = s /\ b.n = n /\ b.port = p
      BY <1>1, <1>3
    <2>2. b = [s |-> s, n |-> n, port |-> p] /\ p \in Ports
      BY <1>2, <2>1 DEF Allocation
    <2> QED
      BY <2>1, <2>2 DEF Fits
  <1>4. CASE mine = {}
    <2>1. p \in free
      BY <1>1, <1>4
    <2>2. ASSUME NEW b \in ports, b.n = n PROVE b.s # s /\ b.port # p
      BY <1>4, <2>1, <2>2
    <2> QED
      BY <2>1, <2>2 DEF Fits
  <1> QED
    BY <1>3, <1>4

\* a deployment that is begun, as a record
LEMMA BegunFields ==
    ASSUME NEW u \in DepType, NEW op \in {"deploy", "rollback", "build"}, NEW s \in Services, NEW n \in Nodes, NEW p \in Ports,
           NEW t \in P!Deps \union {0}, NEW image \in BOOLEAN
    PROVE  /\ [u EXCEPT !.st = "placed", !.s = s, !.n = n, !.port = p] \in DepType
           /\ [u EXCEPT !.st = "placed", !.op = op, !.s = s, !.image = image, !.n = n, !.port = p] \in DepType
           /\ [u EXCEPT !.st = "chosen", !.op = op, !.s = s, !.of = t, !.image = image, !.n = n, !.port = p] \in DepType
  <1>1. "placed" \in DepStates /\ "chosen" \in DepStates /\ n \in P!Somewhere
    BY DEF DepStates, P!InTransaction, P!Somewhere
  <1>2. [u EXCEPT !.st = "placed", !.s = s, !.n = n, !.port = p] \in DepType
    BY <1>1 DEF DepType
  <1>3. [u EXCEPT !.st = "placed", !.op = op, !.s = s, !.image = image, !.n = n, !.port = p] \in DepType
    BY <1>1 DEF DepType
  <1>4. [u EXCEPT !.st = "chosen", !.op = op, !.s = s, !.of = t, !.image = image, !.n = n, !.port = p] \in DepType
    BY <1>1 DEF DepType
  <1> QED
    BY <1>2, <1>3, <1>4

LEMMA PlaceMoves ==
    ASSUME PlacementInv, NEW d \in P!Deps, NEW s \in Services, NEW n \in Nodes, P!Place(d, s, n)
    PROVE  PlacementMove /\ HistoryTyped
  <1>1. PICK p \in P!PortFor(s, n) : dep' = [dep EXCEPT ![d] = [P!Unused EXCEPT !.st = "placed", !.s = s, !.n = n, !.port = p]]
    BY DEF P!Place
  <1>2. p \in Ports /\ Fits(ports, [s |-> s, n |-> n, port |-> p])
    BY PortFits
  <1>3. PICK u \in DepType : u = P!Unused /\ u.op = "deploy" /\ u.mounts = {} /\ u.redis = FALSE
    BY UnusedTyped
  <1>4. PICK r \in DepType : r = [u EXCEPT !.st = "placed", !.s = s, !.n = n, !.port = p]
    BY <1>2, BegunFields
  <1>5. r.st = "placed" /\ r.op = "deploy" /\ r.s = s /\ r.n = n /\ r.port = p /\ r.mounts = {} /\ r.redis = FALSE
    <2>1. r.st = "placed" /\ r.s = s /\ r.n = n /\ r.port = p
      BY <1>4 DEF DepType
    <2>2. r.op = u.op /\ r.mounts = u.mounts /\ r.redis = u.redis
      BY <1>4 DEF DepType
    <2> QED
      BY <1>3, <2>1, <2>2
  <1>6. DepInv(r)
    BY <1>5 DEF DepInv
  <1>7. MayUse(r, ports)
    BY <1>2, <1>5 DEF MayUse, Allocated, P!InTransaction, P!Rows, P!Live
  <1>8. \A e \in P!Deps : dep[e].st \in P!InTransaction => dep[e].n # n
    BY DEF P!Place, P!NodeFree
  <1>9. Starts(d, r)
    BY <1>5, <1>7, <1>8 DEF Starts, Apart
  <1>10. UNCHANGED <<ports, target, vol, addon, slipped>> /\ UNCHANGED <<online, made, flips>>
    BY DEF P!Place
  <1>11. Proceeds(d, r)
    BY <1>1, <1>3, <1>4, <1>6, <1>9, <1>10 DEF Proceeds
  <1> QED
    BY <1>10, <1>11, Unmoved DEF PlacementMove

LEMMA PlaceBuildMoves ==
    ASSUME PlacementInv, NEW d \in P!Deps, NEW s \in Services, P!PlaceBuild(d, s)
    PROVE  PlacementMove /\ HistoryTyped
  <1>1. PICK t \in target[s] :
          /\ P!NodeShared(t.n)
          /\ dep' = [dep EXCEPT ![d] = [P!Unused EXCEPT !.st = "placed", !.op = "build", !.s = s, !.image = TRUE,
                                                        !.n = t.n, !.port = t.port]]
    BY DEF P!PlaceBuild
  <1>2. t.n \in Nodes /\ t.port \in Ports /\ [s |-> s, n |-> t.n, port |-> t.port] \in ports
    BY DEF PlacementInv, PlacementTypes, PortsInv
  <1>3. PICK n \in Nodes, p \in Ports : n = t.n /\ p = t.port
    BY <1>2
  <1>4. PICK u \in DepType : u = P!Unused /\ u.mounts = {} /\ u.redis = FALSE
    BY UnusedTyped
  <1>5. PICK r \in DepType : r = [u EXCEPT !.st = "placed", !.op = "build", !.s = s, !.image = TRUE, !.n = n, !.port = p]
    <2>1. "build" \in {"deploy", "rollback", "build"} /\ TRUE \in BOOLEAN /\ 0 \in P!Deps \union {0}
      OBVIOUS
    <2> QED
      BY <2>1, BegunFields
  <1>6. r.st = "placed" /\ r.op = "build" /\ r.s = s /\ r.n = n /\ r.port = p /\ r.mounts = {} /\ r.redis = FALSE
    <2>1. r.st = "placed" /\ r.op = "build" /\ r.s = s /\ r.n = n /\ r.port = p
      BY <1>5 DEF DepType
    <2>2. r.mounts = u.mounts /\ r.redis = u.redis
      BY <1>5 DEF DepType
    <2> QED
      BY <1>4, <2>1, <2>2
  <1>7. DepInv(r)
    BY <1>6 DEF DepInv
  <1>8. MayUse(r, ports)
    BY <1>2, <1>3, <1>6 DEF MayUse, Allocated, P!InTransaction, P!Rows, P!Live
  <1>9. \A e \in P!Deps : dep[e].st \in P!InTransaction /\ dep[e].n = n => dep[e].op = "build"
    BY <1>1, <1>3 DEF P!NodeShared
  <1>10. Starts(d, r)
    BY <1>6, <1>8, <1>9 DEF Starts, Apart
  <1>11. UNCHANGED <<ports, target, vol, addon, slipped>> /\ UNCHANGED <<online, made, flips>>
    BY DEF P!PlaceBuild
  <1>12. Proceeds(d, r)
    BY <1>1, <1>3, <1>4, <1>5, <1>7, <1>10, <1>11 DEF Proceeds
  <1> QED
    BY <1>11, <1>12, Unmoved DEF PlacementMove

LEMMA ChooseRollbackMoves ==
    ASSUME PlacementInv, NEW d \in P!Deps, NEW t \in P!Deps, P!ChooseRollback(d, t)
    PROVE  PlacementMove /\ HistoryTyped
  <1>1. PICK c \in P!LatestReady(dep[t].s) :
          dep' = [dep EXCEPT ![d] = [P!Unused EXCEPT !.st = "chosen", !.op = "rollback", !.s = dep[t].s, !.of = t,
                                     !.image = dep[t].image, !.n = dep[c].n, !.port = dep[c].port]]
    BY DEF P!ChooseRollback
  <1>2. c \in P!Deps /\ dep[c].st = "READY" /\ dep[c].s = dep[t].s
    BY <1>1 DEF P!LatestReady, P!ReadyOf
  <1>3. dep[c] \in DepType /\ DepInv(dep[c]) /\ MayUse(dep[c], ports) /\ dep[t] \in DepType
    BY <1>2, PlacementTyped
  <1>4. dep[c].n \in Nodes /\ Allocated(dep[c]) \in ports
    BY <1>2, <1>3 DEF DepInv, MayUse, P!Rows, P!Live
  <1>5. PICK s \in Services, n \in Nodes, p \in Ports, image \in BOOLEAN : s = dep[t].s /\ n = dep[c].n /\ p = dep[c].port /\ image = dep[t].image
    BY <1>3, <1>4 DEF DepType
  <1>6. PICK u \in DepType : u = P!Unused /\ u.mounts = {} /\ u.redis = FALSE
    BY UnusedTyped
  <1>7. PICK r \in DepType : r = [u EXCEPT !.st = "chosen", !.op = "rollback", !.s = s, !.of = t, !.image = image, !.n = n, !.port = p]
    <2>1. "rollback" \in {"deploy", "rollback", "build"} /\ t \in P!Deps \union {0}
      OBVIOUS
    <2> QED
      BY <2>1, BegunFields
  <1>8. r.st = "chosen" /\ r.op = "rollback" /\ r.s = s /\ r.n = n /\ r.port = p /\ r.mounts = {} /\ r.redis = FALSE /\ r.of = t
    <2>1. r.st = "chosen" /\ r.op = "rollback" /\ r.s = s /\ r.n = n /\ r.port = p /\ r.of = t
      BY <1>7 DEF DepType
    <2>2. r.mounts = u.mounts /\ r.redis = u.redis
      BY <1>7 DEF DepType
    <2> QED
      BY <1>6, <2>1, <2>2
  <1>9. DepInv(r)
    BY <1>8 DEF DepInv, P!Deps
  <1>10. Allocated(r) = Allocated(dep[c])
    BY <1>2, <1>5, <1>8 DEF Allocated
  <1>11. MayUse(r, ports)
    BY <1>4, <1>8, <1>10 DEF MayUse, P!InTransaction
  <1>12. Starts(d, r)
    BY <1>8, <1>11 DEF Starts, Apart, P!InTransaction
  <1>13. UNCHANGED <<ports, target, vol, addon, slipped>> /\ UNCHANGED <<online, made, flips>>
    BY DEF P!ChooseRollback
  <1>14. Proceeds(d, r)
    BY <1>1, <1>5, <1>6, <1>7, <1>9, <1>12, <1>13 DEF Proceeds
  <1> QED
    BY <1>13, <1>14, Unmoved DEF PlacementMove

\* whatever a transaction was at, nothing of it is there when it is over
LEMMA OverMoves ==
    ASSUME PlacementInv, NEW d \in P!Deps, dep' = [dep EXCEPT ![d] = P!Refused],
           UNCHANGED <<ports, target, vol, addon, slipped>>
    PROVE  PlacementMove
  <1>1. PICK r \in DepType : r = P!Refused /\ r.st = "over" /\ r.mounts = {} /\ r.redis = FALSE
    BY RefusedTyped
  <1>2. Proceeds(d, r)
    BY <1>1 DEF Proceeds, DepInv
  <1> QED
    BY <1>2 DEF PlacementMove

\* what happens to a record when only its state, and what it holds, changes
LEMMA StateFields ==
    ASSUME NEW a \in DepType, NEW st \in DepStates
    PROVE  [a EXCEPT !.st = st] \in DepType
BY DEF DepType

LEMMA PlaceRollbackMoves ==
    ASSUME PlacementInv, NEW d \in P!Deps, P!PlaceRollback(d)
    PROVE  PlacementMove /\ HistoryTyped
  <1>0. dep \in [P!Deps -> DepType]
    BY PlacementTyped
  <1>1. PICK a \in DepType : a = dep[d]
    BY <1>0
  <1>2. a.st = "chosen" /\ P!NodeFree(a.n) /\ UNCHANGED <<ports, target, vol, addon, slipped>> /\ UNCHANGED <<online, made, flips>>
    BY <1>1 DEF P!PlaceRollback
  <1>3. dep' = [dep EXCEPT ![d] = [a EXCEPT !.st = "placed"]] \/ dep' = [dep EXCEPT ![d] = P!Refused]
    BY <1>1 DEF P!PlaceRollback
  <1>4. DepInv(a) /\ MayUse(a, ports)
    BY <1>1, PlacementTyped
  <1>5. CASE dep' = [dep EXCEPT ![d] = [a EXCEPT !.st = "placed"]]
    <2>1. "placed" \in DepStates
      BY DEF DepStates, P!InTransaction
    <2>2. PICK r \in DepType : r = [a EXCEPT !.st = "placed"]
      BY <2>1, StateFields
    <2>3. r.st = "placed" /\ r.op = a.op /\ r.s = a.s /\ r.n = a.n /\ r.port = a.port /\ r.mounts = a.mounts
          /\ r.redis = a.redis /\ r.of = a.of
      BY <2>2 DEF DepType
    <2>4. a.op = "rollback" /\ a.n \in Nodes /\ a.mounts = {} /\ ~a.redis /\ a.of # 0
      BY <1>2, <1>4 DEF DepInv, P!Rows, P!Live
    <2>5. DepInv(r)
      BY <2>3, <2>4 DEF DepInv
    <2>6. MayUse(r, ports)
      BY <1>2, <1>4, <2>3, <2>4 DEF MayUse, Allocated, P!InTransaction, P!Rows, P!Live
    <2>7. \A e \in P!Deps : dep[e].st \in P!InTransaction => dep[e].n # a.n
      BY <1>2 DEF P!NodeFree
    <2>8. Starts(d, r)
      BY <2>3, <2>6, <2>7 DEF Starts, Apart
    <2>9. Proceeds(d, r)
      BY <1>2, <1>5, <2>2, <2>5, <2>8 DEF Proceeds
    <2> QED
      BY <1>2, <2>9, Unmoved DEF PlacementMove
  <1>6. CASE dep' = [dep EXCEPT ![d] = P!Refused]
    BY <1>2, <1>6, OverMoves, Unmoved
  <1> QED
    BY <1>3, <1>5, <1>6

LEMMA WritesMove ==
    ASSUME PlacementInv, NEW d \in P!Deps, P!Write(d)
    PROVE  PlacementMove /\ HistoryTyped
  <1>0. dep \in [P!Deps -> DepType]
    BY PlacementTyped
  <1>1. PICK a \in DepType : a = dep[d]
    BY <1>0
  <1>2. PICK held \in SUBSET Volumes, has \in BOOLEAN : held = P!VolumesOf(a.s) /\ has = P!HasAddon
    <2>1. P!VolumesOf(a.s) \in SUBSET Volumes
      BY DEF P!VolumesOf
    <2>2. P!HasAddon \in BOOLEAN
      BY DEF P!HasAddon
    <2> QED
      BY <2>1, <2>2
  <1>3. /\ a.st = "placed" /\ UNCHANGED <<ports, target, vol, addon, slipped>> /\ UNCHANGED <<online, made, flips>>
        /\ \A e \in P!Deps : dep[e].st = "written" => dep[e].holds \intersect held = {}
    BY <1>1, <1>2 DEF P!Write
  <1>4. \/ dep' = [dep EXCEPT ![d] = P!Refused]
        \/ P!Pinned(d) /\ dep' = [dep EXCEPT ![d] = [a EXCEPT !.st = "written", !.holds = held, !.addon = has]]
    BY <1>1, <1>2 DEF P!Write
  <1>5. CASE dep' = [dep EXCEPT ![d] = P!Refused]
    BY <1>3, <1>5, OverMoves, Unmoved
  <1>6. CASE P!Pinned(d) /\ dep' = [dep EXCEPT ![d] = [a EXCEPT !.st = "written", !.holds = held, !.addon = has]]
    <2>1. "written" \in DepStates
      BY DEF DepStates, P!InTransaction
    <2>2. [a EXCEPT !.st = "written", !.holds = held, !.addon = has] \in DepType
      BY <2>1 DEF DepType
    <2>3. PICK r \in DepType : r = [a EXCEPT !.st = "written", !.holds = held, !.addon = has]
      BY <2>2
    <2>4. /\ r.st = "written" /\ r.op = a.op /\ r.s = a.s /\ r.n = a.n /\ r.port = a.port /\ r.holds = held
          /\ r.mounts = a.mounts /\ r.redis = a.redis /\ r.of = a.of
      BY <2>3 DEF DepType
    <2>5. DepInv(a)
      BY <1>1, PlacementTyped
    <2>6. DepInv(r)
      BY <1>3, <2>4, <2>5 DEF DepInv, P!Rows, P!Live
    <2>7. \A v \in held : vol[v].st = "there" /\ vol[v].n \in {NoNode, a.n}
      <3>1. P!BoundNodes(a.s) \subseteq {a.n}
        BY <1>1, <1>6 DEF P!Pinned
      <3> QED
        BY <1>2, <3>1 DEF P!BoundNodes, P!VolumesOf
    <2>8. Writes(d, r)
      BY <1>1, <1>3, <2>4, <2>7 DEF Writes, Allocated
    <2>9. Proceeds(d, r)
      BY <1>3, <1>6, <2>3, <2>6, <2>8 DEF Proceeds
    <2> QED
      BY <1>3, <2>9, Unmoved DEF PlacementMove
  <1> QED
    BY <1>4, <1>5, <1>6

\* what a commit binds
LEMMA BindVolumeFields ==
    ASSUME NEW a \in VolType, NEW n \in Nodes
    PROVE  /\ P!BindVolume(a, n) \in VolType
           /\ a.n # NoNode => P!BindVolume(a, n) = a
           /\ a.n = NoNode => P!BindVolume(a, n).n = n /\ P!BindVolume(a, n).st = a.st
  <1>1. n \in P!Somewhere
    BY DEF P!Somewhere
  <1>2. [a EXCEPT !.n = n] \in VolType /\ [a EXCEPT !.n = n].n = n /\ [a EXCEPT !.n = n].st = a.st
    BY <1>1 DEF VolType
  <1>3. P!BindVolume(a, n) = IF a.n = NoNode THEN [a EXCEPT !.n = n] ELSE a
    BY DEF P!BindVolume
  <1> QED
    BY <1>2, <1>3

LEMMA BindAddonFields ==
    ASSUME NEW a \in AddonType, NEW n \in Nodes
    PROVE  /\ P!BindAddon(a, n) \in AddonType
           /\ a.n # NoNode => P!BindAddon(a, n) = a
           /\ a.n = NoNode => P!BindAddon(a, n).n = n
           /\ P!BindAddon(a, n).st = a.st
  <1>1. n \in P!Somewhere
    BY DEF P!Somewhere
  <1>2. [a EXCEPT !.n = n] \in AddonType /\ [a EXCEPT !.n = n].n = n /\ [a EXCEPT !.n = n].st = a.st
    BY <1>1 DEF AddonType
  <1>3. P!BindAddon(a, n) = IF a.n = NoNode THEN [a EXCEPT !.n = n] ELSE a
    BY DEF P!BindAddon
  <1> QED
    BY <1>2, <1>3

LEMMA CommitMoves ==
    ASSUME PlacementInv, NEW d \in P!Deps, P!Commit(d)
    PROVE  PlacementMove /\ HistoryTyped
  <1>0. dep \in [P!Deps -> DepType] /\ vol \in [Volumes -> VolType] /\ addon \in AddonType
    BY PlacementTyped
  <1>1. PICK a \in DepType : a = dep[d] /\ DepInv(a)
    BY <1>0, PlacementTyped
  <1>2. a.st = "written" /\ a.n \in Nodes /\ a.holds \in SUBSET Volumes /\ a.of \in P!Deps \union {0} /\ ~a.redis
    <2>1. a.st = "written"
      BY <1>1 DEF P!Commit
    <2> QED
      BY <1>1, <2>1 DEF DepInv, DepType, P!Rows, P!Live
  <1>3. PICK m : m = IF a.op = "rollback" THEN dep[a.of].mounts ELSE P!VolumesOf(a.s)
    OBVIOUS
  <1>4. /\ dep' = [dep EXCEPT ![d] = [a EXCEPT !.st = "QUEUED", !.mounts = m, !.holds = {}, !.addon = FALSE]]
        /\ ports' = IF a.op = "deploy" THEN ports \union {Allocated(a)} ELSE ports
        /\ vol' = [v \in Volumes |-> IF v \in a.holds THEN P!BindVolume(vol[v], a.n) ELSE vol[v]]
        /\ addon' = IF a.addon THEN P!BindAddon(addon, a.n) ELSE addon
        /\ slipped' = slipped \union (m \ a.holds)
        /\ UNCHANGED <<online, target, made, flips>>
    BY <1>1, <1>3 DEF P!Commit, P!Allocated, Allocated
  <1>5. m \in SUBSET Volumes /\ \A v \in m : vol[v].st = "there"
    <2>1. CASE a.op = "rollback" /\ a.of \in P!Deps
      <3>1. dep[a.of] \in DepType
        BY <1>0, <2>1
      <3>2. m = dep[a.of].mounts /\ m \in SUBSET Volumes
        BY <1>3, <2>1, <3>1 DEF DepType
      <3> QED
        BY <2>1, <3>2 DEF PlacementInv, MountsInv
    <2>2. CASE a.op # "rollback"
      BY <1>3, <2>2 DEF P!VolumesOf
    <2>3. a.op = "rollback" => a.of \in P!Deps
      BY <1>1, <1>2 DEF DepInv
    <2> QED
      BY <2>1, <2>2, <2>3
  <1>6. "QUEUED" \in DepStates
    BY DEF DepStates, P!Rows, P!Live
  <1>7. [a EXCEPT !.st = "QUEUED", !.mounts = m, !.holds = {}, !.addon = FALSE] \in DepType
    BY <1>5, <1>6 DEF DepType
  <1>8. PICK r \in DepType : r = [a EXCEPT !.st = "QUEUED", !.mounts = m, !.holds = {}, !.addon = FALSE]
    BY <1>7
  <1>9. r.st = "QUEUED" /\ r.mounts = m /\ r.s = a.s /\ r.n = a.n /\ r.port = a.port /\ r.redis = a.redis
    BY <1>8 DEF DepType
  <1>10. DepInv(r)
    BY <1>2, <1>9 DEF DepInv, P!Rows, P!Live
  <1>11. \A v \in Volumes : /\ vol'[v] \in VolType
                            /\ IF v \in a.holds /\ vol[v].n = NoNode
                               THEN vol'[v].n = r.n /\ vol'[v].st = vol[v].st ELSE vol'[v] = vol[v]
    BY <1>0, <1>2, <1>4, <1>9, BindVolumeFields
  <1>12. vol' \in [Volumes -> VolType]
    BY <1>4, <1>11
  <1>13. addon' \in AddonType /\ AddonKept
    BY <1>0, <1>2, <1>4, BindAddonFields DEF AddonKept, P!HasAddon
  <1>14. Allocated(r) = Allocated(a)
    BY <1>9 DEF Allocated
  <1>15. Commits(d, r)
    BY <1>1, <1>2, <1>4, <1>5, <1>8, <1>9, <1>10, <1>11, <1>12, <1>13, <1>14 DEF Commits
  <1> QED
    BY <1>4, <1>15, Unmoved DEF PlacementMove

LEMMA AbortMoves ==
    ASSUME PlacementInv, NEW d \in P!Deps, P!Abort(d)
    PROVE  PlacementMove /\ HistoryTyped
BY OverMoves, Unmoved DEF P!Abort

\* a row that goes on, as a record
LEMMA RowFieldsStay ==
    ASSUME NEW a \in DepType, NEW st \in P!Rows, NEW seen \in P!Somewhere, NEW redis \in BOOLEAN
    PROVE  /\ [a EXCEPT !.st = st] \in DepType
           /\ [a EXCEPT !.st = st, !.seen = seen] \in DepType
           /\ [a EXCEPT !.st = st, !.redis = redis] \in DepType
  <1>1. st \in DepStates
    BY DEF DepStates
  <1>2. [a EXCEPT !.st = st] \in DepType
    BY <1>1 DEF DepType
  <1>3. [a EXCEPT !.st = st, !.seen = seen] \in DepType
    BY <1>1 DEF DepType
  <1>4. [a EXCEPT !.st = st, !.redis = redis] \in DepType
    BY <1>1 DEF DepType
  <1> QED
    BY <1>2, <1>3, <1>4

\* one row goes on
LEMMA RowProgresses ==
    ASSUME PlacementInv, NEW d \in P!Deps, NEW r \in DepType, dep' = [dep EXCEPT ![d] = r], RowMoves(dep[d], r),
           addon' \in AddonType, AddonKept, UNCHANGED <<ports, target, vol, slipped>>
    PROVE  PlacementMove
  <1>1. dep' \in [P!Deps -> DepType] /\ dep'[d] = r /\ \A e \in P!Deps \ {d} : dep'[e] = dep[e]
    BY PlacementTyped
  <1>2. \A e \in P!Deps : RowMoves(dep[e], dep'[e])
    BY <1>1 DEF RowMoves
  <1> QED
    BY <1>1, <1>2 DEF PlacementMove, Progresses

LEMMA AddonRests ==
    ASSUME PlacementInv, addon' = addon
    PROVE  addon' \in AddonType /\ AddonKept
BY PlacementTyped DEF AddonKept, P!HasAddon

LEMMA AskDispatchMoves ==
    ASSUME PlacementInv, NEW d \in P!Deps, P!AskDispatch(d)
    PROVE  PlacementMove /\ HistoryTyped
  <1>0. dep \in [P!Deps -> DepType] /\ addon \in AddonType
    BY PlacementTyped
  <1>1. PICK a \in DepType : a = dep[d]
    BY <1>0
  <1>2. PICK st \in {"asked", "sent"} : st = IF P!HasAddon THEN "asked" ELSE "sent"
    OBVIOUS
  <1>3. a.st = "QUEUED" /\ dep' = [dep EXCEPT ![d] = [a EXCEPT !.st = st, !.seen = addon.n]]
        /\ UNCHANGED <<ports, target, vol, addon, slipped>> /\ UNCHANGED <<online, made, flips>>
    BY <1>1, <1>2 DEF P!AskDispatch
  <1>4. PICK seen \in P!Somewhere : seen = addon.n
    BY <1>0 DEF AddonType
  <1>5. st \in P!Rows /\ a.st \in P!Rows
    BY <1>3 DEF P!Rows, P!Live
  <1>6. PICK r \in DepType : r = [a EXCEPT !.st = st, !.seen = seen]
    <2>1. TRUE \in BOOLEAN
      OBVIOUS
    <2> QED
      BY <1>5, <2>1, RowFieldsStay
  <1>7. r.st = st /\ r.s = a.s /\ r.n = a.n /\ r.port = a.port /\ r.mounts = a.mounts /\ r.redis = a.redis
    BY <1>6 DEF DepType
  <1>8. RowMoves(a, r)
    BY <1>2, <1>5, <1>7 DEF RowMoves, Allocated
  <1>9. PlacementMove
    BY <1>1, <1>3, <1>4, <1>6, <1>8, AddonRests, RowProgresses
  <1> QED
    BY <1>3, <1>9, Unmoved

LEMMA DispatchMoves ==
    ASSUME PlacementInv, NEW d \in P!Deps, P!Dispatch(d)
    PROVE  PlacementMove /\ HistoryTyped
  <1>0. dep \in [P!Deps -> DepType] /\ addon \in AddonType
    BY PlacementTyped
  <1>1. PICK a \in DepType : a = dep[d] /\ DepInv(a)
    BY <1>0, PlacementTyped
  <1>2. a.st = "asked" /\ addon' = P!BoundAtDispatch(d) /\ UNCHANGED <<ports, target, vol, slipped>> /\ UNCHANGED <<online, made, flips>>
    BY <1>1 DEF P!Dispatch
  <1>3. PICK good \in BOOLEAN : good = P!MaySend(d, P!BoundAtDispatch(d))
    BY DEF P!MaySend
  <1>4. PICK st \in {"sent", "QUEUED"} : st = IF good THEN "sent" ELSE "QUEUED"
    OBVIOUS
  <1>5. dep' = [dep EXCEPT ![d] = [a EXCEPT !.st = st, !.redis = good]]
    BY <1>1, <1>3, <1>4 DEF P!Dispatch
  <1>6. st \in P!Rows /\ a.st \in P!Rows
    BY <1>2 DEF P!Rows, P!Live
  <1>7. a.n \in Nodes /\ P!HasAddon
    BY <1>1, <1>2 DEF DepInv, PlacementInv, AddonInv
  <1>8. addon' \in AddonType /\ AddonKept /\ P!HasAddon'
    <2>1. CASE addon' = addon
      BY <1>7, <2>1, AddonRests DEF P!HasAddon
    <2>2. CASE addon' = P!BindAddon(addon, a.n)
      BY <1>0, <1>7, <2>2, BindAddonFields DEF AddonKept, P!HasAddon
    <2> QED
      BY <1>1, <1>2, <2>1, <2>2 DEF P!BoundAtDispatch
  <1>9. good => addon'.n = a.n
    BY <1>1, <1>2, <1>3 DEF P!MaySend
  <1>10. PICK r \in DepType : r = [a EXCEPT !.st = st, !.redis = good]
    <2>1. NoNode \in P!Somewhere
      BY DEF P!Somewhere
    <2> QED
      BY <1>6, <2>1, RowFieldsStay
  <1>11. r.st = st /\ r.s = a.s /\ r.n = a.n /\ r.port = a.port /\ r.mounts = a.mounts /\ r.redis = good
    BY <1>10 DEF DepType
  <1>12. RowMoves(a, r)
    BY <1>4, <1>6, <1>7, <1>9, <1>11 DEF RowMoves, Allocated
  <1>13. PlacementMove
    BY <1>1, <1>2, <1>5, <1>8, <1>10, <1>12, RowProgresses
  <1> QED
    BY <1>2, <1>13, Unmoved

LEMMA RunMoves ==
    ASSUME PlacementInv, NEW d \in P!Deps, P!Run(d) \/ P!Fail(d)
    PROVE  PlacementMove /\ HistoryTyped
  <1>0. dep \in [P!Deps -> DepType] /\ PlacementTypes
    BY PlacementTyped
  <1>1. PICK a \in DepType : a = dep[d] /\ DepInv(a)
    BY <1>0, PlacementTyped
  <1>2. PICK st \in {"running", "FAILED"} : dep' = [dep EXCEPT ![d] = [a EXCEPT !.st = st]]
    BY <1>1 DEF P!Run, P!Fail
  <1>3. UNCHANGED <<ports, target, vol, addon, slipped>> /\ UNCHANGED <<online, flips>>
    BY DEF P!Run, P!Fail
  <1>4. a.st \in P!Rows /\ st \in P!Rows /\ a.n \in Nodes
    <2>1. a.st \in P!Rows
      BY <1>1 DEF P!Run, P!Fail, P!Rows, P!Live
    <2> QED
      BY <1>1, <2>1 DEF DepInv, P!Rows, P!Live
  <1>5. made' \subseteq Nodes
    BY <1>0, <1>1, <1>4 DEF P!Run, P!Fail, PlacementTypes
  <1>6. PICK r \in DepType : r = [a EXCEPT !.st = st]
    <2>1. NoNode \in P!Somewhere /\ TRUE \in BOOLEAN
      BY DEF P!Somewhere
    <2> QED
      BY <1>4, <2>1, RowFieldsStay
  <1>7. r.st = st /\ r.s = a.s /\ r.n = a.n /\ r.port = a.port /\ r.mounts = a.mounts /\ r.redis = a.redis
    BY <1>6 DEF DepType
  <1>8. RowMoves(a, r)
    BY <1>2, <1>4, <1>7 DEF RowMoves, Allocated
  <1>9. PlacementMove
    BY <1>1, <1>2, <1>3, <1>6, <1>8, AddonRests, RowProgresses
  <1> QED
    BY <1>0, <1>3, <1>5, <1>9 DEF PlacementTypes, HistoryTyped

LEMMA ReadyMoves ==
    ASSUME PlacementInv, NEW d \in P!Deps, P!Ready(d)
    PROVE  PlacementMove /\ HistoryTyped
  <1>0. dep \in [P!Deps -> DepType] /\ addon \in AddonType
    BY PlacementTyped
  <1>1. /\ dep[d].st = "running"
        /\ dep' = [e \in P!Deps |-> IF e = d THEN [dep[d] EXCEPT !.st = "READY"]
                                    ELSE IF e \in P!ReadyOf(dep[d].s) THEN [dep[e] EXCEPT !.st = "ROLLED_BACK"] ELSE dep[e]]
        /\ addon' = IF P!HasAddon /\ addon.n = dep[d].n THEN [addon EXCEPT !.st = "READY"] ELSE addon
        /\ UNCHANGED <<ports, target, vol, slipped>> /\ UNCHANGED <<online, made, flips>>
    BY DEF P!Ready
  <1>2. ASSUME NEW e \in P!Deps, NEW st \in {"READY", "ROLLED_BACK"}, dep'[e] = [dep[e] EXCEPT !.st = st], dep[e].st \in P!Rows
        PROVE  dep'[e] \in DepType /\ RowMoves(dep[e], dep'[e])
    <2>1. PICK a \in DepType : a = dep[e]
      BY <1>0
    <2>2. st \in P!Rows /\ NoNode \in P!Somewhere /\ TRUE \in BOOLEAN
      BY DEF P!Rows, P!Somewhere
    <2>3. PICK r \in DepType : r = [a EXCEPT !.st = st]
      BY <2>2, RowFieldsStay
    <2>4. r.st = st /\ r.s = a.s /\ r.n = a.n /\ r.port = a.port /\ r.mounts = a.mounts /\ r.redis = a.redis
      BY <2>3 DEF DepType
    <2>5. RowMoves(a, r)
      BY <1>2, <2>1, <2>2, <2>4 DEF RowMoves, Allocated
    <2> QED
      BY <1>2, <2>1, <2>3, <2>5
  <1>3. ASSUME NEW e \in P!Deps
        PROVE  dep'[e] \in DepType /\ RowMoves(dep[e], dep'[e])
    <2>1. CASE e = d
      <3>1. dep'[e] = [dep[e] EXCEPT !.st = "READY"] /\ dep[e].st \in P!Rows
        BY <1>1, <2>1 DEF P!Rows, P!Live
      <3> QED
        BY <1>2, <3>1
    <2>2. CASE e # d /\ e \in P!ReadyOf(dep[d].s)
      <3>1. dep'[e] = [dep[e] EXCEPT !.st = "ROLLED_BACK"] /\ dep[e].st \in P!Rows
        BY <1>1, <2>2 DEF P!ReadyOf, P!Rows
      <3> QED
        BY <1>2, <3>1
    <2>3. CASE e # d /\ e \notin P!ReadyOf(dep[d].s)
      BY <1>0, <1>1, <2>3 DEF RowMoves
    <2> QED
      BY <2>1, <2>2, <2>3
  <1>4. dep' \in [P!Deps -> DepType]
    BY <1>1, <1>3
  <1>5. addon' \in AddonType /\ AddonKept
    <2>1. [addon EXCEPT !.st = "READY"] \in AddonType
      BY <1>0 DEF AddonType
    <2>2. [addon EXCEPT !.st = "READY"].st = "READY" /\ [addon EXCEPT !.st = "READY"].n = addon.n
      BY <1>0 DEF AddonType
    <2> QED
      BY <1>0, <1>1, <2>1, <2>2 DEF AddonKept, P!HasAddon
  <1> QED
    BY <1>1, <1>3, <1>4, <1>5, Unmoved DEF PlacementMove, Progresses

LEMMA ConfigureMoves ==
    ASSUME PlacementInv, NEW s \in Services, NEW n \in Nodes, P!Configure(s, n)
    PROVE  PlacementMove /\ HistoryTyped
  <1>1. PICK p \in P!PortFor(s, n) : /\ ports' = ports \union {[s |-> s, n |-> n, port |-> p]}
                                     /\ target' = [target EXCEPT ![s] = {[n |-> n, port |-> p]}]
    BY DEF P!Configure, P!Allocated
  <1>2. PICK a \in Allocation : a = [s |-> s, n |-> n, port |-> p] /\ a.s = s /\ a.n = n /\ a.port = p /\ Fits(ports, a)
    BY PortFits DEF Allocation
  <1>3. \A e \in P!Deps : dep[e].st \in P!InTransaction => dep[e].n # a.n
    BY <1>2 DEF P!Configure, P!NodeFree
  <1>4. UNCHANGED <<dep, vol, addon, slipped>> /\ UNCHANGED <<online, made, flips>>
    BY DEF P!Configure
  <1>5. Configures
    BY <1>1, <1>2, <1>3, <1>4 DEF Configures
  <1> QED
    BY <1>4, <1>5, Unmoved DEF PlacementMove

\* one volume that is not there yet changes
LEMMA VolumeCreates ==
    ASSUME PlacementInv, NEW v \in Volumes, NEW a \in VolType, vol' = [vol EXCEPT ![v] = a], vol[v].st # "there",
           UNCHANGED <<dep, ports, target, addon, slipped>>
    PROVE  PlacementMove
  <1>1. vol' \in [Volumes -> VolType] /\ \A w \in Volumes : vol[w].st = "there" => vol'[w] = vol[w]
    BY PlacementTyped
  <1>2. addon' \in AddonType /\ AddonKept
    BY AddonRests
  <1> QED
    BY <1>1, <1>2 DEF PlacementMove, Creates, VolumesStay

LEMMA CountVolumesMoves ==
    ASSUME PlacementInv, NEW v \in Volumes, NEW s \in Services, P!CountVolumes(v, s)
    PROVE  PlacementMove /\ HistoryTyped
  <1>1. PICK n : /\ n \in IF P!BoundNodes(s) = {} THEN {NoNode} ELSE P!BoundNodes(s)
                 /\ vol' = [vol EXCEPT ![v] = [st |-> "counted", s |-> s, n |-> n, share |-> 0]]
    BY DEF P!CountVolumes
  <1>2. P!BoundNodes(s) \subseteq P!Somewhere
    <2>1. \A w \in Volumes : vol[w].n \in P!Somewhere
      BY PlacementTyped DEF VolType
    <2> QED
      BY <2>1 DEF P!BoundNodes, P!VolumesOf
  <1>3. n \in P!Somewhere
    BY <1>1, <1>2 DEF P!Somewhere
  <1>4. [st |-> "counted", s |-> s, n |-> n, share |-> 0] \in VolType
    BY <1>3 DEF VolType
  <1>5. vol[v].st # "there" /\ UNCHANGED <<dep, ports, target, addon, slipped>> /\ UNCHANGED <<online, made, flips>>
    BY DEF P!CountVolumes
  <1> QED
    BY <1>1, <1>4, <1>5, VolumeCreates, Unmoved

LEMMA ChooseVolumeNodeMoves ==
    ASSUME PlacementInv, NEW v \in Volumes, P!ChooseVolumeNode(v)
    PROVE  PlacementMove /\ HistoryTyped
  <1>0. vol \in [Volumes -> VolType] /\ dep \in [P!Deps -> DepType]
    BY PlacementTyped
  <1>1. PICK a \in VolType : a = vol[v]
    BY <1>0
  <1>2. PICK current \in SUBSET P!Deps : current = P!LatestReady(a.s)
    BY DEF P!LatestReady, P!ReadyOf
  <1>3. PICK c \in P!Deps \union {0} : c = IF current = {} THEN 0 ELSE CHOOSE d \in current : TRUE
    BY <1>2
  <1>4. PICK n \in P!Somewhere : n = IF current = {} THEN NoNode ELSE dep[CHOOSE d \in current : TRUE].n
    <2>1. CASE current = {}
      BY <2>1 DEF P!Somewhere
    <2>2. CASE current # {}
      <3>1. (CHOOSE d \in current : TRUE) \in P!Deps
        BY <1>2, <2>2
      <3> QED
        BY <1>0, <2>2, <3>1 DEF DepType
    <2> QED
      BY <2>1, <2>2
  <1>5. PICK m \in P!Somewhere : m = IF a.n = NoNode THEN n ELSE a.n
    BY DEF VolType
  <1>6. \/ vol' = [vol EXCEPT ![v] = [a EXCEPT !.st = "none", !.n = NoNode]]
        \/ vol' = [vol EXCEPT ![v] = [a EXCEPT !.st = "chosen", !.n = m, !.share = c]]
    <2> DEFINE late == P!LatestReady(vol[v].s)
               at == IF late = {} THEN NoNode ELSE dep[CHOOSE d \in late : TRUE].n
               where == IF vol[v].n = NoNode THEN at ELSE vol[v].n
               by == IF late = {} THEN 0 ELSE CHOOSE d \in late : TRUE
    <2>0. vol' = [vol EXCEPT ![v] = IF NoNode \notin {vol[v].n, at} /\ vol[v].n # at
                                    THEN [vol[v] EXCEPT !.st = "none", !.n = NoNode]
                                    ELSE [vol[v] EXCEPT !.st = "chosen", !.n = where, !.share = by]]
      BY DEF P!ChooseVolumeNode
    <2>1. \/ vol' = [vol EXCEPT ![v] = [vol[v] EXCEPT !.st = "none", !.n = NoNode]]
          \/ vol' = [vol EXCEPT ![v] = [vol[v] EXCEPT !.st = "chosen", !.n = where, !.share = by]]
      <3> HIDE DEF at, where, by
      <3> QED
        BY <2>0
    <2>2. late = current
      BY <1>1, <1>2
    <2> HIDE DEF late
    <2>3. at = n /\ by = c
      BY <1>3, <1>4, <2>2
    <2> HIDE DEF at, by
    <2>4. where = m
      BY <1>1, <1>5, <2>3
    <2> HIDE DEF where
    <2> QED
      BY <1>1, <2>1, <2>3, <2>4
  <1>7. [a EXCEPT !.st = "none", !.n = NoNode] \in VolType
    BY DEF VolType, P!Somewhere
  <1>8. [a EXCEPT !.st = "chosen", !.n = m, !.share = c] \in VolType
    BY DEF VolType
  <1>9. vol[v].st # "there" /\ UNCHANGED <<dep, ports, target, addon, slipped>> /\ UNCHANGED <<online, made, flips>>
    BY DEF P!ChooseVolumeNode
  <1> QED
    BY <1>6, <1>7, <1>8, <1>9, VolumeCreates, Unmoved

LEMMA CommitVolumeMoves ==
    ASSUME PlacementInv, NEW v \in Volumes, P!CommitVolume(v)
    PROVE  PlacementMove /\ HistoryTyped
  <1>1. PICK a \in VolType : a = vol[v]
    BY PlacementTyped
  <1>2. vol' = [vol EXCEPT ![v] = [a EXCEPT !.st = "there", !.share = 0]] /\ vol[v].st # "there"
        /\ UNCHANGED <<dep, ports, target, addon, slipped>> /\ UNCHANGED <<online, made, flips>>
    BY <1>1 DEF P!CommitVolume
  <1>3. [a EXCEPT !.st = "there", !.share = 0] \in VolType
    BY DEF VolType
  <1> QED
    BY <1>2, <1>3, VolumeCreates, Unmoved

LEMMA CreateAddonMoves ==
    ASSUME PlacementInv, P!AskAddon \/ P!CommitAddon
    PROVE  PlacementMove /\ HistoryTyped
  <1>1. ~P!HasAddon /\ UNCHANGED <<dep, ports, target, vol, slipped>> /\ UNCHANGED <<online, made, flips>>
    BY DEF P!AskAddon, P!CommitAddon, P!HasAddon
  <1>2. addon' \in AddonType
    <2>1. CASE P!AskAddon
      <3>1. PICK n : /\ n \in {NoNode} \union {dep[d].n : d \in {e \in P!Deps : dep[e].st = "READY"}}
                     /\ addon' = [st |-> "asked", n |-> n]
        BY <2>1 DEF P!AskAddon
      <3>2. \A d \in P!Deps : dep[d].n \in P!Somewhere
        BY PlacementTyped DEF DepType
      <3>3. n \in P!Somewhere
        BY <3>1, <3>2 DEF P!Somewhere
      <3> QED
        BY <3>1, <3>3 DEF AddonType
    <2>2. CASE P!CommitAddon
      <3>1. addon \in AddonType /\ addon' = [addon EXCEPT !.st = "CONFIGURED"]
        BY <2>2, PlacementTyped DEF P!CommitAddon
      <3>2. [addon EXCEPT !.st = "CONFIGURED"] \in AddonType
        BY <3>1 DEF AddonType
      <3> QED
        BY <3>1, <3>2
    <2> QED
      BY <2>1, <2>2
  <1>3. vol' \in [Volumes -> VolType] /\ VolumesStay
    BY <1>1, PlacementTyped DEF VolumesStay
  <1> QED
    BY <1>1, <1>2, <1>3, Unmoved DEF PlacementMove, Creates, AddonKept

LEMMA NodeFlipsMoves ==
    ASSUME PlacementInv, NEW n \in Nodes, P!NodeFlips(n)
    PROVE  PlacementMove /\ HistoryTyped
  <1>1. /\ flips < MaxFlips /\ flips' = flips + 1 /\ made' = made
        /\ online' = IF n \in online THEN online \ {n} ELSE online \union {n}
        /\ UNCHANGED <<dep, vol, addon, slipped, ports, target>>
    BY DEF P!NodeFlips
  <1>2. flips' \in 0..MaxFlips
    <2>1. flips \in 0..MaxFlips /\ MaxFlips \in Nat
      BY PlacementConstantsKnown DEF PlacementInv, PlacementTypes
    <2> QED
      BY <1>1, <2>1
  <1>3. online' \subseteq Nodes /\ made' \subseteq Nodes
    BY <1>1 DEF PlacementInv, PlacementTypes
  <1> QED
    BY <1>1, <1>2, <1>3 DEF PlacementMove, Configures, HistoryTyped

LEMMA PlacementMoves ==
    ASSUME PlacementInv, P!Next
    PROVE  PlacementMove /\ HistoryTyped
  <1>1. ASSUME NEW d \in P!Deps, P!Insertion(d)
        PROVE  PlacementMove /\ HistoryTyped
    BY <1>1, PlaceBuildMoves, PlaceMoves, ChooseRollbackMoves, PlaceRollbackMoves, WritesMove, CommitMoves, AbortMoves
    DEF P!Insertion
  <1>2. ASSUME NEW d \in P!Deps, P!Progress(d)
        PROVE  PlacementMove /\ HistoryTyped
    BY <1>2, AskDispatchMoves, DispatchMoves, RunMoves, ReadyMoves DEF P!Progress
  <1>3. ASSUME NEW v \in Volumes, P!Volume(v)
        PROVE  PlacementMove /\ HistoryTyped
    BY <1>3, CountVolumesMoves, ChooseVolumeNodeMoves, CommitVolumeMoves DEF P!Volume
  <1> QED
    BY <1>1, <1>2, <1>3, ConfigureMoves, CreateAddonMoves, NodeFlipsMoves DEF P!Next

-----------------------------------------------------------------------------
(* What a move leaves as it was *)

LEMMA TypesStay ==
    ASSUME PlacementInv, PlacementMove, HistoryTyped
    PROVE  PlacementTypes'
  <1>0. PlacementTypes
    BY DEF PlacementInv
  <1>1. CASE Configures
    <2>1. ports' \subseteq Allocation
      BY <1>0, <1>1 DEF Configures, PlacementTypes
    <2>2. target' \in [Services -> SUBSET [n : Nodes, port : Ports]]
      <3>1. CASE target' = target
        BY <1>0, <3>1 DEF PlacementTypes
      <3>2. ASSUME NEW a \in Allocation, target' = [target EXCEPT ![a.s] = {[n |-> a.n, port |-> a.port]}]
            PROVE  target' \in [Services -> SUBSET [n : Nodes, port : Ports]]
        <4>1. a.s \in Services /\ {[n |-> a.n, port |-> a.port]} \in SUBSET [n : Nodes, port : Ports]
          BY DEF Allocation
        <4> QED
          BY <1>0, <3>2, <4>1 DEF PlacementTypes
      <3> QED
        BY <1>1, <3>1, <3>2 DEF Configures
    <2> QED
      BY <1>0, <1>1, <2>1, <2>2 DEF Configures, PlacementTypes, HistoryTyped
  <1>2. CASE Creates \/ Progresses
    BY <1>0, <1>2 DEF Creates, Progresses, PlacementTypes, HistoryTyped
  <1>3. ASSUME NEW d \in P!Deps, NEW r \in DepType, Proceeds(d, r)
        PROVE  PlacementTypes'
    BY <1>0, <1>3 DEF Proceeds, PlacementTypes, HistoryTyped
  <1>4. ASSUME NEW d \in P!Deps, NEW r \in DepType, Commits(d, r)
        PROVE  PlacementTypes'
    <2>1. r.n \in Nodes
      BY <1>4 DEF Commits, DepInv
    <2>2. Allocated(r) \in Allocation /\ r.mounts \subseteq Volumes
      BY <2>1 DEF Allocated, Allocation, DepType
    <2>3. ports' \subseteq Allocation /\ slipped' \subseteq Volumes
      BY <1>0, <1>4, <2>2 DEF Commits, PlacementTypes
    <2>4. dep' \in [P!Deps -> DepType]
      BY <1>0, <1>4 DEF Commits, PlacementTypes
    <2> QED
      BY <1>0, <1>4, <2>3, <2>4 DEF Commits, PlacementTypes, HistoryTyped
  <1> QED
    BY <1>1, <1>2, <1>3, <1>4 DEF PlacementMove

LEMMA DepsStay ==
    ASSUME PlacementInv, PlacementMove
    PROVE  \A d \in P!Deps : DepInv(dep'[d])
  <1>0. dep \in [P!Deps -> DepType] /\ \A d \in P!Deps : DepInv(dep[d])
    BY PlacementTyped
  <1>1. CASE Configures \/ Creates
    BY <1>0, <1>1 DEF Configures, Creates
  <1>2. CASE Progresses
    <2>1. ASSUME NEW d \in P!Deps PROVE DepInv(dep'[d])
      <3>1. RowMoves(dep[d], dep'[d]) /\ DepInv(dep[d])
        BY <1>0, <1>2 DEF Progresses
      <3>2. CASE dep'[d] = dep[d]
        BY <3>1, <3>2
      <3>3. CASE dep[d].st \in P!Rows /\ dep'[d].st \in P!Rows /\ Allocated(dep'[d]) = Allocated(dep[d])
        <4>1. dep[d].n \in Nodes /\ dep'[d].n = dep[d].n
          BY <3>1, <3>3 DEF DepInv, Allocated, P!Rows, P!Live
        <4> QED
          BY <3>3, <4>1 DEF DepInv, P!Rows, P!Live
      <3> QED
        BY <3>1, <3>2, <3>3 DEF RowMoves
    <2> QED
      BY <2>1
  <1>3. ASSUME NEW d \in P!Deps, NEW r \in DepType, dep' = [dep EXCEPT ![d] = r], DepInv(r)
        PROVE  \A e \in P!Deps : DepInv(dep'[e])
    BY <1>0, <1>3
  <1> QED
    BY <1>1, <1>2, <1>3 DEF PlacementMove, Proceeds, Commits

-----------------------------------------------------------------------------
(* Ports *)

LEMMA OneMore ==
    ASSUME NEW rows, NEW a, OneEach(rows), Fits(rows, a)
    PROVE  OneEach(rows \union {a})
BY DEF OneEach, Fits

\* a row more is in the way of no transaction but a deployment to its node
LEMMA StillMayUse ==
    ASSUME NEW r, NEW rows, NEW a, MayUse(r, rows), r.st \in P!InTransaction /\ r.op = "deploy" => r.n # a.n
    PROVE  MayUse(r, rows \union {a})
BY DEF MayUse, Fits, Allocated

LEMMA PortsStay ==
    ASSUME PlacementInv, PlacementMove
    PROVE  PortsInv'
  <1>0. PortsInv /\ dep \in [P!Deps -> DepType] /\ target \in [Services -> SUBSET [n : Nodes, port : Ports]]
    BY DEF PlacementInv, PlacementTypes
  <1>1. CASE Configures
    <2>1. CASE UNCHANGED <<ports, target>>
      BY <1>0, <1>1, <2>1 DEF Configures, PortsInv
    <2>2. ASSUME NEW a \in Allocation, ports' = ports \union {a}, Fits(ports, a),
                 target' = [target EXCEPT ![a.s] = {[n |-> a.n, port |-> a.port]}],
                 \A e \in P!Deps : dep[e].st \in P!InTransaction => dep[e].n # a.n
          PROVE  PortsInv'
      <3>1. OneEach(ports')
        BY <1>0, <2>2, OneMore DEF PortsInv
      <3>2. ASSUME NEW s \in Services, NEW t \in target'[s] PROVE [s |-> s, n |-> t.n, port |-> t.port] \in ports'
        <4>1. CASE s = a.s
          <5>1. t = [n |-> a.n, port |-> a.port]
            BY <1>0, <2>2, <3>2, <4>1
          <5>2. [s |-> s, n |-> t.n, port |-> t.port] = a
            BY <4>1, <5>1 DEF Allocation
          <5> QED
            BY <2>2, <5>2
        <4>2. CASE s # a.s
          BY <1>0, <2>2, <3>2, <4>2 DEF PortsInv
        <4> QED
          BY <4>1, <4>2
      <3>3. \A d \in P!Deps : MayUse(dep'[d], ports')
        BY <1>0, <1>1, <2>2, StillMayUse DEF Configures, PortsInv
      <3>4. \A d, e \in P!Deps : d # e => Apart(dep'[d], dep'[e])
        BY <1>0, <1>1 DEF Configures, PortsInv
      <3> QED
        BY <3>1, <3>2, <3>3, <3>4 DEF PortsInv
    <2> QED
      BY <1>1, <2>1, <2>2 DEF Configures
  <1>2. CASE Creates
    BY <1>0, <1>2 DEF Creates, PortsInv
  <1>3. CASE Progresses
    <2>1. ASSUME NEW d \in P!Deps
          PROVE  dep'[d] = dep[d] \/ (/\ dep'[d].st \in P!Rows /\ Allocated(dep'[d]) \in ports)
      BY <1>0, <1>3 DEF Progresses, RowMoves, PortsInv, MayUse
    <2>2. \A d \in P!Deps : MayUse(dep'[d], ports)
      BY <1>0, <2>1 DEF MayUse, PortsInv, P!InTransaction, P!Rows, P!Live
    <2>3. \A d, e \in P!Deps : d # e => Apart(dep'[d], dep'[e])
      BY <1>0, <2>1 DEF Apart, PortsInv, P!InTransaction, P!Rows, P!Live
    <2> QED
      BY <1>0, <1>3, <2>2, <2>3 DEF Progresses, PortsInv
  <1>4. ASSUME NEW d \in P!Deps, NEW r \in DepType, Proceeds(d, r)
        PROVE  PortsInv'
    <2>1. dep'[d] = r /\ (\A e \in P!Deps \ {d} : dep'[e] = dep[e]) /\ UNCHANGED <<ports, target>>
      BY <1>0, <1>4 DEF Proceeds
    <2>2. MayUse(r, ports) /\ \A e \in P!Deps \ {d} : Apart(dep[e], r) /\ Apart(r, dep[e])
      <3>1. CASE Starts(d, r)
        BY <3>1 DEF Starts
      <3>2. CASE Writes(d, r)
        <4>1. MayUse(dep[d], ports) /\ \A e \in P!Deps \ {d} : Apart(dep[e], dep[d]) /\ Apart(dep[d], dep[e])
          BY <1>0 DEF PortsInv
        <4>2. dep[d].st = "placed" /\ r.st = "written" /\ r.op = dep[d].op /\ r.n = dep[d].n /\ Allocated(r) = Allocated(dep[d])
          BY <3>2 DEF Writes, Allocated
        <4>3. MayUse(r, ports)
          BY <4>1, <4>2 DEF MayUse, P!InTransaction, P!Rows, P!Live
        <4>4. \A e \in P!Deps \ {d} : Apart(dep[e], r) /\ Apart(r, dep[e])
          BY <4>1, <4>2 DEF Apart, P!InTransaction
        <4> QED
          BY <4>3, <4>4
      <3>3. CASE r.st = "over"
        BY <3>3 DEF MayUse, Apart, P!InTransaction, P!Rows, P!Live
      <3> QED
        BY <1>4, <3>1, <3>2, <3>3 DEF Proceeds
    <2>3. \A e \in P!Deps : MayUse(dep'[e], ports)
      BY <1>0, <2>1, <2>2 DEF PortsInv
    <2>4. \A e, f \in P!Deps : e # f => Apart(dep'[e], dep'[f])
      BY <1>0, <2>1, <2>2 DEF PortsInv
    <2> QED
      BY <1>0, <2>1, <2>3, <2>4 DEF PortsInv
  <1>5. ASSUME NEW d \in P!Deps, NEW r \in DepType, Commits(d, r)
        PROVE  PortsInv'
    <2>1. dep'[d] = r /\ (\A e \in P!Deps \ {d} : dep'[e] = dep[e]) /\ target' = target
      BY <1>0, <1>5 DEF Commits
    <2>2. PICK a : a = Allocated(r) /\ a = Allocated(dep[d])
      BY <1>5 DEF Commits
    <2>3. dep[d].st = "written" /\ r.st = "QUEUED" /\ a.n = dep[d].n
          /\ ports' = IF dep[d].op = "deploy" THEN ports \union {a} ELSE ports
      BY <1>5, <2>2 DEF Commits, Allocated
    <2>4. MayUse(dep[d], ports)
      BY <1>0 DEF PortsInv
    <2>5. a \in ports' /\ OneEach(ports') /\ ports \subseteq ports'
      <3>1. CASE dep[d].op = "deploy"
        BY <1>0, <2>2, <2>3, <2>4, <3>1, OneMore DEF MayUse, PortsInv, P!InTransaction
      <3>2. CASE dep[d].op # "deploy"
        BY <1>0, <2>2, <2>3, <2>4, <3>2 DEF MayUse, PortsInv, P!InTransaction
      <3> QED
        BY <3>1, <3>2
    <2>6. ASSUME NEW e \in P!Deps \ {d} PROVE MayUse(dep[e], ports')
      <3>1. MayUse(dep[e], ports) /\ Apart(dep[d], dep[e])
        BY <1>0 DEF PortsInv
      <3>2. CASE dep[d].op = "deploy"
        <4>1. dep[e].st \in P!InTransaction /\ dep[e].op = "deploy" => dep[e].n # a.n
          BY <2>3, <3>1, <3>2 DEF Apart, P!InTransaction
        <4> QED
          BY <2>3, <3>1, <3>2, <4>1, StillMayUse
      <3>3. CASE dep[d].op # "deploy"
        BY <2>3, <3>1, <3>3
      <3> QED
        BY <3>2, <3>3
    <2>7. MayUse(r, ports')
      BY <2>2, <2>3, <2>5 DEF MayUse, P!InTransaction
    <2>8. \A e \in P!Deps : MayUse(dep'[e], ports')
      BY <2>1, <2>6, <2>7
    <2>9. \A e, f \in P!Deps : e # f => Apart(dep'[e], dep'[f])
      <3>1. \A t : Apart(r, t) /\ Apart(t, r)
        BY <2>3 DEF Apart, P!InTransaction
      <3> QED
        BY <1>0, <2>1, <3>1 DEF PortsInv
    <2>10. \A s \in Services : \A t \in target'[s] : [s |-> s, n |-> t.n, port |-> t.port] \in ports'
      BY <1>0, <2>1, <2>5 DEF PortsInv
    <2> QED
      BY <2>5, <2>8, <2>9, <2>10 DEF PortsInv
  <1> QED
    BY <1>1, <1>2, <1>3, <1>4, <1>5 DEF PlacementMove

-----------------------------------------------------------------------------
(* Volumes and the addon *)

LEMMA MountsStay ==
    ASSUME PlacementInv, PlacementMove
    PROVE  MountsInv'
  <1>0. MountsInv /\ PlacementTypes /\ \A d \in P!Deps : DepInv(dep[d]) /\ dep[d] \in DepType
    BY PlacementTyped DEF PlacementInv
  <1>1. CASE Configures
    BY <1>0, <1>1 DEF Configures, MountsInv
  <1>2. CASE Creates
    <2>1. \A d \in P!Deps : dep[d].mounts \subseteq Volumes /\ dep[d].holds \subseteq Volumes
      BY <1>0 DEF DepType
    <2>2. \A v \in Volumes : vol[v].st = "there" => vol'[v] = vol[v]
      BY <1>2 DEF Creates, VolumesStay
    <2>3. dep' = dep /\ slipped' = slipped
      BY <1>2 DEF Creates
    <2>4. \A d \in P!Deps : \A v \in dep[d].mounts : vol'[v].st = "there" /\ (v \notin slipped => vol'[v].n = dep[d].n)
      BY <1>0, <2>1, <2>2 DEF MountsInv
    <2>5. \A d \in P!Deps : dep[d].st = "written" =>
             \A v \in dep[d].holds : vol'[v].st = "there" /\ vol'[v].n \in {NoNode, dep[d].n}
      BY <1>0, <2>1, <2>2 DEF MountsInv
    <2> QED
      BY <1>0, <2>3, <2>4, <2>5 DEF MountsInv
  <1>3. CASE Progresses
    <2>1. ASSUME NEW d \in P!Deps
          PROVE  dep'[d] = dep[d] \/ (dep'[d].mounts = dep[d].mounts /\ dep'[d].n = dep[d].n /\ dep'[d].st # "written")
      BY <1>3 DEF Progresses, RowMoves, Allocated, P!Rows, P!Live
    <2>2. vol' = vol /\ slipped' = slipped
      BY <1>3 DEF Progresses
    <2> QED
      BY <1>0, <2>1, <2>2 DEF MountsInv
  <1>4. ASSUME NEW d \in P!Deps, NEW r \in DepType, Proceeds(d, r)
        PROVE  MountsInv'
    <2>1. dep'[d] = r /\ (\A e \in P!Deps \ {d} : dep'[e] = dep[e]) /\ UNCHANGED <<vol, slipped>>
      BY <1>0, <1>4 DEF Proceeds, PlacementTypes
    <2>2. r.mounts = {} /\ (r.st = "written" => Writes(d, r))
      BY <1>4 DEF Proceeds, Starts, Writes, DepInv, P!Rows, P!Live
    <2>3. r.st = "written" => /\ \A v \in r.holds : vol[v].st = "there" /\ vol[v].n \in {NoNode, r.n}
                              /\ \A e \in P!Deps : dep[e].st = "written" => dep[e].holds \intersect r.holds = {}
      BY <2>2 DEF Writes
    <2> QED
      BY <1>0, <2>1, <2>2, <2>3 DEF MountsInv
  <1>5. ASSUME NEW d \in P!Deps, NEW r \in DepType, Commits(d, r)
        PROVE  MountsInv'
    <2>1. dep'[d] = r /\ (\A e \in P!Deps \ {d} : dep'[e] = dep[e])
      BY <1>0, <1>5 DEF Commits, PlacementTypes
    <2>2. PICK held : held = dep[d].holds
      OBVIOUS
    <2>3. /\ dep[d].st = "written" /\ r.st = "QUEUED" /\ r.n = dep[d].n /\ r.n \in Nodes /\ r.n # NoNode
          /\ slipped' = slipped \union (r.mounts \ held)
      BY <1>5, <2>2, PlacementConstantsKnown DEF Commits, Allocated, DepInv
    <2>4. \A v \in Volumes : IF v \in held /\ vol[v].n = NoNode
                             THEN vol'[v].n = r.n /\ vol'[v].st = vol[v].st ELSE vol'[v] = vol[v]
      BY <1>5, <2>2 DEF Commits
    <2>5. \A v \in held : v \in Volumes /\ vol[v].st = "there" /\ vol[v].n \in {NoNode, r.n}
      BY <1>0, <2>2, <2>3 DEF MountsInv, DepType
    <2>6. \A v \in held : vol'[v].n = r.n
      BY <2>4, <2>5
    <2>7. \A v \in r.mounts : v \in Volumes /\ vol'[v].st = "there" /\ (v \notin slipped' => vol'[v].n = r.n)
      <3>1. \A v \in r.mounts : v \in Volumes /\ vol[v].st = "there"
        BY <1>5 DEF Commits, DepType
      <3> QED
        BY <2>3, <2>4, <2>6, <3>1
    <2>8. ASSUME NEW e \in P!Deps \ {d}, NEW v \in dep[e].mounts
          PROVE  vol'[v].st = "there" /\ (v \notin slipped' => vol'[v].n = dep[e].n)
      <3>1. v \in Volumes /\ vol[v].st = "there" /\ (v \notin slipped => vol[v].n = dep[e].n)
        BY <1>0, <2>8 DEF MountsInv, DepType
      <3>2. dep[e].n \in Nodes
        BY <1>0, <2>8 DEF DepInv, P!Rows, P!Live
      <3>3. v \notin slipped => vol'[v] = vol[v]
        BY <2>4, <3>1, <3>2, PlacementConstantsKnown
      <3>4. vol'[v].st = "there"
        BY <2>4, <3>1
      <3> QED
        BY <2>3, <3>1, <3>3, <3>4
    <2>9. ASSUME NEW e \in P!Deps \ {d}, dep[e].st = "written", NEW v \in dep[e].holds
          PROVE  vol'[v].st = "there" /\ vol'[v].n \in {NoNode, dep[e].n}
      <3>1. v \in Volumes /\ vol[v].st = "there" /\ vol[v].n \in {NoNode, dep[e].n} /\ v \notin held
        BY <1>0, <2>2, <2>3, <2>9 DEF MountsInv, DepType
      <3> QED
        BY <2>4, <3>1
    <2>10. \A e, f \in P!Deps : dep'[e].st = "written" /\ dep'[f].st = "written" /\ e # f => dep'[e].holds \intersect dep'[f].holds = {}
      BY <1>0, <2>1, <2>3 DEF MountsInv
    <2>11. \A e \in P!Deps : \A v \in dep'[e].mounts : vol'[v].st = "there" /\ (v \notin slipped' => vol'[v].n = dep'[e].n)
      BY <2>1, <2>7, <2>8
    <2>12. \A e \in P!Deps : dep'[e].st = "written" => \A v \in dep'[e].holds : vol'[v].st = "there" /\ vol'[v].n \in {NoNode, dep'[e].n}
      BY <2>1, <2>3, <2>9
    <2> QED
      BY <2>10, <2>11, <2>12 DEF MountsInv
  <1> QED
    BY <1>1, <1>2, <1>3, <1>4, <1>5 DEF PlacementMove

\* the node of a deployment that runs the addon is a node
LEMMA AddonHasNode ==
    ASSUME PlacementInv, NEW d \in P!Deps, dep[d].redis
    PROVE  P!HasAddon /\ addon.n = dep[d].n /\ addon.n # NoNode /\ dep[d].st \in P!Rows
BY PlacementTyped, PlacementConstantsKnown DEF PlacementInv, AddonInv, DepInv, P!Rows, P!Live

LEMMA AddonStays ==
    ASSUME PlacementInv, PlacementMove
    PROVE  AddonInv' /\ AddonKept
  <1>0. AddonInv /\ dep \in [P!Deps -> DepType] /\ \A d \in P!Deps : DepInv(dep[d])
    BY PlacementTyped DEF PlacementInv
  <1>1. AddonKept
    BY DEF PlacementMove, Configures, Creates, Progresses, Proceeds, Commits, AddonKept, P!HasAddon
  <1>2. \A d \in P!Deps : /\ dep[d].st = "asked" => P!HasAddon'
                          /\ dep[d].redis => P!HasAddon' /\ addon'.n = dep[d].n
    BY <1>0, <1>1, AddonHasNode DEF AddonInv, AddonKept
  <1>3. CASE Configures \/ Creates
    BY <1>1, <1>2, <1>3 DEF Configures, Creates, AddonInv
  <1>4. CASE Progresses
    <2>1. ASSUME NEW d \in P!Deps
          PROVE  /\ dep'[d].st = "asked" => P!HasAddon'
                 /\ dep'[d].redis => P!HasAddon' /\ addon'.n = dep'[d].n
      <3>1. PICK r, t : r = dep[d] /\ t = dep'[d] /\ RowMoves(r, t)
        BY <1>4 DEF Progresses
      <3>2. CASE t = r
        BY <1>2, <3>1, <3>2
      <3>3. CASE t # r
        <4>1. /\ r.st \in P!Rows /\ t.n = r.n
              /\ t.st = "asked" => P!HasAddon
              /\ t.redis => r.redis \/ (P!HasAddon /\ addon'.n = r.n)
          BY <3>1, <3>3 DEF RowMoves, Allocated
        <4>2. P!HasAddon => P!HasAddon'
          BY <1>1 DEF AddonKept
        <4> QED
          BY <1>2, <3>1, <4>1, <4>2
      <3> QED
        BY <3>2, <3>3
    <2> QED
      BY <1>1, <2>1 DEF AddonInv
  <1>5. ASSUME NEW d \in P!Deps, NEW r \in DepType, dep' = [dep EXCEPT ![d] = r], r.st # "asked", ~r.redis
        PROVE  AddonInv'
    BY <1>0, <1>2, <1>5 DEF AddonInv
  <1>6. ASSUME NEW d \in P!Deps, NEW r \in DepType, Proceeds(d, r)
        PROVE  AddonInv'
    <2>1. r.st \in {"chosen", "placed", "written", "over"}
      BY <1>6 DEF Proceeds, Starts, Writes
    <2>2. r.st # "asked" /\ ~r.redis
      BY <1>6, <2>1 DEF Proceeds, DepInv, P!Rows, P!Live
    <2> QED
      BY <1>5, <1>6, <2>2 DEF Proceeds
  <1>7. ASSUME NEW d \in P!Deps, NEW r \in DepType, Commits(d, r)
        PROVE  AddonInv'
    BY <1>5, <1>7 DEF Commits
  <1> QED
    BY <1>1, <1>3, <1>4, <1>6, <1>7 DEF PlacementMove

-----------------------------------------------------------------------------
(* Every step of Placement *)

LEMMA PlacementStep ==
    ASSUME PlacementInv, P!Next
    PROVE  PlacementInv'
  <1>1. PlacementMove /\ HistoryTyped
    BY PlacementMoves
  <1>2. PlacementTypes' /\ PortsInv' /\ MountsInv' /\ AddonInv' /\ \A d \in P!Deps : DepInv(dep'[d])
    BY <1>1, TypesStay, DepsStay, PortsStay, MountsStay, AddonStays
  <1> QED
    BY <1>2 DEF PlacementInv

LEMMA PlacementKeeps ==
    ASSUME PlacementInv, P!Next
    PROVE  P!KeepsBindings
  <1>0. PlacementMove /\ AddonKept /\ \A d \in P!Deps : dep[d] \in DepType
    BY PlacementMoves, AddonStays, PlacementTyped
  <1>1. ASSUME NEW v \in Volumes, vol[v].st = "there", vol[v].n # NoNode
        PROVE  vol'[v].n = vol[v].n
    <2>1. CASE Configures \/ Progresses \/ \E d \in P!Deps, r \in DepType : Proceeds(d, r)
      BY <2>1 DEF Configures, Progresses, Proceeds
    <2>2. CASE Creates
      BY <1>1, <2>2 DEF Creates, VolumesStay
    <2>3. CASE \E d \in P!Deps, r \in DepType : Commits(d, r)
      BY <1>1, <2>3 DEF Commits
    <2> QED
      BY <1>0, <2>1, <2>2, <2>3 DEF PlacementMove
  <1> QED
    BY <1>0, <1>1 DEF P!KeepsBindings, P!Keeps, AddonKept

LEMMA PlacementHeld ==
    ASSUME PlacementInv
    PROVE  P!TypeOK /\ P!PortsAreTheirs /\ P!MountedWhereBound /\ P!AddonOnOneNode
  <1>1. P!TypeOK
    BY DEF PlacementInv, PlacementTypes, P!TypeOK, DepType, DepStates, VolType, AddonType, Allocation
  <1>2. P!PortsAreTheirs
    <2>1. ASSUME NEW d \in P!Placed, NEW e \in P!Placed, dep[d].n = dep[e].n
          PROVE  dep[d].port = dep[e].port <=> dep[d].s = dep[e].s
      <3>1. d \in P!Deps /\ e \in P!Deps /\ dep[d].st \in P!Rows /\ dep[e].st \in P!Rows
        BY DEF P!Placed
      <3>2. PICK a, b : a = Allocated(dep[d]) /\ b = Allocated(dep[e])
        OBVIOUS
      <3>3. a \in ports /\ b \in ports
        BY <3>1, <3>2, PlacementTyped DEF MayUse
      <3>4. a.n = b.n => (a.s = b.s <=> a.port = b.port)
        BY <3>3 DEF PlacementInv, PortsInv, OneEach
      <3>5. /\ a.n = dep[d].n /\ a.s = dep[d].s /\ a.port = dep[d].port
            /\ b.n = dep[e].n /\ b.s = dep[e].s /\ b.port = dep[e].port
        BY <3>2 DEF Allocated
      <3> QED
        BY <2>1, <3>4, <3>5
    <2> QED
      BY <2>1 DEF P!PortsAreTheirs
  <1>3. P!MountedWhereBound
    BY DEF PlacementInv, MountsInv, P!MountedWhereBound, P!Placed
  <1>4. P!AddonOnOneNode
    BY DEF PlacementInv, AddonInv, P!AddonOnOneNode
  <1> QED
    BY <1>1, <1>2, <1>3, <1>4

-----------------------------------------------------------------------------
(* The steps of ProjectsMC: one module moves, and the others rest *)

LEMMA PlacementMovesAreSteps == PortsMove \/ AddonMoves \/ VolumesMove => P!Next
  <1>1. s1 \in Services /\ 1..2 \subseteq P!Deps /\ 1..MaxDeployments = P!Deps /\ 2 \in 1..2
    BY MovesConstants, PlacementConstantsKnown DEF P!Deps
  <1>2. ASSUME NEW d \in P!Deps, NEW on \in SUBSET Services, Inserts(d, on)
        PROVE  P!Next
    BY <1>2 DEF Inserts, P!Next, P!Insertion
  <1>3. PortsMove => P!Next
    BY <1>1, <1>2 DEF PortsMove, P!Next, P!Insertion
  <1>4. AddonMoves => P!Next
    BY <1>1, <1>2 DEF AddonMoves, P!Next
  <1>5. VolumesMove => P!Next
    BY <1>1, <1>2 DEF VolumesMove, P!Next, P!Insertion, P!Volume
  <1> QED
    BY <1>3, <1>4, <1>5

LEMMA SourcesMovesAreSteps == SourcesMove => S!Next
BY DEF SourcesMove

LEMMA ScopesMovesAreSteps == ScopesMove => W!Next
  <1> SUFFICES ASSUME ScopesMove PROVE W!Next
    OBVIOUS
  <1>1. /\ \A p \in DOMAIN Home : Home[p] \in W!Owners
        /\ "other" \in DOMAIN Home /\ s2 \in DOMAIN In /\ \A s \in DOMAIN In : In[s] \in DOMAIN Home
        /\ "w1" \in W!Owners /\ {"deploy", "attach"} \subseteq W!Kinds /\ x \in {x}
    BY OwnersKnown, MovesConstants DEF Home, In, W!Kinds
  <1>2. CASE \E p \in DOMAIN Home : W!CreateProject(p, Home[p])
    BY <1>1, <1>2 DEF W!Next
  <1>3. CASE W!ArchiveProject("other") \/ W!ArchiveService(s2)
    BY <1>1, <1>3 DEF W!Next
  <1>4. CASE \E s \in DOMAIN In : W!CreateService(s, In[s])
    BY <1>1, <1>4 DEF W!Next
  <1>5. CASE \E n \in Nodes : W!CreateNode(n, "w1")
    BY <1>1, <1>5 DEF W!Next
  <1>6. CASE \E r \in ScopeRequests, s \in DOMAIN In :
             \/ \E k \in {"deploy", "attach"} : W!Resolve(r, k, s)
             \/ \E n \in Nodes : W!InsertLegacy(r, s, n)
             \/ \E d \in 1..2 : W!ReadReady(r, s, d)
    BY <1>1, <1>6 DEF W!Next
  <1>7. CASE \E r \in ScopeRequests, n \in Nodes : W!Place(r, n) \/ \E w \in {"w1", "w2"} : W!LockNode(r, w, n)
    BY <1>7 DEF W!Next
  <1>8. CASE \E r \in ScopeRequests :
             W!Check(r) \/ W!Adopt(r) \/ W!Abandon(r) \/ W!Attach(r, x) \/ \E d \in 1..2 : W!EndInsert(r, d)
    BY <1>1, <1>8 DEF W!Next
  <1>9. CASE W!DeleteDomain(x) \/ \E d \in 1..2 : W!BecomesReady(d) \/ W!Fails(d) \/ W!MoveDomains(d)
    BY <1>1, <1>9 DEF W!Next
  <1>10. ASSUME NEW r \in ScopeRequests, NEW d \in NextPlaced PROVE d \in 1..2
    BY DEF NextPlaced
  <1> QED
    BY <1>2, <1>3, <1>4, <1>5, <1>6, <1>7, <1>8, <1>9, <1>10 DEF ScopesMove, Releases

LEMMA OneMoves ==
    ASSUME Next
    PROVE  /\ PlacementRests \/ P!Next
           /\ VariablesRest \/ V!Next
           /\ SourcesRest \/ S!Next
           /\ ConnectionsRest \/ C!Next
           /\ ScopesRest \/ W!Next
           /\ focus \in {"ports", "addon", "volumes"} => P!Next
           /\ focus = "sources" => S!Next
           /\ focus = "scopes" => W!Next
  <1>1. CASE OthersRest("ports") /\ PortsMove
    BY <1>1, PlacementMovesAreSteps DEF OthersRest
  <1>2. CASE OthersRest("addon") /\ AddonMoves
    BY <1>2, PlacementMovesAreSteps DEF OthersRest
  <1>3. CASE OthersRest("volumes") /\ VolumesMove
    BY <1>3, PlacementMovesAreSteps DEF OthersRest
  <1>4. CASE OthersRest("variables") /\ V!Next
    BY <1>4 DEF OthersRest
  <1>5. CASE OthersRest("sources") /\ SourcesMove
    BY <1>5, SourcesMovesAreSteps DEF OthersRest
  <1>6. CASE OthersRest("connections") /\ C!Next
    BY <1>6 DEF OthersRest
  <1>7. CASE OthersRest("scopes") /\ ScopesMove
    BY <1>7, ScopesMovesAreSteps DEF OthersRest
  <1> QED
    BY <1>1, <1>2, <1>3, <1>4, <1>5, <1>6, <1>7 DEF Next

LEMMA AllRest ==
    UNCHANGED vars => PlacementRests /\ VariablesRest /\ SourcesRest /\ ConnectionsRest /\ ScopesRest
BY DEF vars, PlacementRests, VariablesRest, SourcesRest, ConnectionsRest, ScopesRest

-----------------------------------------------------------------------------
(* What rests keeps its invariant *)

LEMMA PlacementRested ==
    ASSUME PlacementInv, PlacementRests
    PROVE  PlacementInv'
  <1> USE DEF PlacementRests
  <1>1. PlacementTypes' /\ (\A d \in P!Deps : DepInv(dep[d]))'
    BY DEF PlacementInv, PlacementTypes
  <1>2. PortsInv' /\ MountsInv'
    BY DEF PlacementInv, PortsInv, MountsInv
  <1>3. AddonInv'
    BY DEF PlacementInv, AddonInv, P!HasAddon
  <1> QED
    BY <1>1, <1>2, <1>3 DEF PlacementInv

LEMMA VariablesRested ==
    ASSUME VariablesInv, VariablesRest
    PROVE  VariablesInv'
  <1> USE DEF VariablesRest
  <1>1. Pending' = Pending
    BY DEF Pending
  <1>2. VariableTypes' /\ DeletedInv' /\ CommitsInv' /\ WholeInv'
    BY DEF VariablesInv, VariableTypes, DeletedInv, CommitsInv, WholeInv
  <1>3. ClockInv' /\ SentInv'
    BY <1>1 DEF VariablesInv, ClockInv, SentInv
  <1>4. V!LogsHideSecrets'
    BY DEF VariablesInv, V!LogsHideSecrets
  <1> QED
    BY <1>2, <1>3, <1>4 DEF VariablesInv

LEMMA SourcesRested ==
    ASSUME SourcesInv, SourcesRest
    PROVE  SourcesInv'
  <1> USE DEF SourcesRest
  <1>1. Stored' = Stored
    BY DEF Stored
  <1>2. SourceTypes' /\ SourceRowInv' /\ (\A q \in Requests : OwnInv(request[q]))'
    BY <1>1 DEF SourcesInv, SourceTypes, SourceRowInv
  <1>3. ConfirmingInv'
    BY DEF SourcesInv, ConfirmingInv, Holds
  <1>4. ConfigsInv' /\ ConfirmedInv'
    BY DEF SourcesInv, ConfigsInv, ConfigInv, ConfirmedInv
  <1> QED
    BY <1>2, <1>3, <1>4 DEF SourcesInv

LEMMA ConnectionsRested ==
    ASSUME ConnectionsInv, ConnectionsRest
    PROVE  ConnectionsInv'
  <1> USE DEF ConnectionsRest
  <1>1. C!TypeOK' /\ AskedInv'
    BY DEF ConnectionsInv, C!TypeOK, AskedInv
  <1>2. C!ShowsWhatItStores' /\ C!StoredWasAccepted' /\ C!DiscoveringIsAttended'
    BY DEF ConnectionsInv, C!ShowsWhatItStores, C!StoredWasAccepted, C!DiscoveringIsAttended
  <1> QED
    BY <1>1, <1>2 DEF ConnectionsInv

LEMMA ScopesRested ==
    ASSUME ScopesInv, ScopesRest
    PROVE  ScopesInv'
  <1> USE DEF ScopesRest
  <1>1. W!TypeOK' /\ ScopeRows' /\ PlacingInv'
    BY DEF ScopesInv, W!TypeOK, ScopeRows, PlacingInv
  <1>2. HoldsAlone'
    BY DEF ScopesInv, HoldsAlone, W!Exclusive, W!Holders
  <1>3. AdoptionInv' /\ ThereInv'
    BY DEF ScopesInv, AdoptionInv, ThereInv, Belongs
  <1> QED
    BY <1>1, <1>2, <1>3 DEF ScopesInv

-----------------------------------------------------------------------------
(* The theorems *)

LEMMA InvariantsInit == Init => PlacementInv /\ VariablesInv /\ SourcesInv /\ ConnectionsInv /\ ScopesInv
BY PlacementInit, VariablesInit, SourcesInit, ConnectionsInit, ScopesInit DEF Init

LEMMA InvariantsStep ==
    ASSUME [Next]_vars
    PROVE  /\ PlacementInv => PlacementInv'
           /\ VariablesInv => VariablesInv'
           /\ SourcesInv => SourcesInv'
           /\ ConnectionsInv => ConnectionsInv'
           /\ ScopesInv => ScopesInv'
  <1>1. /\ PlacementRests \/ P!Next
        /\ VariablesRest \/ V!Next
        /\ SourcesRest \/ S!Next
        /\ ConnectionsRest \/ C!Next
        /\ ScopesRest \/ W!Next
    BY OneMoves, AllRest
  <1> QED
    BY <1>1, PlacementStep, VariablesStep, SourcesStep, ConnectionsStep, ScopesStep,
       PlacementRested, VariablesRested, SourcesRested, ConnectionsRested, ScopesRested

\* On a node a host port belongs to one service, which keeps it; a deployment
\* mounts a volume only where it is bound; one node is told to run the addon
\* (service-scoped-routes.ts, runtime-operations.ts, managed-redis.ts and
\* migrations 026, 027, 030, 036).
THEOREM PlacementIsHeld == Spec => []PlacementHolds
  <1>1. Init => PlacementInv
    BY InvariantsInit
  <1>2. PlacementInv /\ [Next]_vars => PlacementInv'
    BY InvariantsStep
  <1>3. PlacementInv => PlacementHolds
    BY PlacementHeld DEF PlacementHolds
  <1> QED
    BY <1>1, <1>2, <1>3, PTL DEF Spec

\* A deployment captures all the variables of a write or none, every dispatch of
\* it and of its rollback sends those, and no log line shows a secret of them
\* (service-variables.ts).
THEOREM CapturesAreHeld == Spec => []CapturedAndKept
  <1>1. Init => VariablesInv
    BY InvariantsInit
  <1>2. VariablesInv /\ [Next]_vars => VariablesInv'
    BY InvariantsStep
  <1>3. VariablesInv => CapturedAndKept
    BY VariablesHeld DEF CapturedAndKept
  <1> QED
    BY <1>1, <1>2, <1>3, PTL DEF Spec

\* A confirmation is stored as a whole or not at all, what it confirmed is in the
\* revision it recorded, and none of what was ready for review is refused for want
\* of a port (github-project-routes.ts, discovery-confirmation.ts).
THEOREM ConfirmationsAreHeld == Spec => []ConfirmedAsShown
  <1>1. Init => SourcesInv
    BY InvariantsInit
  <1>2. SourcesInv /\ [Next]_vars => SourcesInv'
    BY InvariantsStep
  <1>3. SourcesInv => ConfirmedAsShown
    BY SourcesHeld DEF ConfirmedAsShown
  <1> QED
    BY <1>1, <1>2, <1>3, PTL DEF Spec

\* A connection shows what was found with the credential it stores, which the
\* provider accepted, and somebody attends to it while it is DISCOVERING
\* (provider-connections.ts).
THEOREM ConnectionsAreHeld == Spec => []ConnectionsHold
  <1>1. Init => ConnectionsInv
    BY InvariantsInit
  <1>2. ConnectionsInv /\ [Next]_vars => ConnectionsInv'
    BY InvariantsStep
  <1>3. ConnectionsInv => ConnectionsHold
    BY DEF ConnectionsInv, ConnectionsHold
  <1> QED
    BY <1>1, <1>2, <1>3, PTL DEF Spec

\* Deployments and domains stay on nodes of the workspace of their service, though
\* nodes are adopted while requests that look at them are under way
\* (workspace-node-routes.ts, service-scoped-routes.ts, domains.ts).
THEOREM ScopesAreHeld == Spec => []ScopesHold
  <1>1. Init => ScopesInv
    BY InvariantsInit
  <1>2. ScopesInv /\ [Next]_vars => ScopesInv'
    BY InvariantsStep
  <1>3. ScopesInv => ScopesHold
    BY ScopesStay DEF ScopesInv, ScopesHold
  <1> QED
    BY <1>1, <1>2, <1>3, PTL DEF Spec

\* What is bound to a node stays there, a config never goes back to an older
\* discovery nor is that of an archived service confirmed, and a node that is
\* adopted is empty (migrations 026, 027 and 036, discovery-confirmation.ts,
\* workspace-node-routes.ts).
THEOREM NothingGoesBack == Spec => NeverGoesBack
  <1> DEFINE Inv == PlacementInv /\ SourcesInv /\ ScopesInv
             Kept == /\ focus \in {"ports", "addon", "volumes"} => P!KeepsBindings
                     /\ focus = "sources" => S!ConfirmsInOrder /\ S!ConfirmsActive
                     /\ focus = "scopes" => W!AdoptsEmpty
  <1>1. Init => Inv
    BY InvariantsInit
  <1>2. Inv /\ [Next]_vars => Inv'
    BY InvariantsStep
  <1>3. Inv /\ [Next]_vars => [Kept]_vars
    <2>1. Inv /\ Next => Kept
      BY OneMoves, PlacementKeeps, SourcesStep, ScopesAdopt
    <2> QED
      BY <2>1
  <1>4. NeverGoesBack <=> [][Kept]_vars
    BY DEF NeverGoesBack
  <1> QED
    BY <1>1, <1>2, <1>3, <1>4, PTL DEF Spec
=============================================================================
