------------------------------- MODULE NodesMC -------------------------------
(***************************************************************************)
(* Instances, for TLC, of the modules about a machine and its Agent.       *)
(* NodeCredentials: a machine that is being enrolled, or an enrolled one   *)
(* whose Agent is sent a deployment that needs its source, or one that     *)
(* needs an image.  RuntimeHealth: an Agent that probes what it serves, or *)
(* one that reports it.  They share no state, so one of them moves in a    *)
(* behaviour and the other rests.                                          *)
(***************************************************************************)
EXTENDS NodeCredentials, Sequences, TLC

CONSTANTS n1, s1, i1, i2, h1, h2,
    Replaceable, Connections, None, Cooldown, MaxSamples, MaxTroubles, d1

VARIABLES
    focus,
    routed, retired, answering, mutex, saved, loop, current, inbox, recording, ready, health,
    clock, troubles, overlapped, since, early, struck

AllOnOne == [d \in Deployments |-> n1]
OwnHosts == [d \in Images |-> IF d = i1 THEN h1 ELSE h2]

Over == [st |-> "FAILED", leased |-> FALSE, tries |-> 0]
Unborn == [st |-> "none", leased |-> FALSE, tries |-> 0]
Quiet == provider = [st |-> "empty", sum |-> 0] /\ exchanges = {} /\ attempts = {} /\ faults = 0
Unused ==
    /\ ticket = [d \in Deployments |-> [token |-> 0, usable |-> FALSE, host |-> NoHost]]
    /\ revoked = {} /\ cut = {} /\ refused = {} /\ spoilt = {} /\ pulled = {}
Enrolment ==
    /\ Quiet /\ Unused /\ config = NoHost
    /\ row = [n \in Nodes |-> NoNode] /\ host = [n \in Nodes |-> FreshHost]
    /\ proc = [n \in Nodes |-> 0] /\ link = [n \in Nodes |-> "none"] /\ admitted = {}
    /\ published = [sum |-> 1, binary |-> 1] /\ listed = {1}
    /\ dep = [d \in Deployments |-> Over]
    /\ issued = {} /\ spent = {}
Delivery(d) ==
    /\ Quiet /\ Unused /\ config \in Hosts \union {NoHost}
    /\ row = [n \in Nodes |-> [life |-> "ACTIVE", token |-> 1, boot |-> "none", online |-> TRUE, seen |-> TRUE]]
    /\ host = [n \in Nodes |-> [pc |-> "done", run |-> 1, sum |-> 1, installed |-> 1, env |-> 1]]
    /\ proc = [n \in Nodes |-> 1] /\ link = [n \in Nodes |-> "up"] /\ admitted = {<<n, 1, "ACTIVE">> : n \in Nodes}
    /\ published = [sum |-> MaxReleases, binary |-> MaxReleases] /\ listed = Releases
    /\ dep = [e \in Deployments |-> IF e = d THEN Unborn ELSE Over]
    /\ issued = Nodes \X {1} /\ spent = Nodes \X {1}

RH == INSTANCE RuntimeHealth WITH Deployments <- Replaceable
ASSUME HealthConstants == RH!HealthAssumption /\ d1 \in Replaceable
health_vars == <<routed, retired, answering, mutex, saved, loop, current, inbox, recording, ready, health,
                 clock, troubles, overlapped, since, early, struck>>

\* Deployments are interchangeable: d1 is the one that serves.  What an Agent
\* sends is lost while it is "probing"; one that is "reporting" is disconnected
\* once, and its backends answer until the loop is cancelled.
HealthInit(f) ==
    /\ routed = {d1} /\ retired = {} /\ answering = {d1} /\ ready = {d1} /\ mutex = "free"
    /\ saved = [d \in Replaceable |-> RH!NoTracker] /\ loop = [c \in Connections |-> RH!Off]
    /\ current = None /\ inbox = [c \in Connections |-> <<>>] /\ recording = [c \in Connections |-> None]
    /\ health = [d \in Replaceable |-> [state |-> "none", at |-> 0, restarts |-> 0]]
    /\ clock = IF f = "reporting" THEN 0 ELSE MaxSamples
    /\ troubles = 0 /\ overlapped = FALSE /\ since = [d \in Replaceable |-> 2 * Cooldown] /\ early = {} /\ struck = {}

AllInit ==
    /\ focus \in {"credentials", "probing", "reporting"} /\ HealthInit(focus)
    /\ IF focus = "credentials" THEN Enrolment \/ \E d \in Deployments : Delivery(d) ELSE Enrolment

Reporting ==
    \/ \E c \in Connections : RH!Monitor(c) \/ RH!Control(c) \/ RH!Disconnect(c)
    \/ \E d \in Replaceable : RH!RecordReady(d)
    \/ RH!BeginDeployment \/ RH!EndDeployment

AllNext ==
    \/ focus = "credentials" /\ Next /\ UNCHANGED <<focus, health_vars>>
    \/ focus = "probing" /\ RH!Next /\ UNCHANGED <<focus, vars>>
    \/ focus = "reporting" /\ Reporting /\ UNCHANGED <<focus, vars>>

AllSpec == AllInit /\ [][AllNext]_<<vars, focus, health_vars>>

-----------------------------------------------------------------------------

\* The health of what a node serves (runtime_health.go, runtime-metrics.ts):
\* restarts are spaced, none reaches a backend that was replaced, and what the
\* control plane shows never gets older.
HealthHolds ==
    /\ [](RH!TypeOK /\ RH!RestartsAreSpaced /\ RH!ReplacedStaysDown)
    /\ RH!HealthNeverOlder
=============================================================================
