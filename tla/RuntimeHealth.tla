---------------------------- MODULE RuntimeHealth ----------------------------
(***************************************************************************)
(* Continuous health of what a node serves.  Every 15 s a loop of the      *)
(* Agent (metrics.go, runtime_health.go) probes each committed route,      *)
(* counts failures in state.json, restarts a runtime that is DOWN at most  *)
(* once per cooldown, and reports; the control plane (runtime-metrics.ts)  *)
(* keeps the newest report of each READY deployment.                       *)
(*                                                                         *)
(* A connection has a loop of its own, which is cancelled when the         *)
(* connection ends but not waited for: the loops of two connections may    *)
(* overlap, each with a copy of state.json it will write back.  A restart  *)
(* holds runtimeMu, which does not know about cancellation.                *)
(*                                                                         *)
(* A tracker is a number of failures (those beyond the threshold are not   *)
(* told apart) and how much of its cooldown is left.  In state.json that   *)
(* is seen from the present, in a collection from the moment it began.     *)
(* CPU, memory and disk figures are left out.                              *)
(***************************************************************************)
EXTENDS Naturals, Sequences

CONSTANTS
    Deployments,
    Connections,    \* connections of the Agent: at most so many loops at a time
    None,
    Cooldown,       \* runtimeHealthRestartCooldown, in ticks
    MaxSamples,     \* bound: reports sent
    MaxTroubles     \* bound: connections that end, and crashes

HealthAssumption ==
    /\ None \notin Deployments
    /\ Cooldown \in Nat \ {0} /\ MaxSamples \in Nat /\ MaxTroubles \in Nat

VARIABLES
    routed,         \* deployments in routes.json
    retired,        \* those that were, and have been replaced
    answering,      \* those of them whose backend answers
    mutex,          \* runtimeMu: a deployment, the loop of a connection, or free
    saved,          \* state.json
    loop,           \* connection -> its metrics loop
    current,        \* connection in the control plane's map of sockets
    inbox,          \* its messages
    recording,      \* the report its handler is recording
    ready, health,  \* deployments that are READY, and their runtime_health columns
    clock, troubles,
    overlapped, since, early, struck    \* history

agent == <<routed, retired, answering, mutex, saved, loop>>
api == <<current, inbox, recording, ready, health>>
bounds == <<clock, troubles>>
history == <<overlapped, since, early, struck>>
vars == <<agent, api, bounds, history>>

Threshold == 3      \* runtimeHealthFailureThreshold
NoTracker == [failures |-> 0, wait |-> 0]
Trackers == [Deployments -> [failures : 0..Threshold, wait : 0..Cooldown]]
Off == [pc |-> "off", live |-> FALSE, tracker |-> [d \in Deployments |-> NoTracker],
        active |-> {}, todo |-> {}, due |-> None, age |-> 0, restarted |-> {}]
Idle == [Off EXCEPT !.pc = "idle", !.live = TRUE]
States == {"HEALTHY", "DEGRADED", "DOWN"}
Samples == [dep : Deployments, at : 1..MaxSamples, state : States, restarts : 0..1]

TypeOK ==
    /\ routed \subseteq Deployments /\ retired \subseteq Deployments \ routed
    /\ answering \subseteq routed
    /\ mutex \in Connections \union {"free", "deployment"}
    /\ saved \in Trackers
    /\ loop \in [Connections ->
          [pc : {"off", "idle", "probe", "lock", "restart", "report"}, live : BOOLEAN, tracker : Trackers,
           active : SUBSET Deployments, todo : SUBSET Deployments, due : Deployments \union {None},
           age : 0..Cooldown, restarted : SUBSET Deployments]]
    /\ current \in Connections \union {None}
    /\ inbox \in [Connections -> Seq(Samples)]
    /\ \A c \in Connections : recording[c] \in Samples \union {None}
    /\ ready \subseteq Deployments
    /\ health \in [Deployments -> [state : States \union {"none"}, at : 0..MaxSamples, restarts : 0..MaxSamples]]
    /\ clock \in 0..MaxSamples /\ troubles \in 0..MaxTroubles
    /\ overlapped \in BOOLEAN /\ since \in [Deployments -> 0..(2 * Cooldown)]
    /\ early \subseteq Deployments /\ struck \subseteq Deployments

\* one deployment serves, and no Agent is connected
Init ==
    /\ \E d \in Deployments : routed = {d} /\ ready = {d}
    /\ retired = {} /\ answering = routed /\ mutex = "free"
    /\ saved = [d \in Deployments |-> NoTracker]
    /\ loop = [c \in Connections |-> Off]
    /\ current = None /\ inbox = [c \in Connections |-> <<>>]
    /\ recording = [c \in Connections |-> None]
    /\ health = [d \in Deployments |-> [state |-> "none", at |-> 0, restarts |-> 0]]
    /\ clock = 0 /\ troubles = 0
    /\ overlapped = FALSE /\ since = [d \in Deployments |-> 2 * Cooldown]
    /\ early = {} /\ struck = {}

-----------------------------------------------------------------------------
(* The loop of a connection *)

Least(m, n) == IF m < n THEN m ELSE n
Less(m, n) == IF m > n THEN m - n ELSE 0

\* connectAndServe starts the loop once the router has recovered
Connect(c) ==
    /\ loop[c] = Off /\ recording[c] = None
    /\ c = CHOOSE b \in Connections : loop[b] = Off /\ recording[b] = None
    /\ \A b \in Connections : ~loop[b].live
    /\ loop' = [loop EXCEPT ![c] = Idle]
    /\ current' = c /\ inbox' = [inbox EXCEPT ![c] = <<>>]
    /\ UNCHANGED <<routed, retired, answering, mutex, saved, recording, ready, health, bounds, history>>

\* the connection ends: cancelMetrics, and whatever was under way goes on
Disconnect(c) ==
    /\ loop[c].live /\ troubles < MaxTroubles
    /\ troubles' = troubles + 1
    /\ loop' = [loop EXCEPT ![c].live = FALSE]
    /\ UNCHANGED <<routed, retired, answering, mutex, saved, api, clock, history>>

EndLoop(c) ==
    /\ loop[c].pc = "idle" /\ ~loop[c].live
    /\ loop' = [loop EXCEPT ![c] = Off]
    /\ UNCHANGED <<routed, retired, answering, mutex, saved, api, bounds, history>>

AgentCrash ==
    /\ troubles < MaxTroubles /\ troubles' = troubles + 1
    /\ \E c \in Connections : loop[c].pc # "off"
    /\ loop' = [c \in Connections |-> Off] /\ mutex' = "free"
    /\ UNCHANGED <<routed, retired, answering, saved, api, clock, history>>

\* state.json and routes.json are read
Collect(c) ==
    /\ loop[c].pc = "idle" /\ loop[c].live
    /\ loop' = [loop EXCEPT ![c] = [Idle EXCEPT !.pc = "probe", !.tracker = saved,
                                                !.active = routed, !.todo = routed]]
    /\ overlapped' = (overlapped \/ \E b \in Connections : loop[b].pc \in {"probe", "lock", "restart"})
    /\ UNCHANGED <<routed, retired, answering, mutex, saved, api, bounds, since, early, struck>>

\* advanceRuntimeHealth: the cooldown outlives a recovery
Advanced(tracker, healthy) ==
    [tracker EXCEPT !.failures = IF healthy THEN 0 ELSE Least(@ + 1, Threshold)]

\* what is written, as it looks from the present
Written(tracker, age) == [d \in Deployments |-> [tracker[d] EXCEPT !.wait = Less(@, age)]]

\* writeRuntimeHealthState fails, and the collection returns its error
GivesUp(c) == loop' = [loop EXCEPT ![c] = [Idle EXCEPT !.live = loop[c].live]] /\ UNCHANGED saved

ShouldRestart(tracker) == tracker.failures = Threshold /\ tracker.wait = 0

\* A probe of the stable route: it fails as well when its context is cancelled
\* or another deployment answers.  The restart it may call for is accounted
\* in state.json before it is carried out.
Probe(c) ==
    LET l == loop[c]
    IN  /\ l.pc = "probe"
        /\ \E d \in l.todo :
              LET next == Advanced(l.tracker[d], l.live /\ d \in answering)
                  charged == [l.tracker EXCEPT ![d] = [next EXCEPT !.wait = Cooldown]]
                  left == l.todo \ {d}
              IN  IF ShouldRestart(next)
                  THEN \/ /\ saved' = Written(charged, l.age)
                          /\ loop' = [loop EXCEPT ![c].pc = "lock", ![c].due = d, ![c].todo = left,
                                                  ![c].tracker = charged, ![c].restarted = @ \union {d}]
                          /\ since' = [since EXCEPT ![d] = l.age]
                          /\ early' = IF since[d] >= l.age + Cooldown \/ overlapped THEN early
                                      ELSE early \union {d}
                       \/ GivesUp(c) /\ UNCHANGED <<since, early>>
                  ELSE /\ loop' = [loop EXCEPT ![c].tracker[d] = next, ![c].todo = left]
                       /\ UNCHANGED <<saved, since, early>>
        /\ UNCHANGED <<routed, retired, answering, mutex, api, bounds, overlapped, struck>>

Lock(c) ==
    /\ loop[c].pc = "lock" /\ mutex = "free"
    /\ mutex' = c
    /\ loop' = [loop EXCEPT ![c].pc = "restart"]
    /\ UNCHANGED <<routed, retired, answering, saved, api, bounds, history>>

\* the route is read again under runtimeMu
StillRouted(c) == loop[c].due \in routed

\* restartUnhealthyRuntimeRoute: after it the backend answers or not, or the
\* restart fails: it was cancelled, took too long, or the route has changed
RestartRuntime(c) ==
    LET d == loop[c].due
    IN  /\ loop[c].pc = "restart"
        /\ mutex' = "free"
        /\ loop' = [loop EXCEPT ![c].pc = "probe", ![c].due = None]
        /\ \/ /\ loop[c].live /\ StillRouted(c)
              /\ answering' \in {answering \union ({d} \intersect routed), answering \ {d}}
              /\ struck' = struck \union ({d} \ routed)
           \/ UNCHANGED <<answering, struck>>
        /\ UNCHANGED <<routed, retired, saved, api, bounds, overlapped, since, early>>

\* trackers of deployments that had no route are dropped
Finish(c) ==
    LET l == loop[c]
        kept == [d \in Deployments |-> IF d \in l.active THEN l.tracker[d] ELSE NoTracker]
    IN  /\ l.pc = "probe" /\ l.todo = {}
        /\ \/ /\ saved' = Written(kept, l.age)
              /\ loop' = [loop EXCEPT ![c].pc = "report"]
           \/ GivesUp(c)
        /\ UNCHANGED <<routed, retired, answering, mutex, api, bounds, history>>

StateOf(tracker) ==
    IF tracker.failures = 0 THEN "HEALTHY" ELSE IF tracker.failures < Threshold THEN "DEGRADED" ELSE "DOWN"

Sample(l, d, at) ==
    [dep |-> d, at |-> at, state |-> StateOf(l.tracker[d]), restarts |-> IF d \in l.restarted THEN 1 ELSE 0]

\* collectRuntimeMetrics sends a message for each deployment: here, for one of
\* them.  What is written to a connection that has ended is lost.
Report(c) ==
    LET l == loop[c]
    IN  /\ l.pc = "report"
        /\ loop' = [loop EXCEPT ![c] = [Idle EXCEPT !.live = l.live]]
        /\ \/ /\ current = c /\ clock < MaxSamples
              /\ clock' = clock + 1
              /\ \E d \in l.active : inbox' = [inbox EXCEPT ![c] = Append(@, Sample(l, d, clock'))]
           \/ UNCHANGED <<inbox, clock>>
        /\ UNCHANGED <<routed, retired, answering, mutex, saved, current, recording, ready, health,
                       troubles, history>>

-----------------------------------------------------------------------------
(* The runtimes, deployments and time *)

Stops(d) ==
    /\ d \in routed \intersect answering /\ answering' = answering \ {d}
    /\ UNCHANGED <<routed, retired, mutex, saved, loop, api, bounds, history>>

Recovers(d) ==
    /\ d \in routed \ answering /\ answering' = answering \union {d}
    /\ UNCHANGED <<routed, retired, mutex, saved, loop, api, bounds, history>>

\* runDeployment takes runtimeMu; switchRuntimeRoute puts its route in the place
\* of the one of its service, or it fails (AgentRouter in detail)
BeginDeployment ==
    /\ mutex = "free" /\ Deployments # routed \union retired
    /\ mutex' = "deployment"
    /\ UNCHANGED <<routed, retired, answering, saved, loop, api, bounds, history>>

EndDeployment ==
    /\ mutex = "deployment" /\ mutex' = "free"
    /\ \/ \E d \in routed, e \in Deployments \ (routed \union retired) :
             /\ routed' = (routed \ {d}) \union {e} /\ retired' = retired \union {d}
             /\ answering' = (answering \ {d}) \union {e}
       \/ UNCHANGED <<routed, retired, answering>>
    /\ UNCHANGED <<saved, loop, api, bounds, history>>

Tick ==
    /\ saved' = Written(saved, 1)
    /\ loop' = [c \in Connections |->
          IF loop[c].pc \in {"probe", "lock", "restart"} THEN [loop[c] EXCEPT !.age = Least(@ + 1, Cooldown)]
          ELSE loop[c]]
    /\ since' = [d \in Deployments |-> Least(since[d] + 1, 2 * Cooldown)]
    /\ UNCHANGED <<routed, retired, answering, mutex, api, bounds, overlapped, early, struck>>

-----------------------------------------------------------------------------
(* The control plane *)

\* recordStatus: the deployment that took the route of the service is READY, the
\* one before is not any more
RecordReady(d) ==
    /\ d \in routed \ ready
    /\ ready' = (ready \ retired) \union {d}
    /\ UNCHANGED <<agent, current, inbox, recording, health, bounds, history>>

\* recordRuntimeMetric asks for an active deployment of the node ...
ReadEligible(c) ==
    LET sample == Head(inbox[c])
    IN  /\ current = c /\ inbox[c] # <<>> /\ recording[c] = None
        /\ inbox' = [inbox EXCEPT ![c] = Tail(@)]
        /\ recording' = IF sample.dep \in ready \union routed THEN [recording EXCEPT ![c] = sample]
                        ELSE recording
        /\ UNCHANGED <<agent, current, ready, health, bounds, history>>

\* Mutant: the time of the report is not looked at.
NewerAny(sample) == sample.dep \in ready
\* runtime_health_checked_at < $4
Newer(sample) == sample.dep \in ready /\ health[sample.dep].at < sample.at

\* ... and writes what is new; its connection may have been replaced meanwhile
RecordHealth(c) ==
    LET sample == recording[c]
    IN  /\ sample # None
        /\ recording' = [recording EXCEPT ![c] = None]
        /\ health' = IF Newer(sample)
              THEN [health EXCEPT ![sample.dep] =
                       [state |-> sample.state, at |-> sample.at, restarts |-> @.restarts + sample.restarts]]
              ELSE health
        /\ UNCHANGED <<agent, current, inbox, ready, bounds, history>>

-----------------------------------------------------------------------------

Monitor(c) ==
    \/ Connect(c) \/ EndLoop(c) \/ Collect(c) \/ Probe(c) \/ Lock(c) \/ RestartRuntime(c)
    \/ Finish(c) \/ Report(c)
Control(c) == ReadEligible(c) \/ RecordHealth(c)

Next ==
    \/ \E c \in Connections : Monitor(c) \/ Control(c) \/ Disconnect(c)
    \/ \E d \in Deployments : Stops(d) \/ Recovers(d) \/ RecordReady(d)
    \/ AgentCrash \/ BeginDeployment \/ EndDeployment \/ Tick

Spec == Init /\ [][Next]_vars

-----------------------------------------------------------------------------
(* Properties *)

\* Automatic restarts of a runtime are accounted at least a cooldown apart,
\* through crashes, lost connections, recoveries and restarts that fail, as
\* long as the loops of two connections do not overlap (state.json).
RestartsAreSpaced == early = {}

\* The backend of a deployment that has been replaced is never restarted,
\* however long the restart waited for runtimeMu: it may be one that was
\* stopped so that its successor is the only writer of a volume.
ReplacedStaysDown == struck = {}

\* What the control plane shows of a deployment's health never gets older,
\* also when the handler of a lost connection is still recording.
HealthNeverOlder == [][\A d \in Deployments : health'[d].at >= health[d].at]_vars
=============================================================================
