----------------------------- MODULE RouteStore ------------------------------
(***************************************************************************)
(* What the runtime router of a node promises, without files, containers   *)
(* or processes (ADR 0015): every service has at most one active           *)
(* deployment, it becomes active only after its backend answered its own   *)
(* healthcheck, and a deployment that was replaced comes back only when it *)
(* was asked for again.                                                    *)
(***************************************************************************)
CONSTANTS Services, Deployments, ServiceOf, NoDeployment

VARIABLES
    active,     \* service -> the deployment its stable listener stands for
    healthy,    \* deployments whose backend passed direct health
    retired,    \* deployments that were active and are not any more
    again       \* deployments asked for more than once

vars == <<active, healthy, retired, again>>

Init ==
    /\ active = [s \in Services |-> NoDeployment]
    /\ healthy = {}
    /\ retired = {}
    /\ again = {}

Validate(d) ==
    /\ healthy' = healthy \union {d}
    /\ UNCHANGED <<active, retired, again>>

AskAgain(d) ==
    /\ again' = again \union {d}
    /\ UNCHANGED <<active, healthy, retired>>

\* one atomic switch: there is no state in which the service has no deployment
Promote(d) ==
    LET old == active[ServiceOf[d]]
    IN  /\ d \in healthy \ (retired \ again)
        /\ active' = [active EXCEPT ![ServiceOf[d]] = d]
        /\ retired' = (retired \union {old}) \ {d, NoDeployment}
        /\ UNCHANGED <<healthy, again>>

Next == \E d \in Deployments : Validate(d) \/ AskAgain(d) \/ Promote(d)

Spec == Init /\ [][Next]_vars
=============================================================================
