----------------------------- MODULE BuildQueue ------------------------------
(***************************************************************************)
(* What the Build Engine promises, without builders, leases or pushes (ADR *)
(* 0023, ADR 0010): a build that was queued ends once, either failed,      *)
(* which creates no deployment, or pushed, and what is pushed is handed to *)
(* at most one deployment in the step that ends it.                        *)
(***************************************************************************)
EXTENDS Naturals, Sequences

CONSTANT MaxBuilds

VARIABLE build      \* in the order of the queue: "open", "failed", "pushed", "deployed"

Init == build = <<>>

\* one transaction may queue the builds of several services
Enqueue(n) ==
    /\ Len(build) + n <= MaxBuilds
    /\ build' = [i \in 1..(Len(build) + n) |-> IF i <= Len(build) THEN build[i] ELSE "open"]

End(i, outcome) ==
    /\ build[i] = "open"
    /\ build' = [build EXCEPT ![i] = outcome]

Next ==
    \/ \E n \in 1..MaxBuilds : Enqueue(n)
    \/ \E i \in DOMAIN build, outcome \in {"failed", "pushed", "deployed"} : End(i, outcome)

Spec == Init /\ [][Next]_build
=============================================================================
