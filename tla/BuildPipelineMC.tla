-------------------------- MODULE BuildPipelineMC ---------------------------
(***************************************************************************)
(* Instances of BuildPipeline for TLC.  The services follow their first    *)
(* branch and deploy to the first node when the runs begin.                *)
(***************************************************************************)
EXTENDS BuildPipeline

CONSTANTS s1, n1, main

OwnId == [b \in Builders |-> b]

\* One service, in trouble or being changed, or two services left in peace.
Beginnings ==
    {[followers |-> {s1}, used |-> [changes |-> MaxChanges, mishaps |-> 0]],
     [followers |-> {s1}, used |-> [changes |-> 0, mishaps |-> MaxMishaps]],
     [followers |-> Services, used |-> [changes |-> MaxChanges, mishaps |-> MaxMishaps]]}

ConfiguredInit ==
    \E beginning \in Beginnings :
        /\ active = Services /\ online = Nodes
        /\ source = [s \in Services |-> IF s \in beginning.followers THEN main ELSE NoBranch]
        /\ autodeploy = [s \in Services |->
              IF s \in beginning.followers THEN [branch |-> main, node |-> n1, enabled |-> TRUE] ELSE NoTarget]
        /\ asked = {}
        /\ pushes = <<>> /\ jobs = <<>> /\ registry = {} /\ deployments = <<>>
        /\ builder = [b \in Builders |-> Idle]
        /\ used = beginning.used

ConfiguredSpec == ConfiguredInit /\ [][Next]_vars
ConfiguredFairSpec == ConfiguredSpec /\ Fairness
=============================================================================
