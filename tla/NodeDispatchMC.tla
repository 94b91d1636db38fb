--------------------------- MODULE NodeDispatchMC ---------------------------
(* Values for the runs of NodeDispatch *)
EXTENDS NodeDispatch

OneService == "web"
OneDeployment == 1..1
TwoDeployments == 1..2
TwoAndRollback == 1..3
AllWeb == [d \in Deployments |-> OneService]
WebServices == {OneService}
=============================================================================
