--------------------------- MODULE MCPendingPlans ---------------------------
(* PendingPlans on small instances: which requests may fail.               *)
EXTENDS PendingPlans

NoFaults == {}
AnyFault == Kinds \X FaultKinds
TakeRefused == {<<"take", "refused">>}
=============================================================================
