-------------------------- MODULE MCRouteExecutor --------------------------
(* Three targets, the middle one on Copilot; one follow-up execution.      *)
EXTENDS RouteExecutor

AzureTargets == {1, 3}
RouteBudgets == {[targets |-> 1, sends |-> 2], [targets |-> 3, sends |-> 3]}
AllTargets == {1, 2, 3}
=============================================================================
