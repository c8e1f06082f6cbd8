---------------------------- MODULE MCLifecycle ----------------------------
(* Model values for Lifecycle; the cfg gives them: two Starts against two   *)
(* Stops, one request with one wrapper, and one detached worker.            *)
EXTENDS Lifecycle

=============================================================================
