---------------------------- MODULE ReplaySafety ----------------------------
(***************************************************************************)
(* What a caller of the route executor relies on, without targets,         *)
(* budgets, permits or retries.  One request is handed in, an upstream may *)
(* run it, and one verdict comes back.  The upstream runs a request at     *)
(* most once, and a verdict "not_executed" (the caller may send the        *)
(* request again) is given only if no upstream ran it.                     *)
(***************************************************************************)
EXTENDS Naturals

VARIABLES
  open,     \* a request is being executed
  runs,     \* how many upstreams ran it
  verdict   \* what the caller was told about the last request

vars == <<open, runs, verdict>>

Verdicts == {"none", "accepted", "uncertain", "not_executed"}

Init == open = TRUE /\ runs = 0 /\ verdict = "none"

\* An upstream runs the request.
Run == /\ open
       /\ runs = 0
       /\ runs' = 1
       /\ UNCHANGED <<open, verdict>>

\* The executor answers, possibly in the step in which it learns of the run.
Answer == /\ open
          /\ open' = FALSE
          /\ runs' \in {runs, 1}
          /\ verdict' \in Verdicts \ {"none"}
          /\ verdict' = "not_executed" => runs' = 0

\* The caller hands in another request of the same operation.
Request == /\ ~open
           /\ open' = TRUE
           /\ runs' = 0
           /\ verdict' = "none"

Next == Run \/ Answer \/ Request

Spec == Init /\ [][Next]_vars
=============================================================================
