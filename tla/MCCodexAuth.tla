---------------------------- MODULE MCCodexAuth ----------------------------
(* Model values for CodexAuth: two proxies with one caller each, which may  *)
(* be exchanged.                                                            *)
EXTENDS CodexAuth, TLC

CONSTANTS p1, p2

MCHome == p1 :> p1 @@ p2 :> p2

Exchange == Permutations({p1, p2})

=============================================================================
