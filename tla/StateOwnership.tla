--------------------------- MODULE StateOwnership ---------------------------
(***************************************************************************)
(* What the state binding store promises about a provider's continuation   *)
(* tokens, whether it keeps them in memory or on disk: an owner learned    *)
(* for a token is never replaced by another one.  It can only become a     *)
(* conflict, which no observation resolves, or be forgotten.  The tokens   *)
(* of one response get their owner together or not at all.                 *)
(***************************************************************************)
CONSTANTS
  Tokens,
  Owners,
  Unknown,    \* stateBindingLookupUnknown
  Conflict    \* stateBindingLookupConflict, the tombstone

VARIABLE authority

Authorities == Owners \cup {Unknown, Conflict}

Init == authority = [t \in Tokens |-> Unknown]

Gains(t, o) == authority[t] = Unknown /\ authority'[t] = o
Collides(t) == authority[t] \in Owners /\ authority'[t] = Conflict
Forgotten(t) == authority'[t] = Unknown
Same(t) == authority'[t] = authority[t]

\* A response of o: some new tokens are o's from now on; the store may drop
\* others for them.
Grant(o) == \A t \in Tokens : Gains(t, o) \/ Forgotten(t) \/ Same(t)

\* A response with tokens that others own: none of its new tokens is granted.
Collision == \A t \in Tokens : Collides(t) \/ Same(t)

\* Expiry, eviction, pruning.
Forget == \A t \in Tokens : Forgotten(t) \/ Same(t)

Next == /\ authority' \in [Tokens -> Authorities]
        /\ Collision \/ Forget \/ \E o \in Owners : Grant(o)

Spec == Init /\ [][Next]_authority
=============================================================================
