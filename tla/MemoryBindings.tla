--------------------------- MODULE MemoryBindings ---------------------------
(***************************************************************************)
(* The process-local binding store: proxy/state_binding.go, and the atomic *)
(* conversation claim of proxy/route_state_binding.go.                     *)
(*                                                                         *)
(* Entries live for an absolute time and are kept in order of use, so that *)
(* a full store drops the least recently used one.  Every operation is one *)
(* step under s.mu.  Time is relative: left is expiresAt - now, cut off at *)
(* zero, where the entry has expired and waits to be removed.              *)
(***************************************************************************)
EXTENDS Naturals, Sequences, SequencesExt, FiniteSets, Lists

CONSTANTS
  Tokens, Conversations, Owners,
  Unknown, Conflict,
  MaxEntries,     \* stateBindingStoreConfig.maxEntries
  TTL             \* stateBindingStoreConfig.ttl

VARIABLES
  recency,   \* the entries, the most recently used first
  age,       \* history: time since a token last got or confirmed its outcome
  bound      \* history: the last batch that was bound and may be exposed

vars == <<recency, age, bound>>

Outcomes == Owners \cup {Conflict}
Entry(t, o) == [token |-> t, is |-> o, left |-> TTL]
Stores == Seq([token : Tokens, is : Outcomes, left : 0 .. TTL])

IndexOf(s, t) == CHOOSE n \in DOMAIN s : s[n].token = t
Holds(s, t) == \E n \in DOMAIN s : s[n].token = t
Without(s, t) == IF Holds(s, t) THEN RemoveAt(s, IndexOf(s, t)) ELSE s
Live(s) == Kept(s, {e \in ToSet(s) : e.left > 0})

\* recency.MoveToFront, possibly of a changed entry.
ToFront(s, e) == <<e>> \o Without(s, e.token)
\* Mutant of Touch: using an entry extends its life.
TouchExtends(s, t) == ToFront(s, Entry(t, s[IndexOf(s, t)].is))
Touch(s, t) == ToFront(s, s[IndexOf(s, t)])

\* What a lookup of t finds in s.
Found(s, t) == IF Holds(Live(s), t) THEN s[IndexOf(s, t)].is ELSE Unknown

\* A lookup removes an expired entry and makes a live one the most recent.
Looked(s, t) ==
  IF ~Holds(s, t) THEN s
  ELSE IF Found(s, t) = Unknown THEN Without(s, t)
  ELSE Touch(s, t)

\* Room for one more: the oldest are dropped.
Evicted(s) == SubSeq(s, 1, IF Len(s) >= MaxEntries THEN MaxEntries - 1 ELSE Len(s))

\* A full store first drops what has expired.
MadeRoom(s) == Evicted(IF Len(s) >= MaxEntries THEN Live(s) ELSE s)

Batches == SetToAllKPermutations(Tokens) \ {<<>>}

-----------------------------------------------------------------------------
Init == /\ recency = <<>>
        /\ age = [t \in Tokens |-> TTL]
        /\ bound = {}

\* resolveWithRoute looks the tokens up one by one until they conflict; the
\* tokens looked up are a shorter request, so all of these are covered.
LookUp == [t \in Tokens |-> [s \in Stores |-> Looked(s, t)]]
Resolve(tokens) ==
  /\ recency' = After(LookUp, recency, tokens)
  /\ bound' = {}
  /\ UNCHANGED age

\* Mutant of Marked: another owner's entry is only made the most recent.
MarkedNothing(s, t, o) == IF ~Holds(s, t) THEN s ELSE Touch(s, t)

\* bindAll, first pass: a token that o does not own becomes a tombstone.
Marked(s, t, o) ==
  IF ~Holds(s, t) THEN s
  ELSE IF s[IndexOf(s, t)].is \in {o, Conflict} THEN Touch(s, t)
  ELSE ToFront(s, Entry(t, Conflict))
Mark(o) == [t \in Tokens |-> [s \in Stores |-> Marked(s, t, o)]]

\* bindAll, second pass: a token becomes o's, possibly once more.
Stored(s, t, o) ==
  IF Holds(s, t) THEN ToFront(s, Entry(t, o)) ELSE <<Entry(t, o)>> \o Evicted(s)
Store(o) == [t \in Tokens |-> [s \in Stores |-> Stored(s, t, o)]]

\* bindAllWithEvictionDelta, before a response of o is exposed.
Oversized(tokens) == Len(tokens) > MaxEntries

BindAll(tokens, o) ==
  LET keys   == ToSet(tokens)
      marked == After(Mark(o), Live(recency), tokens)
      taken  == {t \in keys : Found(recency, t) \in Owners \ {o}}
      fails  == \E t \in keys : Found(marked, t) = Conflict
  IN /\ ~Oversized(tokens)
     /\ recency' = IF fails THEN marked ELSE After(Store(o), marked, tokens)
     /\ age' = [t \in Tokens |-> IF t \in (IF fails THEN taken ELSE keys) THEN 0 ELSE age[t]]
     /\ bound' = IF fails THEN {} ELSE {<<t, o>> : t \in keys}

\* resolveOrBindConversationForRoute, with the bootstrap target of its route.
Claim(t, o) ==
  /\ t \in Conversations
  /\ IF Found(recency, t) # Unknown
       THEN /\ recency' = Touch(recency, t)
            /\ UNCHANGED age
            /\ bound' = {}
       ELSE /\ recency' = <<Entry(t, o)>> \o MadeRoom(Without(recency, t))
            /\ age' = [age EXCEPT ![t] = 0]
            /\ bound' = {<<t, o>>}

\* stats, like every batch, removes what has expired.
Stats == /\ recency' = Live(recency)
         /\ bound' = {}
         /\ UNCHANGED age

Tick == /\ recency' = [n \in DOMAIN recency |->
                         [recency[n] EXCEPT !.left = IF @ = 0 THEN 0 ELSE @ - 1]]
        /\ age' = [t \in Tokens |-> IF age[t] = TTL THEN TTL ELSE age[t] + 1]
        /\ bound' = {}

Next == \/ \E tokens \in Batches : Resolve(tokens)
        \/ \E tokens \in Batches, o \in Owners : BindAll(tokens, o)
        \/ \E t \in Tokens, o \in Owners : Claim(t, o)
        \/ Stats
        \/ Tick

Spec == Init /\ [][Next]_vars

-----------------------------------------------------------------------------
\* One entry per token, no more entries than the limit.
TypeOK ==
  /\ recency \in Stores
  /\ Len(recency) <= MaxEntries
  /\ \A m, n \in DOMAIN recency : recency[m].token = recency[n].token => m = n
  /\ age \in [Tokens -> 0 .. TTL]
  /\ bound \in SUBSET (Tokens \X Owners)

\* A batch that was bound is in the store as a whole: making room for one of
\* its tokens never drops another, whatever the order of use was before.
BatchComplete == \A b \in bound : Found(recency, b[1]) = b[2]

\* An owner or a tombstone lives for TTL after the observation that set or
\* confirmed it, not longer: lookups, claims that find it, failed batches and
\* tombstones observed again move it in the order of use only.
AbsoluteLifetime ==
  \A n \in DOMAIN recency : recency[n].left + age[recency[n].token] = TTL

\* The store keeps the promise of StateOwnership: expiry and eviction forget;
\* nothing else takes an owner or a tombstone away, and a batch that collides
\* grants none of its new tokens.
Ownership == INSTANCE StateOwnership WITH
               authority <- [t \in Tokens |-> Found(recency, t)]
OwnershipKept ==
  Ownership!Init /\ [][recency' # recency => Ownership!Next]_recency
=============================================================================
