----------------------------- MODULE ReplayStore -----------------------------
(***************************************************************************)
(* The store that lets a Chat client continue a Responses turn:            *)
(* proxy/responses_chat_replay.go.                                         *)
(*                                                                         *)
(* A turn that ends in tool calls is published as a group under call IDs   *)
(* the proxy makes; the client sends these back with the results.  The     *)
(* store keeps the groups, an index from call ID to group, a list in order *)
(* of use and a count of bytes, and every operation has to keep the four   *)
(* in step: groups expire, are evicted by number and by bytes, and an ID   *)
(* that has left the index may be made again.                              *)
(***************************************************************************)
EXTENDS Integers, Sequences, FiniteSets, FiniteSetsExt, SequencesExt, Lists

CONSTANTS
  CallIDs,             \* call IDs the proxy can make
  Routes,              \* provider and model of a group
  Sizes,               \* byte sizes of a group
  TTL, MaxGroups, MaxTotalBytes, MaxCalls,
  MaxPublishes, MaxNow \* bounds: groups published, and the clock

VARIABLES
  groups,              \* by group ID
  callsByID, lru, totalBytes, nextGroupID, closed,
  now,
  recency              \* history: groups in the order of their last use

vars == <<groups, callsByID, lru, totalBytes, nextGroupID, closed, now,
          recency>>
storeVars == <<groups, callsByID, lru, totalBytes, nextGroupID>>

Empty == [x \in {} |-> {}]

Init ==
  /\ groups = Empty
  /\ callsByID = Empty
  /\ lru = <<>>
  /\ totalBytes = 0
  /\ nextGroupID = 0
  /\ closed = FALSE
  /\ now = 0
  /\ recency = <<>>

(***************************************************************************)
(* What the operations do with the lock held.  A store is a record of the  *)
(* four parts, so that an operation is a composition of these.             *)
(***************************************************************************)
Store == [groups |-> groups, index |-> callsByID, lru |-> lru,
          bytes |-> totalBytes]

Restricted(f, S) == [x \in S |-> f[x]]

\* The bytes of the groups of S.
Size(gs, S) == MapThenSumSet(LAMBDA g : gs[g].size, S)

\* Mutant of RemoveGroups: the call IDs stay in the index.
RemoveGroupsOnly(s, gone) ==
  [groups |-> Restricted(s.groups, DOMAIN s.groups \ gone),
   index |-> s.index,
   lru |-> Dropped(s.lru, gone),
   bytes |-> s.bytes - Size(s.groups, gone)]

\* removeGroupLocked, for several groups: an index entry goes only if it still
\* refers to the group.
RemoveGroups(s, gone) ==
  [groups |-> Restricted(s.groups, DOMAIN s.groups \ gone),
   index |-> Restricted(s.index,
               {c \in DOMAIN s.index :
                  ~(s.index[c] \in gone /\ c \in s.groups[s.index[c]].calls)}),
   lru |-> Dropped(s.lru, gone),
   bytes |-> LET left == s.bytes - Size(s.groups, gone)
             IN IF left < 0 THEN 0 ELSE left]

Expire(s) == RemoveGroups(s, {g \in DOMAIN s.groups :
                                now >= s.groups[g].expiresAt})

Inserted(s, id, group) ==
  [groups |-> [g \in DOMAIN s.groups \cup {id} |->
                 IF g = id THEN group ELSE s.groups[g]],
   index |-> [c \in DOMAIN s.index \cup group.calls |->
                IF c \in group.calls THEN id ELSE s.index[c]],
   lru |-> Append(s.lru, id),
   bytes |-> s.bytes + group.size]

\* enforceLimitsLocked: the groups at the front of the list go, one by one,
\* until both limits hold.
WithinLimits(s) ==
  Cardinality(DOMAIN s.groups) <= MaxGroups /\ s.bytes <= MaxTotalBytes
WithoutFront(s, n) == RemoveGroups(s, Range(SubSeq(s.lru, 1, n)))
EnforceLimits(s) ==
  WithoutFront(s, Min({n \in 0 .. Len(s.lru) :
                         WithinLimits(WithoutFront(s, n)) \/ n = Len(s.lru)}))

\* Mutant of Touched: a lookup leaves the list alone.
TouchedNever(s, id) == s

\* Resolve moves a group to the back of the list.
Touched(s, id) ==
  [s EXCEPT !.lru = Append(Dropped(@, {id}), id)]

Becomes(s) ==
  /\ groups' = s.groups
  /\ callsByID' = s.index
  /\ lru' = s.lru
  /\ totalBytes' = s.bytes

Used(id) ==
  recency' = Append(Kept(recency, DOMAIN groups' \ {id}), id)
NothingUsed == recency' = Kept(recency, DOMAIN groups')

(***************************************************************************)
(* The operations                                                          *)
(***************************************************************************)
\* The IDs made for the calls are not in the index after the expiry.
Publish(route, size, calls) ==
  LET kept == Expire(Store) IN
  /\ ~closed
  /\ nextGroupID < MaxPublishes
  /\ calls \cap DOMAIN kept.index = {}
  /\ nextGroupID' = nextGroupID + 1
  /\ Becomes(EnforceLimits(Inserted(kept, nextGroupID',
               [route |-> route, size |-> size, calls |-> calls,
                expiresAt |-> now + TTL])))
  /\ Used(nextGroupID')
  /\ UNCHANGED <<closed, now>>

\* A group for which the random source fails: only the expiry remains.
PublishFails ==
  /\ ~closed
  /\ Becomes(Expire(Store))
  /\ NothingUsed
  /\ UNCHANGED <<nextGroupID, closed, now>>

\* Resolve finds the calls in one group of the route, and they are all of the
\* group's.  The rest of the comparison with the stored projection may fail.
Found(s, route, calls, id) ==
  /\ \A c \in calls : c \in DOMAIN s.index /\ s.index[c] = id
  /\ s.groups[id].route = route
  /\ s.groups[id].calls = calls
Resolve(route, calls) ==
  LET kept == Expire(Store) IN
  /\ ~closed
  /\ \/ \E id \in DOMAIN kept.groups :
          /\ Found(kept, route, calls, id)
          /\ Becomes(Touched(kept, id))
          /\ Used(id)
     \/ Becomes(kept) /\ NothingUsed
  /\ UNCHANGED <<nextGroupID, closed, now>>

Close ==
  /\ ~closed
  /\ closed' = TRUE
  /\ groups' = Empty
  /\ callsByID' = Empty
  /\ lru' = <<>>
  /\ totalBytes' = 0
  /\ recency' = <<>>
  /\ UNCHANGED <<nextGroupID, now>>

Tick ==
  /\ now < MaxNow
  /\ now' = now + 1
  /\ UNCHANGED <<storeVars, closed, recency>>

Turns == {S \in SUBSET CallIDs : S # {} /\ Cardinality(S) <= MaxCalls}

Next ==
  \/ \E route \in Routes, size \in Sizes, calls \in Turns :
       Publish(route, size, calls)
  \/ PublishFails
  \/ \E route \in Routes, calls \in Turns : Resolve(route, calls)
  \/ Close
  \/ Tick

Spec == Init /\ [][Next]_vars

(***************************************************************************)
(* Properties                                                              *)
(***************************************************************************)
\* The four parts tell the same: the list holds every group once, the count
\* is the sum of the sizes, and every call ID of a group leads to it and none
\* leads elsewhere.  A count that drifts evicts groups that fit or keeps more
\* than the limit; an entry that is left resolves to a group that is gone.
StoreConsistent ==
  /\ Range(lru) = DOMAIN groups /\ Len(lru) = Cardinality(DOMAIN groups)
  /\ totalBytes = Size(groups, DOMAIN groups)
  /\ DOMAIN callsByID = UNION {groups[g].calls : g \in DOMAIN groups}
  /\ \A c \in DOMAIN callsByID : c \in groups[callsByID[c]].calls

\* The group just published stays, and what goes for it has expired, or does
\* not fit with it and with those groups that were used more recently.
UsedSince(g, live) ==
  {h \in live : \E i, j \in 1 .. Len(recency) :
                  recency[i] = g /\ recency[j] = h /\ i <= j}
Fits(old, new) ==
  /\ Cardinality(old) + 1 <= MaxGroups
  /\ Size(groups, old) + new.size <= MaxTotalBytes
EvictsOldest ==
  [][nextGroupID' > nextGroupID =>
       LET live == {g \in DOMAIN groups : now < groups[g].expiresAt} IN
       /\ nextGroupID' \in DOMAIN groups'
       /\ \A g \in live :
            g \in DOMAIN groups' <=>
              Fits(UsedSince(g, live), groups'[nextGroupID'])]_vars
=============================================================================
