------------------------- MODULE AuthenticatorProofs -------------------------
(***************************************************************************)
(* Proofs about Authenticator: no token of an ended session survives its   *)
(* sign-out or is given out later, a bearer keeps the fingerprint of its   *)
(* credential, what the GitHub CLI reports stays in memory, and a call     *)
(* counts its waiters, for any number of callers, calls and sign-outs.     *)
(*                                                                         *)
(* The argument: what memory and disk hold is of the present session, or   *)
(* of the next one once SignOut wiped them, because nobody else may have   *)
(* mu until it is over.  A call keeps the generation it was created in,    *)
(* and its credential is not older: a caller that reads the generation     *)
(* again and finds the same one is given a token of this session.          *)
(***************************************************************************)
EXTENDS Authenticator, FiniteSetTheorems, TLAPS

\* The session that a token belongs to when it is kept now.
Session == IF signOut = "advance" THEN generation + 1 ELSE generation

\* What a section under mu finds and leaves.
InSession(st) ==
  /\ st.mem.access # None =>
       /\ st.mem.access.account \notin GhAccounts
       /\ st.mem.access.born = Session \/ st.mem.access.account \in EnvAccounts
  /\ st.mem.bearer # None =>
       /\ Paired(st.mem.bearer)
       /\ st.mem.bearer.born = Session \/ st.mem.bearer.issuer \in EnvAccounts
  /\ st.disk.access # None =>
       /\ st.disk.access.account \notin GhAccounts
       /\ st.disk.access.born = Session
  /\ st.disk.cache # None =>
       /\ Paired(st.disk.cache) /\ st.disk.cache.issuer \notin GhAccounts
       /\ st.disk.cache.born = Session \/ st.disk.cache.issuer \in EnvAccounts

TokenInv == InSession(Tokens)

\* SignOut has a generation left, and memory stays empty while it has mu.
SignOutInv ==
  signOut \in {"cancelRefresh", "cancelDevice", "cancelResponses", "gate", "wipe", "advance"}
    => generation < MaxSignOuts

\* The credential of a call is not older than the call.
Fresh(b, since) ==
  b # None => \/ b.issuer \in EnvAccounts
              \/ since <= b.born /\ b.born <= generation

CallOK(s, r) ==
  /\ r.pc = "free" => r = NoCall
  /\ r.generation <= generation
  /\ Paired(r.credential)
  /\ s \notin ResponsesSlots => Fresh(r.credential, r.generation)
  /\ s \in ResponsesSlots => r.credential = None \/ r.credential = BearerOf(r.source)
  /\ s \in ResponsesSlots /\ r.pc # "free" => r.source # None
  /\ r.pc \in {"ended", "done"} /\ r.err = "none" => r.credential # None

\* A client knows the call that it waits for, and has a credential to exchange.
ClientOK(r) ==
  /\ r.stage = "idle" => r.step = "none"
  /\ r.step \in {"wait", "check"} => r.call \in SlotsOf(r.stage)
  /\ r.step \in {"none", "ask"} => r.call = None
  /\ r.stage = "responses" => r.credential # None
  /\ Paired(r.credential)

\* A device login asks while its call is before or after the prompt.
DeviceOK(r, k) ==
  /\ r.stage \in {"idle", "refresh"}
  /\ r.stage = "refresh" => r.mode = "quiet"
  /\ r # Resting => k.pc \in {"before", "after"}
  /\ k.pc \in {"before", "after"} /\ r.stage = "idle" /\ r.err = "none" => r.credential # None
  /\ Fresh(r.credential, k.generation)

CallInv   == \A s \in Slots : CallOK(s, call[s])
ClientInv == \A c \in Clients : ClientOK(client[c])
DeviceInv == \A d \in DeviceSlots : DeviceOK(client[d], call[d])

\* A call stays completed while somebody reads its result.
CheckInv == \A c \in Clients : client[c].step = "check" => call[client[c].call].pc = "done"

WaitingFor(s) == {c \in Clients : client[c].step = "wait" /\ client[c].call = s}
CountInv   == \A s \in Slots : call[s].waiters = Cardinality(WaitingFor(s))
CurrentInv ==
  \A k \in Stages : current[k] # None =>
    /\ ~call[current[k]].abandoned /\ call[current[k]].waiters > 0
    /\ call[current[k]].pc \notin {"free", "done"}

SharedInv == CallInv /\ ClientInv /\ DeviceInv /\ CheckInv /\ CountInv /\ CurrentInv
IInv == TypeOK /\ TokenInv /\ SignOutInv /\ SharedInv

-----------------------------------------------------------------------------
(* What the sections under mu leave.                                         *)

Sections == [mem : [access : Credential \cup {None}, bearer : Bearer \cup {None}],
             disk : Directory, faults : 0 .. MaxFaults, err : Answers \cup {"unset"}]

Good(st)  == st \in Sections /\ InSession(st)
\* It says that it has a bearer only if memory holds one.
Served(st) == Good(st) /\ (st.err = "none" => st.mem.bearer # None)
Settled(st) == Served(st) /\ st.err \in Answers

\* A credential that may be used now.
Usable(t) == t \in Credential /\ (t.born = Session \/ t.account \in EnvAccounts)

LEMMA BearerFields ==
  ASSUME NEW t \in Credential
  PROVE  /\ BearerOf(t) \in Bearer /\ BearerOf(t) # None
         /\ BearerOf(t).issuer = t.account /\ BearerOf(t).born = t.born
         /\ Paired(BearerOf(t))
<1>1. BearerOf(t) \in Bearer
  BY DEF BearerOf, Bearer, Credential
<1> QED
  BY <1>1, TokenAssumption DEF BearerOf, Paired

\* A section that fails keeps what it had.
LEMMA FailedGood ==
  ASSUME NEW st, Good(st), NEW e \in Answers \cup {"unset"}
  PROVE  /\ Good(Failed(st, e)) /\ Failed(st, e).err = e
         /\ Failed(st, e).mem = st.mem /\ Failed(st, e).disk = st.disk
  BY DEF Good, Sections, Failed, InSession

LEMMA FaultyGood ==
  ASSUME NEW st, Good(st), MaxFaults \in Nat, NEW u \in Faulty(st)
  PROVE  Good(u) /\ u.err = "other" /\ u.mem = st.mem /\ u.disk = st.disk
<1>1. st.faults \in 0 .. MaxFaults /\ st.faults # MaxFaults
  BY DEF Good, Sections, Faulty
<1>2. st.faults + 1 \in 0 .. MaxFaults
  BY <1>1
<1>3. u = [st EXCEPT !.faults = st.faults + 1, !.err = "other"]
  BY <1>1 DEF Faulty, Good, Sections
<1> QED
  BY <1>2, <1>3 DEF Good, Sections, Answers, InSession

\* Memory takes another bearer, or another credential.
LEMMA TakeBearer ==
  ASSUME NEW st, Good(st), NEW t, Usable(t)
  PROVE  LET u == [st EXCEPT !.mem.bearer = BearerOf(t), !.err = "none"]
         IN  /\ Good(u) /\ u.mem.bearer # None /\ u.err = "none"
             /\ u.disk = st.disk /\ u.mem.access = st.mem.access
<1> DEFINE b == BearerOf(t)
           u == [st EXCEPT !.mem.bearer = BearerOf(t), !.err = "none"]
           v == [st EXCEPT !.mem.bearer = b, !.err = "none"]
<1>1. b \in Bearer /\ b # None /\ Paired(b) /\ b.issuer = t.account /\ b.born = t.born
  BY BearerFields DEF Usable
<1>2. b.born = Session \/ b.issuer \in EnvAccounts
  BY <1>1 DEF Usable
<1>3. u = v
  OBVIOUS
<1> HIDE DEF b, u
<1>4. v \in Sections
  BY <1>1 DEF Good, Sections, Answers
<1>5. /\ v.mem.bearer = b /\ v.err = "none"
      /\ v.disk = st.disk /\ v.mem.access = st.mem.access
  BY DEF Good, Sections
<1>6. InSession(v)
  BY <1>1, <1>2, <1>5 DEF Good, InSession
<1> HIDE DEF v
<1>7. /\ Good(u) /\ u.mem.bearer # None /\ u.err = "none"
      /\ u.disk = st.disk /\ u.mem.access = st.mem.access
  BY <1>1, <1>3, <1>4, <1>5, <1>6 DEF Good
<1> QED
  BY <1>7 DEF u

LEMMA TakeAccess ==
  ASSUME NEW st, Good(st), NEW t \in Credential \cup {None},
         t # None => Usable(t) /\ t.account \notin GhAccounts
  PROVE  LET u == [st EXCEPT !.mem.access = t]
         IN  /\ Good(u) /\ u.mem.access = t /\ u.mem.bearer = st.mem.bearer
             /\ u.err = st.err /\ u.disk = st.disk
<1> DEFINE u == [st EXCEPT !.mem.access = t]
<1>1. u \in Sections
  BY DEF Good, Sections
<1>2. /\ u.mem.access = t /\ u.mem.bearer = st.mem.bearer
      /\ u.err = st.err /\ u.disk = st.disk
  BY DEF Good, Sections
<1>3. InSession(u)
  BY <1>2 DEF Good, InSession, Usable
<1> QED
  BY <1>1, <1>2, <1>3 DEF Good

\* The cache on disk takes a bearer that is not from the GitHub CLI.
LEMMA SaveBearer ==
  ASSUME NEW st, Good(st), NEW t, Usable(t), t.account \notin GhAccounts
  PROVE  LET u == [st EXCEPT !.disk.cache = BearerOf(t)]
         IN  Good(u) /\ u.mem = st.mem /\ u.err = st.err
<1> DEFINE b == BearerOf(t)
           u == [st EXCEPT !.disk.cache = b]
<1>1. b \in Bearer /\ b # None /\ Paired(b) /\ b.issuer = t.account /\ b.born = t.born
  BY BearerFields DEF Usable
<1>2. b.born = Session \/ b.issuer \in EnvAccounts
  BY <1>1 DEF Usable
<1> HIDE DEF b
<1>3. u \in Sections
  BY <1>1 DEF Good, Sections, Directory
<1>4. /\ u.disk.cache = b /\ u.disk.access = st.disk.access
      /\ u.mem = st.mem /\ u.err = st.err
  BY DEF Good, Sections, Directory
<1>5. b.issuer \notin GhAccounts
  BY <1>1
<1>6. InSession(u)
  BY <1>1, <1>2, <1>4, <1>5 DEF Good, InSession
<1> QED
  BY <1>3, <1>4, <1>6 DEF Good, b

\* A section that removes a file, or rewrites a setting.
LEMMA LessOnDisk ==
  ASSUME NEW st, Served(st)
  PROVE  /\ Served([st EXCEPT !.disk.access = None])
         /\ Served([st EXCEPT !.disk.cache = None])
         /\ Served([st EXCEPT !.disk.marker = FALSE])
         /\ \A b \in BOOLEAN : Served([st EXCEPT !.disk.auto = b])
         /\ [st EXCEPT !.disk.access = None].err = st.err
         /\ [st EXCEPT !.disk.cache = None].err = st.err
         /\ [st EXCEPT !.disk.marker = FALSE].err = st.err
         /\ \A b \in BOOLEAN : [st EXCEPT !.disk.auto = b].err = st.err
<1>1. ASSUME NEW u \in Sections, u.mem = st.mem, u.err = st.err,
             u.disk.access \in {None, st.disk.access}, u.disk.cache \in {None, st.disk.cache}
      PROVE  Served(u)
  BY <1>1 DEF Served, Good, InSession
<1>2. Served([st EXCEPT !.disk.access = None])
  <2> DEFINE u == [st EXCEPT !.disk.access = None]
  <2>1. /\ u \in Sections /\ u.mem = st.mem /\ u.err = st.err
        /\ u.disk.access = None /\ u.disk.cache = st.disk.cache
    BY DEF Served, Good, Sections, Directory
  <2> QED
    BY <2>1, <1>1
<1>3. Served([st EXCEPT !.disk.cache = None])
  <2> DEFINE u == [st EXCEPT !.disk.cache = None]
  <2>1. /\ u \in Sections /\ u.mem = st.mem /\ u.err = st.err
        /\ u.disk.access = st.disk.access /\ u.disk.cache = None
    BY DEF Served, Good, Sections, Directory
  <2> QED
    BY <2>1, <1>1
<1>4. Served([st EXCEPT !.disk.marker = FALSE])
  <2> DEFINE u == [st EXCEPT !.disk.marker = FALSE]
  <2>1. /\ u \in Sections /\ u.mem = st.mem /\ u.err = st.err
        /\ u.disk.access = st.disk.access /\ u.disk.cache = st.disk.cache
    BY DEF Served, Good, Sections, Directory
  <2> QED
    BY <2>1, <1>1
<1>5. ASSUME NEW b \in BOOLEAN PROVE Served([st EXCEPT !.disk.auto = b])
  <2> DEFINE u == [st EXCEPT !.disk.auto = b]
  <2>1. /\ u \in Sections /\ u.mem = st.mem /\ u.err = st.err
        /\ u.disk.access = st.disk.access /\ u.disk.cache = st.disk.cache
    BY DEF Served, Good, Sections, Directory
  <2> QED
    BY <2>1, <1>1
<1> QED
  BY <1>2, <1>3, <1>4, <1>5 DEF Served, Good, Sections, Directory

\* A section that failed serves nobody.
LEMMA FailedSettled ==
  ASSUME NEW st, Good(st), NEW e \in {"login", "other"}
  PROVE  Settled(Failed(st, e))
  BY FailedGood DEF Settled, Served, Answers

LEMMA FaultySettled ==
  ASSUME NEW st, Good(st), NEW u \in Faulty(st)
  PROVE  Settled(u)
  BY FaultyGood, BoundAssumption DEF Settled, Served, Answers

LEMMA UseCredentialSettled ==
  ASSUME NEW st, Good(st), NEW t, Usable(t), NEW persist \in BOOLEAN,
         persist => t.account \notin GhAccounts,
         NEW u \in UseCredential(st, t, persist)
  PROVE  /\ Settled(u)
         /\ u.mem.access = st.mem.access
         /\ u.disk.access = st.disk.access
<1> DEFINE got == [st EXCEPT !.mem.bearer = BearerOf(t), !.err = "none"]
<1>0. {"none", "login", "other"} \subseteq Answers
  BY DEF Answers
<1>1. /\ Good(got) /\ got.mem.bearer # None /\ got.err = "none"
      /\ got.disk = st.disk /\ got.mem.access = st.mem.access
  BY TakeBearer
<1>2. CASE u = got
  BY <1>1, <1>2 DEF Settled, Served, Answers
<1>3. CASE u \in {Failed(st, "login"), Failed(st, "other")}
  <2>1. PICK e \in {"login", "other"} : u = Failed(st, e)
    BY <1>3
  <2>2. u.mem = st.mem /\ u.disk = st.disk
    BY <1>0, <2>1, FailedGood
  <2> QED
    BY <2>1, <2>2, FailedSettled
<1>4. CASE persist /\ u = [got EXCEPT !.disk.cache = BearerOf(t)]
  <2> HIDE DEF got
  <2>1. Good(u) /\ u.mem = got.mem /\ u.err = got.err
    BY <1>1, <1>4, SaveBearer
  <2>2. u.disk.access = got.disk.access
    BY <1>1, <1>4 DEF Good, Sections, Directory
  <2> QED
    BY <1>1, <2>1, <2>2 DEF Settled, Served, Answers
<1>5. CASE persist /\ u \in Faulty(got)
  <2> HIDE DEF got
  <2>1. Good(u) /\ u.err = "other" /\ u.mem = got.mem /\ u.disk = got.disk
    BY <1>1, <1>5, FaultyGood, BoundAssumption
  <2> QED
    BY <1>1, <2>1 DEF Settled, Served, Answers
<1>6. \/ u = got \/ u \in {Failed(st, "login"), Failed(st, "other")}
      \/ persist /\ u = [got EXCEPT !.disk.cache = BearerOf(t)]
      \/ persist /\ u \in Faulty(got)
  <2> HIDE DEF got
  <2> QED
    BY Zenon DEF UseCredential, got
<1> QED
  BY <1>2, <1>3, <1>4, <1>5, <1>6

\* The steps below are taken by whoever holds mu, never before SignOut is
\* through with the session that it ends.
LEMMA SessionNow ==
  ASSUME TypeOK, SignOutInv
  PROVE  /\ Session \in 0 .. MaxSignOuts
         /\ MuFree => Session = generation
  BY BoundAssumption DEF TypeOK, SignOutInv, Session, MuFree

LEMMA UseGitHubCLISettled ==
  ASSUME TypeOK, SignOutInv, MuFree, NEW st, Good(st), NEW u \in UseGitHubCLI(st)
  PROVE  Settled(u)
<1>1. CASE u \in {Failed(st, "login"), Failed(st, "other")}
  BY <1>1, FailedSettled
<1>2. CASE u \notin {Failed(st, "login"), Failed(st, "other")}
  <2> DEFINE T(g) == [account |-> g, born |-> generation]
             From(g) == LET used == UseCredential(st, T(g), FALSE)
                        IN  {w \in used : w.err # "none"}
                              \cup {Failed(w, "other") : w \in {v \in used : v.err = "none"}}
                              \cup {[w EXCEPT !.mem.access = None] : w \in {v \in used : v.err = "none"}}
  <2>0. UseGitHubCLI(st) = {Failed(st, "login"), Failed(st, "other")} \cup UNION {From(g) : g \in GhAccounts}
    BY Zenon DEF UseGitHubCLI
  <2>g. PICK g \in GhAccounts : u \in From(g)
    <3> HIDE DEF From
    <3> QED
      BY <1>2, <2>0
  <2> DEFINE t == T(g)
  <2>1. \/ u \in UseCredential(st, t, FALSE)
        \/ \E v \in UseCredential(st, t, FALSE) : v.err = "none" /\ u = Failed(v, "other")
        \/ \E v \in UseCredential(st, t, FALSE) : v.err = "none" /\ u = [v EXCEPT !.mem.access = None]
    <3> HIDE DEF T
    <3> QED
      BY <2>g, Zenon
  <2>2. Usable(t)
    BY SessionNow, AccountAssumption DEF Usable, Credential, TypeOK
  <2> HIDE DEF t
  <2>3. ASSUME NEW v \in UseCredential(st, t, FALSE) PROVE Settled(v)
    BY <2>2, UseCredentialSettled
  <2>4. CASE u \in UseCredential(st, t, FALSE)
    BY <2>3, <2>4
  <2>5. ASSUME NEW v \in UseCredential(st, t, FALSE), u = Failed(v, "other")
        PROVE  Settled(u)
    BY <2>3, <2>5, FailedSettled DEF Settled, Served
  <2>6. ASSUME NEW v \in UseCredential(st, t, FALSE), u = [v EXCEPT !.mem.access = None]
        PROVE  Settled(u)
    <3>1. Good(u) /\ u.mem.bearer = v.mem.bearer /\ u.err = v.err
      BY <2>3, <2>6, TakeAccess DEF Settled, Served
    <3> QED
      BY <2>3, <3>1 DEF Settled, Served
  <2> QED
    BY <2>1, <2>4, <2>5, <2>6
<1> QED
  BY <1>1, <1>2

LEMMA FromMemoryServed ==
  ASSUME NEW st, Good(st), NEW u \in FromMemory(st)
  PROVE  Served(u)
<1>1. CASE st.mem.access = None
  BY <1>1, FailedGood DEF FromMemory, Served
<1>2. CASE st.mem.access # None
  <2>1. Usable(st.mem.access) /\ st.mem.access.account \notin GhAccounts
    BY <1>2 DEF Good, Sections, InSession, Usable
  <2>2. u \in UseCredential(st, st.mem.access, TRUE)
    BY <1>2 DEF FromMemory
  <2> QED
    BY <2>1, <2>2, UseCredentialSettled DEF Settled
<1> QED
  BY <1>1, <1>2

LEMMA FromDiskServed ==
  ASSUME NEW st, Served(st), NEW u \in FromDisk(st)
  PROVE  Served(u)
<1> DEFINE t == st.disk.access
           loaded == [st EXCEPT !.mem.access = t]
<1>1. CASE u = st
  BY <1>1
<1>2. CASE st.err # "none" /\ t # None
  <2>1. Usable(t) /\ t.account \notin GhAccounts /\ t \in Credential
    BY <1>2 DEF Served, Good, Sections, InSession, Usable, Directory
  <2>2. Good(loaded) /\ loaded.err = st.err
    <3> HIDE DEF t
    <3> QED
      BY <2>1, TakeAccess DEF Served
  <2>3. ASSUME NEW f \in Faulty(st), u \in {f, Failed(f, st.err)} PROVE Served(u)
    <3>1. Good(f) /\ f.err = "other"
      BY FaultyGood, BoundAssumption DEF Served
    <3>2. Good(Failed(f, st.err)) /\ Failed(f, st.err).err = st.err
      BY <3>1, FailedGood DEF Served, Good, Sections
    <3> QED
      BY <1>2, <2>3, <3>1, <3>2 DEF Served
  <2>4. CASE u = loaded
    <3> HIDE DEF loaded
    <3> QED
      BY <1>2, <2>2, <2>4 DEF Served
  <2>5. CASE u \in UseCredential(loaded, t, TRUE)
    <3> HIDE DEF loaded, t
    <3> QED
      BY <2>1, <2>2, <2>5, UseCredentialSettled DEF Settled
  <2>6. \/ \E f \in Faulty(st) : u \in {f, Failed(f, st.err)}
        \/ u = loaded \/ u \in UseCredential(loaded, t, TRUE)
    BY <1>2, Zenon DEF FromDisk
  <2> QED
    BY <2>3, <2>4, <2>5, <2>6
<1> QED
  BY <1>1, <1>2 DEF FromDisk

LEMMA FromGitHubCLISettled ==
  ASSUME TypeOK, SignOutInv, MuFree, NEW st, Served(st), NEW u \in FromGitHubCLI(st)
  PROVE  Settled(u)
<1>1. CASE u = Failed(st, "login")
  BY <1>1, FailedSettled DEF Served
<1>2. CASE u = st /\ st.err # "unset"
  BY <1>2 DEF Settled, Served, Good, Sections
<1>3. CASE u \in UseGitHubCLI(st)
  BY <1>3, UseGitHubCLISettled DEF Served
<1> QED
  BY <1>1, <1>2, <1>3 DEF FromGitHubCLI

LEMMA RefreshTokenSettled ==
  ASSUME TypeOK, SignOutInv, MuFree, NEW st, Good(st), NEW u \in RefreshToken(st)
  PROVE  Settled(u)
<1>1. PICK m \in FromMemory(st) : \E d \in FromDisk(m) : u \in FromGitHubCLI(d)
  BY DEF RefreshToken
<1>2. PICK d \in FromDisk(m) : u \in FromGitHubCLI(d)
  BY <1>1
<1> QED
  BY <1>2, FromMemoryServed, FromDiskServed, FromGitHubCLISettled

LEMMA TokensGood ==
  ASSUME TypeOK, TokenInv
  PROVE  Good(Tokens)
  BY DEF TypeOK, TokenInv, Good, Sections, Tokens, Answers

LEMMA RefreshSettled ==
  ASSUME TypeOK, TokenInv, SignOutInv, MuFree, NEW force \in BOOLEAN, NEW u \in Refresh(force)
  PROVE  Settled(u)
<1> DEFINE st == Tokens
           armed == [st EXCEPT !.mem = [access |-> EnvToken, bearer |-> None]]
           cached == [st EXCEPT !.mem.bearer = disk.cache]
<1>1. Good(st) /\ st.mem = mem /\ st.disk = disk /\ st.err = "none"
  BY TokensGood DEF Tokens
<1> HIDE DEF st
<1>2. CASE u = st /\ mem.bearer # None
  BY <1>1, <1>2 DEF Settled, Served, Answers
<1>3. CASE u = cached /\ disk.cache # None
  <2>1. cached \in Sections
    BY <1>1 DEF TypeOK, Good, Sections, Directory
  <2>2. /\ cached.mem.bearer = disk.cache /\ cached.mem.access = st.mem.access
        /\ cached.disk = st.disk /\ cached.err = "none"
    BY <1>1 DEF Good, Sections
  <2> HIDE DEF cached
  <2> QED
    BY <1>1, <1>3, <2>1, <2>2 DEF Good, InSession, Settled, Served, Answers
<1>4. CASE env # None /\ u \in UseCredential(IF mem.access = EnvToken THEN st ELSE armed, EnvToken, TRUE)
  <2>1. Usable(EnvToken) /\ EnvToken.account \notin GhAccounts
    BY <1>4, AccountAssumption, BoundAssumption DEF TypeOK, Usable, EnvToken, Credential
  <2>2. Good(armed)
    <3>1. armed \in Sections
      BY <1>1, <2>1 DEF Good, Sections, Usable
    <3>2. armed.mem.access = EnvToken /\ armed.mem.bearer = None /\ armed.disk = st.disk
      BY <1>1 DEF Good, Sections
    <3> HIDE DEF armed
    <3> QED
      BY <1>1, <2>1, <3>1, <3>2 DEF Good, InSession, Usable
  <2> HIDE DEF armed
  <2> QED
    BY <1>1, <1>4, <2>1, <2>2, UseCredentialSettled
<1>5. CASE u \in RefreshToken(st)
  BY <1>1, <1>5, RefreshTokenSettled
<1>6. \/ u = st /\ mem.bearer # None
      \/ u = cached /\ disk.cache # None
      \/ env # None /\ u \in UseCredential(IF mem.access = EnvToken THEN st ELSE armed, EnvToken, TRUE)
      \/ u \in RefreshToken(st)
  BY DEF Refresh, st
<1> QED
  BY <1>2, <1>3, <1>4, <1>5, <1>6

LEMMA LessSettled ==
  ASSUME NEW st, Settled(st)
  PROVE  /\ Settled([st EXCEPT !.disk.access = None])
         /\ Settled([st EXCEPT !.disk.cache = None])
         /\ Settled([st EXCEPT !.disk.marker = FALSE])
         /\ Settled([st EXCEPT !.disk.auto = TRUE])
         /\ Settled([st EXCEPT !.disk.auto = FALSE])
  BY LessOnDisk DEF Settled

LEMMA CompleteAuthorizationSettled ==
  ASSUME TypeOK, TokenInv, SignOutInv, MuFree,
         NEW a \in LoginAccounts, NEW u \in CompleteAuthorization(a)
  PROVE  Settled(u)
<1> DEFINE t  == [account |-> a, born |-> generation]
           st == [Tokens EXCEPT !.mem.access = t]
           sd == [st EXCEPT !.disk.access = t]
           used == UseCredential(sd, t, TRUE)
           cache(w)  == IF Direct(a) THEN [w EXCEPT !.disk.cache = None] ELSE w
           marker(w) == [cache(w) EXCEPT !.disk.marker = FALSE]
           auto(w)   == [marker(w) EXCEPT !.disk.auto = FALSE]
<1>1. Usable(t) /\ t \in Credential /\ t.account \notin GhAccounts /\ t.born = Session
  BY SessionNow, AccountAssumption DEF Usable, Credential, TypeOK
<1> HIDE DEF t
<1>2. Good(st)
  BY <1>1, TokensGood, TakeAccess
<1>3. Good(sd)
  <2> HIDE DEF st
  <2>1. sd \in Sections
    BY <1>1, <1>2 DEF Good, Sections, Directory
  <2>2. sd.mem = st.mem /\ sd.disk.access = t /\ sd.disk.cache = st.disk.cache
    BY <1>2 DEF Good, Sections, Directory
  <2> HIDE DEF sd
  <2> QED
    BY <1>1, <1>2, <2>1, <2>2 DEF Good, InSession
<1> HIDE DEF sd, st
<1>4. ASSUME NEW w \in used PROVE Settled(w)
  BY <1>1, <1>3, UseCredentialSettled
<1>5. ASSUME NEW w \in used
      PROVE  Settled(cache(w)) /\ Settled(marker(w)) /\ Settled(auto(w))
  <2>1. Settled(w)
    BY <1>4
  <2>2. Settled(cache(w))
    BY <2>1, LessSettled
  <2>3. Settled(marker(w))
    <3> HIDE DEF cache
    <3> QED
      BY <2>2, LessSettled
  <2>4. Settled(auto(w))
    <3> HIDE DEF marker
    <3> QED
      BY <2>3, LessSettled
  <2> QED
    BY <2>2, <2>3, <2>4
<1>6. CASE u \in Faulty(st)
  BY <1>2, <1>6, FaultySettled
<1>7. CASE u \in used
  BY <1>4, <1>7
<1>8. ASSUME NEW w \in used,
             u \in Faulty(w) \cup Faulty(cache(w)) \cup Faulty(marker(w)) \cup {auto(w)}
      PROVE  Settled(u)
  <2> HIDE DEF used, cache, marker, auto
  <2>1. Good(w) /\ Good(cache(w)) /\ Good(marker(w)) /\ Settled(auto(w))
    BY <1>4, <1>5 DEF Settled, Served
  <2> QED
    BY <1>8, <2>1, FaultySettled
<1>9. \/ u \in Faulty(st) \/ u \in used
      \/ \E w \in used : u \in Faulty(w) \cup Faulty(cache(w)) \cup Faulty(marker(w)) \cup {auto(w)}
  BY ZenonT(60) DEF CompleteAuthorization, st, sd, t
<1> QED
  BY <1>6, <1>7, <1>8, <1>9

LEMMA SwitchToGitHubCLISettled ==
  ASSUME TypeOK, TokenInv, SignOutInv, MuFree, NEW u \in SwitchToGitHubCLI
  PROVE  Settled(u)
<1> DEFINE used == UseGitHubCLI(Tokens)
           access(w) == [w EXCEPT !.disk.access = None]
           cache(w)  == [access(w) EXCEPT !.disk.cache = None]
           marker(w) == [cache(w) EXCEPT !.disk.marker = FALSE]
           auto(w)   == [marker(w) EXCEPT !.disk.auto = TRUE]
<1>1. Good(Tokens)
  BY TokensGood
<1>2. ASSUME NEW w \in used PROVE Settled(w)
  BY <1>1, UseGitHubCLISettled
<1>3. ASSUME NEW w \in used
      PROVE  Settled(access(w)) /\ Settled(cache(w)) /\ Settled(marker(w)) /\ Settled(auto(w))
  <2>1. Settled(access(w))
    BY <1>2, LessSettled
  <2>2. Settled(cache(w))
    <3> HIDE DEF access
    <3> QED
      BY <2>1, LessSettled
  <2>3. Settled(marker(w))
    <3> HIDE DEF cache
    <3> QED
      BY <2>2, LessSettled
  <2>4. Settled(auto(w))
    <3> HIDE DEF marker
    <3> QED
      BY <2>3, LessSettled
  <2> QED
    BY <2>1, <2>2, <2>3, <2>4
<1>4. ASSUME NEW w \in used, w.err # "none", u = Failed(Tokens, w.err) PROVE Settled(u)
  BY <1>1, <1>2, <1>4, FailedSettled DEF Settled, Answers
<1>5. ASSUME NEW w \in used,
             u \in Faulty(w) \cup Faulty(access(w)) \cup Faulty(cache(w))
                     \cup Faulty(marker(w)) \cup {auto(w)}
      PROVE  Settled(u)
  <2> HIDE DEF used, access, cache, marker, auto
  <2>1. /\ Good(w) /\ Good(access(w)) /\ Good(cache(w)) /\ Good(marker(w))
        /\ Settled(auto(w))
    BY <1>2, <1>3 DEF Settled, Served
  <2> QED
    BY <1>5, <2>1, FaultySettled
<1>6. \/ \E w \in used : w.err # "none" /\ u = Failed(Tokens, w.err)
      \/ \E w \in used : u \in Faulty(w) \cup Faulty(access(w)) \cup Faulty(cache(w))
                                 \cup Faulty(marker(w)) \cup {auto(w)}
  BY Zenon DEF SwitchToGitHubCLI
<1> QED
  BY <1>4, <1>5, <1>6

-----------------------------------------------------------------------------
(* What a step leaves alone.                                                 *)

LEMMA SlotsApart ==
  /\ \A k \in Stages : SlotsOf(k) \subseteq Slots
  /\ \A j, k \in Stages : j # k => SlotsOf(j) \cap SlotsOf(k) = {}
  /\ SlotsOf("refresh") = RefreshSlots /\ SlotsOf("device") = DeviceSlots
  /\ SlotsOf("responses") = ResponsesSlots
  /\ None \notin Slots /\ DeviceSlots \subseteq Slots \cap Clients
  /\ Callers \cap Slots = {}
  BY SlotAssumption DEF Stages, SlotsOf, Slots, Clients

LEMMA CallStays ==
  ASSUME TypeOK, generation' \in Nat, generation <= generation', NEW s,
         NEW k \in AuthTokenCall, CallOK(s, k)
  PROVE  CallOK(s, k)'
<1>1. ASSUME Fresh(k.credential, k.generation) PROVE Fresh(k.credential, k.generation)'
  BY <1>1 DEF Fresh, TypeOK, AuthTokenCall, Bearer
<1>2. k.generation <= generation => k.generation <= generation'
  BY DEF TypeOK, AuthTokenCall
<1> QED
  BY <1>1, <1>2 DEF CallOK

LEMMA DeviceStays ==
  ASSUME TypeOK, generation' \in Nat, generation <= generation',
         NEW r \in Request, NEW k \in AuthTokenCall, DeviceOK(r, k)
  PROVE  DeviceOK(r, k)'
<1>1. Fresh(r.credential, k.generation)'
  BY DEF DeviceOK, Fresh, TypeOK, Request, AuthTokenCall, Bearer
<1> QED
  BY <1>1 DEF DeviceOK

\* What was so far a good record is one in the next generation.
LEMMA SharedFrame ==
  ASSUME TypeOK, TypeOK', generation <= generation',
         \A s \in Slots : CallOK(s, call'[s]),
         \A c \in Clients : ClientOK(client'[c]),
         \A d \in DeviceSlots : DeviceOK(client'[d], call'[d])
  PROVE  CallInv' /\ ClientInv' /\ DeviceInv'
<1>1. generation' \in Nat
  BY DEF TypeOK
<1>2. CallInv'
  <2>1. SUFFICES ASSUME NEW s \in Slots PROVE CallOK(s, call[s])'
    BY DEF CallInv
  <2>2. CallOK(s, call'[s]) /\ call'[s] \in AuthTokenCall
    BY DEF TypeOK
  <2>3. ASSUME NEW k \in AuthTokenCall, CallOK(s, k) PROVE CallOK(s, k)'
    BY <1>1, <2>3, CallStays
  <2> QED
    BY <1>1, <2>2, <2>3 DEF CallOK, Fresh
<1>3. ClientInv'
  BY DEF ClientInv, ClientOK
<1>4. DeviceInv'
  <2>1. SUFFICES ASSUME NEW d \in DeviceSlots PROVE DeviceOK(client[d], call[d])'
    BY DEF DeviceInv
  <2>2. DeviceOK(client'[d], call'[d]) /\ call'[d] \in AuthTokenCall /\ client'[d] \in Request
    BY SlotsApart DEF TypeOK
  <2>3. ASSUME NEW r \in Request, NEW k \in AuthTokenCall, DeviceOK(r, k) PROVE DeviceOK(r, k)'
    BY <1>1, <2>3, DeviceStays
  <2> QED
    BY <1>1, <2>2, <2>3 DEF DeviceOK, Fresh
<1> QED
  BY <1>2, <1>3, <1>4

\* One client changed, and no call.
LEMMA ClientFrame ==
  ASSUME TypeOK, TypeOK', SharedInv, generation <= generation', NEW c \in Clients,
         UNCHANGED call,
         \A x \in Clients \ {c} : client'[x] = client[x],
         ClientOK(client'[c]), client'[c].step # "check",
         c \in DeviceSlots => DeviceOK(client'[c], call[c])
  PROVE  CallInv' /\ ClientInv' /\ DeviceInv' /\ CheckInv'
<1>1. \A s \in Slots : CallOK(s, call'[s])
  BY DEF SharedInv, CallInv
<1>2. \A x \in Clients : ClientOK(client'[x])
  BY DEF SharedInv, ClientInv
<1>3. \A d \in DeviceSlots : DeviceOK(client'[d], call'[d])
  BY SlotsApart DEF SharedInv, DeviceInv
<1>4. CheckInv'
  BY DEF SharedInv, CheckInv
<1> QED
  BY <1>1, <1>2, <1>3, <1>4, SharedFrame

\* One call changed, and no client.
LEMMA SlotFrame ==
  ASSUME TypeOK, TypeOK', SharedInv, generation <= generation', NEW s \in Slots,
         UNCHANGED client,
         \A x \in Slots \ {s} : call'[x] = call[x],
         CallOK(s, call'[s]),
         s \in DeviceSlots => DeviceOK(client[s], call'[s]),
         call[s].pc = "done" => call'[s].pc = "done" \/ \A x \in Clients : client[x].call # s
  PROVE  CallInv' /\ ClientInv' /\ DeviceInv' /\ CheckInv'
<1>1. \A x \in Slots : CallOK(x, call'[x])
  BY DEF SharedInv, CallInv
<1>2. \A x \in Clients : ClientOK(client'[x])
  BY DEF SharedInv, ClientInv
<1>3. \A d \in DeviceSlots : DeviceOK(client'[d], call'[d])
  BY SlotsApart DEF SharedInv, DeviceInv
<1>4. CheckInv'
  <2>1. \A x \in Clients : client[x].step = "check" => client[x].call \in Slots
    BY SlotsApart DEF SharedInv, ClientInv, ClientOK, TypeOK, Request
  <2> QED
    BY <2>1 DEF SharedInv, CheckInv
<1> QED
  BY <1>1, <1>2, <1>3, <1>4, SharedFrame

\* One client and one call changed.
LEMMA OneFrame ==
  ASSUME TypeOK, TypeOK', SharedInv, generation <= generation',
         NEW c \in Clients, NEW s \in Slots,
         \A x \in Clients \ {c} : client'[x] = client[x],
         \A x \in Slots \ {s} : call'[x] = call[x],
         CallOK(s, call'[s]), ClientOK(client'[c]),
         client'[c].step = "check" => call'[client'[c].call].pc = "done",
         c \in DeviceSlots => DeviceOK(client'[c], call'[c]),
         s \in DeviceSlots => DeviceOK(client'[s], call'[s]),
         call[s].pc = "done" =>
           call'[s].pc = "done" \/ \A x \in Clients \ {c} : client[x].call # s
  PROVE  CallInv' /\ ClientInv' /\ DeviceInv' /\ CheckInv'
<1>1. \A x \in Slots : CallOK(x, call'[x])
  BY DEF SharedInv, CallInv
<1>2. \A x \in Clients : ClientOK(client'[x])
  BY DEF SharedInv, ClientInv
<1>3. ASSUME NEW d \in DeviceSlots PROVE DeviceOK(client'[d], call'[d])
  <2>1. CASE d # c /\ d # s
    BY <2>1, SlotsApart DEF SharedInv, DeviceInv
  <2> QED
    BY <2>1
<1>4. CheckInv'
  <2>1. \A x \in Clients : client[x].step = "check" => client[x].call \in Slots
    BY SlotsApart DEF SharedInv, ClientInv, ClientOK, TypeOK, Request
  <2> QED
    BY <2>1 DEF SharedInv, CheckInv
<1> QED
  BY <1>1, <1>2, <1>3, <1>4, SharedFrame

LEMMA WaitingFinite ==
  ASSUME NEW s
  PROVE  IsFiniteSet(WaitingFor(s)) /\ Cardinality(WaitingFor(s)) \in Nat
<1>1. IsFiniteSet(Clients)
  BY SlotAssumption, FS_Union DEF Clients
<1>2. WaitingFor(s) \subseteq Clients
  BY DEF WaitingFor
<1> QED
  BY <1>1, <1>2, FS_Subset, FS_CardinalityType

LEMMA NobodyWaits ==
  ASSUME CountInv, NEW s \in Slots
  PROVE  call[s].waiters = 0 <=> \A c \in Clients : ~(client[c].step = "wait" /\ client[c].call = s)
<1>1. call[s].waiters = 0 <=> WaitingFor(s) = {}
  BY WaitingFinite, FS_EmptySet DEF CountInv
<1> QED
  BY <1>1 DEF WaitingFor

LEMMA CountFrame ==
  ASSUME CountInv,
         \A s \in Slots : call'[s].waiters = call[s].waiters,
         \A s \in Slots : \A c \in Clients :
           (client'[c].step = "wait" /\ client'[c].call = s)
             <=> (client[c].step = "wait" /\ client[c].call = s)
  PROVE  CountInv'
<1>1. SUFFICES ASSUME NEW s \in Slots
               PROVE  call'[s].waiters = Cardinality({c \in Clients : client'[c].step = "wait" /\ client'[c].call = s})
  BY DEF CountInv, WaitingFor
<1>2. {c \in Clients : client'[c].step = "wait" /\ client'[c].call = s} = WaitingFor(s)
  BY DEF WaitingFor
<1> QED
  BY <1>2 DEF CountInv

LEMMA CountLeaves ==
  ASSUME CountInv, NEW c \in Clients, NEW t \in Slots,
         client[c].step = "wait", client[c].call = t, client'[c].step # "wait",
         \A x \in Clients \ {c} : client'[x] = client[x],
         call'[t].waiters = call[t].waiters - 1,
         \A s \in Slots \ {t} : call'[s].waiters = call[s].waiters
  PROVE  CountInv'
<1>1. SUFFICES ASSUME NEW s \in Slots
               PROVE  call'[s].waiters = Cardinality({x \in Clients : client'[x].step = "wait" /\ client'[x].call = s})
  BY DEF CountInv, WaitingFor
<1>2. {x \in Clients : client'[x].step = "wait" /\ client'[x].call = s} = WaitingFor(s) \ {c}
  BY DEF WaitingFor
<1>3. Cardinality(WaitingFor(s) \ {c}) =
        IF c \in WaitingFor(s) THEN Cardinality(WaitingFor(s)) - 1 ELSE Cardinality(WaitingFor(s))
  BY WaitingFinite, FS_RemoveElement
<1>4. c \in WaitingFor(s) <=> s = t
  BY DEF WaitingFor
<1> QED
  BY <1>2, <1>3, <1>4 DEF CountInv

LEMMA CountJoins ==
  ASSUME CountInv, NEW c \in Clients, NEW t \in Slots,
         client[c].step # "wait", client'[c].step = "wait", client'[c].call = t,
         \A x \in Clients \ {c} : client'[x] = client[x],
         call'[t].waiters = call[t].waiters + 1,
         \A s \in Slots \ {t} : call'[s].waiters = call[s].waiters
  PROVE  CountInv'
<1>1. SUFFICES ASSUME NEW s \in Slots
               PROVE  call'[s].waiters = Cardinality({x \in Clients : client'[x].step = "wait" /\ client'[x].call = s})
  BY DEF CountInv, WaitingFor
<1>2. CASE s = t
  <2>1. {x \in Clients : client'[x].step = "wait" /\ client'[x].call = s} = WaitingFor(s) \cup {c}
    BY <1>2 DEF WaitingFor
  <2>2. c \notin WaitingFor(s)
    BY DEF WaitingFor
  <2>3. Cardinality(WaitingFor(s) \cup {c}) = Cardinality(WaitingFor(s)) + 1
    BY <2>2, WaitingFinite, FS_AddElement
  <2> QED
    BY <1>2, <2>1, <2>3 DEF CountInv
<1>3. CASE s # t
  <2>1. {x \in Clients : client'[x].step = "wait" /\ client'[x].call = s} = WaitingFor(s)
    BY <1>3 DEF WaitingFor
  <2> QED
    BY <1>3, <2>1 DEF CountInv
<1> QED
  BY <1>2, <1>3

\* What a client makes of an answer: it never waits, and a device login keeps it.
LEMMA AnsweredFields ==
  ASSUME TypeOK, ClientInv, DeviceInv, NEW c \in Clients, client[c].stage # "idle",
         NEW b \in Bearer \cup {None}, NEW e \in Answers, Paired(b), e = "none" => b # None
  PROVE  /\ Answered(c, b, e) \in Request
         /\ ClientOK(Answered(c, b, e))
         /\ Answered(c, b, e).step \in {"none", "ask"}
         /\ Answered(c, b, e).call = None
         /\ c \in DeviceSlots =>
              /\ Answered(c, b, e).stage = "idle"
              /\ Answered(c, b, e).credential = b /\ Answered(c, b, e).err = e
<1> DEFINE r == client[c]
           asks  == [r EXCEPT !.stage = "device", !.step = "ask", !.call = None]
           swaps == [r EXCEPT !.stage = "responses", !.step = "ask", !.call = None, !.credential = b]
           keeps == [Resting EXCEPT !.credential = b, !.err = e]
<1>1. r \in Request /\ ClientOK(r)
  BY DEF TypeOK, ClientInv
<1>2. c \in DeviceSlots => r.stage = "refresh" /\ r.mode = "quiet"
  BY DEF DeviceInv, DeviceOK
<1>3. Resting \in Request /\ Resting.step = "none" /\ Resting.call = None /\ ClientOK(Resting)
  BY DEF Resting, Request, Modes, Answers, ClientOK, Paired
<1>4. keeps \in Request /\ keeps.step = "none" /\ keeps.call = None /\ ClientOK(keeps)
  BY DEF Resting, Request, Modes, ClientOK
<1> HIDE DEF r
<1>5. asks \in Request /\ asks.step = "ask" /\ asks.call = None /\ ClientOK(asks)
  BY <1>1 DEF Request, ClientOK, Stages
<1>6. b # None => swaps \in Request /\ swaps.step = "ask" /\ swaps.call = None /\ ClientOK(swaps)
  BY <1>1 DEF Request, ClientOK, Stages
<1>7. Answered(c, b, e) =
        IF e = "login" /\ r.stage = "refresh" /\ r.mode \in {"get", "responses"} THEN asks
        ELSE IF e = "none" /\ r.mode = "responses" /\ r.stage # "responses" /\ b.issuer \in AppAccounts
        THEN swaps
        ELSE IF c \in DeviceSlots THEN keeps ELSE Resting
  BY DEF Answered, r
<1> HIDE DEF asks, swaps, keeps
<1>8. CASE c \in DeviceSlots
  <2>1. Answered(c, b, e) = keeps
    BY <1>2, <1>7, <1>8
  <2>2. keeps.stage = "idle" /\ keeps.credential = b /\ keeps.err = e
    BY DEF keeps, Resting
  <2> QED
    BY <1>4, <2>1, <2>2
<1>9. CASE c \notin DeviceSlots
  BY <1>3, <1>5, <1>6, <1>7, <1>9
<1> QED
  BY <1>8, <1>9

LEMMA DeviceAnswer ==
  ASSUME TypeOK, ClientInv, DeviceInv, NEW c \in DeviceSlots, client[c].stage # "idle",
         NEW b \in Bearer \cup {None}, NEW e \in Answers, Paired(b), e = "none" => b # None,
         Fresh(b, call[c].generation)
  PROVE  DeviceOK(Answered(c, b, e), call[c])
<1>0. c \in Clients
  BY SlotsApart
<1>1. /\ Answered(c, b, e).stage = "idle"
      /\ Answered(c, b, e).credential = b /\ Answered(c, b, e).err = e
  BY <1>0, AnsweredFields
<1>2. call[c].pc \in {"before", "after"}
  BY DEF DeviceInv, DeviceOK, Resting
<1> QED
  BY <1>1, <1>2 DEF DeviceOK

-----------------------------------------------------------------------------
(* What the steps of the clients leave.                                      *)

\* The variables that no client changes, begun aside.
OthersStay == UNCHANGED <<env, tokenVars, responses, outVars, gate, login>>

LEMMA OthersFrame ==
  ASSUME TypeOK, TokenInv, SignOutInv, OthersStay, begun' \in 0 .. MaxRequests,
         call' \in [Slots -> AuthTokenCall], client' \in [Clients -> Request],
         current' \in [Stages -> Slots \cup {None}],
         \A k \in Stages : current'[k] \in SlotsOf(k) \cup {None}
  PROVE  TypeOK' /\ TokenInv' /\ SignOutInv' /\ generation <= generation'
<1>1. TypeOK'
  BY DEF TypeOK, OthersStay, tokenVars, outVars
<1>2. TokenInv'
  BY DEF TokenInv, InSession, Tokens, Session, OthersStay, tokenVars, outVars, Paired
<1>3. SignOutInv'
  BY DEF SignOutInv, OthersStay, outVars
<1>4. generation <= generation'
  BY DEF TypeOK, OthersStay, outVars
<1> QED
  BY <1>1, <1>2, <1>3, <1>4

\* A client that asks, or rests, and leaves no call.
LEMMA AnswerStep ==
  ASSUME IInv, OthersStay, begun' \in 0 .. MaxRequests, UNCHANGED <<call, current>>,
         NEW c \in Clients, client[c].step # "wait",
         NEW r \in Request, ClientOK(r), r.step \in {"none", "ask"},
         client' = [client EXCEPT ![c] = r],
         c \in DeviceSlots => DeviceOK(r, call[c])
  PROVE  IInv'
<1>1. /\ client' \in [Clients -> Request] /\ client'[c] = r
      /\ \A x \in Clients \ {c} : client'[x] = client[x]
  BY DEF IInv, TypeOK
<1>2. TypeOK' /\ TokenInv' /\ SignOutInv' /\ generation <= generation'
  BY <1>1, OthersFrame DEF IInv, TypeOK
<1>3. CallInv' /\ ClientInv' /\ DeviceInv' /\ CheckInv'
  BY <1>1, <1>2, ClientFrame DEF IInv
<1>4. CountInv'
  BY <1>1, CountFrame DEF IInv, SharedInv
<1>5. CurrentInv'
  BY DEF IInv, SharedInv, CurrentInv
<1> QED
  BY <1>2, <1>3, <1>4, <1>5 DEF IInv, SharedInv

LEMMA StartStep ==
  ASSUME IInv, NEW c \in Callers, NEW mode \in Modes, Start(c, mode)
  PROVE  IInv'
<1> DEFINE r == [Resting EXCEPT !.stage = "refresh", !.step = "ask", !.mode = mode]
<1>1. r \in Request /\ ClientOK(r) /\ r.step = "ask"
  BY DEF Resting, Request, ClientOK, Stages, Paired, Answers
<1>2. c \in Clients /\ c \notin DeviceSlots
  BY SlotAssumption DEF Clients
<1>3. client[c].step # "wait"
  BY <1>2 DEF Start, IInv, SharedInv, ClientInv, ClientOK
<1>4. begun' \in 0 .. MaxRequests
  BY BoundAssumption DEF Start, Begin, IInv, TypeOK
<1>5. OthersStay /\ UNCHANGED <<call, current>> /\ client' = [client EXCEPT ![c] = r]
  BY DEF Start, OthersStay
<1> HIDE DEF r
<1> QED
  BY <1>1, <1>2, <1>3, <1>4, <1>5, AnswerStep

\* A client that asks is answered with no more than an error.
LEMMA ErrorStep ==
  ASSUME IInv, OthersStay, UNCHANGED <<call, current, begun>>,
         NEW c \in Clients, client[c].step = "ask", NEW e \in {"login", "other"},
         client' = [client EXCEPT ![c] = Answered(c, None, e)]
  PROVE  IInv'
<1>1. client[c].stage # "idle"
  BY DEF IInv, SharedInv, ClientInv, ClientOK
<1>2. e \in Answers /\ Paired(None)
  BY DEF Answers, Paired
<1>3. /\ Answered(c, None, e) \in Request /\ ClientOK(Answered(c, None, e))
      /\ Answered(c, None, e).step \in {"none", "ask"}
  BY <1>1, <1>2, AnsweredFields DEF IInv, SharedInv
<1>4. c \in DeviceSlots => DeviceOK(Answered(c, None, e), call[c])
  <2>1. Fresh(None, call[c].generation)
    BY DEF Fresh
  <2> QED
    BY <1>1, <1>2, <2>1, DeviceAnswer DEF IInv, SharedInv
<1>5. begun' \in 0 .. MaxRequests
  BY DEF IInv, TypeOK
<1> QED
  BY <1>3, <1>4, <1>5, AnswerStep

LEMMA RefuseStep ==
  ASSUME IInv, NEW c \in Clients, Refuse(c)
  PROVE  IInv'
  BY ErrorStep DEF Refuse, OthersStay

LEMMA CacheHitStep ==
  ASSUME IInv, NEW c \in Clients, CacheHit(c)
  PROVE  IInv'
<1>1. client[c].stage = "responses" /\ client[c].stage # "idle" /\ client[c].step = "ask"
  BY DEF CacheHit
<1>2. c \notin DeviceSlots
  BY <1>1 DEF IInv, SharedInv, DeviceInv, DeviceOK
<1>3. Answered(c, responses, "none") = Resting
  BY <1>1, <1>2 DEF Answered
<1>4. Resting \in Request /\ Resting.step = "none" /\ ClientOK(Resting)
  BY DEF Resting, Request, Modes, Answers, ClientOK, Paired
<1>5. begun' \in 0 .. MaxRequests
  BY DEF CacheHit, IInv, TypeOK
<1>6. OthersStay /\ UNCHANGED <<call, current>> /\ client' = [client EXCEPT ![c] = Resting]
  BY <1>3 DEF CacheHit, OthersStay
<1> QED
  BY <1>1, <1>2, <1>4, <1>5, <1>6, AnswerStep

LEMMA NoCallOK ==
  ASSUME TypeOK, NEW s
  PROVE  NoCall \in AuthTokenCall /\ CallOK(s, NoCall) /\ NoCall.waiters = 0 /\ NoCall.pc = "free"
<1>1. NoCall \in AuthTokenCall
  BY BoundAssumption DEF NoCall, AuthTokenCall, Answers
<1>2. CallOK(s, NoCall)
  BY DEF NoCall, CallOK, Paired, Fresh, TypeOK
<1> QED
  BY <1>1, <1>2 DEF NoCall

\* What a client or SignOut changes of a call does not show in its result.
SameResult(k, s) ==
  /\ k.pc = call[s].pc /\ k.generation = call[s].generation
  /\ k.credential = call[s].credential /\ k.source = call[s].source /\ k.err = call[s].err

LEMMA SameResultOK ==
  ASSUME SharedInv, NEW s \in Slots, NEW k \in AuthTokenCall, SameResult(k, s), call[s].pc # "free"
  PROVE  CallOK(s, k) /\ (s \in DeviceSlots => DeviceOK(client[s], k))
  BY DEF SharedInv, CallInv, CallOK, DeviceInv, DeviceOK, SameResult

LEMMA ForgottenOK ==
  ASSUME TypeOK, SharedInv, NEW s \in Slots, call[s].pc \notin {"before", "after"}
  PROVE  CallOK(s, NoCall) /\ (s \in DeviceSlots => DeviceOK(client[s], NoCall))
<1>1. s \in DeviceSlots => client[s] = Resting
  BY DEF SharedInv, DeviceInv, DeviceOK
<1>2. DeviceOK(Resting, NoCall)
  BY DEF DeviceOK, Resting, NoCall, Fresh
<1> QED
  BY <1>1, <1>2, NoCallOK

\* A client waits for a call that is there, and a device login never for its own.
LEMMA WaitedCall ==
  ASSUME TypeOK, SharedInv, NEW c \in Clients, client[c].step \in {"wait", "check"}
  PROVE  /\ client[c].call \in SlotsOf(client[c].stage) /\ client[c].call \in Slots
         /\ client[c].stage \in Stages /\ call[client[c].call].pc # "free"
         /\ c \in DeviceSlots => client[c].call \in RefreshSlots
         /\ client[c].call # c
         /\ client[c].step = "wait" => call[client[c].call].waiters >= 1
<1> DEFINE s == client[c].call
<1>1. client[c].stage \in Stages /\ s \in SlotsOf(client[c].stage)
  BY DEF TypeOK, SharedInv, ClientInv, ClientOK, Request
<1>2. s \in Slots
  BY <1>1, SlotsApart
<1>3. c \in DeviceSlots => s \in RefreshSlots
  BY <1>1, SlotsApart DEF SharedInv, DeviceInv, DeviceOK, Stages
<1>4. s # c
  BY <1>2, <1>3, SlotAssumption, SlotsApart DEF Clients
<1>5. CASE client[c].step = "wait"
  <2>1. call[s].waiters # 0 /\ call[s].waiters \in Nat
    BY <1>2, <1>5, NobodyWaits DEF SharedInv, TypeOK, AuthTokenCall
  <2>2. call[s] # NoCall
    BY <2>1 DEF NoCall
  <2> QED
    BY <1>1, <1>2, <1>3, <1>4, <2>1, <2>2 DEF SharedInv, CallInv, CallOK
<1>6. CASE client[c].step = "check"
  BY <1>1, <1>2, <1>3, <1>4, <1>6 DEF SharedInv, CheckInv
<1> QED
  BY <1>5, <1>6

\* A client that is through with its call: it waits no more, and the call is
\* forgotten if nobody else looks at it.
LEMMA ReleaseStep ==
  ASSUME IInv, OthersStay, UNCHANGED begun,
         NEW c \in Clients, client[c].step \in {"wait", "check"},
         NEW s, s = client[c].call,
         NEW r \in Request, ClientOK(r), r.step # "wait",
         r.step = "check" => r.call = s /\ call[s].pc = "done",
         c \in DeviceSlots => DeviceOK(r, call[c]),
         client' = [client EXCEPT ![c] = r],
         NEW k \in AuthTokenCall, call' = [call EXCEPT ![s] = k],
         \/ SameResult(k, s)
         \/ k = NoCall /\ call[s].pc = "done" /\ r.step # "check" /\ Unused(s, c),
         k.waiters = IF client[c].step = "wait" THEN call[s].waiters - 1 ELSE call[s].waiters,
         current' \in [Stages -> Slots \cup {None}],
         \A j \in Stages : current'[j] \in SlotsOf(j) \cup {None},
         CurrentInv'
  PROVE  IInv'
<1>0. /\ s \in Slots /\ call[s].pc # "free" /\ s # c
      /\ c \in DeviceSlots => s \in RefreshSlots
  BY WaitedCall DEF IInv
<1>1. /\ client' \in [Clients -> Request] /\ client'[c] = r
      /\ \A x \in Clients \ {c} : client'[x] = client[x]
      /\ call' \in [Slots -> AuthTokenCall] /\ call'[s] = k
      /\ \A x \in Slots \ {s} : call'[x] = call[x]
  BY <1>0 DEF IInv, TypeOK
<1>2. TypeOK' /\ TokenInv' /\ SignOutInv' /\ generation <= generation'
  <2>1. begun' \in 0 .. MaxRequests
    BY DEF IInv, TypeOK
  <2> QED
    BY <1>1, <2>1, OthersFrame DEF IInv
<1>3. CallOK(s, k) /\ (s \in DeviceSlots => DeviceOK(client[s], k))
  BY <1>0, SameResultOK, ForgottenOK DEF IInv
<1>4. CallInv' /\ ClientInv' /\ DeviceInv' /\ CheckInv'
  <2>1. c \in DeviceSlots => DeviceOK(client'[c], call'[c])
    BY <1>0, <1>1, SlotsApart
  <2>2. s \in DeviceSlots => DeviceOK(client'[s], call'[s])
    BY <1>0, <1>1, <1>3, SlotsApart
  <2>3. call[s].pc = "done" => k.pc = "done" \/ \A x \in Clients \ {c} : client[x].call # s
    BY DEF SameResult, Unused
  <2>4. r.step = "check" => call'[r.call].pc = "done"
    BY <1>1 DEF SameResult
  <2>5. TypeOK /\ SharedInv
    BY DEF IInv
  <2> QED
    BY <1>0, <1>1, <1>2, <1>3, <2>1, <2>2, <2>3, <2>4, <2>5, OneFrame
<1>5. CountInv'
  <2>1. CASE client[c].step = "wait"
    BY <1>0, <1>1, <2>1, CountLeaves DEF IInv, SharedInv
  <2>2. CASE client[c].step = "check"
    BY <1>0, <1>1, <2>2, CountFrame DEF IInv, SharedInv
  <2> QED
    BY <2>1, <2>2
<1> QED
  BY <1>2, <1>4, <1>5 DEF IInv, SharedInv

\* The answers with which a client leaves its call.
LEMMA ErrorAnswer ==
  ASSUME IInv, NEW c \in Clients, client[c].stage # "idle", NEW e \in {"login", "other"}
  PROVE  /\ Answered(c, None, e) \in Request /\ ClientOK(Answered(c, None, e))
         /\ Answered(c, None, e).step \in {"none", "ask"}
         /\ c \in DeviceSlots => DeviceOK(Answered(c, None, e), call[c])
<1>1. e \in Answers /\ Paired(None)
  BY DEF Answers, Paired
<1>2. Fresh(None, call[c].generation)
  BY DEF Fresh
<1>3. c \in DeviceSlots => DeviceOK(Answered(c, None, e), call[c])
  BY <1>1, <1>2, DeviceAnswer DEF IInv, SharedInv
<1> QED
  BY <1>1, <1>3, AnsweredFields DEF IInv, SharedInv

\* A client that stops waiting, when its call stays or is forgotten.
Less(k) == [k EXCEPT !.waiters = IF @ = 0 THEN 0 ELSE @ - 1]

LEMMA LessFields ==
  ASSUME TypeOK, SharedInv, NEW c \in Clients, NEW s, s = client[c].call,
         client[c].step = "wait"
  PROVE  /\ Less(Dropped(s, c)) \in AuthTokenCall
         /\ Less(Dropped(s, c)).waiters = call[s].waiters - 1
         /\ \/ SameResult(Less(Dropped(s, c)), s)
               /\ Less(Dropped(s, c)).abandoned = call[s].abandoned
            \/ Less(Dropped(s, c)) = NoCall /\ call[s].pc = "done" /\ Unused(s, c)
<1>1. s \in Slots /\ call[s] \in AuthTokenCall /\ call[s].waiters >= 1 /\ call[s].waiters \in Nat
  BY WaitedCall DEF TypeOK, AuthTokenCall
<1>2. CASE Dropped(s, c) = call[s]
  <2> DEFINE r == call[s]
             k == [r EXCEPT !.waiters = IF @ = 0 THEN 0 ELSE @ - 1]
  <2>1. /\ k \in AuthTokenCall /\ k.waiters = r.waiters - 1 /\ k.pc = r.pc
        /\ k.generation = r.generation /\ k.credential = r.credential
        /\ k.source = r.source /\ k.err = r.err /\ k.abandoned = r.abandoned
    <3> HIDE DEF r
    <3> QED
      BY <1>1 DEF AuthTokenCall, r
  <2> QED
    BY <1>2, <2>1 DEF Less, SameResult
<1>3. CASE Dropped(s, c) # call[s]
  <2>1. Dropped(s, c) = NoCall /\ call[s].pc = "done" /\ Unused(s, c)
    BY <1>3 DEF Dropped
  <2>2. Less(NoCall) = NoCall /\ NoCall.waiters = 0
    BY DEF Less, NoCall
  <2>3. call[s].waiters = 1
    <3>1. WaitingFor(s) = {c}
      BY <2>1 DEF WaitingFor, Unused
    <3> QED
      BY <1>1, <3>1, FS_Singleton DEF SharedInv, CountInv
  <2> QED
    BY <2>1, <2>2, <2>3, NoCallOK
<1> QED
  BY <1>2, <1>3

\* A current call that loses one of several waiters keeps the others.
LEMMA CurrentStays ==
  ASSUME TypeOK, SharedInv, UNCHANGED current, NEW s \in Slots,
         \A x \in Slots \ {s} : call'[x] = call[x],
         \/ call[s].pc = "done"
         \/ /\ call'[s].pc = call[s].pc /\ call'[s].abandoned = call[s].abandoned
            /\ call'[s].waiters > 0
  PROVE  CurrentInv'
<1>1. SUFFICES ASSUME NEW k \in Stages, current[k] # None
               PROVE  /\ ~call'[current[k]].abandoned /\ call'[current[k]].waiters > 0
                      /\ call'[current[k]].pc \notin {"free", "done"}
  BY DEF CurrentInv
<1>2. current[k] \in Slots
  BY <1>1, SlotsApart DEF TypeOK
<1> QED
  BY <1>1, <1>2 DEF SharedInv, CurrentInv

LEMMA LeaveStep ==
  ASSUME IInv, NEW c \in Clients, Leave(c)
  PROVE  IInv'
<1>1. CASE client[c].step = "ask"
  BY <1>1, ErrorStep, ZenonT(60) DEF Leave, OthersStay
<1>2. CASE client[c].step = "wait"
  <2> DEFINE s == client[c].call
             r == Answered(c, None, "other")
  <2>1. /\ s \in Slots /\ call[s].pc # "free" /\ client[c].stage \in Stages
        /\ call[s].waiters >= 1 /\ call[s] \in AuthTokenCall /\ call[s].waiters \in Nat
    BY <1>2, WaitedCall DEF IInv, TypeOK, AuthTokenCall
  <2>2. /\ r \in Request /\ ClientOK(r) /\ r.step \notin {"wait", "check"}
        /\ c \in DeviceSlots => DeviceOK(r, call[c])
    BY <2>1, ErrorAnswer DEF Stages
  <2>3. OthersStay /\ UNCHANGED begun /\ client' = [client EXCEPT ![c] = r]
    BY SMTT(60) DEF Leave, OthersStay
  <2>4. \/ /\ call[s].waiters = 1 /\ call[s].pc # "done"
           /\ call' = [call EXCEPT ![s].waiters = 0, ![s].abandoned = TRUE, ![s].canceled = TRUE]
           /\ current' = [k \in Stages |-> IF current[k] = s THEN None ELSE current[k]]
        \/ /\ call[s].waiters # 1 \/ call[s].pc = "done"
           /\ call' = [call EXCEPT ![s] = Less(Dropped(s, c))]
           /\ UNCHANGED current
    BY <1>2 DEF Leave, Less
  <2> HIDE DEF r, s
  <2>5. CASE /\ call[s].waiters = 1 /\ call[s].pc # "done"
             /\ call' = [call EXCEPT ![s].waiters = 0, ![s].abandoned = TRUE, ![s].canceled = TRUE]
             /\ current' = [k \in Stages |-> IF current[k] = s THEN None ELSE current[k]]
    <3> DEFINE q == call[s]
               k == [q EXCEPT !.waiters = 0, !.abandoned = TRUE, !.canceled = TRUE]
    <3>1. k \in AuthTokenCall /\ SameResult(k, s) /\ k.waiters = 0
      BY <2>1 DEF AuthTokenCall, SameResult
    <3>2. call' = [call EXCEPT ![s] = k]
      BY <2>1, <2>5 DEF IInv, TypeOK
    <3>3. /\ current' \in [Stages -> Slots \cup {None}]
          /\ \A j \in Stages : current'[j] \in SlotsOf(j) \cup {None}
      BY <2>5 DEF IInv, TypeOK
    <3>4. CurrentInv'
      BY <2>5, <3>2, SlotsApart DEF IInv, TypeOK, SharedInv, CurrentInv
    <3>5. k.waiters = IF client[c].step = "wait" THEN call[s].waiters - 1 ELSE call[s].waiters
      BY <1>2, <2>5, <3>1
    <3> HIDE DEF k
    <3> QED
      BY <1>2, <2>2, <2>3, <3>1, <3>2, <3>3, <3>4, <3>5, ReleaseStep DEF s
  <2>6. CASE /\ call[s].waiters # 1 \/ call[s].pc = "done"
             /\ call' = [call EXCEPT ![s] = Less(Dropped(s, c))]
             /\ UNCHANGED current
    <3> DEFINE k == Less(Dropped(s, c))
    <3>1. /\ k \in AuthTokenCall /\ k.waiters = call[s].waiters - 1
          /\ \/ SameResult(k, s) /\ k.abandoned = call[s].abandoned
             \/ k = NoCall /\ call[s].pc = "done" /\ Unused(s, c)
      BY <1>2, LessFields DEF IInv, s
    <3> HIDE DEF k
    <3>2. call' = [call EXCEPT ![s] = k]
      BY <2>6 DEF k
    <3>3. /\ current' \in [Stages -> Slots \cup {None}]
          /\ \A j \in Stages : current'[j] \in SlotsOf(j) \cup {None}
      BY <2>6 DEF IInv, TypeOK
    <3>4. CurrentInv'
      <4>1. \A x \in Slots \ {s} : call'[x] = call[x]
        BY <2>1, <3>2 DEF IInv, TypeOK
      <4>2. call'[s] = k
        BY <2>1, <3>2 DEF IInv, TypeOK
      <4> QED
        BY <2>1, <2>6, <3>1, <4>1, <4>2, CurrentStays DEF IInv, SameResult
    <3>5. k.waiters = IF client[c].step = "wait" THEN call[s].waiters - 1 ELSE call[s].waiters
      BY <1>2, <3>1
    <3> QED
      BY <1>2, <2>2, <2>3, <3>1, <3>2, <3>3, <3>4, <3>5, ReleaseStep DEF s
  <2> QED
    BY <2>4, <2>5, <2>6
<1> QED
  BY <1>1, <1>2 DEF Leave

\* A client goes on with the record that it has.
LEMMA GoesOn ==
  ASSUME IInv, NEW c \in Clients, client[c].step \in {"wait", "check"},
         NEW r, \/ r = [client[c] EXCEPT !.step = "check"]
                \/ r = [client[c] EXCEPT !.step = "ask", !.call = None]
  PROVE  /\ r \in Request /\ ClientOK(r) /\ r.step # "wait"
         /\ r.step = "check" => r.call = client[c].call
         /\ c \in DeviceSlots => DeviceOK(r, call[c])
<1>1. client[c] \in Request /\ ClientOK(client[c]) /\ client[c].stage # "idle"
  BY DEF IInv, TypeOK, SharedInv, ClientInv, ClientOK
<1>2. /\ r \in Request /\ r.stage = client[c].stage /\ r.mode = client[c].mode
      /\ r.credential = client[c].credential /\ r.err = client[c].err
      /\ \/ r.step = "check" /\ r.call = client[c].call
         \/ r.step = "ask" /\ r.call = None
  BY <1>1 DEF Request
<1>3. ClientOK(r)
  BY <1>1, <1>2 DEF ClientOK
<1>4. ASSUME c \in DeviceSlots PROVE DeviceOK(r, call[c])
  <2>1. DeviceOK(client[c], call[c]) /\ client[c] # Resting
    BY <1>1, <1>4 DEF IInv, SharedInv, DeviceInv, Resting
  <2> QED
    BY <1>1, <1>2, <2>1 DEF DeviceOK
<1> QED
  BY <1>2, <1>3, <1>4

LEMMA WakeStep ==
  ASSUME IInv, NEW c \in Clients, Wake(c)
  PROVE  IInv'
<1> DEFINE s == client[c].call
<1>1. /\ s \in Slots /\ call[s].pc = "done" /\ client[c].stage \in Stages
      /\ client[c].step = "wait" /\ client[c].stage # "idle"
      /\ call[s].waiters >= 1 /\ call[s] \in AuthTokenCall /\ call[s].waiters \in Nat
  BY WaitedCall DEF Wake, IInv, TypeOK, AuthTokenCall, Stages
<1>2. /\ OthersStay /\ UNCHANGED <<begun, current>>
      /\ current' \in [Stages -> Slots \cup {None}]
      /\ \A j \in Stages : current'[j] \in SlotsOf(j) \cup {None}
  BY DEF Wake, OthersStay, IInv, TypeOK
<1>3. ASSUME NEW k, call' = [call EXCEPT ![s] = k] PROVE CurrentInv'
  <2>1. \A x \in Slots \ {s} : call'[x] = call[x]
    BY <1>1, <1>3 DEF IInv, TypeOK
  <2> QED
    BY <1>1, <1>2, <2>1, CurrentStays DEF IInv
<1>4. CASE signingOut
  <2> DEFINE r == Answered(c, None, "login")
             k == Less(Dropped(s, c))
  <2>1. /\ r \in Request /\ ClientOK(r) /\ r.step \notin {"wait", "check"}
        /\ c \in DeviceSlots => DeviceOK(r, call[c])
    BY <1>1, ErrorAnswer
  <2>2. client' = [client EXCEPT ![c] = r] /\ call' = [call EXCEPT ![s] = k]
    BY <1>4 DEF Wake, Less
  <2>3. /\ k \in AuthTokenCall /\ k.waiters = call[s].waiters - 1
        /\ \/ SameResult(k, s)
           \/ k = NoCall /\ call[s].pc = "done" /\ Unused(s, c)
    BY <1>1, LessFields DEF IInv
  <2> HIDE DEF r, k
  <2>4. CurrentInv'
    BY <1>3, <2>2, ZenonT(60)
  <2>5. k.waiters = IF client[c].step = "wait" THEN call[s].waiters - 1 ELSE call[s].waiters
    BY <1>1, <2>3
  <2> QED
    BY <1>1, <1>2, <2>1, <2>2, <2>3, <2>4, <2>5, ReleaseStep
<1>5. CASE ~signingOut
  <2> DEFINE r == [client[c] EXCEPT !.step = "check"]
             q == call[s]
             k == [q EXCEPT !.waiters = @ - 1]
  <2>1. /\ r \in Request /\ ClientOK(r) /\ r.step # "wait"
        /\ r.step = "check" => r.call = s
        /\ c \in DeviceSlots => DeviceOK(r, call[c])
    BY <1>1, GoesOn
  <2>2. client' = [client EXCEPT ![c] = r] /\ call' = [call EXCEPT ![s] = k]
    BY <1>1, <1>5 DEF Wake, IInv, TypeOK
  <2>3. k \in AuthTokenCall /\ k.waiters = call[s].waiters - 1 /\ SameResult(k, s)
    BY <1>1 DEF AuthTokenCall, SameResult
  <2> HIDE DEF r, k, q
  <2>4. CurrentInv'
    BY <1>3, <2>2
  <2>5. k.waiters = IF client[c].step = "wait" THEN call[s].waiters - 1 ELSE call[s].waiters
    BY <1>1, <2>3
  <2> QED
    BY <1>1, <1>2, <2>1, <2>2, <2>3, <2>4, <2>5, ReleaseStep
<1> QED
  BY <1>4, <1>5

\* Whoever reads its own generation again has a result of this session.
LEMMA ResultFields ==
  ASSUME IInv, NEW c \in Clients, client[c].step = "check"
  PROVE  /\ Result(c).credential \in Bearer \cup {None} /\ Result(c).err \in Answers
         /\ Paired(Result(c).credential)
         /\ Result(c).err = "none" => Result(c).credential # None
         /\ client[c].stage # "responses" /\ Result(c).credential # None =>
              \/ Result(c).credential.born = generation
              \/ Result(c).credential.issuer \in EnvAccounts
<1> DEFINE s == client[c].call
<1>1. s \in SlotsOf(client[c].stage) /\ s \in Slots /\ client[c].stage \in Stages
  BY WaitedCall DEF IInv
<1>2. call[s] \in AuthTokenCall /\ CallOK(s, call[s]) /\ call[s].pc = "done"
  BY <1>1 DEF IInv, TypeOK, SharedInv, CallInv, CheckInv
<1>3. client[c].stage # "responses" => s \notin ResponsesSlots
  BY <1>1, SlotsApart DEF Stages
<1> HIDE DEF s
<1>4. CASE call[s].generation # generation
  <2>1. Result(c).credential = None /\ Result(c).err = "login"
    BY <1>4 DEF Result, s
  <2> QED
    BY <2>1 DEF Answers, Paired
<1>5. CASE call[s].generation = generation
  <2>1. Result(c).credential = call[s].credential /\ Result(c).err = call[s].err
    BY <1>5 DEF Result, s
  <2>2. call[s].credential \in Bearer \cup {None} /\ call[s].err \in Answers
    BY <1>2 DEF AuthTokenCall
  <2>3. \A b \in Bearer : generation <= b.born /\ b.born <= generation => b.born = generation
    BY DEF Bearer, IInv, TypeOK
  <2> QED
    BY <1>2, <1>3, <1>5, <2>1, <2>2, <2>3 DEF CallOK, Fresh
<1> QED
  BY <1>4, <1>5

LEMMA CheckStep ==
  ASSUME IInv, NEW c \in Clients, Check(c)
  PROVE  IInv'
<1> DEFINE s == client[c].call
           r == IF Compatible(c, s) \/ call[s].generation # generation
                THEN Answered(c, Result(c).credential, Result(c).err)
                ELSE [client[c] EXCEPT !.step = "ask", !.call = None]
           k == Dropped(s, c)
<1>1. /\ s \in Slots /\ call[s].pc = "done" /\ client[c].stage \in Stages
      /\ client[c].step = "check" /\ client[c].stage # "idle" /\ call[s] \in AuthTokenCall
  BY WaitedCall DEF Check, IInv, TypeOK, SharedInv, CheckInv, Stages
<1>2. /\ OthersStay /\ UNCHANGED <<begun, current>>
      /\ current' \in [Stages -> Slots \cup {None}]
      /\ \A j \in Stages : current'[j] \in SlotsOf(j) \cup {None}
  BY DEF Check, OthersStay, IInv, TypeOK
<1>3. client' = [client EXCEPT ![c] = r] /\ call' = [call EXCEPT ![s] = k]
  BY DEF Check, IInv, TypeOK
<1>4. /\ k \in AuthTokenCall /\ k.waiters = call[s].waiters
      /\ \/ SameResult(k, s)
         \/ k = NoCall /\ call[s].pc = "done" /\ Unused(s, c)
  <2>1. CASE k = call[s]
    BY <1>1, <2>1 DEF SameResult
  <2>2. CASE k # call[s]
    <3>1. k = NoCall /\ Unused(s, c)
      BY <2>2 DEF Dropped
    <3>2. call[s].waiters = 0
      BY <1>1, <3>1, NobodyWaits DEF Unused, IInv, SharedInv
    <3> QED
      BY <1>1, <3>1, <3>2, NoCallOK DEF IInv
  <2> QED
    BY <2>1, <2>2
<1>5. /\ r \in Request /\ ClientOK(r) /\ r.step \notin {"wait", "check"}
      /\ c \in DeviceSlots => DeviceOK(r, call[c])
  <2>1. CASE r = Answered(c, Result(c).credential, Result(c).err)
    <3> DEFINE b == Result(c).credential
               e == Result(c).err
    <3>1. /\ b \in Bearer \cup {None} /\ e \in Answers /\ Paired(b) /\ (e = "none" => b # None)
          /\ client[c].stage # "responses" /\ b # None => b.born = generation \/ b.issuer \in EnvAccounts
      BY <1>1, ResultFields
    <3>2. c \in DeviceSlots => Fresh(b, call[c].generation)
      <4>1. c \in DeviceSlots => client[c].stage # "responses"
        BY DEF IInv, SharedInv, DeviceInv, DeviceOK
      <4>2. c \in DeviceSlots => call[c].generation <= generation
        BY SlotsApart DEF IInv, SharedInv, CallInv, CallOK
      <4>3. generation <= generation
        BY DEF IInv, TypeOK
      <4> HIDE DEF b
      <4> QED
        BY <3>1, <4>1, <4>2, <4>3 DEF Fresh
    <3> HIDE DEF b, e, r
    <3>3. /\ Answered(c, b, e) \in Request /\ ClientOK(Answered(c, b, e))
          /\ Answered(c, b, e).step \in {"none", "ask"}
      BY <1>1, <3>1, AnsweredFields DEF IInv, SharedInv
    <3>4. c \in DeviceSlots => DeviceOK(Answered(c, b, e), call[c])
      BY <1>1, <3>1, <3>2, DeviceAnswer DEF IInv, SharedInv
    <3> QED
      BY <2>1, <3>3, <3>4 DEF b, e
  <2>2. CASE r = [client[c] EXCEPT !.step = "ask", !.call = None]
    <3>1. r.step = "ask"
      BY <1>1, <2>2, ZenonT(60) DEF IInv, TypeOK, Request
    <3> HIDE DEF r
    <3> QED
      BY <1>1, <2>2, <3>1, GoesOn
  <2> QED
    BY <2>1, <2>2
<1> HIDE DEF r, k
<1>6. CurrentInv'
  <2>1. \A x \in Slots \ {s} : call'[x] = call[x]
    BY <1>1, <1>3 DEF IInv, TypeOK
  <2> QED
    BY <1>1, <1>2, <2>1, CurrentStays DEF IInv
<1>7. k.waiters = IF client[c].step = "wait" THEN call[s].waiters - 1 ELSE call[s].waiters
  BY <1>1, <1>4
<1> QED
  BY <1>1, <1>2, <1>3, <1>4, <1>5, <1>6, <1>7, ReleaseStep

\* A client that begins to wait.
Waiting(c, s) == [client[c] EXCEPT !.step = "wait", !.call = s]

LEMMA Waits ==
  ASSUME IInv, NEW c \in Clients, client[c].step = "ask",
         NEW s \in SlotsOf(client[c].stage)
  PROVE  /\ Waiting(c, s) \in Request /\ ClientOK(Waiting(c, s))
         /\ Waiting(c, s).step = "wait" /\ Waiting(c, s).call = s
         /\ client[c].stage \in Stages /\ s \in Slots /\ s # c
         /\ c \in DeviceSlots => DeviceOK(Waiting(c, s), call[c])
<1> DEFINE r == Waiting(c, s)
<1>1. client[c] \in Request /\ ClientOK(client[c]) /\ client[c].stage \in Stages
  BY DEF IInv, TypeOK, SharedInv, ClientInv, ClientOK, Request
<1>2. s \in Slots
  BY <1>1, SlotsApart
<1>3. c \in DeviceSlots => client[c].stage = "refresh" /\ DeviceOK(client[c], call[c])
  BY <1>1 DEF IInv, SharedInv, DeviceInv, DeviceOK, Stages
<1>4. s # c
  BY <1>2, <1>3, SlotAssumption, SlotsApart DEF Clients
<1>5. /\ r \in Request /\ r.stage = client[c].stage /\ r.mode = client[c].mode
      /\ r.credential = client[c].credential /\ r.err = client[c].err
      /\ r.step = "wait" /\ r.call = s
  BY <1>1, <1>2 DEF Request, Waiting
<1> HIDE DEF r
<1>6. ClientOK(r)
  BY <1>1, <1>5 DEF ClientOK, Stages
<1>7. c \in DeviceSlots => DeviceOK(r, call[c])
  <2>1. c \in DeviceSlots => client[c] # Resting
    BY <1>1 DEF Resting, Stages
  <2> QED
    BY <1>3, <1>5, <2>1 DEF DeviceOK
<1> QED
  BY <1>1, <1>2, <1>4, <1>5, <1>6, <1>7 DEF r

LEMMA WaitStep ==
  ASSUME IInv, OthersStay, UNCHANGED begun, NEW c \in Clients, client[c].step = "ask",
         NEW s \in SlotsOf(client[c].stage),
         client' = [client EXCEPT ![c] = Waiting(c, s)],
         NEW k \in AuthTokenCall, call' = [call EXCEPT ![s] = k],
         call[s].pc # "done", k.waiters = call[s].waiters + 1,
         CallOK(s, k), s \in DeviceSlots => DeviceOK(client[s], k),
         current' \in [Stages -> Slots \cup {None}],
         \A j \in Stages : current'[j] \in SlotsOf(j) \cup {None},
         CurrentInv'
  PROVE  IInv'
<1> DEFINE r == Waiting(c, s)
<1>1. /\ r \in Request /\ ClientOK(r) /\ r.step = "wait" /\ r.call = s
      /\ s \in Slots /\ s # c /\ (c \in DeviceSlots => DeviceOK(r, call[c]))
  BY Waits
<1> HIDE DEF r
<1>2. /\ client' \in [Clients -> Request] /\ client'[c] = r
      /\ \A x \in Clients \ {c} : client'[x] = client[x]
      /\ call' \in [Slots -> AuthTokenCall] /\ call'[s] = k
      /\ \A x \in Slots \ {s} : call'[x] = call[x]
  BY <1>1 DEF IInv, TypeOK, r
<1>3. TypeOK' /\ TokenInv' /\ SignOutInv' /\ generation <= generation'
  <2>1. begun' \in 0 .. MaxRequests
    BY DEF IInv, TypeOK
  <2> QED
    BY <1>2, <2>1, OthersFrame DEF IInv
<1>4. CallInv' /\ ClientInv' /\ DeviceInv' /\ CheckInv'
  <2>1. c \in DeviceSlots => DeviceOK(client'[c], call'[c])
    BY <1>1, <1>2, SlotsApart
  <2>2. s \in DeviceSlots => DeviceOK(client'[s], call'[s])
    BY <1>1, <1>2, SlotsApart
  <2>3. client'[c].step # "check"
    BY <1>1, <1>2
  <2>4. TypeOK /\ SharedInv
    BY DEF IInv
  <2> QED
    BY <1>1, <1>2, <1>3, <2>1, <2>2, <2>3, <2>4, OneFrame
<1>5. CountInv'
  BY <1>1, <1>2, CountJoins DEF IInv, SharedInv
<1> QED
  BY <1>3, <1>4, <1>5 DEF IInv, SharedInv

\* One more client waits for a call; nothing else of it changes.
LEMMA OneMoreWaiter ==
  ASSUME NEW q \in AuthTokenCall
  PROVE  LET k == [q EXCEPT !.waiters = @ + 1] IN
         /\ k \in AuthTokenCall /\ k.waiters = q.waiters + 1
         /\ k.pc = q.pc /\ k.generation = q.generation /\ k.credential = q.credential
         /\ k.source = q.source /\ k.err = q.err /\ k.abandoned = q.abandoned
<1> DEFINE k == [q EXCEPT !.waiters = @ + 1]
<1>1. DOMAIN q = DOMAIN k /\ q.waiters \in Nat /\ "waiters" \in DOMAIN q
  BY DEF AuthTokenCall
<1>2. k.waiters = q.waiters + 1
  BY <1>1
<1>3. /\ k.pc = q.pc /\ k.generation = q.generation /\ k.credential = q.credential
      /\ k.source = q.source /\ k.err = q.err /\ k.abandoned = q.abandoned
  OBVIOUS
<1>4. k \in AuthTokenCall
  BY <1>1, SMTT(60) DEF AuthTokenCall
<1> QED
  BY <1>2, <1>3, <1>4

LEMMA JoinStep ==
  ASSUME IInv, NEW c \in Clients, Join(c)
  PROVE  IInv'
<1> DEFINE s == current[client[c].stage]
           q == call[s]
           k == [q EXCEPT !.waiters = @ + 1]
<1>1. client[c].step = "ask" /\ client[c].stage \in Stages
  BY DEF Join, CanShare, IInv, TypeOK, SharedInv, ClientInv, ClientOK, Request
<1>2. s \in SlotsOf(client[c].stage) /\ s \in Slots
  BY <1>1, SlotsApart, SMTT(60) DEF Join, InFlight, IInv, TypeOK
<1>3. q \in AuthTokenCall /\ q.pc \notin {"free", "done"} /\ ~q.abandoned /\ q.waiters > 0
  BY <1>1, <1>2, SMTT(60) DEF Join, InFlight, IInv, TypeOK, SharedInv, CurrentInv
<1>4. /\ k \in AuthTokenCall /\ k.waiters = q.waiters + 1 /\ SameResult(k, s)
      /\ k.abandoned = q.abandoned
  BY <1>3, OneMoreWaiter DEF SameResult
<1>5. client' = [client EXCEPT ![c] = Waiting(c, s)] /\ call' = [call EXCEPT ![s] = k]
  BY <1>2 DEF Join, IInv, TypeOK, Waiting
<1>6. CallOK(s, k) /\ (s \in DeviceSlots => DeviceOK(client[s], k))
  BY <1>2, <1>3, <1>4, SameResultOK DEF IInv
<1>7. /\ OthersStay /\ UNCHANGED <<begun, current>>
      /\ current' \in [Stages -> Slots \cup {None}]
      /\ \A j \in Stages : current'[j] \in SlotsOf(j) \cup {None}
  BY DEF Join, OthersStay, IInv, TypeOK
<1> HIDE DEF k
<1>8. CurrentInv'
  <2>1. (\A x \in Slots \ {s} : call'[x] = call[x]) /\ call'[s] = k
    BY <1>2, <1>5 DEF IInv, TypeOK
  <2>2. k.waiters > 0
    BY <1>3, <1>4 DEF AuthTokenCall
  <2> QED
    BY <1>2, <1>4, <1>7, <2>1, <2>2, CurrentStays DEF IInv, SameResult
<1> QED
  <2>2. call[s].pc # "done" /\ k.waiters = call[s].waiters + 1
    BY <1>3, <1>4
  <2> HIDE DEF s
  <2> QED
    BY <1>1, <1>2, <1>4, <1>5, <1>6, <1>7, <1>8, <2>2, WaitStep

LEMMA CreateStep ==
  ASSUME IInv, NEW c \in Clients, Create(c)
  PROVE  IInv'
<1> DEFINE stage == client[c].stage
           source == IF stage = "responses" THEN Source(client[c].credential) ELSE None
           k == [NoCall EXCEPT !.pc = IF stage = "device" THEN "gate" ELSE "run",
                               !.generation = generation,
                               !.force = (stage = "refresh" /\ client[c].mode = "force"),
                               !.source = source,
                               !.waiters = 1]
<1>1. client[c].step = "ask" /\ stage \in Stages /\ ClientOK(client[c]) /\ client[c] \in Request
  BY DEF Create, CanShare, IInv, TypeOK, SharedInv, ClientInv, ClientOK, Request
<1>2. PICK s \in SlotsOf(stage) :
        /\ call[s].pc = "free"
        /\ call' = [call EXCEPT ![s] = k]
        /\ current' = [current EXCEPT ![stage] = s]
        /\ client' = [client EXCEPT ![c].step = "wait", ![c].call = s]
  BY DEF Create
<1>3. client' = [client EXCEPT ![c] = Waiting(c, s)]
  BY <1>2 DEF IInv, TypeOK, Waiting
<1>4. s \in Slots /\ call[s] = NoCall /\ call[s].waiters = 0
  <2>1. s \in Slots
    BY <1>1, SlotsApart
  <2>2. call[s] = NoCall
    BY <1>2, <2>1 DEF IInv, SharedInv, CallInv, CallOK
  <2> QED
    BY <2>1, <2>2 DEF NoCall
<1>5. source \in Credential \cup {None} /\ (stage = "responses" => source # None)
  <2>1. CASE stage = "responses"
    <3>1. client[c].credential \in Bearer
      BY <1>1, <2>1 DEF ClientOK, Request
    <3>2. \A b \in Bearer : Source(b) \in Credential
      BY DEF Bearer, Credential, Source
    <3> QED
      BY <2>1, <3>1, <3>2, TokenAssumption
  <2> QED
    BY <2>1
<1>6. OthersStay /\ UNCHANGED begun
  BY DEF Create, OthersStay
<1>7. s \in ResponsesSlots => stage = "responses"
  BY <1>1, <1>2, SlotsApart DEF Stages
<1> HIDE DEF source
<1>8. /\ k \in AuthTokenCall /\ k.pc \in {"gate", "run"} /\ k.generation = generation
      /\ k.source = source /\ k.waiters = 1 /\ ~k.abandoned
      /\ k.credential = None /\ k.err = "none"
  BY <1>5, ZenonT(60) DEF NoCall, AuthTokenCall, Answers, IInv, TypeOK
<1> HIDE DEF k, stage
<1>9. CallOK(s, k)
  BY <1>5, <1>7, <1>8 DEF CallOK, Fresh, Paired, IInv, TypeOK
<1>10. s \in DeviceSlots => DeviceOK(client[s], k)
  <2>1. s \in DeviceSlots => client[s] = Resting
    BY <1>2 DEF IInv, SharedInv, DeviceInv, DeviceOK
  <2>2. DeviceOK(Resting, k)
    BY <1>8 DEF DeviceOK, Resting, Fresh
  <2> QED
    BY <2>1, <2>2
<1>11. /\ current' \in [Stages -> Slots \cup {None}]
       /\ \A j \in Stages : current'[j] \in SlotsOf(j) \cup {None}
  BY <1>1, <1>2, <1>4 DEF IInv, TypeOK
<1>12. CurrentInv'
  <2>1. SUFFICES ASSUME NEW j \in Stages, current'[j] # None
                 PROVE  /\ ~call'[current'[j]].abandoned /\ call'[current'[j]].waiters > 0
                        /\ call'[current'[j]].pc \notin {"free", "done"}
    BY DEF CurrentInv
  <2>2. CASE j = stage
    <3>1. current'[j] = s /\ call'[s] = k
      BY <1>1, <1>2, <1>4, <2>2 DEF IInv, TypeOK
    <3> QED
      BY <1>8, <3>1
  <2>3. CASE j # stage
    <3>1. current'[j] = current[j] /\ current[j] \in Slots
      BY <1>2, <2>1, <2>3, SlotsApart DEF IInv, TypeOK
    <3>2. current[j] # s
      BY <1>2, <2>1, <3>1 DEF IInv, SharedInv, CurrentInv
    <3>3. call'[current[j]] = call[current[j]]
      BY <1>2, <3>1, <3>2 DEF IInv, TypeOK
    <3> QED
      BY <2>1, <3>1, <3>3 DEF IInv, SharedInv, CurrentInv
  <2> QED
    BY <2>2, <2>3
<1>13. call[s].pc # "done" /\ k.waiters = call[s].waiters + 1
  BY <1>2, <1>4, <1>8
<1> QED
  <2>2. s \in SlotsOf(client[c].stage) /\ call' = [call EXCEPT ![s] = k]
    BY <1>2 DEF stage
  <2> QED
    BY <1>1, <1>3, <1>6, <1>8, <1>9, <1>10, <1>11, <1>12, <1>13, <2>2, WaitStep

-----------------------------------------------------------------------------
(* What the goroutines of the calls leave.                                   *)

Gates  == DeviceSlots \cup {None, "user", "signOut"}
Logins == {"idle", "pollGate", "poll", "cliGate", "cli"}
Mems   == [access : Credential \cup {None}, bearer : Bearer \cup {None}]

LEMMA TypeFrame ==
  ASSUME TypeOK, UNCHANGED <<env, outVars>>,
         mem' \in Mems, disk' \in Directory, faults' \in 0 .. MaxFaults,
         responses' \in Bearer \cup {None}, gate' \in Gates, login' \in Logins,
         begun' \in 0 .. MaxRequests,
         call' \in [Slots -> AuthTokenCall], client' \in [Clients -> Request],
         current' \in [Stages -> Slots \cup {None}],
         \A k \in Stages : current'[k] \in SlotsOf(k) \cup {None}
  PROVE  TypeOK' /\ generation <= generation'
  BY DEF TypeOK, outVars, Mems, Gates, Logins

LEMMA TokensStay ==
  ASSUME TokenInv, SignOutInv, UNCHANGED tokenVars, UNCHANGED outVars
  PROVE  TokenInv' /\ SignOutInv'
  BY DEF TokenInv, InSession, Tokens, Session, SignOutInv, tokenVars, outVars, Paired

\* What a section under mu leaves.
LEMMA Committed ==
  ASSUME TypeOK, SignOutInv, NEW st, Good(st), Commit(st), UNCHANGED outVars
  PROVE  /\ TokenInv' /\ SignOutInv'
         /\ mem' \in Mems /\ disk' \in Directory /\ faults' \in 0 .. MaxFaults
<1>1. mem' \in Mems /\ disk' \in Directory /\ faults' \in 0 .. MaxFaults
  BY DEF Good, Sections, Commit, Mems
<1>2. Session' = Session
  BY DEF Session, outVars
<1>3. TokenInv'
  BY <1>2 DEF TokenInv, InSession, Tokens, Commit, Good, Paired
<1>4. SignOutInv'
  BY DEF SignOutInv, outVars
<1> QED
  BY <1>1, <1>3, <1>4

\* A goroutine changes its own call, and the client that a device login is.
LEMMA GoroutineStep ==
  ASSUME IInv, TypeOK', TokenInv', SignOutInv', generation <= generation',
         NEW s \in Slots, call[s].pc \notin {"free", "done"},
         UNCHANGED current,
         \A x \in Clients \ {s} : client'[x] = client[x],
         \A x \in Slots \ {s} : call'[x] = call[x],
         CallOK(s, call'[s]), call'[s].pc \notin {"free", "done"},
         call'[s].waiters = call[s].waiters, call'[s].abandoned = call[s].abandoned,
         s \in DeviceSlots =>
           /\ client[s].step # "wait" /\ client'[s].step \notin {"wait", "check"}
           /\ ClientOK(client'[s]) /\ DeviceOK(client'[s], call'[s])
  PROVE  IInv'
<1>1. TypeOK /\ SharedInv
  BY DEF IInv
<1>2. CallInv' /\ ClientInv' /\ DeviceInv' /\ CheckInv'
  <2>1. CASE s \in DeviceSlots
    <3>1. s \in Clients
      BY <2>1, SlotsApart
    <3>2. client'[s].step # "check"
      BY <2>1
    <3> QED
      BY <1>1, <2>1, <3>1, <3>2, OneFrame
  <2>2. CASE s \notin DeviceSlots
    <3>1. s \notin Clients
      BY <2>2, SlotsApart DEF Clients
    <3>2. UNCHANGED client
      BY <1>1, <3>1 DEF TypeOK
    <3> QED
      BY <1>1, <2>2, <3>2, SlotFrame
  <2> QED
    BY <2>1, <2>2
<1>3. CountInv'
  <2>1. \A c \in Clients : client'[c] = client[c] \/ (client'[c].step # "wait" /\ client[c].step # "wait")
    BY SlotsApart DEF Clients
  <2> QED
    BY <1>1, <2>1, CountFrame DEF SharedInv
<1>4. CurrentInv'
  <2>1. SUFFICES ASSUME NEW j \in Stages, current[j] # None
                 PROVE  /\ ~call'[current[j]].abandoned /\ call'[current[j]].waiters > 0
                        /\ call'[current[j]].pc \notin {"free", "done"}
    BY DEF CurrentInv
  <2>2. current[j] \in Slots
    BY <1>1, <2>1, SlotsApart DEF TypeOK
  <2> QED
    BY <1>1, <2>1, <2>2 DEF SharedInv, CurrentInv
<1> QED
  BY <1>2, <1>3, <1>4 DEF IInv, SharedInv

\* A call that ends with a credential and an error.
Ended(s, b, e) == [call[s] EXCEPT !.pc = "ended", !.credential = b, !.err = e]

LEMMA EndedOK ==
  ASSUME IInv, NEW s \in Slots, call[s].pc # "free",
         NEW b \in Bearer \cup {None}, NEW e \in Answers, e = "none" => b # None, Paired(b),
         s \notin ResponsesSlots => Fresh(b, call[s].generation),
         s \in ResponsesSlots => b = None \/ b = BearerOf(call[s].source)
  PROVE  /\ Ended(s, b, e) \in AuthTokenCall /\ CallOK(s, Ended(s, b, e))
         /\ Ended(s, b, e).pc = "ended"
         /\ Ended(s, b, e).waiters = call[s].waiters
         /\ Ended(s, b, e).abandoned = call[s].abandoned
         /\ DeviceOK(Resting, Ended(s, b, e))
<1> DEFINE q == call[s]
           k == Ended(s, b, e)
<1>1. q \in AuthTokenCall /\ CallOK(s, q)
  BY DEF IInv, TypeOK, SharedInv, CallInv
<1>2. /\ k \in AuthTokenCall /\ k.pc = "ended" /\ k.credential = b /\ k.err = e
      /\ k.generation = q.generation /\ k.source = q.source
      /\ k.waiters = q.waiters /\ k.abandoned = q.abandoned
  BY <1>1 DEF AuthTokenCall, Ended
<1> HIDE DEF k
<1>3. CallOK(s, k)
  BY <1>1, <1>2 DEF CallOK
<1>4. DeviceOK(Resting, k)
  BY <1>2 DEF DeviceOK, Resting, Fresh
<1> QED
  BY <1>2, <1>3, <1>4 DEF k

\* A device login rests but before and after its prompt.
LEMMA RestingOutside ==
  ASSUME IInv, NEW s \in DeviceSlots
  PROVE  /\ call[s].pc \notin {"before", "after"} => client[s] = Resting
         /\ Resting \in Request /\ ClientOK(Resting) /\ Resting.step = "none"
<1>1. Resting \in Request /\ ClientOK(Resting) /\ Resting.step = "none"
  BY DEF Resting, Request, Modes, Answers, ClientOK, Paired
<1>2. call[s].pc \notin {"before", "after"} => client[s] = Resting
  BY DEF IInv, SharedInv, DeviceInv, DeviceOK
<1> QED
  BY <1>1, <1>2

\* A goroutine ends its call; a device login rests.
LEMMA EndsStep ==
  ASSUME IInv, TypeOK', TokenInv', SignOutInv', generation <= generation',
         NEW s \in Slots, call[s].pc \notin {"free", "done"}, UNCHANGED current,
         NEW b \in Bearer \cup {None}, NEW e \in Answers, e = "none" => b # None, Paired(b),
         s \notin ResponsesSlots => Fresh(b, call[s].generation),
         s \in ResponsesSlots => b = None \/ b = BearerOf(call[s].source),
         call' = [call EXCEPT ![s] = Ended(s, b, e)],
         \A x \in Clients \ {s} : client'[x] = client[x],
         s \in DeviceSlots => client[s].step # "wait" /\ client'[s] = Resting
  PROVE  IInv'
<1>1. /\ CallOK(s, Ended(s, b, e)) /\ Ended(s, b, e).pc = "ended"
      /\ Ended(s, b, e).waiters = call[s].waiters
      /\ Ended(s, b, e).abandoned = call[s].abandoned
      /\ DeviceOK(Resting, Ended(s, b, e))
  BY EndedOK
<1>2. call'[s] = Ended(s, b, e) /\ \A x \in Slots \ {s} : call'[x] = call[x]
  BY DEF IInv, TypeOK
<1>3. s \in DeviceSlots =>
           /\ client[s].step # "wait" /\ client'[s].step \notin {"wait", "check"}
           /\ ClientOK(client'[s]) /\ DeviceOK(client'[s], call'[s])
  BY <1>1, <1>2, RestingOutside
<1> QED
  BY <1>1, <1>2, <1>3, GoroutineStep

LEMMA EndsQuietly ==
  ASSUME IInv, UNCHANGED <<env, tokenVars, responses, outVars, login, begun, current>>,
         gate' \in Gates, client' \in [Clients -> Request],
         NEW s \in Slots, call[s].pc \notin {"free", "done"},
         NEW b \in Bearer \cup {None}, NEW e \in Answers, e = "none" => b # None, Paired(b),
         s \notin ResponsesSlots => Fresh(b, call[s].generation),
         s \in ResponsesSlots => b = None \/ b = BearerOf(call[s].source),
         call' = [call EXCEPT ![s] = Ended(s, b, e)],
         \A x \in Clients \ {s} : client'[x] = client[x],
         s \in DeviceSlots => client[s].step # "wait" /\ client'[s] = Resting
  PROVE  IInv'
<1>1. Ended(s, b, e) \in AuthTokenCall
  BY EndedOK
<1>2. call' \in [Slots -> AuthTokenCall]
  BY <1>1 DEF IInv, TypeOK
<1>3. TokenInv' /\ SignOutInv'
  BY TokensStay DEF IInv
<1>4. TypeOK' /\ generation <= generation'
  <2>1. /\ mem' \in Mems /\ disk' \in Directory /\ faults' \in 0 .. MaxFaults
        /\ responses' \in Bearer \cup {None} /\ login' \in Logins /\ begun' \in 0 .. MaxRequests
        /\ current' \in [Stages -> Slots \cup {None}]
        /\ \A k \in Stages : current'[k] \in SlotsOf(k) \cup {None}
    BY DEF IInv, TypeOK, tokenVars, Mems, Logins
  <2> QED
    BY <1>2, <2>1, TypeFrame DEF IInv
<1> QED
  BY <1>3, <1>4, EndsStep

LEMMA ExecuteResponsesStep ==
  ASSUME IInv, NEW s \in Slots, ExecuteResponses(s)
  PROVE  IInv'
<1>1. PICK e \in Answers :
        call' = [call EXCEPT ![s].pc = "ended", ![s].err = e,
                   ![s].credential = IF e = "none" THEN BearerOf(call[s].source) ELSE None]
  BY DEF ExecuteResponses, Answers
<1> DEFINE b == IF e = "none" THEN BearerOf(call[s].source) ELSE None
<1>2. s \in ResponsesSlots /\ s \notin DeviceSlots /\ call[s].pc = "run"
  BY SlotAssumption DEF ExecuteResponses
<1>3. call[s].source \in Credential
  BY <1>2 DEF IInv, TypeOK, SharedInv, CallInv, CallOK, AuthTokenCall
<1>4. b \in Bearer \cup {None} /\ (e = "none" => b # None) /\ Paired(b)
      /\ (b = None \/ b = BearerOf(call[s].source))
  BY <1>3, BearerFields DEF Paired
<1>5. call' = [call EXCEPT ![s] = Ended(s, b, e)]
  <2> HIDE DEF b
  <2>1. call' = [call EXCEPT ![s].pc = "ended", ![s].err = e, ![s].credential = b]
    BY <1>1 DEF b
  <2>2. call[s] \in AuthTokenCall
    BY DEF IInv, TypeOK
  <2> QED
    BY <2>1, <2>2, ZenonT(60) DEF Ended, IInv, TypeOK, AuthTokenCall
<1>6. /\ UNCHANGED <<env, tokenVars, responses, outVars, login, begun, current>>
      /\ gate' \in Gates /\ client' \in [Clients -> Request]
      /\ \A x \in Clients \ {s} : client'[x] = client[x]
  BY DEF ExecuteResponses, IInv, TypeOK, Gates
<1> HIDE DEF b
<1> QED
  BY <1>2, <1>4, <1>5, <1>6, EndsQuietly

\* The end of a device call that has nothing to say but an error.
LEMMA DeviceEndsStep ==
  ASSUME IInv, UNCHANGED <<env, tokenVars, responses, outVars, login, begun, current, client>>,
         gate' \in Gates, NEW s \in DeviceSlots, call[s].pc \in {"gate", "prompt"},
         NEW b \in {None, call[s].credential}, NEW e \in {"login", "other"},
         call' = [call EXCEPT ![s] = Ended(s, b, e)]
  PROVE  IInv'
<1>1. s \in Slots /\ s \in Clients /\ s \notin ResponsesSlots
  BY SlotAssumption, SlotsApart
<1>2. call[s] \in AuthTokenCall /\ CallOK(s, call[s])
  BY <1>1 DEF IInv, TypeOK, SharedInv, CallInv
<1>3. b \in Bearer \cup {None} /\ e \in Answers /\ Paired(b) /\ Fresh(b, call[s].generation)
  BY <1>1, <1>2 DEF AuthTokenCall, CallOK, Paired, Fresh, Answers
<1>4. client[s].step # "wait" /\ client'[s] = Resting
  BY RestingOutside
<1>5. client' \in [Clients -> Request]
  BY DEF IInv, TypeOK
<1> QED
  BY <1>1, <1>3, <1>4, <1>5, EndsQuietly

LEMMA DeviceGateCanceledStep ==
  ASSUME IInv, NEW s \in Slots, DeviceGateCanceled(s)
  PROVE  IInv'
<1> DEFINE b == call[s].credential
           e == "other"
<1>1. s \in DeviceSlots /\ call[s].pc = "gate"
  BY DEF DeviceGateCanceled
<1>2. call' = [call EXCEPT ![s] = Ended(s, b, e)]
  BY ZenonT(60) DEF DeviceGateCanceled, Ended, IInv, TypeOK, AuthTokenCall
<1>3. gate' \in Gates
  BY DEF DeviceGateCanceled, Gates, IInv, TypeOK
<1>4. UNCHANGED <<env, tokenVars, responses, outVars, login, begun, current, client>>
  BY DEF DeviceGateCanceled
<1> HIDE DEF e
<1>5. e \in {"login", "other"} /\ b \in {None, call[s].credential}
  BY DEF e
<1> HIDE DEF b
<1> QED
  BY <1>1, <1>2, <1>3, <1>4, <1>5, DeviceEndsStep

LEMMA EndsGate ==
  ASSUME IInv, NEW s \in Slots, NEW b, NEW e, DeviceEnds(s, b, e)
  PROVE  call' = [call EXCEPT ![s] = Ended(s, b, e)] /\ gate' \in Gates
  BY DEF DeviceEnds, Ended, IInv, TypeOK, AuthTokenCall, Gates

LEMMA DevicePromptFailsStep ==
  ASSUME IInv, NEW s \in Slots, DevicePromptFails(s)
  PROVE  IInv'
<1>1. s \in DeviceSlots /\ call[s].pc = "prompt"
  BY DEF DevicePromptFails
<1>2. call' = [call EXCEPT ![s] = Ended(s, None, "other")] /\ gate' \in Gates
  BY EndsGate DEF DevicePromptFails
<1>3. UNCHANGED <<env, tokenVars, responses, outVars, login, begun, current, client>>
  BY DEF DevicePromptFails
<1> QED
  BY <1>1, <1>2, <1>3, DeviceEndsStep

LEMMA ExecuteRefreshStep ==
  ASSUME IInv, NEW s \in Slots, ExecuteRefresh(s)
  PROVE  IInv'
<1>1. /\ s \in RefreshSlots /\ s \notin DeviceSlots /\ s \notin ResponsesSlots
      /\ call[s].pc = "run" /\ MuFree
      /\ call[s] \in AuthTokenCall /\ CallOK(s, call[s])
  BY SlotAssumption DEF ExecuteRefresh, IInv, TypeOK, SharedInv, CallInv
<1>2. /\ UNCHANGED <<env, responses, outVars, login, begun, current, gate, client>>
      /\ \A x \in Clients \ {s} : client'[x] = client[x]
      /\ gate' \in Gates /\ client' \in [Clients -> Request]
  BY DEF ExecuteRefresh, IInv, TypeOK, Gates
<1>3. CASE call[s].canceled
  <2> DEFINE b == call[s].credential
             e == "other"
  <2>1. UNCHANGED tokenVars /\ call' = [call EXCEPT ![s] = Ended(s, b, e)]
    BY <1>1, <1>3, ZenonT(60) DEF ExecuteRefresh, Ended, IInv, TypeOK, AuthTokenCall
  <2>2. b \in Bearer \cup {None} /\ Paired(b) /\ Fresh(b, call[s].generation)
    BY <1>1 DEF AuthTokenCall, CallOK
  <2>3. e \in Answers /\ e # "none"
    BY DEF Answers
  <2> HIDE DEF b, e
  <2> QED
    BY <1>1, <1>2, <2>1, <2>2, <2>3, EndsQuietly
<1>4. CASE ~call[s].canceled
  <2>1. PICK st \in Refresh(call[s].force) :
          /\ Commit(st)
          /\ call' = [call EXCEPT ![s].pc = "ended", ![s].err = st.err,
                        ![s].credential = IF st.err = "none" THEN st.mem.bearer ELSE None]
    BY <1>4 DEF ExecuteRefresh
  <2> DEFINE b == IF st.err = "none" THEN st.mem.bearer ELSE None
  <2>2. Settled(st)
    BY <1>1, RefreshSettled DEF IInv, AuthTokenCall
  <2>3. call' = [call EXCEPT ![s] = Ended(s, b, st.err)]
    <3> HIDE DEF b
    <3>1. call' = [call EXCEPT ![s].pc = "ended", ![s].err = st.err, ![s].credential = b]
      BY <2>1 DEF b
    <3> QED
      BY <1>1, <3>1, ZenonT(60) DEF Ended, IInv, TypeOK, AuthTokenCall
  <2>4. Session = generation
    BY <1>1, SessionNow DEF IInv
  <2>5. /\ st.err \in Answers /\ (st.err = "none" => b # None)
        /\ b \in Bearer \cup {None} /\ Paired(b)
        /\ b # None => b.born = generation \/ b.issuer \in EnvAccounts
    BY <2>2, <2>4 DEF Settled, Served, Good, Sections, InSession, Paired
  <2> HIDE DEF b
  <2>6. Fresh(b, call[s].generation)
    <3>1. call[s].generation <= generation /\ generation <= generation
      BY <1>1 DEF CallOK, IInv, TypeOK
    <3> QED
      BY <2>5, <3>1 DEF Fresh
  <2>7. Ended(s, b, st.err) \in AuthTokenCall
    BY <1>1, <2>5, <2>6, EndedOK
  <2>8. /\ TokenInv' /\ SignOutInv'
        /\ mem' \in Mems /\ disk' \in Directory /\ faults' \in 0 .. MaxFaults
    BY <1>2, <2>1, <2>2, Committed DEF IInv, Settled, Served
  <2>9. TypeOK' /\ generation <= generation'
    <3>1. /\ responses' \in Bearer \cup {None} /\ login' \in Logins /\ begun' \in 0 .. MaxRequests
          /\ current' \in [Stages -> Slots \cup {None}]
          /\ \A k \in Stages : current'[k] \in SlotsOf(k) \cup {None}
      BY <1>2 DEF IInv, TypeOK, Logins
    <3>2. call' \in [Slots -> AuthTokenCall]
      BY <2>3, <2>7 DEF IInv, TypeOK
    <3> QED
      BY <1>2, <2>8, <3>1, <3>2, TypeFrame DEF IInv
  <2> QED
    BY <1>1, <1>2, <2>3, <2>5, <2>6, <2>8, <2>9, EndsStep
<1> QED
  BY <1>3, <1>4

LEMMA DeviceGateStep ==
  ASSUME IInv, NEW s \in Slots, DeviceGate(s)
  PROVE  IInv'
<1> DEFINE q == call[s]
           k == [q EXCEPT !.pc = "before"]
           r == [Resting EXCEPT !.stage = "refresh", !.step = "ask", !.mode = "quiet"]
<1>1. s \in DeviceSlots /\ s \in Clients /\ q.pc = "gate" /\ q \in AuthTokenCall /\ CallOK(s, q)
  BY SlotsApart DEF DeviceGate, IInv, TypeOK, SharedInv, CallInv
<1>2. call' = [call EXCEPT ![s] = k] /\ client' = [client EXCEPT ![s] = r]
  BY <1>1 DEF DeviceGate, IInv, TypeOK
<1>3. /\ k \in AuthTokenCall /\ k.pc = "before" /\ k.waiters = q.waiters
      /\ k.abandoned = q.abandoned /\ k.generation = q.generation
      /\ k.credential = q.credential /\ k.source = q.source /\ k.err = q.err
  BY <1>1 DEF AuthTokenCall
<1>4. /\ r \in Request /\ r.step = "ask" /\ r.stage = "refresh" /\ r.mode = "quiet"
      /\ r.credential = None /\ ClientOK(r)
  BY DEF Resting, Request, Modes, Stages, Answers, ClientOK, Paired
<1> HIDE DEF k, r
<1>5. CallOK(s, k)
  BY <1>1, <1>3 DEF CallOK
<1>6. DeviceOK(r, k)
  BY <1>3, <1>4 DEF DeviceOK, Fresh
<1>7. client[s].step = "none"
  BY <1>1, RestingOutside
<1>8. /\ client' \in [Clients -> Request] /\ client'[s] = r
      /\ \A x \in Clients \ {s} : client'[x] = client[x]
      /\ call' \in [Slots -> AuthTokenCall] /\ call'[s] = k
      /\ \A x \in Slots \ {s} : call'[x] = call[x]
  BY <1>1, <1>2, <1>3, <1>4 DEF IInv, TypeOK
<1>9. TokenInv' /\ SignOutInv'
  BY TokensStay DEF DeviceGate, IInv
<1>10. TypeOK' /\ generation <= generation'
  <2>1. /\ mem' \in Mems /\ disk' \in Directory /\ faults' \in 0 .. MaxFaults
        /\ responses' \in Bearer \cup {None} /\ login' \in Logins /\ begun' \in 0 .. MaxRequests
        /\ gate' \in Gates
        /\ current' \in [Stages -> Slots \cup {None}]
        /\ \A j \in Stages : current'[j] \in SlotsOf(j) \cup {None}
    BY <1>1 DEF DeviceGate, IInv, TypeOK, tokenVars, Mems, Logins, Gates
  <2>2. UNCHANGED <<env, outVars>>
    BY DEF DeviceGate
  <2> QED
    BY <1>8, <2>1, <2>2, TypeFrame DEF IInv
<1>11. UNCHANGED current
  BY DEF DeviceGate
<1> QED
  BY <1>1, <1>3, <1>4, <1>5, <1>6, <1>7, <1>8, <1>9, <1>10, <1>11, GoroutineStep

LEMMA DeviceAnsweredStep ==
  ASSUME IInv, NEW s \in Slots, DeviceAnswered(s)
  PROVE  IInv'
<1> DEFINE q == call[s]
<1>1. /\ s \in DeviceSlots /\ s \in Clients /\ q.pc \in {"before", "after"}
      /\ s \notin ResponsesSlots
      /\ q \in AuthTokenCall /\ CallOK(s, q) /\ DeviceOK(client[s], q) /\ ClientOK(client[s])
      /\ client[s] \in Request /\ client[s].stage = "idle" /\ client[s].step # "wait"
  BY SlotAssumption, SlotsApart
     DEF DeviceAnswered, IInv, TypeOK, SharedInv, CallInv, DeviceInv, ClientInv, ClientOK
<1>2. Resting \in Request /\ ClientOK(Resting) /\ Resting.step = "none"
  BY <1>1, RestingOutside
<1>3. /\ client' \in [Clients -> Request] /\ client'[s] = Resting
      /\ \A x \in Clients \ {s} : client'[x] = client[x]
  BY <1>1, <1>2 DEF DeviceAnswered, IInv, TypeOK
<1>4. UNCHANGED <<env, tokenVars, responses, outVars, login, begun, current>>
  BY DEF DeviceAnswered
<1>5. CASE /\ UNCHANGED gate
           /\ call' = [call EXCEPT ![s].pc = "prompt"]
  <2> DEFINE k == [q EXCEPT !.pc = "prompt"]
  <2>1. call' = [call EXCEPT ![s] = k]
    BY <1>1, <1>5 DEF IInv, TypeOK
  <2>2. /\ k \in AuthTokenCall /\ k.pc = "prompt" /\ k.waiters = q.waiters
        /\ k.abandoned = q.abandoned /\ k.generation = q.generation
        /\ k.credential = q.credential /\ k.source = q.source /\ k.err = q.err
    BY <1>1 DEF AuthTokenCall
  <2> HIDE DEF k
  <2>3. CallOK(s, k) /\ DeviceOK(Resting, k)
    BY <1>1, <2>2 DEF CallOK, DeviceOK, Resting, Fresh
  <2>4. /\ call' \in [Slots -> AuthTokenCall] /\ call'[s] = k
        /\ \A x \in Slots \ {s} : call'[x] = call[x]
    BY <2>1, <2>2 DEF IInv, TypeOK
  <2>5. TokenInv' /\ SignOutInv'
    BY <1>4, TokensStay DEF IInv
  <2>6. TypeOK' /\ generation <= generation'
    <3>1. /\ mem' \in Mems /\ disk' \in Directory /\ faults' \in 0 .. MaxFaults
          /\ responses' \in Bearer \cup {None} /\ login' \in Logins /\ begun' \in 0 .. MaxRequests
          /\ gate' \in Gates
          /\ current' \in [Stages -> Slots \cup {None}]
          /\ \A j \in Stages : current'[j] \in SlotsOf(j) \cup {None}
      BY <1>4, <1>5 DEF IInv, TypeOK, tokenVars, Mems, Logins, Gates
    <3> QED
      BY <1>3, <1>4, <2>4, <3>1, TypeFrame DEF IInv
  <2> QED
    BY <1>1, <1>2, <1>3, <1>4, <2>2, <2>3, <2>4, <2>5, <2>6, GoroutineStep
<1>6. CASE DeviceEnds(s, client[s].credential, client[s].err)
  <2> DEFINE b == client[s].credential
             e == client[s].err
  <2>1. call' = [call EXCEPT ![s] = Ended(s, b, e)] /\ gate' \in Gates
    BY <1>6, EndsGate
  <2>2. /\ b \in Bearer \cup {None} /\ e \in Answers /\ (e = "none" => b # None) /\ Paired(b)
        /\ Fresh(b, call[s].generation)
    BY <1>1 DEF Request, DeviceOK, ClientOK
  <2>3. call[s].pc \notin {"free", "done"}
    BY <1>1
  <2> HIDE DEF b, e
  <2> QED
    BY <1>1, <1>3, <1>4, <2>1, <2>2, <2>3, EndsQuietly
<1> QED
  BY <1>5, <1>6 DEF DeviceAnswered

LEMMA DeviceAuthorizedStep ==
  ASSUME IInv, NEW s \in Slots, DeviceAuthorized(s)
  PROVE  IInv'
<1> DEFINE q == call[s]
<1>1. /\ s \in DeviceSlots /\ s \in Clients /\ q.pc = "prompt" /\ s \notin ResponsesSlots
      /\ q \in AuthTokenCall /\ CallOK(s, q) /\ MuFree
      /\ client[s] = Resting /\ client[s].step # "wait"
  BY SlotAssumption, SlotsApart, RestingOutside
     DEF DeviceAuthorized, IInv, TypeOK, SharedInv, CallInv
<1>2. UNCHANGED <<begun, env, responses, outVars, current, login>>
  BY DEF DeviceAuthorized
<1>3. CASE signingOut
  <2>1. DeviceEnds(s, None, "login") /\ UNCHANGED <<tokenVars, client>>
    BY <1>3 DEF DeviceAuthorized
  <2>2. call' = [call EXCEPT ![s] = Ended(s, None, "login")] /\ gate' \in Gates
    BY <2>1, EndsGate
  <2> QED
    BY <1>1, <1>2, <2>1, <2>2, DeviceEndsStep
<1>4. CASE ~signingOut
  <2>1. PICK a \in LoginAccounts : \E st \in CompleteAuthorization(a) :
          /\ Commit(st)
          /\ IF st.err # "none"
             THEN DeviceEnds(s, None, st.err) /\ UNCHANGED client
             ELSE /\ call' = [call EXCEPT ![s].pc = "after"]
                  /\ client' = [client EXCEPT ![s] =
                       [Resting EXCEPT !.stage = "refresh", !.step = "ask", !.mode = "quiet"]]
                  /\ UNCHANGED gate
    BY <1>4 DEF DeviceAuthorized
  <2>2. PICK st \in CompleteAuthorization(a) :
          /\ Commit(st)
          /\ IF st.err # "none"
             THEN DeviceEnds(s, None, st.err) /\ UNCHANGED client
             ELSE /\ call' = [call EXCEPT ![s].pc = "after"]
                  /\ client' = [client EXCEPT ![s] =
                       [Resting EXCEPT !.stage = "refresh", !.step = "ask", !.mode = "quiet"]]
                  /\ UNCHANGED gate
    BY <2>1
  <2>3. Settled(st)
    BY <1>1, CompleteAuthorizationSettled DEF IInv
  <2>4. /\ TokenInv' /\ SignOutInv'
        /\ mem' \in Mems /\ disk' \in Directory /\ faults' \in 0 .. MaxFaults
    BY <1>2, <2>2, <2>3, Committed DEF IInv, Settled, Served
  <2>5. /\ responses' \in Bearer \cup {None} /\ login' \in Logins /\ begun' \in 0 .. MaxRequests
        /\ current' \in [Stages -> Slots \cup {None}]
        /\ \A k \in Stages : current'[k] \in SlotsOf(k) \cup {None}
    BY <1>2 DEF IInv, TypeOK, Logins
  <2>6. CASE st.err # "none"
    <3> DEFINE e == st.err
    <3>1. UNCHANGED client /\ call' = [call EXCEPT ![s] = Ended(s, None, e)] /\ gate' \in Gates
      BY <2>2, <2>6, EndsGate
    <3>2. e \in Answers /\ e # "none"
      BY <2>3, <2>6 DEF Settled
    <3> HIDE DEF e
    <3>3. Paired(None) /\ Fresh(None, call[s].generation)
      BY DEF Paired, Fresh
    <3>4. Ended(s, None, e) \in AuthTokenCall
      BY <1>1, <3>2, <3>3, EndedOK
    <3>5. call' \in [Slots -> AuthTokenCall] /\ client' \in [Clients -> Request]
      BY <3>1, <3>4 DEF IInv, TypeOK
    <3>6. TypeOK' /\ generation <= generation'
      BY <1>2, <2>4, <2>5, <3>1, <3>5, TypeFrame DEF IInv
    <3>7. client'[s] = Resting /\ \A x \in Clients \ {s} : client'[x] = client[x]
      BY <1>1, <3>1
    <3> QED
      BY <1>1, <1>2, <2>4, <3>1, <3>2, <3>3, <3>6, <3>7, EndsStep
  <2>7. CASE st.err = "none"
    <3> DEFINE k == [q EXCEPT !.pc = "after"]
               r == [Resting EXCEPT !.stage = "refresh", !.step = "ask", !.mode = "quiet"]
    <3>1. call' = [call EXCEPT ![s] = k] /\ client' = [client EXCEPT ![s] = r] /\ UNCHANGED gate
      BY <1>1, <2>2, <2>7 DEF IInv, TypeOK
    <3>2. /\ k \in AuthTokenCall /\ k.pc = "after" /\ k.waiters = q.waiters
          /\ k.abandoned = q.abandoned /\ k.generation = q.generation
          /\ k.credential = q.credential /\ k.source = q.source /\ k.err = q.err
      BY <1>1 DEF AuthTokenCall
    <3>3. /\ r \in Request /\ r.step = "ask" /\ r.stage = "refresh" /\ r.mode = "quiet"
          /\ r.credential = None /\ ClientOK(r)
      BY DEF Resting, Request, Modes, Stages, Answers, ClientOK, Paired
    <3> HIDE DEF k, r
    <3>4. CallOK(s, k) /\ DeviceOK(r, k)
      BY <1>1, <3>2, <3>3 DEF CallOK, DeviceOK, Fresh
    <3>5. /\ client' \in [Clients -> Request] /\ client'[s] = r
          /\ \A x \in Clients \ {s} : client'[x] = client[x]
          /\ call' \in [Slots -> AuthTokenCall] /\ call'[s] = k
          /\ \A x \in Slots \ {s} : call'[x] = call[x]
      BY <1>1, <3>1, <3>2, <3>3 DEF IInv, TypeOK
    <3>6. gate' \in Gates
      BY <3>1 DEF IInv, TypeOK, Gates
    <3>7. TypeOK' /\ generation <= generation'
      BY <1>2, <2>4, <2>5, <3>5, <3>6, TypeFrame DEF IInv
    <3> QED
      BY <1>1, <1>2, <2>4, <3>2, <3>3, <3>4, <3>5, <3>7, GoroutineStep
  <2> QED
    BY <2>6, <2>7
<1> QED
  BY <1>3, <1>4

\* What is left of a call that is over.
LEMMA CompletedOK ==
  ASSUME IInv, NEW s \in Slots, call[s].pc = "ended"
  PROVE  /\ Completed(s) \in AuthTokenCall /\ CallOK(s, Completed(s))
         /\ s \in DeviceSlots => DeviceOK(client[s], Completed(s))
         /\ Completed(s).waiters = call[s].waiters
<1>1. CASE call[s].waiters = 0 /\ Unused(s, None)
  <2>1. Completed(s) = NoCall
    BY <1>1 DEF Completed
  <2> QED
    BY <1>1, <2>1, NoCallOK, ForgottenOK DEF IInv
<1>2. CASE ~(call[s].waiters = 0 /\ Unused(s, None))
  <2> DEFINE q == call[s]
             b == IF q.abandoned THEN None ELSE q.credential
             e == IF q.abandoned /\ q.err = "none" THEN "other" ELSE q.err
             k == [q EXCEPT !.pc = "done", !.canceled = TRUE, !.credential = b, !.err = e]
  <2>1. q \in AuthTokenCall /\ CallOK(s, q)
    BY DEF IInv, TypeOK, SharedInv, CallInv
  <2>2. Completed(s) = k
    BY <1>2, <2>1 DEF Completed, AuthTokenCall
  <2>3. b \in {None, q.credential} /\ b \in Bearer \cup {None} /\ e \in Answers
        /\ (e = "none" => b = q.credential /\ q.err = "none")
    BY <2>1 DEF AuthTokenCall, Answers
  <2> HIDE DEF b, e
  <2>4. /\ k \in AuthTokenCall /\ k.pc = "done" /\ k.credential = b /\ k.err = e
        /\ k.generation = q.generation /\ k.source = q.source /\ k.waiters = q.waiters
    BY <2>1, <2>3 DEF AuthTokenCall
  <2> HIDE DEF k
  <2>5. CallOK(s, k)
    BY <2>1, <2>3, <2>4 DEF CallOK, Fresh, Paired
  <2>6. s \in DeviceSlots => DeviceOK(client[s], k)
    <3>1. DeviceOK(Resting, k)
      BY <2>4 DEF DeviceOK, Resting, Fresh
    <3> QED
      BY <3>1, RestingOutside
  <2> QED
    BY <2>2, <2>4, <2>5, <2>6
<1> QED
  BY <1>1, <1>2

LEMMA FinishStep ==
  ASSUME IInv, NEW s \in Slots, Finish(s)
  PROVE  IInv'
<1>1. call[s].pc = "ended" /\ TypeOK /\ SharedInv /\ call[s] \in AuthTokenCall
  BY DEF Finish, IInv, TypeOK
<1>2. /\ Completed(s) \in AuthTokenCall /\ CallOK(s, Completed(s))
      /\ s \in DeviceSlots => DeviceOK(client[s], Completed(s))
      /\ Completed(s).waiters = call[s].waiters
  BY <1>1, CompletedOK
<1>3. /\ call' \in [Slots -> AuthTokenCall] /\ call'[s] = Completed(s)
      /\ \A x \in Slots \ {s} : call'[x] = call[x]
  BY <1>2 DEF Finish, IInv, TypeOK
<1>4. UNCHANGED <<begun, env, tokenVars, outVars, gate, client, login>>
  BY DEF Finish
<1>5. current' = [k \in Stages |-> IF current[k] = s THEN None ELSE current[k]]
  BY DEF Finish, Retired
<1>6. TokenInv' /\ SignOutInv'
  BY <1>4, TokensStay DEF IInv
<1>7. TypeOK' /\ generation <= generation'
  <2>1. responses' \in Bearer \cup {None}
    BY <1>1 DEF Finish, TypeOK, AuthTokenCall
  <2>2. /\ mem' \in Mems /\ disk' \in Directory /\ faults' \in 0 .. MaxFaults
        /\ login' \in Logins /\ begun' \in 0 .. MaxRequests
        /\ gate' \in Gates /\ client' \in [Clients -> Request]
    BY <1>1, <1>4 DEF TypeOK, tokenVars, Mems, Logins, Gates
  <2>3. /\ current' \in [Stages -> Slots \cup {None}]
        /\ \A j \in Stages : current'[j] \in SlotsOf(j) \cup {None}
    BY <1>1, <1>5 DEF TypeOK
  <2> QED
    BY <1>1, <1>3, <1>4, <2>1, <2>2, <2>3, TypeFrame
<1>8. CallInv' /\ ClientInv' /\ DeviceInv' /\ CheckInv'
  <2>1. CallOK(s, call'[s]) /\ (s \in DeviceSlots => DeviceOK(client[s], call'[s]))
    BY <1>2, <1>3
  <2>2. UNCHANGED client /\ call[s].pc # "done"
    BY <1>1, <1>4
  <2> QED
    BY <1>1, <1>3, <1>7, <2>1, <2>2, SlotFrame
<1>9. CountInv'
  BY <1>1, <1>2, <1>3, <1>4, CountFrame DEF SharedInv
<1>10. CurrentInv'
  <2>1. SUFFICES ASSUME NEW j \in Stages, current'[j] # None
                 PROVE  /\ ~call'[current'[j]].abandoned /\ call'[current'[j]].waiters > 0
                        /\ call'[current'[j]].pc \notin {"free", "done"}
    BY DEF CurrentInv
  <2>2. current'[j] = current[j] /\ current[j] # s /\ current[j] \in Slots
    BY <1>1, <1>5, <2>1, SlotsApart DEF TypeOK
  <2> QED
    BY <1>1, <1>3, <2>1, <2>2 DEF SharedInv, CurrentInv
<1> QED
  BY <1>6, <1>7, <1>8, <1>9, <1>10 DEF IInv, SharedInv

-----------------------------------------------------------------------------
(* What logins, SignOut and time leave.                                      *)

SignOuts == {"idle", "cancelRefresh", "cancelDevice", "cancelResponses", "gate", "wipe",
             "advance", "dropRefresh", "dropDevice", "dropResponses", "openGate", "end"}

LEMMA QuietStep ==
  ASSUME IInv, TypeOK', TokenInv', SignOutInv', generation <= generation',
         UNCHANGED <<call, client, current>>
  PROVE  IInv'
<1>1. TypeOK /\ SharedInv
  BY DEF IInv
<1>2. /\ \A s \in Slots : CallOK(s, call'[s])
      /\ \A c \in Clients : ClientOK(client'[c])
      /\ \A d \in DeviceSlots : DeviceOK(client'[d], call'[d])
  BY <1>1 DEF SharedInv, CallInv, ClientInv, DeviceInv
<1>3. CallInv' /\ ClientInv' /\ DeviceInv'
  BY <1>1, <1>2, SharedFrame
<1>4. CheckInv' /\ CurrentInv'
  BY <1>1 DEF SharedInv, CheckInv, CurrentInv
<1>5. CountInv'
  BY <1>1, CountFrame DEF SharedInv
<1> QED
  BY <1>3, <1>4, <1>5 DEF IInv, SharedInv

\* A login that changes no token.
LEMMA LoginQuietly ==
  ASSUME IInv, NEW from \in Logins, NEW to \in Logins, LoginStep(from, to),
         UNCHANGED tokenVars, gate' \in Gates
  PROVE  IInv'
<1>1. UNCHANGED <<env, responses, outVars, current, call, client>> /\ login' \in Logins
  BY DEF LoginStep
<1>2. begun' \in 0 .. MaxRequests
  BY BoundAssumption DEF LoginStep, Begin, IInv, TypeOK
<1>3. TokenInv' /\ SignOutInv'
  BY <1>1, TokensStay DEF IInv
<1>4. TypeOK' /\ generation <= generation'
  <2>1. /\ mem' \in Mems /\ disk' \in Directory /\ faults' \in 0 .. MaxFaults
        /\ responses' \in Bearer \cup {None} /\ client' \in [Clients -> Request]
        /\ call' \in [Slots -> AuthTokenCall]
        /\ current' \in [Stages -> Slots \cup {None}]
        /\ \A j \in Stages : current'[j] \in SlotsOf(j) \cup {None}
    BY <1>1 DEF IInv, TypeOK, tokenVars, Mems
  <2> QED
    BY <1>1, <1>2, <2>1, TypeFrame DEF IInv
<1> QED
  BY <1>1, <1>3, <1>4, QuietStep

LEMMA LoginCommits ==
  ASSUME IInv, NEW from \in Logins, NEW to \in Logins, LoginStep(from, to),
         NEW st, Settled(st), Commit(st), gate' \in Gates
  PROVE  IInv'
<1>1. UNCHANGED <<env, responses, outVars, current, call, client>> /\ login' \in Logins
  BY DEF LoginStep
<1>2. begun' \in 0 .. MaxRequests
  BY BoundAssumption DEF LoginStep, Begin, IInv, TypeOK
<1>3. /\ TokenInv' /\ SignOutInv'
      /\ mem' \in Mems /\ disk' \in Directory /\ faults' \in 0 .. MaxFaults
  BY <1>1, Committed DEF IInv, Settled, Served
<1>4. TypeOK' /\ generation <= generation'
  <2>1. /\ responses' \in Bearer \cup {None} /\ client' \in [Clients -> Request]
        /\ call' \in [Slots -> AuthTokenCall]
        /\ current' \in [Stages -> Slots \cup {None}]
        /\ \A j \in Stages : current'[j] \in SlotsOf(j) \cup {None}
    BY <1>1 DEF IInv, TypeOK
  <2> QED
    BY <1>1, <1>2, <1>3, <2>1, TypeFrame DEF IInv
<1> QED
  BY <1>1, <1>3, <1>4, QuietStep

LEMMA LoginsStep ==
  ASSUME IInv, BeginPoll \/ BeginGitHubCLI \/ Login
  PROVE  IInv'
<1>0. /\ {"idle", "pollGate", "poll", "cliGate", "cli"} \subseteq Logins
      /\ gate \in Gates /\ None \in Gates /\ User \in Gates
  BY DEF Logins, Gates, IInv, TypeOK, User
<1>1. CASE BeginPoll \/ BeginGitHubCLI
  BY <1>0, <1>1, LoginQuietly DEF BeginPoll, BeginGitHubCLI
<1>2. CASE LoginGate
  BY <1>0, <1>2, LoginQuietly DEF LoginGate
<1>3. CASE LoginGateCanceled
  BY <1>0, <1>3, LoginQuietly DEF LoginGateCanceled
<1>4. CASE PollFails
  BY <1>0, <1>4, LoginQuietly DEF PollFails
<1>5. CASE PollAuthorized
  <2>1. CASE signingOut
    BY <1>0, <1>5, <2>1, LoginQuietly DEF PollAuthorized
  <2>2. CASE ~signingOut
    <3>1. PICK a \in LoginAccounts : \E st \in CompleteAuthorization(a) : Commit(st)
      BY <1>5, <2>2 DEF PollAuthorized
    <3>2. PICK st \in CompleteAuthorization(a) : Commit(st)
      BY <3>1
    <3>3. Settled(st)
      BY <1>5, CompleteAuthorizationSettled DEF PollAuthorized, IInv
    <3> QED
      BY <1>0, <1>5, <3>2, <3>3, LoginCommits DEF PollAuthorized
  <2> QED
    BY <2>1, <2>2
<1>6. CASE GitHubCLISwitched
  <2>1. PICK st \in SwitchToGitHubCLI : Commit(st)
    BY <1>6 DEF GitHubCLISwitched
  <2>2. Settled(st)
    BY <1>6, SwitchToGitHubCLISettled DEF GitHubCLISwitched, IInv
  <2> QED
    BY <1>0, <1>6, <2>1, <2>2, LoginCommits DEF GitHubCLISwitched
<1> QED
  BY <1>1, <1>2, <1>3, <1>4, <1>5, <1>6 DEF Login

LEMMA SignOutTypes ==
  ASSUME TypeOK, UNCHANGED <<begun, env, client, login>>,
         generation' \in 0 .. MaxSignOuts, signOut' \in SignOuts,
         signingOut' = (signOut' # "idle"), gate' \in Gates,
         mem' \in Mems, disk' \in Directory, faults' \in 0 .. MaxFaults,
         responses' \in Bearer \cup {None}, call' \in [Slots -> AuthTokenCall],
         current' \in [Stages -> Slots \cup {None}],
         \A k \in Stages : current'[k] \in SlotsOf(k) \cup {None}
  PROVE  TypeOK'
  BY DEF TypeOK, SignOuts, Gates, Mems

LEMMA SameSession ==
  ASSUME TokenInv, UNCHANGED tokenVars, Session' = Session
  PROVE  TokenInv'
  BY DEF TokenInv, InSession, Tokens, tokenVars, Paired

\* A step of SignOut that changes neither a token nor a call.
LEMMA SignOutQuietly ==
  ASSUME IInv, NEW from \in SignOuts, NEW to \in SignOuts, SignOutStep(from, to),
         UNCHANGED <<begun, env, tokenVars, responses, generation, current, call, client, login>>,
         signingOut' = (to # "idle"), gate' \in Gates,
         from # "advance", to # "advance", SignOutInv'
  PROVE  IInv'
<1>1. TypeOK'
  <2>1. /\ mem' \in Mems /\ disk' \in Directory /\ faults' \in 0 .. MaxFaults
        /\ responses' \in Bearer \cup {None} /\ call' \in [Slots -> AuthTokenCall]
        /\ generation' \in 0 .. MaxSignOuts
        /\ current' \in [Stages -> Slots \cup {None}]
        /\ \A k \in Stages : current'[k] \in SlotsOf(k) \cup {None}
    BY DEF IInv, TypeOK, tokenVars, Mems
  <2> QED
    BY <2>1, SignOutTypes DEF IInv, SignOutStep
<1>2. TokenInv'
  BY SameSession DEF IInv, Session, SignOutStep
<1>3. generation <= generation'
  BY DEF IInv, TypeOK
<1> QED
  BY <1>1, <1>2, <1>3, QuietStep

LEMMA GateStep ==
  ASSUME IInv, BeginSignOut \/ SignOutGate \/ OpenGate \/ EndSignOut
  PROVE  IInv'
<1>0. /\ {"idle", "cancelRefresh", "gate", "wipe", "openGate", "end"} \subseteq SignOuts
      /\ gate \in Gates /\ None \in Gates /\ "signOut" \in Gates
  BY DEF SignOuts, Gates, IInv, TypeOK
<1>1. CASE BeginSignOut
  <2>1. SignOutInv'
    BY <1>1 DEF BeginSignOut, SignOutStep, SignOutInv
  <2> QED
    BY <1>0, <1>1, <2>1, SignOutQuietly DEF BeginSignOut
<1>2. CASE SignOutGate
  <2>1. SignOutInv'
    BY <1>2 DEF SignOutGate, SignOutStep, SignOutInv, IInv
  <2>2. signingOut' = TRUE
    BY <1>2 DEF SignOutGate, SignOutStep, IInv, TypeOK
  <2> QED
    BY <1>0, <1>2, <2>1, <2>2, SignOutQuietly DEF SignOutGate
<1>3. CASE OpenGate
  <2>1. SignOutInv'
    BY <1>3 DEF OpenGate, SignOutStep, SignOutInv
  <2>2. signingOut' = TRUE
    BY <1>3 DEF OpenGate, SignOutStep, IInv, TypeOK
  <2> QED
    BY <1>0, <1>3, <2>1, <2>2, SignOutQuietly DEF OpenGate
<1>4. CASE EndSignOut
  <2>1. SignOutInv'
    BY <1>4 DEF EndSignOut, SignOutStep, SignOutInv
  <2> QED
    BY <1>0, <1>4, <2>1, SignOutQuietly DEF EndSignOut
<1> QED
  BY <1>1, <1>2, <1>3, <1>4

\* A call that SignOut cancels, and abandons or not, is otherwise the same.
Stopped(s, b) == [call[s] EXCEPT !.canceled = TRUE, !.abandoned = b]

LEMMA StoppedFields ==
  ASSUME IInv, NEW s \in Slots, NEW b \in BOOLEAN
  PROVE  /\ Stopped(s, b) \in AuthTokenCall /\ SameResult(Stopped(s, b), s)
         /\ Stopped(s, b).waiters = call[s].waiters /\ Stopped(s, b).abandoned = b
<1> DEFINE q == call[s]
<1>1. q \in AuthTokenCall
  BY DEF IInv, TypeOK
<1> QED
  BY <1>1 DEF AuthTokenCall, Stopped, SameResult

\* The call that is current is stopped.
LEMMA StopStep ==
  ASSUME IInv, TypeOK', TokenInv', SignOutInv', UNCHANGED <<client, generation>>,
         NEW s \in Slots, call[s].pc # "free", NEW b \in BOOLEAN,
         call' = [call EXCEPT ![s] = Stopped(s, b)],
         \A j \in Stages : current'[j] \in {None, current[j]},
         b => \A j \in Stages : current'[j] # s,
         ~b => ~call[s].abandoned
  PROVE  IInv'
<1>1. TypeOK /\ SharedInv /\ generation <= generation'
  BY DEF IInv, TypeOK
<1>2. /\ Stopped(s, b) \in AuthTokenCall /\ SameResult(Stopped(s, b), s)
      /\ Stopped(s, b).waiters = call[s].waiters /\ Stopped(s, b).abandoned = b
  BY StoppedFields
<1>3. call'[s] = Stopped(s, b) /\ \A x \in Slots \ {s} : call'[x] = call[x]
  BY <1>1 DEF TypeOK
<1>4. CallInv' /\ ClientInv' /\ DeviceInv' /\ CheckInv'
  <2>1. CallOK(s, call'[s]) /\ (s \in DeviceSlots => DeviceOK(client[s], call'[s]))
    BY <1>1, <1>2, <1>3, SameResultOK
  <2>2. call'[s].pc = call[s].pc
    BY <1>2, <1>3 DEF SameResult
  <2> QED
    BY <1>1, <1>3, <2>1, <2>2, SlotFrame
<1>5. CountInv'
  BY <1>1, <1>2, <1>3, CountFrame DEF SharedInv
<1>6. CurrentInv'
  <2>1. SUFFICES ASSUME NEW j \in Stages, current'[j] # None
                 PROVE  /\ ~call'[current'[j]].abandoned /\ call'[current'[j]].waiters > 0
                        /\ call'[current'[j]].pc \notin {"free", "done"}
    BY DEF CurrentInv
  <2>2. current'[j] = current[j] /\ current[j] \in Slots
    BY <1>1, <2>1, SlotsApart DEF TypeOK
  <2>3. /\ ~call[current[j]].abandoned /\ call[current[j]].waiters > 0
        /\ call[current[j]].pc \notin {"free", "done"}
    BY <1>1, <2>1, <2>2 DEF SharedInv, CurrentInv
  <2> QED
    BY <1>2, <1>3, <2>1, <2>2, <2>3 DEF SameResult
<1> QED
  BY <1>4, <1>5, <1>6 DEF IInv, SharedInv

LEMMA CancelCurrentStep ==
  ASSUME IInv, CancelCurrent
  PROVE  IInv'
<1>1. PICK stage \in Stages :
        /\ CASE stage = "refresh"   -> SignOutStep("cancelRefresh", "cancelDevice")
             [] stage = "device"    -> SignOutStep("cancelDevice", "cancelResponses")
             [] stage = "responses" -> SignOutStep("cancelResponses", "gate")
        /\ call' = IF current[stage] = None THEN call
                   ELSE [call EXCEPT ![current[stage]].canceled = TRUE]
  BY DEF CancelCurrent
<1> DEFINE s == current[stage]
<1>2. UNCHANGED <<begun, env, tokenVars, responses, generation, signingOut, gate, current, client, login>>
  BY DEF CancelCurrent
<1>3. /\ signOut \in {"cancelRefresh", "cancelDevice", "cancelResponses"}
      /\ signOut' \in {"cancelDevice", "cancelResponses", "gate"}
  BY <1>1 DEF Stages, SignOutStep
<1>4. TokenInv'
  BY <1>2, <1>3, SameSession DEF IInv, Session
<1>5. SignOutInv'
  BY <1>2, <1>3 DEF SignOutInv, IInv
<1>6. s = None \/ (s \in Slots /\ call[s].pc # "free" /\ ~call[s].abandoned)
  BY SlotsApart DEF IInv, TypeOK, SharedInv, CurrentInv
<1>7. s # None => call' = [call EXCEPT ![s] = Stopped(s, FALSE)]
  BY <1>1, <1>6, ZenonT(60) DEF Stopped, IInv, TypeOK, AuthTokenCall
<1>8. call' \in [Slots -> AuthTokenCall]
  <2>1. CASE s = None
    BY <1>1, <2>1 DEF IInv, TypeOK
  <2>2. CASE s # None
    <3>1. Stopped(s, FALSE) \in AuthTokenCall
      BY <1>6, <2>2, StoppedFields
    <3> QED
      BY <1>6, <1>7, <2>2, <3>1 DEF IInv, TypeOK
  <2> QED
    BY <2>1, <2>2
<1>9. TypeOK'
  <2>1. /\ mem' \in Mems /\ disk' \in Directory /\ faults' \in 0 .. MaxFaults
        /\ responses' \in Bearer \cup {None} /\ generation' \in 0 .. MaxSignOuts
        /\ gate' \in Gates /\ current' \in [Stages -> Slots \cup {None}]
        /\ \A k \in Stages : current'[k] \in SlotsOf(k) \cup {None}
    BY <1>2 DEF IInv, TypeOK, tokenVars, Mems, Gates
  <2>2. signOut' \in SignOuts /\ signingOut' = (signOut' # "idle")
    BY <1>2, <1>3 DEF SignOuts, IInv, TypeOK
  <2> QED
    BY <1>2, <1>8, <2>1, <2>2, SignOutTypes DEF IInv
<1>10. generation <= generation'
  BY <1>2 DEF IInv, TypeOK
<1>11. CASE s = None
  <2>1. UNCHANGED call
    BY <1>1, <1>11
  <2> QED
    BY <1>2, <1>4, <1>5, <1>9, <1>10, <2>1, QuietStep
<1>12. CASE s # None
  <2> HIDE DEF s
  <2> QED
    BY <1>2, <1>4, <1>5, <1>6, <1>7, <1>9, <1>12, StopStep
<1> QED
  BY <1>11, <1>12

LEMMA DropCurrentStep ==
  ASSUME IInv, DropCurrent
  PROVE  IInv'
<1>1. PICK stage \in Stages :
        /\ CASE stage = "refresh"   -> SignOutStep("dropRefresh", "dropDevice")
             [] stage = "device"    -> SignOutStep("dropDevice", "dropResponses")
             [] stage = "responses" -> SignOutStep("dropResponses", "openGate")
        /\ call' = IF current[stage] = None THEN call
                   ELSE [call EXCEPT ![current[stage]].canceled = TRUE,
                                     ![current[stage]].abandoned = TRUE]
        /\ current' = [current EXCEPT ![stage] = None]
        /\ responses' = IF stage = "responses" THEN None ELSE responses
  BY DEF DropCurrent
<1> DEFINE s == current[stage]
<1>2. UNCHANGED <<begun, env, tokenVars, generation, signingOut, gate, client, login>>
  BY DEF DropCurrent
<1>3. /\ signOut \in {"dropRefresh", "dropDevice", "dropResponses"}
      /\ signOut' \in {"dropDevice", "dropResponses", "openGate"}
  BY <1>1 DEF Stages, SignOutStep
<1>4. TokenInv'
  BY <1>2, <1>3, SameSession DEF IInv, Session
<1>5. SignOutInv'
  BY <1>3 DEF SignOutInv
<1>6. s = None \/ (s \in Slots /\ s \in SlotsOf(stage) /\ call[s].pc # "free" /\ ~call[s].abandoned)
  BY SlotsApart DEF IInv, TypeOK, SharedInv, CurrentInv
<1>7. s # None => call' = [call EXCEPT ![s] = Stopped(s, TRUE)]
  BY <1>1, <1>6 DEF Stopped, IInv, TypeOK, AuthTokenCall
<1>8. call' \in [Slots -> AuthTokenCall]
  <2>1. CASE s = None
    BY <1>1, <2>1 DEF IInv, TypeOK
  <2>2. CASE s # None
    <3>1. Stopped(s, TRUE) \in AuthTokenCall
      BY <1>6, <2>2, StoppedFields
    <3> QED
      BY <1>6, <1>7, <2>2, <3>1 DEF IInv, TypeOK
  <2> QED
    BY <2>1, <2>2
<1>9. /\ current' \in [Stages -> Slots \cup {None}]
      /\ \A k \in Stages : current'[k] \in SlotsOf(k) \cup {None}
      /\ \A k \in Stages : current'[k] = IF k = stage THEN None ELSE current[k]
  BY <1>1 DEF IInv, TypeOK
<1>10. TypeOK'
  <2>1. /\ mem' \in Mems /\ disk' \in Directory /\ faults' \in 0 .. MaxFaults
        /\ responses' \in Bearer \cup {None} /\ generation' \in 0 .. MaxSignOuts
        /\ gate' \in Gates
    BY <1>1, <1>2 DEF IInv, TypeOK, tokenVars, Mems, Gates
  <2>2. signOut' \in SignOuts /\ signingOut' = (signOut' # "idle")
    BY <1>2, <1>3 DEF SignOuts, IInv, TypeOK
  <2> QED
    BY <1>2, <1>8, <1>9, <2>1, <2>2, SignOutTypes DEF IInv
<1>11. generation <= generation'
  BY <1>2 DEF IInv, TypeOK
<1>12. CASE s = None
  <2>1. UNCHANGED call
    BY <1>1, <1>12
  <2>2. UNCHANGED current
    BY <1>9, <1>12 DEF IInv, TypeOK
  <2> QED
    BY <1>2, <1>4, <1>5, <1>10, <1>11, <2>1, <2>2, QuietStep
<1>13. CASE s # None
  <2>1. \A j \in Stages : current'[j] # s
    <3>1. SUFFICES ASSUME NEW j \in Stages, j # stage PROVE current[j] # s
      BY <1>9, <1>13
    <3>2. current[j] \in SlotsOf(j) \cup {None}
      BY DEF IInv, TypeOK
    <3>3. SlotsOf(j) \cap SlotsOf(stage) = {}
      BY <3>1, SlotsApart
    <3> QED
      BY <1>6, <1>13, <3>2, <3>3
  <2> HIDE DEF s
  <2> QED
    BY <1>2, <1>4, <1>5, <1>6, <1>7, <1>9, <1>10, <1>13, <2>1, StopStep
<1> QED
  BY <1>12, <1>13

\* What SignOut failed to remove is of the next session.
LEMMA WipeStep ==
  ASSUME IInv, Wipe
  PROVE  IInv'
<1> DEFINE Kept(t) == IF t = None THEN None ELSE [t EXCEPT !.born = generation + 1]
<1>1. /\ UNCHANGED <<begun, env, responses, generation, signingOut, gate, current, call, client, login>>
      /\ signOut = "wipe" /\ signOut' = "advance"
      /\ mem' = [access |-> None, bearer |-> None]
  BY DEF Wipe, SignOutStep
<1>2. PICK failing \in SUBSET {"access", "cache", "auto", "marker"} :
        /\ faults + Cardinality(failing) <= MaxFaults
        /\ faults' = faults + Cardinality(failing)
        /\ disk' = [access |-> IF "access" \in failing THEN Kept(disk.access) ELSE None,
                    cache  |-> IF "cache" \in failing THEN Kept(disk.cache) ELSE None,
                    auto   |-> IF "auto" \in failing THEN disk.auto ELSE FALSE,
                    marker |-> IF "marker" \in failing THEN disk.marker ELSE TRUE]
  BY DEF Wipe
<1>3. Cardinality(failing) \in Nat
  <2> DEFINE All == ({"marker"} \cup {"auto"}) \cup ({"cache"} \cup {"access"})
  <2>1. IsFiniteSet(All)
    BY FS_Singleton, FS_Union, Zenon
  <2>2. failing \subseteq All
    OBVIOUS
  <2> HIDE DEF All
  <2> QED
    BY <2>1, <2>2, FS_Subset, FS_CardinalityType
<1>4. generation \in 0 .. MaxSignOuts /\ generation + 1 \in 0 .. MaxSignOuts
  BY <1>1, BoundAssumption DEF IInv, TypeOK, SignOutInv
<1>5. Session' = generation + 1
  BY <1>1 DEF Session
<1>6. /\ Kept(disk.access) \in Credential \cup {None}
      /\ Kept(disk.access) # None => /\ Kept(disk.access).account \notin GhAccounts
                                     /\ Kept(disk.access).born = generation + 1
  <2>1. disk.access # None => disk.access \in Credential /\ disk.access.account \notin GhAccounts
    BY DEF IInv, TypeOK, Directory, TokenInv, InSession, Tokens
  <2> QED
    BY <1>4, <2>1 DEF Credential
<1>7. /\ Kept(disk.cache) \in Bearer \cup {None}
      /\ Kept(disk.cache) # None => /\ Kept(disk.cache).issuer \notin GhAccounts
                                    /\ Paired(Kept(disk.cache))
                                    /\ Kept(disk.cache).born = generation + 1
  <2>1. disk.cache # None => /\ disk.cache \in Bearer /\ disk.cache.issuer \notin GhAccounts
                             /\ Paired(disk.cache)
    BY DEF IInv, TypeOK, Directory, TokenInv, InSession, Tokens
  <2> QED
    BY <1>4, <2>1 DEF Bearer, Paired
<1> HIDE DEF Kept
<1>8. /\ disk' \in Directory
      /\ disk'.access \in {None, Kept(disk.access)} /\ disk'.cache \in {None, Kept(disk.cache)}
  BY <1>2, <1>6, <1>7 DEF Directory, IInv, TypeOK
<1>9. TokenInv'
  <2>1. mem'.access = None /\ mem'.bearer = None
    BY <1>1
  <2> QED
    BY <1>5, <1>6, <1>7, <1>8, <2>1 DEF TokenInv, InSession, Tokens, Paired
<1>10. SignOutInv'
  BY <1>1 DEF IInv, SignOutInv
<1>11. TypeOK'
  <2>1. mem' \in Mems
    BY <1>1 DEF Mems
  <2>2. faults' \in 0 .. MaxFaults
    BY <1>2, <1>3, BoundAssumption DEF IInv, TypeOK
  <2>3. /\ responses' \in Bearer \cup {None} /\ generation' \in 0 .. MaxSignOuts
        /\ gate' \in Gates /\ call' \in [Slots -> AuthTokenCall]
        /\ current' \in [Stages -> Slots \cup {None}]
        /\ \A k \in Stages : current'[k] \in SlotsOf(k) \cup {None}
        /\ signOut' \in SignOuts /\ signingOut' = (signOut' # "idle")
    BY <1>1 DEF IInv, TypeOK, Gates, SignOuts
  <2> QED
    BY <1>1, <1>8, <2>1, <2>2, <2>3, SignOutTypes DEF IInv
<1>12. generation <= generation'
  BY <1>1 DEF IInv, TypeOK
<1> QED
  BY <1>1, <1>9, <1>10, <1>11, <1>12, QuietStep

LEMMA AdvanceStep ==
  ASSUME IInv, Advance
  PROVE  IInv'
<1>1. /\ UNCHANGED <<begun, env, tokenVars, responses, signingOut, gate, current, call, client, login>>
      /\ signOut = "advance" /\ signOut' = "dropRefresh" /\ generation' = generation + 1
  BY DEF Advance, SignOutStep
<1>2. TokenInv'
  BY <1>1, SameSession DEF IInv, Session
<1>3. SignOutInv'
  BY <1>1 DEF SignOutInv
<1>4. TypeOK'
  <2>1. generation' \in 0 .. MaxSignOuts
    BY <1>1, BoundAssumption DEF IInv, TypeOK, SignOutInv
  <2>2. /\ mem' \in Mems /\ disk' \in Directory /\ faults' \in 0 .. MaxFaults
        /\ responses' \in Bearer \cup {None} /\ call' \in [Slots -> AuthTokenCall]
        /\ gate' \in Gates
        /\ current' \in [Stages -> Slots \cup {None}]
        /\ \A k \in Stages : current'[k] \in SlotsOf(k) \cup {None}
        /\ signOut' \in SignOuts /\ signingOut' = (signOut' # "idle")
    BY <1>1 DEF IInv, TypeOK, tokenVars, Mems, Gates, SignOuts
  <2> QED
    BY <1>1, <2>1, <2>2, SignOutTypes DEF IInv
<1>5. generation <= generation'
  BY <1>1 DEF IInv, TypeOK
<1> QED
  BY <1>1, <1>2, <1>3, <1>4, <1>5, QuietStep

LEMMA ExpireStep ==
  ASSUME IInv, Expire
  PROVE  IInv'
<1>1. UNCHANGED <<env, outVars, gate, current, call, client, login, faults>>
      /\ begun' \in 0 .. MaxRequests
  BY BoundAssumption DEF Expire, Begin, IInv, TypeOK
<1>2. /\ mem' = mem \/ mem' = [mem EXCEPT !.bearer = None]
      /\ disk' = disk \/ disk' = [disk EXCEPT !.cache = None]
      /\ responses' \in {responses, None}
  BY DEF Expire, tokenVars
<1>3. /\ mem' \in Mems /\ mem'.access = mem.access /\ mem'.bearer \in {None, mem.bearer}
  BY <1>2 DEF IInv, TypeOK, Mems
<1>4. /\ disk' \in Directory /\ disk'.access = disk.access /\ disk'.cache \in {None, disk.cache}
  BY <1>2 DEF IInv, TypeOK, Directory
<1>5. TokenInv'
  <2>1. Session' = Session
    BY <1>1 DEF Session, outVars
  <2> QED
    BY <1>3, <1>4, <2>1 DEF IInv, TokenInv, InSession, Tokens, Paired
<1>6. SignOutInv'
  BY <1>1 DEF IInv, SignOutInv, outVars
<1>7. TypeOK' /\ generation <= generation'
  <2>1. /\ responses' \in Bearer \cup {None} /\ gate' \in Gates /\ login' \in Logins
        /\ faults' \in 0 .. MaxFaults
        /\ call' \in [Slots -> AuthTokenCall] /\ client' \in [Clients -> Request]
        /\ current' \in [Stages -> Slots \cup {None}]
        /\ \A k \in Stages : current'[k] \in SlotsOf(k) \cup {None}
    BY <1>1, <1>2 DEF IInv, TypeOK, Gates, Logins
  <2> QED
    BY <1>1, <1>3, <1>4, <2>1, TypeFrame DEF IInv
<1> QED
  BY <1>1, <1>5, <1>6, <1>7, QuietStep

-----------------------------------------------------------------------------
LEMMA Initially ==
  ASSUME Init
  PROVE  IInv
<1>1. /\ None \notin Slots
      /\ Resting \in Request /\ NoCall \in AuthTokenCall
  BY SlotsApart, BoundAssumption DEF Resting, Request, Modes, NoCall, AuthTokenCall, Answers
<1>2. disk \in Directory
  BY DiskAssumption DEF Init
<1>3. TypeOK
  <2>1. call \in [Slots -> AuthTokenCall] /\ client \in [Clients -> Request]
    BY <1>1 DEF Init
  <2>2. current \in [Stages -> Slots \cup {None}]
    BY DEF Init
  <2>3. \A k \in Stages : current[k] \in SlotsOf(k) \cup {None}
    BY DEF Init
  <2>4. env \in EnvAccounts \cup {None} /\ responses \in Bearer \cup {None}
    BY DEF Init
  <2>5. mem \in [access : Credential \cup {None}, bearer : Bearer \cup {None}]
    BY DEF Init
  <2>6. generation \in 0 .. MaxSignOuts /\ begun \in 0 .. MaxRequests /\ faults \in 0 .. MaxFaults
    BY BoundAssumption DEF Init
  <2>7. /\ signOut = "idle" /\ signingOut = (signOut # "idle")
        /\ gate = None /\ login = "idle"
    BY DEF Init
  <2> QED
    BY <1>2, <2>1, <2>2, <2>3, <2>4, <2>5, <2>6, <2>7 DEF TypeOK
<1>4. TokenInv
  <2>1. /\ disk.access # None => disk.access.born = 0 /\ disk.access.account \notin GhAccounts
        /\ disk.cache # None =>
             /\ disk.cache.born = 0 /\ disk.cache.issuer \notin GhAccounts /\ Paired(disk.cache)
    BY DiskAssumption DEF Init, Paired
  <2>2. mem.access = None /\ mem.bearer = None /\ Session = 0
    BY DEF Init, Session
  <2> QED
    BY <2>1, <2>2 DEF TokenInv, InSession, Tokens
<1>5. SignOutInv
  BY DEF Init, SignOutInv
<1>6. \A s \in Slots : call[s] = NoCall
  BY DEF Init
<1>7. \A c \in Clients : client[c] = Resting
  BY DEF Init
<1>8. CallInv
  BY <1>3, <1>6, NoCallOK DEF CallInv
<1>9. ClientInv /\ CheckInv
  BY <1>7 DEF ClientInv, CheckInv, ClientOK, Resting, Paired
<1>10. DeviceInv
  <2>1. DeviceOK(Resting, NoCall)
    BY DEF DeviceOK, Resting, NoCall, Fresh
  <2> QED
    BY <1>6, <1>7, <2>1, SlotsApart DEF DeviceInv
<1>11. CountInv
  <2>1. SUFFICES ASSUME NEW s \in Slots PROVE call[s].waiters = Cardinality(WaitingFor(s))
    BY DEF CountInv
  <2>2. WaitingFor(s) = {}
    BY <1>7 DEF WaitingFor, Resting
  <2> QED
    BY <1>6, <2>2, FS_EmptySet DEF NoCall
<1>12. CurrentInv
  BY DEF Init, CurrentInv
<1> QED
  BY <1>3, <1>4, <1>5, <1>8, <1>9, <1>10, <1>11, <1>12 DEF IInv, SharedInv

LEMMA Stutters ==
  ASSUME IInv, UNCHANGED vars
  PROVE  IInv'
<1>1. TypeOK'
  BY DEF IInv, TypeOK, vars
<1>2. TokenInv' /\ SignOutInv' /\ generation <= generation'
  BY TokensStay DEF IInv, TypeOK, vars, tokenVars, outVars
<1> QED
  BY <1>1, <1>2, QuietStep DEF vars

LEMMA Inductive ==
  ASSUME IInv, [Next]_vars
  PROVE  IInv'
<1>1. ASSUME NEW c \in Callers, NEW mode \in Modes \ {"quiet"}, Start(c, mode) PROVE IInv'
  BY <1>1, StartStep
<1>2. ASSUME NEW c \in Clients, ClientStep(c) PROVE IInv'
  BY <1>2, RefuseStep, CacheHitStep, JoinStep, CreateStep, LeaveStep, WakeStep, CheckStep
     DEF ClientStep
<1>3. ASSUME NEW s \in Slots, Execute(s) PROVE IInv'
  BY <1>3, ExecuteRefreshStep, ExecuteResponsesStep, FinishStep, DeviceGateStep,
     DeviceGateCanceledStep, DeviceAnsweredStep, DevicePromptFailsStep, DeviceAuthorizedStep
     DEF Execute
<1>4. CASE BeginPoll \/ BeginGitHubCLI \/ Login
  BY <1>4, LoginsStep
<1>5. CASE BeginSignOut \/ SigningOut
  BY <1>5, GateStep, CancelCurrentStep, WipeStep, AdvanceStep, DropCurrentStep DEF SigningOut
<1>6. CASE Expire
  BY <1>6, ExpireStep
<1>7. CASE UNCHANGED vars
  BY <1>7, Stutters
<1> QED
  BY <1>1, <1>2, <1>3, <1>4, <1>5, <1>6, <1>7 DEF Next

\* The inductive invariant, of every behaviour.
THEOREM Invariant == Spec => []IInv
<1>1. Init => IInv
  BY Initially
<1>2. IInv /\ [Next]_vars => IInv'
  BY Inductive
<1> QED
  BY <1>1, <1>2, PTL DEF Spec

-----------------------------------------------------------------------------
(* What a client is about to be given.                                       *)

LEMMA GivenOutsideResponses ==
  ASSUME IInv, NEW c \in Clients, client[c].stage # "responses"
  PROVE  /\ Paired(Given(c))
         /\ Given(c) # None => Now(Given(c)) \/ Given(c).issuer \in EnvAccounts
<1>1. CASE client[c].step = "check" /\ Compatible(c, client[c].call)
  <2>1. Given(c) = Result(c).credential
    BY <1>1 DEF Given
  <2> QED
    BY <1>1, <2>1, ResultFields DEF Now
<1>2. CASE ~(client[c].step = "check" /\ Compatible(c, client[c].call))
  BY <1>2 DEF Given, Paired
<1> QED
  BY <1>1, <1>2

\* The exchange for Responses was keyed to the credential that the client holds.
LEMMA GivenForResponses ==
  ASSUME IInv, NEW c \in Clients, client[c].stage = "responses"
  PROVE  Paired(Given(c))
<1> DEFINE s == client[c].call
           held == client[c].credential
           got == Result(c).credential
<1>1. CASE client[c].step # "check" \/ ~Compatible(c, s) \/ got = None
  BY <1>1 DEF Given, Paired
<1>2. CASE client[c].step = "check" /\ Compatible(c, s) /\ got # None
  <2>1. held \in Bearer /\ Paired(held)
    BY DEF IInv, TypeOK, Request, SharedInv, ClientInv, ClientOK
  <2>2. s \in ResponsesSlots /\ s \in Slots
    BY <1>2, WaitedCall DEF IInv, SlotsOf
  <2>3. call[s].source = Source(held)
    BY <1>2 DEF Compatible
  <2>4. got = call[s].credential
    BY <1>2 DEF Result
  <2>5. got = BearerOf(Source(held))
    BY <1>2, <2>2, <2>3, <2>4 DEF IInv, SharedInv, CallInv, CallOK
  <2>6. got.issuer = held.issuer
    BY <2>5 DEF BearerOf, Source
  <2>7. Given(c) = [got EXCEPT !.fingerprint = held.fingerprint]
    BY <1>2 DEF Given
  <2>8. Given(c).fingerprint = held.fingerprint /\ Given(c).issuer = got.issuer
    BY <2>5, <2>7 DEF BearerOf
  <2>9. held # None
    BY <2>1, TokenAssumption
  <2> QED
    BY <2>1, <2>6, <2>8, <2>9 DEF Paired
<1> QED
  BY <1>1, <1>2

\* SignOut ends a session for good: whatever refreshes, device logins and CLI
\* logins ran beside it, once it returned neither memory nor disk holds a token
\* of the session before (SignOut wipes both under mu and advances the
\* generation before it lets go), and no client is given one that an earlier
\* call brought (waitForRefreshCall compares the generations).
THEOREM SessionsAreSeparate == Spec => []SessionsSeparate
<1>1. IInv => SessionsEnd
  <2>1. SUFFICES ASSUME IInv, signOut = "idle" PROVE SessionsEnd
    BY DEF SessionsEnd
  <2>2. Session = generation
    BY <2>1 DEF Session
  <2> QED
    BY <2>1, <2>2 DEF IInv, TokenInv, InSession, Tokens, SessionsEnd, Now
<1>2. IInv => DeliveredInSession
  BY GivenOutsideResponses DEF DeliveredInSession
<1> QED
  BY <1>1, <1>2, Invariant, PTL DEF SessionsSeparate

\* A bearer is used with the fingerprint of the credential it came from only,
\* in memory, in api-key.json, in the result of a shared call and after the
\* exchange for Responses; and neither a credential that the GitHub CLI
\* reported nor a bearer of it is written to disk (useGitHubCLICopilotToken).
THEOREM CredentialsAreKept == Spec => []CredentialsKept
<1>1. IInv => Paired(mem.bearer) /\ Paired(disk.cache)
  BY DEF IInv, TokenInv, InSession, Tokens, Paired
<1>2. IInv => \A c \in Clients : Paired(client[c].credential)
  BY DEF IInv, SharedInv, ClientInv, ClientOK
<1>3. IInv => \A c \in Clients : Paired(Given(c))
  BY GivenOutsideResponses, GivenForResponses
<1>4. IInv => CLIStaysInMemory
  BY DEF IInv, TokenInv, InSession, Tokens, CLIStaysInMemory
<1>5. IInv => CredentialsKept
  BY <1>1, <1>2, <1>3, <1>4 DEF CredentialsKept, BearersPaired
<1> QED
  BY <1>5, Invariant, PTL

\* A shared call counts exactly the clients that wait for it, and one that can
\* still be joined is not abandoned and has somebody who waits: the last waiter
\* to leave takes it out of the table (waitForRefreshCall and its siblings).
THEOREM WaitersAreExact == Spec => []WaitersExact
<1>1. IInv => WaitersExact
  BY DEF IInv, SharedInv, CountInv, WaitingFor, CurrentInv, WaitersExact
<1> QED
  BY <1>1, Invariant, PTL

\* Every variable keeps its type; a slot of one table never runs the call of
\* another.
THEOREM AuthenticatorTypes == Spec => []TypeOK
  BY Invariant, PTL DEF IInv

=============================================================================
