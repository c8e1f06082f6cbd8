---------------------------- MODULE Authenticator ----------------------------
(***************************************************************************)
(* GitHub sign-in and Copilot bearers, auth/authenticator.go.              *)
(*                                                                         *)
(* Callers of GetCredential, RefreshTokenNonInteractive and                *)
(* GetResponsesCredential share in-flight calls: at most one refresh, one  *)
(* device login and one Responses exchange is current, each run by its own *)
(* goroutine, whose waiters leave on their own.  Interactive sign-in and   *)
(* SignOut exclude each other with the device-flow gate, and everything    *)
(* that reads or writes the tokens holds mu.                               *)
(*                                                                         *)
(* What holds mu from its first to its last access is one step here: no    *)
(* other step can see the middle of it.  SignOut, whose flag, generation   *)
(* and call tables are read without mu, is taken apart.                    *)
(***************************************************************************)
EXTENDS Integers, FiniteSets

CONSTANTS
  Callers,          \* goroutines with one request at a time
  RefreshSlots, DeviceSlots, ResponsesSlots,  \* names of the in-flight calls
  None,
  Accounts,         \* GitHub accounts, one credential each
  AppAccounts,      \* with a ghu_ credential, which Responses must exchange
  LegacyAccounts,   \* with a credential that every use must exchange
  LoginAccounts,    \* the ones that a device login may authorize
  GhAccounts,       \* the ones that the GitHub CLI may report
  EnvAccounts,      \* the ones that COPILOT_GITHUB_TOKEN may hold
  Disks,            \* token directories that earlier processes may leave
  MaxSignOuts,      \* bound on SignOut
  MaxRequests,      \* bound on requests, logins and expiries together
  MaxFaults         \* bound on file operations that fail

ASSUME AccountAssumption ==
  /\ AppAccounts \cup LegacyAccounts \cup LoginAccounts \subseteq Accounts
  /\ GhAccounts \cup EnvAccounts \subseteq Accounts
  /\ AppAccounts \cap LegacyAccounts = {}
  /\ EnvAccounts \cap (LoginAccounts \cup GhAccounts) = {}
  /\ LoginAccounts \cap GhAccounts = {}
  /\ None \notin Accounts
ASSUME SlotAssumption ==
  /\ RefreshSlots \cap DeviceSlots = {}
  /\ (RefreshSlots \cup DeviceSlots) \cap ResponsesSlots = {}
  /\ Callers \cap (RefreshSlots \cup DeviceSlots \cup ResponsesSlots) = {}
  /\ None \notin Callers \cup RefreshSlots \cup DeviceSlots \cup ResponsesSlots
  /\ IsFiniteSet(Callers) /\ IsFiniteSet(DeviceSlots)
ASSUME BoundAssumption == MaxSignOuts \in Nat /\ MaxRequests \in Nat /\ MaxFaults \in Nat

VARIABLES
  env,         \* COPILOT_GITHUB_TOKEN
  mem,         \* accessToken; copilotToken with its fingerprint, until expiry
  disk,        \* access-token, api-key.json, signed-out, auth-preferences.json
  responses,   \* responsesToken with responsesSourceToken, until expiry
  generation, signingOut,
  gate,        \* who holds deviceFlowGate
  current,     \* refreshCall, deviceCall and responsesCall
  call,        \* the authTokenCall of each slot, with its goroutine
  client,      \* a caller, or a device login, which asks for tokens as well
  signOut,     \* where SignOut is
  login,       \* where PollForAuthorization or SignInWithGitHubCLI is
  begun,       \* requests, logins and expiries so far
  faults       \* file operations that failed so far

tokenVars == <<mem, disk, faults>>
outVars   == <<generation, signingOut, signOut>>
Begin == begun < MaxRequests /\ begun' = begun + 1
vars == <<env, mem, disk, responses, generation, signingOut, gate, current, call,
          client, signOut, login, begun, faults>>

Slots   == RefreshSlots \cup DeviceSlots \cup ResponsesSlots
Clients == Callers \cup DeviceSlots
Stages  == {"refresh", "device", "responses"}
SlotsOf(stage) == CASE stage = "refresh"   -> RefreshSlots
                    [] stage = "device"    -> DeviceSlots
                    [] stage = "responses" -> ResponsesSlots

\* A GitHub credential of the session born after that many sign-outs, and a
\* bearer of it: issuer is where it came from, fingerprint what is recorded,
\* None for a cache older than fingerprints.  born is history.
Credential == [account : Accounts, born : 0 .. MaxSignOuts]
Bearer     == [issuer : Accounts, fingerprint : Accounts \cup {None}, born : 0 .. MaxSignOuts]
BearerOf(t) == [issuer |-> t.account, fingerprint |-> t.account, born |-> t.born]
EnvToken    == [account |-> env, born |-> 0]
Directory   == [access : Credential \cup {None}, cache : Bearer \cup {None},
                marker : BOOLEAN, auto : BOOLEAN]

ASSUME TokenAssumption == None \notin Credential \cup Bearer

\* What an earlier process leaves is what this one may leave: see CredentialsKept.
ASSUME DiskAssumption ==
  \A d \in Disks :
    /\ d \in Directory
    /\ d.access # None => d.access.born = 0 /\ d.access.account \notin GhAccounts
    /\ d.cache # None =>
         /\ d.cache.born = 0 /\ d.cache.issuer \notin GhAccounts
         /\ d.cache.fingerprint \in {None, d.cache.issuer}

Direct(a) == a \notin LegacyAccounts     \* isSupportedCopilotBearer

Modes == {"get", "force", "responses", "quiet"}
Answers == {"none", "login", "other"}
AuthTokenCall ==
  [pc : {"free", "run", "ended", "done", "gate", "before", "prompt", "after"},
   generation : 0 .. MaxSignOuts, force : BOOLEAN, source : Credential \cup {None},
   abandoned : BOOLEAN, canceled : BOOLEAN, waiters : Nat,
   credential : Bearer \cup {None}, err : Answers]
Request ==
  [stage : Stages \cup {"idle"}, step : {"none", "ask", "wait", "check"}, mode : Modes,
   call : Slots \cup {None}, credential : Bearer \cup {None}, err : Answers]

NoCall == [pc |-> "free", generation |-> 0, force |-> FALSE, source |-> None,
           abandoned |-> FALSE, canceled |-> FALSE, waiters |-> 0,
           credential |-> None, err |-> "none"]
Resting == [stage |-> "idle", step |-> "none", mode |-> "get", call |-> None,
            credential |-> None, err |-> "none"]

-----------------------------------------------------------------------------
Init ==
  /\ env \in EnvAccounts \cup {None}
  /\ mem = [access |-> None, bearer |-> None]
  /\ disk \in Disks
  /\ responses = None
  /\ generation = 0
  /\ signingOut = FALSE
  /\ gate = None
  /\ current = [s \in Stages |-> None]
  /\ call = [s \in Slots |-> NoCall]
  /\ client = [c \in Clients |-> Resting]
  /\ signOut = "idle"
  /\ login = "idle"
  /\ begun = 0
  /\ faults = 0

\* SignOut holds mu from the time it clears memory to the last abandoned call.
MuFree == signOut \notin {"advance", "dropRefresh", "dropDevice", "dropResponses"}

-----------------------------------------------------------------------------
(* What a step that holds mu may leave: memory, disk, the faults so far and  *)
(* its error, which is "login" when a new sign-in would help.                *)

Failed(st, e) == [st EXCEPT !.err = e]

Tokens == [mem |-> mem, disk |-> disk, faults |-> faults, err |-> "none"]
Commit(st) == mem' = st.mem /\ disk' = st.disk /\ faults' = st.faults

\* The same step when its next file operation fails.
Faulty(st) ==
  IF st.faults = MaxFaults THEN {}
  ELSE {[st EXCEPT !.faults = @ + 1, !.err = "other"]}

\* Mutant of UseCredential: an exchange does not record whose bearer it brought.
UseCredentialUnmarked(st, t, persist) ==
  LET old == st.mem.bearer
      got == [st EXCEPT !.mem.bearer =
                IF old = None THEN BearerOf(t)
                ELSE [BearerOf(t) EXCEPT !.fingerprint = old.fingerprint],
              !.err = "none"]
  IN IF Direct(t.account) THEN {got}
     ELSE {Failed(st, "login"), Failed(st, "other"),
           IF persist THEN [got EXCEPT !.disk.cache = got.mem.bearer] ELSE got}

\* useGitHubCredential with exchangeLegacyCopilotToken: a supported credential
\* is its own bearer; any other is exchanged, which may fail, and the result is
\* saved, which may fail once memory has it.
UseCredential(st, t, persist) ==
  LET got == [st EXCEPT !.mem.bearer = BearerOf(t), !.err = "none"] IN
  IF Direct(t.account) THEN {got}
  ELSE {Failed(st, "login"), Failed(st, "other")}
         \cup IF persist THEN {[got EXCEPT !.disk.cache = BearerOf(t)]} \cup Faulty(got)
                         ELSE {got}

\* useGitHubCLICopilotToken: gh may have no login (login), may time out (other),
\* and the context may end when the bearer is in memory already.
UseGitHubCLI(st) ==
  {Failed(st, "login"), Failed(st, "other")} \cup
  UNION {LET used == UseCredential(st, [account |-> g, born |-> generation], FALSE)
         IN  {u \in used : u.err # "none"}
               \cup {Failed(u, "other") : u \in {v \in used : v.err = "none"}}
               \cup {[u EXCEPT !.mem.access = None] : u \in {v \in used : v.err = "none"}}
         : g \in GhAccounts}

\* refreshToken: the credential in memory, the one on disk when it is another,
\* then the GitHub CLI, unless one of them failed for a reason that may pass.
FromMemory(st) ==
  IF st.mem.access = None THEN {Failed(st, "unset")}
  ELSE UseCredential(st, st.mem.access, TRUE)

FromDisk(st) ==
  IF st.err = "none" THEN {st}
  ELSE IF st.disk.access = None THEN {st}
  ELSE LET unread == {IF st.err = "unset" THEN f ELSE Failed(f, st.err) : f \in Faulty(st)}
           loaded == [st EXCEPT !.mem.access = st.disk.access]
       IN  unread \cup IF st.mem.access = st.disk.access THEN {loaded}
                       ELSE UseCredential(loaded, st.disk.access, TRUE)

FromGitHubCLI(st) ==
  IF st.err \notin {"unset", "login"} \/ st.disk.marker \/ ~st.disk.auto
  THEN {IF st.err = "unset" THEN Failed(st, "login") ELSE st}
  ELSE UseGitHubCLI(st)

RefreshToken(st) ==
  UNION {FromGitHubCLI(d) : d \in UNION {FromDisk(m) : m \in FromMemory(st)}}

\* performRefresh
Refresh(force) ==
  LET st == Tokens IN
  IF ~force /\ mem.bearer # None /\ (env = None \/ mem.access = EnvToken)
  THEN {st}
  ELSE IF ~force /\ env = None /\ disk.cache # None
  THEN {[st EXCEPT !.mem.bearer = disk.cache]}
  ELSE IF env # None
  THEN UseCredential(IF mem.access = EnvToken THEN st
                     ELSE [st EXCEPT !.mem = [access |-> EnvToken, bearer |-> None]],
                     EnvToken, TRUE)
  ELSE RefreshToken(st)

\* completeDeviceAuthorization: each write may be the first that fails.
CompleteAuthorization(a) ==
  LET t     == [account |-> a, born |-> generation]
      st    == [Tokens EXCEPT !.mem.access = t]
      used  == UseCredential([st EXCEPT !.disk.access = t], t, TRUE)
      Tidy(u) ==
        LET cache  == IF Direct(a) THEN [u EXCEPT !.disk.cache = None] ELSE u
            marker == [cache EXCEPT !.disk.marker = FALSE]
        IN  Faulty(u) \cup Faulty(cache) \cup Faulty(marker)
              \cup {[marker EXCEPT !.disk.auto = FALSE]}
  IN Faulty(st)
       \cup {u \in used : u.err # "none"}
       \cup UNION {Tidy(u) : u \in {v \in used : v.err = "none"}}

\* SignInWithGitHubCLI: a failure of the CLI restores memory, a failure to
\* remove or to write a file does not.
SwitchToGitHubCLI ==
  LET used == UseGitHubCLI(Tokens)
      Tidy(u) ==
        LET access == [u EXCEPT !.disk.access = None]
            cache  == [access EXCEPT !.disk.cache = None]
            marker == [cache EXCEPT !.disk.marker = FALSE]
        IN  Faulty(u) \cup Faulty(access) \cup Faulty(cache) \cup Faulty(marker)
              \cup {[marker EXCEPT !.disk.auto = TRUE]}
  IN {Failed(Tokens, u.err) : u \in {v \in used : v.err # "none"}}
       \cup UNION {Tidy(u) : u \in {v \in used : v.err = "none"}}
-----------------------------------------------------------------------------
(* What a client does with an answer of its stage.  Only a device login     *)
(* keeps a result; a caller takes it and rests.                             *)

\* The token that the Responses exchange of a credential is keyed to.
Source(credential) == [account |-> credential.issuer, born |-> credential.born]

\* getToken and GetResponsesCredential
Answered(c, credential, err) ==
  LET r == client[c] IN
  IF err = "login" /\ r.stage = "refresh" /\ r.mode \in {"get", "responses"}
  THEN [r EXCEPT !.stage = "device", !.step = "ask", !.call = None]
  ELSE IF err = "none" /\ r.mode = "responses" /\ r.stage # "responses"
            /\ credential.issuer \in AppAccounts
  THEN [r EXCEPT !.stage = "responses", !.step = "ask", !.call = None,
                 !.credential = credential]
  ELSE IF c \in DeviceSlots THEN [Resting EXCEPT !.credential = credential, !.err = err]
  ELSE Resting

\* The context of a device login is the one of its call.
Live(c) == c \in DeviceSlots => ~call[c].canceled

\* A slot is reused when its call completed and nobody looks at it any more.
Unused(s, but) == \A c \in Clients \ {but} : client[c].call # s
Dropped(s, but) == IF call[s].pc = "done" /\ Unused(s, but) THEN NoCall ELSE call[s]

Start(c, mode) ==
  /\ client[c].stage = "idle" /\ Begin
  /\ client' = [client EXCEPT ![c] =
       [Resting EXCEPT !.stage = "refresh", !.step = "ask", !.mode = mode]]
  /\ UNCHANGED <<env, tokenVars, responses, outVars, gate, current, call, login>>

(* runSharedRefresh, getTokenWithDeviceFlow and runSharedResponsesToken, the *)
(* section under the mutex of their call.                                    *)

Refuse(c) ==
  /\ client[c].step = "ask" /\ signingOut
  /\ client' = [client EXCEPT ![c] = Answered(c, None, "login")]
  /\ UNCHANGED <<begun, env, tokenVars, responses, outVars, gate, current, call, login>>

\* The cached Responses token of this source, returned without another check.
CacheHit(c) ==
  /\ client[c].step = "ask" /\ client[c].stage = "responses"
  /\ ~signingOut /\ Live(c)
  /\ responses # None /\ Source(responses) = Source(client[c].credential)
  /\ client' = [client EXCEPT ![c] = Answered(c, responses, "none")]
  /\ UNCHANGED <<begun, env, tokenVars, responses, outVars, gate, current, call, login>>

CanShare(c) ==
  /\ client[c].step = "ask" /\ ~signingOut /\ Live(c)
  /\ ~ (/\ client[c].stage = "responses" /\ responses # None
        /\ Source(responses) = Source(client[c].credential))

InFlight(stage) == current[stage] # None /\ ~call[current[stage]].abandoned

Join(c) ==
  LET s == current[client[c].stage] IN
  /\ CanShare(c) /\ InFlight(client[c].stage)
  /\ call' = [call EXCEPT ![s].waiters = @ + 1]
  /\ client' = [client EXCEPT ![c].step = "wait", ![c].call = s]
  /\ UNCHANGED <<begun, env, tokenVars, responses, outVars, gate, current, login>>

\* Every call of a process has the same envToken, so only force is compared.
Create(c) ==
  LET stage == client[c].stage IN
  /\ CanShare(c) /\ ~InFlight(stage)
  /\ \E s \in SlotsOf(stage) :
       /\ call[s].pc = "free"
       /\ call' = [call EXCEPT ![s] =
            [NoCall EXCEPT !.pc = IF stage = "device" THEN "gate" ELSE "run",
                           !.generation = generation,
                           !.force = (stage = "refresh" /\ client[c].mode = "force"),
                           !.source = IF stage = "responses"
                                      THEN Source(client[c].credential) ELSE None,
                           !.waiters = 1]]
       /\ current' = [current EXCEPT ![stage] = s]
       /\ client' = [client EXCEPT ![c].step = "wait", ![c].call = s]
  /\ UNCHANGED <<begun, env, tokenVars, responses, outVars, gate, login>>

(* waitForRefreshCall, waitForDeviceCall and waitForResponsesCall.          *)

\* Mutant of Leave: the abandoned call stays current.
LeaveCurrent(c) ==
  LET s == client[c].call IN
  /\ client[c].step = "wait" /\ c \in Callers
  /\ client' = [client EXCEPT ![c] = Answered(c, None, "other")]
  /\ call' = [call EXCEPT ![s] =
       [Dropped(s, c) EXCEPT !.waiters = IF @ = 0 THEN 0 ELSE @ - 1,
                             !.canceled = @ \/ call[s].waiters = 1]]
  /\ UNCHANGED <<begun, env, tokenVars, responses, outVars, gate, current, login>>

\* The context ended first: the last waiter to leave abandons the call.
Leave(c) ==
  LET s == client[c].call IN
  /\ client[c].step \in {"ask", "wait"}
  /\ c \in DeviceSlots => call[c].canceled
  /\ client' = [client EXCEPT ![c] = Answered(c, None, "other")]
  /\ IF client[c].step = "ask" THEN UNCHANGED <<call, current>>
     ELSE IF call[s].waiters = 1 /\ call[s].pc # "done"
     THEN /\ call' = [call EXCEPT ![s].waiters = 0, ![s].abandoned = TRUE, ![s].canceled = TRUE]
          /\ current' = [k \in Stages |-> IF current[k] = s THEN None ELSE current[k]]
     ELSE /\ call' = [call EXCEPT ![s] = [Dropped(s, c) EXCEPT !.waiters = IF @ = 0 THEN 0 ELSE @ - 1]]
          /\ UNCHANGED current
  /\ UNCHANGED <<begun, env, tokenVars, responses, outVars, gate, login>>

\* The call completed; signingOut is read after the mutex is released.  Nobody
\* else looks at the waiters of a completed call, so that is one step.
Wake(c) ==
  LET s == client[c].call IN
  /\ client[c].step = "wait" /\ call[s].pc = "done"
  /\ IF signingOut
     THEN /\ client' = [client EXCEPT ![c] = Answered(c, None, "login")]
          /\ call' = [call EXCEPT ![s] = [Dropped(s, c) EXCEPT !.waiters = IF @ = 0 THEN 0 ELSE @ - 1]]
     ELSE /\ client' = [client EXCEPT ![c].step = "check"]
          /\ call' = [call EXCEPT ![s].waiters = @ - 1]
  /\ UNCHANGED <<begun, env, tokenVars, responses, outVars, gate, current, login>>

\* Whether a call that somebody else created does what this client wants.
Compatible(c, s) ==
  CASE client[c].stage = "refresh"   -> call[s].force \/ client[c].mode # "force"
    [] client[c].stage = "device"    -> TRUE
    [] client[c].stage = "responses" -> call[s].source = Source(client[c].credential)

\* What the client is given once it read the generation, after signingOut.
Result(c) ==
  LET s == client[c].call IN
  IF call[s].generation # generation THEN [credential |-> None, err |-> "login"]
  ELSE [credential |-> call[s].credential, err |-> call[s].err]

\* A result of another kind than the client wants makes it ask again.
Check(c) ==
  LET s == client[c].call IN
  /\ client[c].step = "check"
  /\ client' = [client EXCEPT ![c] =
       IF Compatible(c, s) \/ call[s].generation # generation
       THEN Answered(c, Result(c).credential, Result(c).err)
       ELSE [@ EXCEPT !.step = "ask", !.call = None]]
  /\ call' = [call EXCEPT ![s] = Dropped(s, c)]
  /\ UNCHANGED <<begun, env, tokenVars, responses, outVars, gate, current, login>>

-----------------------------------------------------------------------------
(* The goroutine of a call.                                                 *)

\* Mutant of Completed: an abandoned call is not closed.
CompletedUnlessLost(s) ==
  IF call[s].waiters = 0 /\ Unused(s, None) THEN NoCall
  ELSE [call[s] EXCEPT !.pc = IF call[s].abandoned THEN @ ELSE "done", !.canceled = TRUE]

\* The last section of the execute functions: the result of an abandoned call
\* is thrown away, and the call is no longer current.
Completed(s) ==
  LET lost == call[s].abandoned IN
  IF call[s].waiters = 0 /\ Unused(s, None) THEN NoCall
  ELSE [call[s] EXCEPT
         !.pc = "done", !.canceled = TRUE,
         !.credential = IF lost THEN None ELSE @,
         !.err = IF lost /\ @ = "none" THEN "other" ELSE @]

Retired(s) == [k \in Stages |-> IF current[k] = s THEN None ELSE current[k]]

\* executeRefreshCall: performRefresh is over in one step, because it holds mu.
ExecuteRefresh(s) ==
  /\ s \in RefreshSlots /\ call[s].pc = "run" /\ MuFree
  /\ IF call[s].canceled
     THEN /\ call' = [call EXCEPT ![s].pc = "ended", ![s].err = "other"]
          /\ UNCHANGED tokenVars
     ELSE \E st \in Refresh(call[s].force) :
            /\ Commit(st)
            /\ call' = [call EXCEPT ![s].pc = "ended", ![s].err = st.err,
                          ![s].credential = IF st.err = "none" THEN st.mem.bearer ELSE None]
  /\ UNCHANGED <<begun, env, responses, outVars, gate, current, client, login>>

\* The exchange of executeResponsesCall holds no lock.  Its result is a token of
\* the source; the fingerprint is the business of whoever asked.
ExecuteResponses(s) ==
  /\ s \in ResponsesSlots /\ call[s].pc = "run"
  /\ \E e \in {"none", "login", "other"} :
       /\ call[s].canceled => e # "none"
       /\ call' = [call EXCEPT ![s].pc = "ended", ![s].err = e,
                     ![s].credential = IF e = "none" THEN BearerOf(call[s].source) ELSE None]
  /\ UNCHANGED <<begun, env, tokenVars, responses, outVars, gate, current, client, login>>

\* executeRefreshCall, executeDeviceCall and executeResponsesCall end; the last
\* one keeps its token.
Finish(s) ==
  /\ call[s].pc = "ended"
  /\ call' = [call EXCEPT ![s] = Completed(s)]
  /\ current' = Retired(s)
  /\ responses' = IF /\ s \in ResponsesSlots
                     /\ call[s].err = "none" /\ ~call[s].abandoned
                     /\ ~signingOut /\ call[s].generation = generation
                  THEN call[s].credential ELSE responses
  /\ UNCHANGED <<begun, env, tokenVars, outVars, gate, client, login>>

(* executeDeviceCall asks for a token once it has the gate, since another    *)
(* login may be over by now, and once more after its own.                    *)

DeviceGate(s) ==
  /\ s \in DeviceSlots /\ call[s].pc = "gate" /\ gate = None
  /\ gate' = s
  /\ call' = [call EXCEPT ![s].pc = "before"]
  /\ client' = [client EXCEPT ![s] =
       [Resting EXCEPT !.stage = "refresh", !.step = "ask", !.mode = "quiet"]]
  /\ UNCHANGED <<begun, env, tokenVars, responses, outVars, current, login>>

\* acquireDeviceFlow, when the context ends while another holds the gate.
DeviceGateCanceled(s) ==
  /\ s \in DeviceSlots /\ call[s].pc = "gate" /\ call[s].canceled
  /\ call' = [call EXCEPT ![s].pc = "ended", ![s].err = "other"]
  /\ UNCHANGED <<begun, env, tokenVars, responses, outVars, gate, current, client, login>>

DeviceEnds(s, credential, err) ==
  /\ gate' = None
  /\ call' = [call EXCEPT ![s].pc = "ended", ![s].credential = credential, ![s].err = err]

\* The answer of the first question, or of the second.
DeviceAnswered(s) ==
  /\ s \in DeviceSlots /\ call[s].pc \in {"before", "after"} /\ client[s].stage = "idle"
  /\ IF /\ call[s].pc = "before" /\ client[s].err = "login"
        /\ ~call[s].canceled /\ ~signingOut
     THEN /\ call' = [call EXCEPT ![s].pc = "prompt"]
          /\ UNCHANGED gate
     ELSE DeviceEnds(s, client[s].credential, client[s].err)
  /\ client' = [client EXCEPT ![s] = Resting]
  /\ UNCHANGED <<begun, env, tokenVars, responses, outVars, current, login>>

\* deviceCodeFlow: the code expires, is refused, or the context ends.
DevicePromptFails(s) ==
  /\ s \in DeviceSlots /\ call[s].pc = "prompt"
  /\ DeviceEnds(s, None, "other")
  /\ UNCHANGED <<begun, env, tokenVars, responses, outVars, current, client, login>>

\* completeDeviceAuthorization, of the device call.
DeviceAuthorized(s) ==
  /\ s \in DeviceSlots /\ call[s].pc = "prompt" /\ MuFree /\ ~call[s].canceled
  /\ IF signingOut
     THEN DeviceEnds(s, None, "login") /\ UNCHANGED <<tokenVars, client>>
     ELSE \E a \in LoginAccounts : \E st \in CompleteAuthorization(a) :
            /\ Commit(st)
            /\ IF st.err # "none"
               THEN DeviceEnds(s, None, st.err) /\ UNCHANGED client
               ELSE /\ call' = [call EXCEPT ![s].pc = "after"]
                    /\ client' = [client EXCEPT ![s] =
                         [Resting EXCEPT !.stage = "refresh", !.step = "ask", !.mode = "quiet"]]
                    /\ UNCHANGED gate
  /\ UNCHANGED <<begun, env, responses, outVars, current, login>>
-----------------------------------------------------------------------------
(* PollForAuthorization and SignInWithGitHubCLI, from the menubar or from    *)
(* "vekil login".                                                            *)

User == "user"

LoginStep(from, to) ==
  /\ login = from /\ login' = to
  /\ IF from = "idle" THEN Begin ELSE UNCHANGED begun
  /\ UNCHANGED <<env, responses, outVars, current, call, client>>

BeginPoll == LoginStep("idle", "pollGate") /\ ~signingOut /\ UNCHANGED <<tokenVars, gate>>
BeginGitHubCLI == LoginStep("idle", "cliGate") /\ UNCHANGED <<tokenVars, gate>>

LoginGate ==
  /\ gate = None
  /\ \/ LoginStep("pollGate", "poll") /\ ~signingOut /\ gate' = User
     \/ LoginStep("pollGate", "idle") /\ signingOut /\ UNCHANGED gate
     \/ LoginStep("cliGate", "cli") /\ gate' = User
  /\ UNCHANGED tokenVars

LoginGateCanceled ==
  /\ \/ LoginStep("pollGate", "idle")
     \/ LoginStep("cliGate", "idle")
  /\ UNCHANGED <<tokenVars, gate>>

PollFails == LoginStep("poll", "idle") /\ gate' = None /\ UNCHANGED tokenVars

\* completeDeviceAuthorization
PollAuthorized ==
  /\ LoginStep("poll", "idle") /\ MuFree /\ gate' = None
  /\ IF signingOut THEN UNCHANGED tokenVars
     ELSE \E a \in LoginAccounts : \E st \in CompleteAuthorization(a) :
            Commit(st)

GitHubCLISwitched ==
  /\ LoginStep("cli", "idle") /\ MuFree /\ gate' = None
  /\ \E st \in SwitchToGitHubCLI : Commit(st)

-----------------------------------------------------------------------------
(* SignOut                                                                   *)

SignOutStep(from, to) == signOut = from /\ signOut' = to

BeginSignOut ==
  /\ SignOutStep("idle", "cancelRefresh") /\ generation < MaxSignOuts
  /\ signingOut' = TRUE
  /\ UNCHANGED <<begun, env, tokenVars, responses, generation, gate, current, call, client, login>>

\* cancelSharedAuthCalls, one mutex after the other.
CancelCurrent ==
  /\ \E stage \in Stages :
       /\ CASE stage = "refresh"   -> SignOutStep("cancelRefresh", "cancelDevice")
            [] stage = "device"    -> SignOutStep("cancelDevice", "cancelResponses")
            [] stage = "responses" -> SignOutStep("cancelResponses", "gate")
       /\ call' = IF current[stage] = None THEN call
                  ELSE [call EXCEPT ![current[stage]].canceled = TRUE]
  /\ UNCHANGED <<begun, env, tokenVars, responses, generation, signingOut, gate, current, client, login>>

SignOutGate ==
  /\ SignOutStep("gate", "wipe") /\ gate = None /\ gate' = "signOut"
  /\ UNCHANGED <<begun, env, tokenVars, responses, generation, signingOut, current, call, client, login>>

\* Mutant of Wipe: the cached bearer stays on disk.
WipeUncached ==
  /\ SignOutStep("wipe", "advance")
  /\ mem' = [access |-> None, bearer |-> None]
  /\ disk' = [disk EXCEPT !.access = None, !.auto = FALSE, !.marker = TRUE]
  /\ UNCHANGED <<begun, faults, env, responses, generation, signingOut, gate, current, call,
                 client, login>>
\* Under mu.  Every file operation may fail on its own; SignOut reports it, and
\* what it failed to remove counts as signed in anew.
Wipe ==
  LET Kept(t) == IF t = None THEN None ELSE [t EXCEPT !.born = generation + 1] IN
  /\ SignOutStep("wipe", "advance")
  /\ mem' = [access |-> None, bearer |-> None]
  /\ \E failing \in SUBSET {"access", "cache", "auto", "marker"} :
       /\ faults + Cardinality(failing) <= MaxFaults
       /\ faults' = faults + Cardinality(failing)
       /\ disk' = [access |-> IF "access" \in failing THEN Kept(disk.access) ELSE None,
                   cache  |-> IF "cache" \in failing THEN Kept(disk.cache) ELSE None,
                   auto   |-> IF "auto" \in failing THEN disk.auto ELSE FALSE,
                   marker |-> IF "marker" \in failing THEN disk.marker ELSE TRUE]
  /\ UNCHANGED <<begun, env, responses, generation, signingOut, gate, current, call, client, login>>

Advance ==
  /\ SignOutStep("advance", "dropRefresh")
  /\ generation' = generation + 1
  /\ UNCHANGED <<begun, env, tokenVars, responses, signingOut, gate, current, call, client, login>>

\* abandonSharedAuthCalls; mu is released after the last one.
DropCurrent ==
  /\ \E stage \in Stages :
       /\ CASE stage = "refresh"   -> SignOutStep("dropRefresh", "dropDevice")
            [] stage = "device"    -> SignOutStep("dropDevice", "dropResponses")
            [] stage = "responses" -> SignOutStep("dropResponses", "openGate")
       /\ call' = IF current[stage] = None THEN call
                  ELSE [call EXCEPT ![current[stage]].canceled = TRUE,
                                    ![current[stage]].abandoned = TRUE]
       /\ current' = [current EXCEPT ![stage] = None]
       /\ responses' = IF stage = "responses" THEN None ELSE responses
  /\ UNCHANGED <<begun, env, tokenVars, generation, signingOut, gate, client, login>>

OpenGate ==
  /\ SignOutStep("openGate", "end") /\ gate' = None
  /\ UNCHANGED <<begun, env, tokenVars, responses, generation, signingOut, current, call, client, login>>

EndSignOut ==
  /\ SignOutStep("end", "idle") /\ signingOut' = FALSE
  /\ UNCHANGED <<begun, env, tokenVars, responses, generation, gate, current, call, client, login>>

-----------------------------------------------------------------------------
\* Time passes: copilotToken, api-key.json or responsesToken expires.
Expire ==
  /\ Begin
  /\ \/ mem.bearer # None /\ mem' = [mem EXCEPT !.bearer = None] /\ UNCHANGED <<disk, responses>>
     \/ disk.cache # None /\ disk' = [disk EXCEPT !.cache = None] /\ UNCHANGED <<mem, responses>>
     \/ responses # None /\ responses' = None /\ UNCHANGED tokenVars
  /\ UNCHANGED <<env, outVars, gate, current, call, client, login, faults>>

ClientStep(c) ==
  Refuse(c) \/ CacheHit(c) \/ Join(c) \/ Create(c) \/ Leave(c) \/ Wake(c) \/ Check(c)
Execute(s) ==
  \/ ExecuteRefresh(s) \/ ExecuteResponses(s) \/ Finish(s)
  \/ DeviceGate(s) \/ DeviceGateCanceled(s) \/ DeviceAnswered(s)
  \/ DevicePromptFails(s) \/ DeviceAuthorized(s)
Login == LoginGate \/ LoginGateCanceled \/ PollFails \/ PollAuthorized \/ GitHubCLISwitched
SigningOut ==
  CancelCurrent \/ SignOutGate \/ Wipe \/ Advance \/ DropCurrent \/ OpenGate \/ EndSignOut

Next ==
  \/ \E c \in Callers, mode \in Modes \ {"quiet"} : Start(c, mode)
  \/ \E c \in Clients : ClientStep(c)
  \/ \E s \in Slots : Execute(s)
  \/ BeginPoll \/ BeginGitHubCLI \/ Login
  \/ BeginSignOut \/ SigningOut
  \/ Expire

Spec == Init /\ [][Next]_vars

\* Goroutines run, requests to GitHub time out, a device code expires, and a
\* mutex or the gate goes to everyone who waits for it.  Nobody has to ask, to
\* sign in or out, or to give up.
Fairness ==
  /\ \A c \in Clients :
       /\ WF_vars(Refuse(c) \/ CacheHit(c) \/ Join(c) \/ Create(c) \/ Wake(c) \/ Check(c))
       /\ c \in DeviceSlots => WF_vars(Leave(c))
  /\ \A s \in RefreshSlots : WF_vars(ExecuteRefresh(s))
  /\ \A s \in ResponsesSlots : WF_vars(ExecuteResponses(s))
  /\ \A s \in DeviceSlots :
       /\ WF_vars(DeviceGate(s) \/ DeviceGateCanceled(s))
       /\ WF_vars(DeviceAnswered(s))
       /\ WF_vars(DevicePromptFails(s) \/ DeviceAuthorized(s))
  /\ \A s \in Slots : WF_vars(Finish(s))
  /\ WF_vars(LoginGate) /\ WF_vars(PollFails \/ PollAuthorized) /\ WF_vars(GitHubCLISwitched)
  /\ WF_vars(SigningOut)

FairSpec == Spec /\ Fairness

-----------------------------------------------------------------------------
TypeOK ==
  /\ env \in EnvAccounts \cup {None}
  /\ mem \in [access : Credential \cup {None}, bearer : Bearer \cup {None}]
  /\ disk \in Directory
  /\ responses \in Bearer \cup {None}
  /\ generation \in 0 .. MaxSignOuts
  /\ signOut \in {"idle", "cancelRefresh", "cancelDevice", "cancelResponses", "gate", "wipe",
                  "advance", "dropRefresh", "dropDevice", "dropResponses", "openGate", "end"}
  /\ signingOut = (signOut # "idle")
  /\ gate \in DeviceSlots \cup {None, "user", "signOut"}
  /\ current \in [Stages -> Slots \cup {None}]
  /\ \A k \in Stages : current[k] \in SlotsOf(k) \cup {None}
  /\ call \in [Slots -> AuthTokenCall] /\ client \in [Clients -> Request]
  /\ login \in {"idle", "pollGate", "poll", "cliGate", "cli"}
  /\ begun \in 0 .. MaxRequests /\ faults \in 0 .. MaxFaults

Now(t) == t.born = generation

\* Nothing that belongs to an ended session survives SignOut, in memory or on
\* disk, whatever refreshes, device logins and CLI logins ran beside it
\* ("SignOut clears all authentication state from memory and removes persisted
\* token files from disk").  The environment's credential is not a session.
SessionsEnd ==
  signOut = "idle" =>
    /\ mem.access # None => Now(mem.access) \/ mem.access.account \in EnvAccounts
    /\ mem.bearer # None => Now(mem.bearer) \/ mem.bearer.issuer \in EnvAccounts
    /\ disk.access # None => Now(disk.access)
    /\ disk.cache # None => Now(disk.cache) \/ disk.cache.issuer \in EnvAccounts

\* What a client is about to be given, None when that is no bearer.  For
\* Responses, the token of the exchange has the fingerprint of the credential.
Given(c) ==
  LET credential == Result(c).credential IN
  IF client[c].step # "check" \/ ~Compatible(c, client[c].call) THEN None
  ELSE IF client[c].stage = "responses" /\ credential # None
  THEN [credential EXCEPT !.fingerprint = client[c].credential.fingerprint]
  ELSE credential

\* Calls created before or during a sign-out publish no token once it is over:
\* whatever bearer a client is given belongs to the session of that moment.
\* (The exchange for Responses is not covered: see ResponsesTokenCleared.)
DeliveredInSession ==
  \A c \in Clients : client[c].stage # "responses" =>
    \/ Given(c) = None
    \/ Now(Given(c)) \/ Given(c).issuer \in EnvAccounts

\* A bearer is always paired with the fingerprint of the credential it came
\* from: in memory, on disk, in the hands of a client, and after the exchange
\* for Responses.
Paired(b) == b # None => b.fingerprint \in {None, b.issuer}
BearersPaired ==
  /\ Paired(mem.bearer) /\ Paired(disk.cache)
  /\ \A c \in Clients : Paired(client[c].credential) /\ Paired(Given(c))

\* A GitHub CLI credential is never persisted, and neither is what it is
\* exchanged for.
CLIStaysInMemory ==
  /\ disk.access # None => disk.access.account \notin GhAccounts
  /\ disk.cache # None => disk.cache.issuer \notin GhAccounts

\* The waiters of a call are the clients that wait for it; a call that is still
\* current has one, so that a goroutine that nobody waits for is not joined.
WaitersExact ==
  /\ \A s \in Slots :
       call[s].waiters = Cardinality({c \in Clients : client[c].step = "wait" /\ client[c].call = s})
  /\ \A k \in Stages : current[k] # None =>
       ~call[current[k]].abandoned /\ call[current[k]].waiters > 0

\* What a session leaves: nothing that survives it, and nothing that is given
\* out later (SignOut, the generations of the shared calls).
SessionsSeparate == SessionsEnd /\ DeliveredInSession

\* What is kept of a credential: always with its own fingerprint, and on disk
\* only if it is not from the GitHub CLI.
CredentialsKept == BearersPaired /\ CLIStaysInMemory

\* SignOut ends, whoever holds the gate, and every request is answered.
SignOutEnds == signingOut ~> ~signingOut
RequestsAnswered == \A c \in Callers : client[c].stage # "idle" ~> client[c].stage = "idle"

\* Every call of the authenticator returns, whatever it waits for.
EveryCallEnds == SignOutEnds /\ RequestsAnswered

\* After a sign-out, memory holds no bearer of the session that it ended, the
\* Responses token included (auth/authenticator.go, SignOut).
ResponsesTokenCleared ==
  signOut = "idle" /\ responses # None => Now(responses)

=============================================================================
