# A TLA+ model of vekil

vekil is a Go proxy between coding agents (Claude Code, Codex, Copilot CLI,
Gemini and OpenAI clients) and the providers of their models: GitHub Copilot,
Azure OpenAI and OpenAI Codex.  These modules model the parts of it that decide
things concurrently or across failures: who may probe a provider that answered
429, how often and where a request is sent, who owns the continuation state a
provider returned, which GitHub session a bearer belongs to, which codex credentials
survive, which turns of a conversation may run, and how a session, a server and
the menubar application stop.  The modules are checked with TLC on small
instances; the invariants of eleven of them are proved with TLAPS for all values of
their constants.

Line numbers refer to the sources in `src/`; `PROJECT.json` maps every
definition to its lines.

## 1. The system

### Components, their state and their operations

| Component | State | Operations | Where it is hard | Module |
|---|---|---|---|---|
| Azure admission, `proxy/azure_traffic.go` | cooldown entries per deployment with a probe flag and a FIFO queue; counters of waiters and bytes | acquire, queue, grant, observe an answer, release, abandon a body | many goroutines, entries that are swept and made again, bodies read and closed by different goroutines | `AzureTraffic` |
| Copilot admission, `proxy/copilot_traffic.go` | cooldowns per model, account and integration with a probe channel; a counter of waiters | acquire, wait, observe, release, evict | a request has several keys; a late 429 renews a cooldown under the waiters | `CopilotTraffic` |
| Route executor, `proxy/route_executor.go` | one operation: budgets, attempted targets, pin, commitment, failures | select, build, admit, claim, dispatch, classify, retry, switch, migrate, answer | partial failure: each attempt can fail at ten places, and what the upstream did is known by evidence only | `RouteExecutor` |
| Durable state ownership, `proxy/state_binding_durable.go` | a bbolt file of tokens with owner or tombstone, a count, an exclusive lock | bind a batch, claim a conversation, resolve, open, close, prune | crash between answer and commit, commits with unknown outcome, ownership that changes between lookup and send | `DurableBindings` |
| State ownership in memory, `proxy/state_binding.go` | LRU of tokens with absolute expiry | the same, without files | eviction during a batch | `MemoryBindings` |
| GitHub authenticator, `auth/authenticator.go` | tokens in memory and on disk, generation, three tables of shared calls, a gate | get a credential, refresh, device login, CLI login, exchange for Responses, sign out | shared calls that outlive their callers and sign-outs; files that fail half way | `Authenticator` |
| Codex OAuth, `proxy/openai_codex_auth.go` | `auth.json`, a journal, a kernel file lock, a cache per path | load, join or start a refresh, persist in steps, recover | crashes between journal and file; other processes, a login that replaces the file | `CodexAuth` |
| Tool-call replay store, `proxy/responses_chat_replay.go` | groups with an index of calls, LRU and totals | publish, resolve, expire, evict, close | consistency of four structures through IDs that are made again | `ReplayStore` |
| Conversations, `proxy/conversation_*.go` | snapshots and pending markers on disk, one admission per conversation, a turn's staged items | begin, dispatch, observe, deliver, save, settle, release | what was executed, and what the client holds, when a turn ends early | `ConversationTurn` |
| Policy runtime, `proxy/policy_routing.go`, `chat_policy_runtime.go`, `policy_controller.go` | admission slots, breaker with generations, preflight attempts, a readiness gate | plan, classify, record, release, preflight | results that come late, overlapping preflights | `PolicyRouting` |
| WebSocket bridge, `proxy/responses_websocket.go` | a session's in-flight cancel, close barrier, queue of requests | register, read, queue, call, cancel, close, drain | four goroutines that may begin the closing; calls that do not inherit the session's context | `WebSocketSession` |
| Menubar application, `cmd/menubar/main.go`, `proxy_lifecycle.go` | the published server, a startup with its generation, the enabled menu items | toggle, start, cancel, sign in and out, change providers, exit | a startup that is cancelled, superseded or crossed while its server comes up | `MenubarStartup` |
| Lifecycle, `server/server.go`, `proxy/handler.go` | the claims of `Start` and `Stop`, listener, draining flags, registered bodies, sessions, handlers, workers | start, stop, admit, bind and cancel a body, register a session, begin and end a worker, finalize | a stop during a start, callers that give up at a deadline, the lock of the store | `Lifecycle` |
| Catalog flights, optimizer processes, statistics, rotating log, launcher | small tables and counters | see `PROJECT.json` | races of completion and cancellation | not modelled |
| Translation, configuration, CLI, services, dashboard | none that is shared | pure conversions and I/O | volume, not interleaving | not modelled |

### How they interact

A handler translates a request and creates a `routeOperation`.  The executor
resolves the owner of its state tokens (binding store), picks a target, builds
the request with credentials (authenticator, Codex, Azure identity), asks the
two admission controllers, checks the owner again, records the intent of a
protected conversation, takes a send from the budget and sends.  The response
body is wrapped: one wrapper observes throttles and gives the probe back, another
one completes the attempt.  Before headers or events reach the client the
tokens in them are bound.  A failed attempt is drained, classified and either
retried, switched to the next target, migrated or answered.  Shutdown cancels
contexts and bodies, waits for handlers and workers and closes the stores.

The controllers and the stores are each protected by one mutex, and the
executor calls them without holding any other lock.  That is why each can be
modelled with its callers, and the executor with the answers they may give:

* `RouteExecutor` takes a permit (`permit`) or a local rejection from the
  admission controllers nondeterministically; `AzureTraffic` and
  `CopilotTraffic` take from the executor that a permit is released and that a
  body is read, closed or abandoned.  `PermitsSettled` is the obligation of the
  first that the other two rely on.
* `DurableBindings` contains the part of a request that concerns ownership;
  `RouteExecutor` has an owner and a pin, and `OwnerKept` is what
  `DurableBindings` assumes when it sends to the pinned target only.
* Both stores implement `StateOwnership`.
* `ConversationTurn` sees of an execution what the executor reports to its turn:
  dispatched, safely failed, ambiguous, committed, or what was read of its stream.
  In `RouteExecutor` the turn is `dispatched`, `migrated` and `blocked`.
* `PolicyRouting` runs before the executor and decides its route; a slot and a
  permit are given back before the execution begins.
* `WebSocketSession` has the upstream call of a turn as something that ends when
  the upstream answers or its own cancel function is called; `Lifecycle`
  has a session as something that leaves after its closing began.  `SessionsCut`
  is what entitles the latter to that.
* `CodexAuth` and `Authenticator` give the executor a credential or an error.
* `MenubarStartup` has a server as a listener that opens, is published and is
  stopped; what goes on in `Start` and `Stop` is `Lifecycle`.
* `Lifecycle` has the handlers without what they do: a handler that runs may use
  the stores.  `StoresOutliveUsers` is why `DurableBindings` needs no step in
  which its file is closed under a request: only a crash does that.

### What makes each part correct

The hazards in `PROJECT.json` list, line by line, what could go wrong and which
property would show it.  In short: one probe per recovering deployment and no
caller left waiting; no request run twice, no verdict "not executed" after it
ran; no token sent to two owners, no token shared before its owner is durable;
no bearer of a session after its sign-out; no codex credentials lost to a crash
and none used twice; no turn that repeats work the model does not know of; one
probe for a breaker, and no late result that moves it; no upstream call that
survives its session; no listener that nobody will close; no store closed under
its users, and none left open after a stop.

## 2. Modules

Each component has one module (constants with named assumptions, variables,
one action per handler or step, `Spec`, properties), and, where proved, a
`...Proofs` module.  An `MC...` module with the values TLC needs goes with it, and
a `.cfg` for each run.  Components that share no state are put side by side:
`OnDisk` composes the two stores on disk and `InProcess` the menubar, a
websocket session, policy routing, the state bindings in memory and the replay store,
each as an interleaving of its components, which is what the theorems are about.  `MCOnDisk` and `MCInProcess` have a variable `part`
that picks, in the initial state, the one component that moves, so that the states
of the parts add up and do not multiply.
A definition with "Mutant of" in its comment is a variant of the next one with a
plausible bug; no specification uses it.  `PROJECT.json` names, for each
property, a mutant that breaks it.

### AzureTraffic

`cooldowns[k]` is the map from deployments to entries, `remaining`, `probe`,
`queue` and `entryBytes` are the fields of an entry, `waiters` and
`waitingBytes` the global counters.  An entry has an identity, because a caller
may hold one that was removed from the map and replaced.  A caller's `pc`
follows `acquireAzureRouteInference` (`check`, `admit`, `wait`, `leave`), the
send and the body; `permit` is `azureTrafficPermit` and `reader`, `closer` are
the goroutines inside `Read` and `Close` of the body.  Each action is one
critical section of `controller.mu`; the check for a tracked deployment runs
before the lock is taken again and is a step of its own.  Time is relative:
`Tick` lowers every pending delay by one.

Three of the properties are worth reading in the code: the probe flag of an
entry against late releases (`ProbeOwned`), the queue and four counters
against sweeps and deferred removals (`QueueConsistent`), and the rule
that an attempt without output keeps its probe until nobody reads or closes
its body (`AbandonedBodyHoldsProbe`).

### CopilotTraffic

An entry is named by its key; `probe[k] = c` says that it holds the channel the
permit of `c` put there, `held[c]` are the reservations of that permit.
`woken` is the closed channel, as seen by a waiter that did not run yet.  The
body has a reader, a closer and `observeOnce`.  A stream with a rate-limit failure
in it, which is observed before the body is closed, is the answer kind
"stream".  The relay of a Responses stream (HTTP and WebSocket) reads through the
body instead and reports a failure from outside it: `ObserveResponsesFailure`, at
any time, whether its request still holds a permit or not; `RenewalBeatsWaiters` is
about the delays that a body reads itself.  Contexts that end and the
shutdown are the actions `Leave` and `Abandon`, which may happen at any time.
Among cooldowns of equal age Go's map order decides which is evicted: any of
them may be.  `owed` is history: a delay that a probe has read and that nobody
may pass before.

### ReplaySafety and RouteExecutor

`ReplaySafety` is what a caller relies on: an upstream runs a request at most
once, and "not executed" is answered only if none did.  `RouteExecutor` is one
explicit-route operation: `pc` walks through select, build, admit, refresh,
claim, reserve, flight, peek, final and done; each early return of
`executeExplicitRouteRequestPath` is an action.  The variable `runs` counts what upstreams
really did and is not visible to the code, which sees delivery, progress and
cleanup.  `FollowUp` is a further execution with the same operation (protocol
recovery, a compaction child, the whole compaction after a failed pre-split).
An admission that is not granted is either `Blocked`, by the local 429 of a cooldown,
which another target may make up for, or one of the errors of `AdmissionFails`, which end the
attempts: the caller left, a queue is full, or the owner does not validate.
The migration of a protected conversation is in the final step.  Two operations
share nothing but the components with modules of their own, so one operation
is enough.

### StateOwnership, DurableBindings, MemoryBindings

`StateOwnership` promises that an owner is never replaced: it may become a
tombstone or be forgotten, and a batch is granted as a whole.  `DurableBindings`
has the file (`proof`, `issued`, `sequence`), the process (`store`, `limit`)
and the requests.  A commit may succeed, fail, or be uncertain, which freezes
the store; a crash forgets the requests; `Prune` is the offline command of
`state_command.go`.  The store file is locked, so one process is modelled.
`trusted` is history: whom a token was shared with.  `MemoryBindings` is the
LRU; `left` is the remaining lifetime and `age` is history.  A step of a batch is
an operator of one token (`Looked`, `Marked`, `Stored`), and `After` of the module
`Lists` runs it over the tokens of the batch in their order.

Eviction lets a token get another owner after the old entry is gone.  The
comment at `proxy/state_binding.go:195-198` says that no later bind clears a
tombstone before it expires; capacity eviction does, as line 18 of the same
file says of records in general.  `OwnershipKept` allows it, as "forgotten".

### Authenticator

`mem` and `disk` are the tokens and files, each credential and bearer with its
account and the generation it was `born` in (history).  A call occupies a slot
and has its goroutine's `pc`; `client` is a caller, or a device login, which
asks for tokens as well.  Everything between lock and unlock of `mu` is one
step, because nothing reads the tokens without it; `SignOut`, whose flag,
generation and call tables are read without `mu`, is taken apart into twelve
steps.  A file operation may fail (`MaxFaults`).

### Lifecycle

The callers of `Start` and `Stop` have a `pc`; what lies between two critical
sections of `stopMu` is one step, and `stop` is cut where other goroutines can
see it: the draining flag, the snapshot of bodies, each body, the lifecycle
context, the admission gate, the three phases of the websocket sessions, and
`Shutdown` or `Close` of net/http.  `finalizer` is the goroutine that waits for
the listener, the handlers and the workers and then closes the stores; it goes
on when the owner of the shutdown returned at its deadline.  The phases of a
request (`req`) are the places where it may be held by somebody outside: its
body, its upstream, its client, its socket.  A request that arrives after the
admission gate closed is not waited for (`tracked`), and must not get to a store
for that reason.  The wrapper of a body has its own flags (`scheduled`,
`complete`, `released`, `cause`) since the shutdown and the handler change
it without a common lock.  `goneFirst` is history: the clients that had left when
draining began.  `cancelForShutdown` is one step: in the code it loads
and compares the same flags several times, and what it can do in between differs
only for a body that nobody reads any more.

### CodexAuth

A document is a number in the order of issue; `file` is `auth.json` in one of the
forms a truncation and a write leave it in, `dir` the journal and the orphans
beside it, `saved` and `savedDir` what a crash of the machine leaves of both.
`tx` is the transaction under the kernel lock, at the step it has reached:
journal written, renamed and synced, file rechecked, truncated, written, synced,
journal dropped.  `CrashProcess` frees the lock there, `CrashMachine` forgets what was
not synced as well, `Login` replaces the file at any moment, since codex does not
take the lock.  A process has its cache (`cache`) and one refresh that its
callers share (`refresh`, `result`).  `due` and `replaced` are history: the
documents that may be the newest, and those whose successor is durable.
`OrderedMetadata` is a fact about the file system: a rename reaches the disk
before a later truncation.  The code relies on it for the drop of the
journal, and it holds for the journalled file systems in use; the run sets it.

### ConversationTurn

A turn is a record: its root, its thread, its phase, the state of its pending
marker, the trace of its attempts, and of its stream what the upstream sent
(`seen`), what was read, and what the client got.  `snaps` and `marker` are on
disk; `broken` and `stopping` are the store's failure and the shutdown.  `fate`
is history and says what a turn did: nothing that matters (`clean`), or work that no
snapshot holds.  A client's own cancellation makes the client responsible for the
outcome.  Each storage operation takes one outcome (done, refused, failed, or done
and reported failed); the lookup and the admission are one step.  Turns beyond
`MaxStreams` are admitted and sent but not answered: a stream matters for the
turn after it.

### PolicyRouting

A breaker is a record of its failures, its generation, its half-open flag and
whether it is open; the absolute time until which it is open has three values
(none, ahead, past).  A classification (`call`) goes from its plan over the slots
and the permit to the result and the release; those of "observe" profiles are
detached.  `stale` is history: the calls whose permit is older than the last
opening, reopening or closing of their breaker.  The preflight has the
attempts (`attempt`), the one permit to run (`permit`), `pending` and
`diagnostic` of the gate.

### WebSocketSession

`handler`, `pump`, `ping` and `shutdown` are where the four goroutines are, and
`closer[a]` is where one of them is in closing the session, because each may begin
it.  `barrier` is the grace of a graceful close, `holds` and `inflightCancel` are
what `SetInflightCancel` and the barrier do to the cancel function of the current
call, `taken` a cancel function that a closer took under the lock and has yet to
call.  `draining`, `registered` and `snapshot` are the server's table of sessions
and the copy that its shutdown works on.  `frames` and `outstanding` are the
queue and its slots.

### ReplayStore

The four structures are four variables, each as in the code: `groups`,
`callsByID`, `lru` and `totalBytes`.  `recency` (`used` in `InProcess`) is history,
the order of use as the calls make it.  An operation is one critical section of `mu`.
What is taken out of a list is `Dropped` of the module `Lists`, which both stores use.

### MenubarStartup

`loop` is the menu loop, `worker[g]` the worker of startup `g`, `signIn` and
`exit` the goroutines of a sign-in and of `onExit`.  `server`, `startup`,
`generation` and `shuttingDown` are the fields of `menubarProxyLifecycle`, each
method of which is one step.  `menu` and `refresh` are the enabled items and the
half-done refreshes: the menu has no lock, and a goroutine asks for the state
first and paints afterwards.  The configuration is reduced to `current`, the
startups that have loaded the one that is saved.

## 3. Runs

| Run | Instance | Checks |
|---|---|---|
| `azure_recovery` | 2 callers of weight 1 or 2, 2 deployments, 3 entry identities, room for one entry, 2 throttles | `ProbeOwned`, `AbandonedBodyHoldsProbe`, `QueueNotBypassed`, `WaitersLeave` |
| `copilot_admission` | 2 callers, two models of one account, room for two of three cooldowns, one waiter or none, streams that report a limit of the account | `ProbesPermitted`, `RenewalBeatsWaiters`, `WaitsEnd` |
| `route_executor` | 3 targets (Azure, Copilot, Azure), 1 or 3 target attempts, 2 or 3 sends, one follow-up | `OwnerKept`, `PermitsSettled`, `BindingMovesSafely`, `ImplementsReplaySafety`, `ExecutionEnds` |
| `compaction_pin` | the same | `CompactionStaysOnTarget`, violated |
| `on_disk` | state bindings: 2 requests, a response id and a conversation, 3 owners on 2 routes, limits 1 and 2, one clock step | `OneOwner`, `ProofHeld`, `OwnershipKept` |
| | conversations: a verified client and another one, 2 turns, 3 stream events, 1 fault | `NoWorkRepeated`, `SavedWasReceived`, `InertTurnFreed` |
| `auth_sessions` | 2 callers, 2 refresh calls, 1 device login, 1 Responses call, 1 sign-out, 3 requests, logins or expiries, one failing file operation; an old login or a bearer of the environment on disk | `SessionsSeparate`, `CredentialsKept`, `WaitersExact` |
| `auth_waits` | 1 caller, 2 requests, logins or expiries, one failing file operation, with and without the environment token; a login on disk, or the CLI enabled | `EveryCallEnds` |
| `auth_responses_cleared` | 1 caller, 3 requests, logins or expiries | `ResponsesTokenCleared`, violated |
| `codex_auth` | 2 proxies with one caller each, 2 documents after the first, one crash or logout | `NewestSurvives`, `SpentNotReused`, `LoginServed` |
| `lifecycle` | 2 starts, 2 stops with deadlines, 1 request with or without a body, 1 wrapper, 1 worker | `StoresOutliveUsers`, `StopMeansOver`, `BodiesInterrupted`, `StoresReleased` |
| `in_process` | policy: 2 profiles on one classifier route with 2 classifications at once, or on one each; 2 preflight callers, threshold 2, 2 generations | `HalfOpenOwned`, `LateResultsIgnored`, `ReadyProfilesServe` |
| | a session: 2 outstanding requests, 3 upstream calls | `SessionsCut`, `OneQueued` |
| | menubar: 2 startups | `PortAccounted`, `WantedServerRuns` |
| | state bindings in memory: 4 tokens, room for 2, lifetime 2, 2 owners | `EntriesKept`, `MemoryOwnershipKept` |
| | replay store: 3 call IDs, sizes 1 and 3, room for 2 groups and 4 bytes, 3 publishes, lifetime 2, clock 2 | `StoreConsistent`, `EvictsOldest` |
| `menubar_replacement` | menubar: 2 startups | `ReplacementWaits`, violated |

Why the bounds are enough.  Every hazard of the admission controllers is
between an old holder and a new one, with at most one caller queued between
them: two callers on one deployment, or on models of one account, show that.
(Three callers of one Copilot model, 853k states without `ObserveResponsesFailure`, were
checked as well: a waiter that is overtaken behaves no differently.  So were two callers
with streams that report a limit of any of the three keys, 1.2M states.)  Tables with room for fewer entries than there
are keys make sweeps and evictions happen in every order.  The executor needs
three targets so that a switch can follow a switch, and a budget of sends that
runs out before the targets do.  The stores need a batch of two with one
known and one new token, and a limit that a batch can exceed.  The authenticator
needs a call from before the sign-out, one from during it and one from after:
three requests; the bound counts requests, logins and expiries, so that
each of the three may be any of them.  The run has one sign-out; the proof of
section 4 covers any number of them, of callers and of failing files.  The safety
run lets any one file operation fail, above all one of a CLI sign-in over an old login,
and leaves out the environment variable, which `auth_waits` has; the proof
covers both together.
A shutdown meets two callers of `Stop` (the owner and one that joins it) and two
of `Start` (one of which is refused); requests share nothing but the pool of
wrappers, and the invariants proved in section 4 hold for any number of them.
A codex refresh needs the document it starts from, its successor, and a login
or a second successor; the run has one crash or logout, and the proof of section
4 covers any number of them, a crash during the recovery from a crash included.  A conversation needs the turn that
ends badly and the one that comes after it; its stream, three events, so that one
can be delivered, one read and one in flight.  A breaker needs a late call from
before its opening beside the one that probes it: two calls, two generations.  A
session needs a call before its closing, one after it, and one that is replaced.
A menubar needs the startup that is called off and its replacement; the proofs of
section 4 cover any number of calls and startups.  The replay store needs an
ID that has left the index and is made again while the list is full.

Larger instances were checked once, outside the runs, without an error:
conversations with 3 threads or 3 turns or 2 faults (up to 2.5M states), policy
with 3 calls or 3 profiles (up to 8.8M), the replay store with 5 publishes, 3
groups and clock 3.  `cancelProxyStartupWithRestart` needs a third startup to
meet its own leftover: with `MaxStartups = 3` that branch is reached, and the
state space is too large for a run; the proof covers it.

Deadlock checking is off where the system really stops: a server or an application
that has ended, a session that is over, and bounded requests, publishes,
documents or turns that have run out.  Symmetry of callers, proxies, requests and
refresh slots is used in runs without liveness only: `auth_waits` runs the
specification of `auth_sessions` with fairness on a smaller instance.

### Fairness

* `AzureTraffic`: time passes, goroutines run, a send returns (it carries a
  deadline) and a body is closed (its owner defers the close).  Clients need not
  cancel.  `WaitersLeave` also needs finitely many throttles: `MaxThrottles`.
* `CopilotTraffic`: a woken goroutine runs, and a request that was admitted goes
  on to the end.  Nothing is assumed of the clock, contexts and reads.
* `RouteExecutor`: weak fairness of the execution; every wait in it has a
  deadline.
* `Authenticator`: goroutines run, requests to GitHub time out, a device code
  expires, and `mu` and the gate go to everyone who waits for them.  Nobody has
  to ask, to sign in or out or to give up.  A caller that needs a forced
  refresh waits for an unforced one and tries again: endless unforced calls
  could keep it waiting, and the bound on requests excludes that.
* The other modules state no fairness.  `WebSocketSession` says in `SessionsCut`
  what liveness would need: an upstream call that nobody cancels ends only when
  the upstream answers, which nothing guarantees.
* `Lifecycle`: goroutines run, `Listen` returns, `Serve` returns once net/http is
  shut down, and the context of a caller of `Stop` ends.  Nothing is assumed of
  clients and upstreams: a request leaves its body, its client or its socket
  only if its connection was cut, and an upstream call or a worker ends
  only if the lifecycle context was cancelled.  No one has to call `Stop`.

### Findings

* `compaction_pin`.  `docs/responses.md:32` says that compaction child calls
  "stay pinned to the selected target".  A target is pinned when a call is
  accepted.  If the first child of a pre-split compaction fails before,
  even after a send that may have been delivered, the whole compaction is posted
  with the same operation to the next target.
* `auth_responses_cleared`.  `SignOut` "clears all authentication state from
  memory".  `GetResponsesCredential` takes a credential, and starts the exchange
  for Responses later; a sign-out in between does not stop it, because the
  exchange records the generation of its own start.  The token of the ended
  session is cached.
* `menubar_replacement`.  `proxy_lifecycle.go` says that a canceled attempt
  "remains in flight until its worker has stopped any listener, which prevents
  a replacement startup from racing the old listener for the port".  The startup
  ends (`finishStartup`) before its worker stops the server; a sign-in or
  refresh that comes between enables the toggle, and a replacement may listen
  while the old listener is still open.

Met on the way, and not a disagreement with anything written:
`cancelProxyStartupWithRestart` (`cmd/menubar/main.go:434-436`) disables the toggle
after it has left the lock, so that the refresh of a worker that ends in between
comes first, and the toggle stays disabled until the next refresh.

## 4. Proofs

The theorems hold for every value of the constants that satisfies the named
assumptions of the module.

| Module | Theorem | States |
|---|---|---|
| `AzureTrafficProofs` | `OwnedInvariant`, `ProbeOwnedHolds`, `AbandonedBodyHoldsProbeHolds` | `ProbeOwned` and `AbandonedBodyHoldsProbe` of `AzureTraffic` are invariants |
| | `QueueInvariant`, `QueueNeverBypassed` | the invariant of the recovery queues, and the action property `QueueNotBypassed` |
| `CopilotTrafficProofs` | `Invariant`, `ProbesAlwaysPermitted` | the inductive invariant, and `ProbesPermitted` |
| | `RenewalAlwaysBeatsWaiters` | the action property about renewed cooldowns |
| | `WaitInvariant`, `WaitersAlwaysCovered` | nobody sleeps behind a probe that is over; the counter of waiters is exact and within its limit, for finitely many callers |
| | `WaitsAlwaysEnd` | the liveness property `WaitsEnd`, for any number of callers |
| `RouteExecutorProofs` | `ExecutorInvariant`, `BudgetsAlwaysHold`, `PermitsAlwaysSettled`, `OwnerAlwaysKept` | type correctness, budgets, permits, owners |
| | `BindingAlwaysMovesSafely` | the action property about bindings |
| | `ExecutorIsReplaySafe` | `Spec` implements `ReplaySafety` |
| | `ExecutionAlwaysRunsOut`, `RankAlwaysBounded` | every step of an execution lowers a rank, nothing raises it, and the budgets bound it |
| | `ExecutionProgresses` | with fairness, an execution of rank *n* ends or falls below *n*, for every *n* |
| `OnDiskProofs` | `DurableInvariant`, `OneOwnerAlways`, `ProofAlwaysHeld`, `CountAlwaysExact` | type correctness, ownership, proof on disk, count |
| | `OwnershipAlwaysKept` | `Spec` implements `StateOwnership` |
| | `ConversationInvariant`, `ConversationTypeOK` | the inductive invariant of `ConversationTurn`, and type correctness |
| | `WorkNotRepeated`, `SavedReceivedFirst`, `InertTurnsFreed` | `NoWorkRepeated`, `SavedWasReceived` and `InertTurnFreed`, for any number of turns, clients, events and faults |
| `LifecycleProofs` | `TypeInvariant`, `LifecycleInvariant` | type correctness and the inductive invariant |
| | `StoresAlwaysOutliveUsers`, `StopAlwaysMeansOver`, `BodiesAlwaysInterrupted` | the three safety properties of `Lifecycle` |
| `AuthenticatorProofs` | `Invariant`, `AuthenticatorTypes` | the inductive invariant and type correctness |
| | `SessionsAreSeparate`, `CredentialsAreKept`, `WaitersAreExact` | the three safety properties of `Authenticator`, for any number of callers, calls, sign-outs and failing files |
| `CodexAuthProofs` | `Invariant`, `CodexTypes` | the inductive invariant and type correctness |
| | `TheNewestSurvives`, `NoTokenReused`, `TheLoginIsServed` | the three safety properties of `CodexAuth`, for any number of proxies, documents, crashes and logouts |
| `InProcessProofs` | `MenubarInvariant`, `PortAlwaysAccounted`, `WantedServerAlwaysRuns` | the inductive invariant and the two properties of `MenubarStartup`, for any number of startups |
| | `SessionInvariant`, `SessionsAlwaysCut`, `OneAlwaysQueued` | the inductive invariant and the two properties of `WebSocketSession`, for any number of calls and any limit |
| | `PolicyInvariant`, `PolicyTypes` | the inductive invariant of `PolicyRouting`, and type correctness |
| | `HalfOpenHasOneOwner`, `OpenGateServes`, `PolicySlotsExact` | `HalfOpenOwned`, `ReadyProfilesServe`, and that slots are never lost or exceeded |
| | `LateResultsChangeNothing` | the action property `LateResultsIgnored` |
| | `BindingsInvariant`, `EntriesAlwaysKept`, `MemoryOwnershipAlwaysKept` | the inductive invariant and the two properties of `MemoryBindings`, for any number of tokens and owners, any limit and lifetime |
| | `BindingsImplementOwnership` | `MemoryBindings` implements `StateOwnership` |
| | `ReplayInvariant`, `StoreAlwaysConsistent`, `OldestAlwaysEvicted` | the inductive invariant and the two properties of `ReplayStore`, for any calls, sizes, limits and lifetime |

*Azure.*  That a probe has one owner is not inductive by itself: a release frees
the probe of the entry it knows, which may be an old one.  `OwnedInv` is built in
layers.  `ProbeInv`: a permit that holds a probe belongs to an attempt in
progress and to the live entry of its key, live entries of different keys
differ, and an owner is unique.  `BodyInv`: the reads, the closing and the
pending body that a permit counts are those of the goroutines in its body, and
a permit is released exactly when it is complete.  `FlagOwned`: a flag that is set
has an owner.  A release then finds its own flag, or nothing.

The queues have an invariant of their own, `QueueInv`: a caller is in one queue at
most, once, and its `queuedOn` names it; who is queued is in the queue of the live entry
of its deployment and has not left its admission (an entry with waiters is never
swept), and whoever runs the deferred removal is still queued.  So the others that wait
for the deployment of a caller that is admitted are in the one queue that its admission
looks at, and it was at the head of it.

*Copilot.*  `IInv` has the types, `BodyOK` (what is observed is the body of a
request in progress, once, and a response tells one delay at most), `ProbesHeld`
(the probe of a key is `c` exactly while the permit of `c` holds that key),
`HoldersBusy` (a permit that holds a probe is of a request that was sent and is not
settled), `NoProbeLeft` (an entry that is gone left no probe) and `OwedInv`.  The last
one is what makes `RenewalBeatsWaiters` inductive: a delay that a probe brought back is
in the cooldown already, or the request that holds the probe has read it and has yet
to install it; until it does, nobody else is admitted for that key.  An eviction
from a full table spares a cooldown with a probe and forgets what another one
owed, as the model's history does.  `IInv` was checked by TLC on the instance of the
run.

Nobody waits for ever there, and that is a theorem as well.  `WaitInv` excludes a lost wakeup: whoever
sleeps does so behind a request that holds a probe, since the last of its probes goes
in the section that wakes everybody.  It also says that a body which is still
to be observed has something to observe, so its holder is never stuck (`HolderBusy`).
`Duty` counts the steps the holder has left, five at most: the send, an event, the close and the two
halves of the observation; whatever anybody else does, evictions and renewals included, leaves it
alone.  The prover has no rules for `ENABLED`, so `WaitsAlwaysEnd` assumes `Runs`, which is the weak
fairness of `FairSpec` with its two guards written out (`Busy`, `Roused`); TLC found them
equal to `ENABLED <<Progress(c)>>_vars` and `ENABLED <<Wake(c)>>_vars` in all 488,036
states of the run.

*Route executor.*  `IInv` joins types, `TargetInv` (an attempt's target was
reserved), `BudgetsHold`, `PermitsSettled`, `RunInv` (there is at most one run; none while
an attempt is prepared; and an execution that is about to end after a run
has an ambiguous failure among its failures), `OwnerInv` (the pin, the target, the
retry target and everything sent are permitted by the owner or by the mode) and
`BlockInv` (a blocked turn is over).  With `RunInv` goes the lemma that the
final failure of an execution with a run is ambiguous, because it has the
highest precedence among failures; hence the verdict "not executed" means no run, and each
step is a step of `ReplaySafety` or leaves its variables alone.

Why every execution ends is a rank: ten times what is left of the two budgets, and the stage of
the step at hand.  A dispatch takes a send and a selection a target, so going back to
an earlier stage costs less than ten stages.  Two selections take nothing, that of a
same-target retry and that of a binding that was tried before; they rank just below
the end of a dispatch, and `RetriesInv` says that they follow one.  `RetryInv`: a retry on the
same target was tried, and waits for that selection only.  `BoundInv`: a binding that is not
hard comes with a commitment or a child call, after which nothing switches.
`AgainInv`: an execution that is back at the selection after a failure is not bound, or
retries its target; so an attempt that fails before its dispatch, after which
only a switch is left, finds no free selection.
`ExecutionAlwaysRunsOut` is safety: no step raises the rank, one that moves an
execution lowers it.  `ExecutionProgresses` is one round of the argument
for `ExecutionEnds`, under the fairness of `FairSpec`; what is left to TLC is
the induction that strings the rounds together.  The rank was checked by TLC on both
instances of the module before it was proved.

*Durable bindings.*  `OneOwner` and `ProofHeld` are not inductive: a request is sent after
its owner was looked up, and a response is exposed after its batch was
committed.  `StakesHeld` says the same of all who have a stake in a token: those it was
shared with, the requests that established an owner for it, and the responses
that bound it and are not exposed yet.  All of them name one owner, and the record is
that owner or a tombstone.  `OpInv` says what a request knows in
each phase, and that there are none while the store is down, which is when
records are retired.  `CountExact` uses the library's theorems about cardinality.

*Conversations.*  `OnDiskProofs` has this module as the instance `Conv`.
`ConversationInv` says, of a turn that is open (`Sound`): where its reader and its
client are in the stream, at most two events apart (`Placed`); that its marker stands until the
store was told of the outcome (`Waiting`, `Owing`); that what the store was told covers
what the client has received (`Told`, `Covered`); that an end which is still to
be settled can be saved (`HandedOff`); and that an inert turn keeps its marker
only while its end is to be settled (`Clear`).  Across turns: a conversation has one open turn
(`Apart`), a turn that was admitted has nothing unaccounted for before it
(`AdmittedClean`), and the marker of a closed turn answers for what it did
(`ClosedMarked`).  The last two are what makes `NoWorkRepeated` inductive: the
admission reads markers, and the property is about what was done.  TLC checked the
invariant on the instance of the run.

*Lifecycle.*  `IInv` has one layer per question.  `OwnerInv`: at most one caller is
inside `stop`, and its phase says which flags are set and whether the finalizer
runs.  `UserInv`: once the finalizer passed a stage, no tracked handler, and
then no worker, is left; a handler that is not tracked came after the draining flag and is
refused, so no user can appear again.  `ListenerInv` and `ResultInv`: what a
port and a nil result mean while a start is under way.  `LeaseInv`: a wrapper
is in the pool or leased to one request, and what the snapshot or the registry
still holds is not in the pool.  `ReadInv`: a body that is read when the
lifecycle is cancelled was registered, pending, or cut.  `BlameInv`: before
draining nobody blames the shutdown.

The five modules that `InProcess` composes share `InProcessProofs`: the menubar's
is extended, the others are the instances `Session`, `Policy`, `Bindings` and `Replay`.
Their invariants are proved of their own specifications, and those hold of the
composition since the other components leave their variables alone (`SessionAlone`,
`PolicyAlone`, `BindingsAlone`, `ReplayAlone`).

*WebSocket session.*  `SessionsCut` says nothing of the moments in which somebody is
still closing, and these are what has to be inductive.  `CallInv`: a call that is waited
for is kept in `inflightCancel`, or is cancelled.  `BarrierInv`: a barrier that is up
has a goroutine that will release it.  `CutInv`: while a session is closing and its
call goes on, somebody will cancel that call - the closer that took its cancel
function or has yet to take it, whoever waits for the barrier or holds it, or the
handler, which cancels at once a call it makes after the closing.  `DrainInv`: a session
that the shutdown does not know is not served.  `QueueInv` is separate: what is
queued, served or about to be queued is covered by a slot, and the slots are
counted.

*Menubar.*  `LatestInv`: only the last startup is starting, while the lifecycle says so.
`LaunchInv`: at most one goroutine is about to launch the worker of the generation it
began.  `PortInv` names, for each open listener, the one who has its server in hand.
`ConfigInv` follows a change of the providers: a startup of the old configuration that
has not been published was called off, or the menu loop is about to do so; a server
of the old configuration is about to be stopped.

*Policy routing.*  The breaker needs the generations: `HalfOpenOwned` alone does not
say why the end of an old probe leaves the flag of a new one.  `BreakerInv`: a permit's
generation is at most that of its breaker; a permit of the present generation was
granted since the breaker last opened or closed, so the breaker is not open, and the
permit is the half-open one exactly if the cooldown has ended; and a half-open permit
is always of the present generation, because every settlement that closes a breaker
after a probe, or opens it, begins a new one.  `stale` calls are of an earlier
generation, which is why their results change nothing.  `SlotInv` counts the slots with
the library's theorems about cardinality.  For the preflight, `GateInv`: whoever holds
the semaphore is alone (`ExclusiveInv`); a profile that is on and not ready has its route
still to be done by the attempt that runs (`ProgressInv`); after a first success every profile that
is on serves, or there is a diagnostic, or an attempt is between the loss of the
readiness and the diagnostic (`SuccessInv`); the counter is the number of attempts at
work (`CountInv`), so an open gate has none (`OpenInv`), and nobody sees that moment
through it.  `PolicyInv` was checked by TLC on two instances (0.3M and 2.3M states).

*The two stores in memory* work on lists in order of use, so their proofs begin with
what the operators of `Lists` do to a list of any length.  The library's induction
theorems cannot be instantiated here; `Induction` states induction for a *set* of
numbers instead, and follows from the fact that the numbers are well founded.  With it:
a recursive function exists and unfolds (`StepsExist`, `KeptStepsExist`), a property that
each step of `After` keeps holds at its end (`AfterKeeps`), and what is kept of a list
is a selection of its elements in their order (`KeptPicks`), of which a selection of a
selection is one (`KeptTwice`).  `SameLists` and `SameOperators` say that the copies of these
operators inside the instances are the same.

*Bindings in memory.*  `Held`: the list has one entry for a token and no more entries
than the limit, and the remaining lifetime of an entry and the time since the
observation that set it add up to the lifetime.  For a batch, the two passes are
followed token by token.  After the first, what was found for a token of another owner is a
tombstone and nothing else has changed.  During the second, the tokens of the batch that were done
are at the front of the list: making room takes from the back, and a batch is not larger
than the limit, so what falls out is none of them (`BatchComplete`).  `Fair` says that
what is found changes in one of the three ways of `StateOwnership`, which gives the refinement.
Assumed are a positive limit and lifetime, finitely many tokens, and that `Unknown` and
`Conflict` are no owners.

*Replay store.*  `Consistent` says of a store, as a record, what `StoreConsistent` says of
the variables: it is shown of each of the functions that an operation is composed of (removal,
insertion, a lookup), so it holds after any composition.  The sum of the bytes is a fold over
a set in an order nobody knows; `SizeSplits` shows by induction that it is the sum over a part
and over the rest, and so that a count which is lowered by what goes never drops below
zero, where the code would correct it.  `ReplayInv` adds that group numbers are new, and that
the list is the order of use.  The eviction takes the shortest beginning of the list after which
both limits hold; what fits after it fits after any longer one (`MoreFits`), so a group
stays exactly if it fits with those behind it in the list, which are those used since
(`SinceIs`).  The new group always fits alone: the assumption that a size is at most
`MaxTotalBytes` is the check in `preparePublish`, and the limits are positive because
`newResponsesChatReplayStoreWithOptions` replaces others by its own.

*Authenticator.*  What `SessionsEnd` says of the time after a sign-out has to be
true during it.  `TokenInv`: what memory and disk hold is of the present session,
or of the next one between the step that wipes them and the one that advances
the generation, because nobody else gets `mu` before both are done.  Every section under
`mu` (refresh, device login, CLI login, in the order of their file operations and
with each of them failing) is shown to keep it, as a lemma about what
the section may leave.  `CallInv`: a call keeps the generation in which it was
created, and its credential is not older.  So a client that finds the generation of
its call unchanged gets a token of the session that is current at that moment,
even though it reads the generation without `mu`.  For a Responses exchange,
the source of the call is the credential that the client holds, hence the
fingerprint.  `CountInv` counts the clients that wait for a slot with the library's theorems about
cardinality, and needs `CheckInv`: the slot of a result that somebody still reads is not
used again.  The assumptions say that an account has one way to sign in
(`AccountAssumption`), which is how the model tells what the CLI reported from what a login
brought, that callers are finitely many, and that the directory an earlier process
left is one that this model may leave (`DiskAssumption`).  `IInv` was also
checked by TLC, on an instance with three directories and no failing file (2.5M states) and on
one with the environment token and a failing file (5.3M).  The three safety properties were
also checked with three directories and a failing file (6.9M).

*Codex.*  `NewestSurvives` says what a recovery would find; what is inductive is what the disk
looks like.  The file is *whole* (what is read is what was synced) or *torn*.
`WholeInv`: whatever journal applies to a whole file leads to a document that is due, and
if none applies the file itself is due.  `TornInv`: while the file is torn, its journal is
synced, leads to a due document, and applies to the file and to whatever a crash may
make of it.  `DirInv`: there is one journal or leftover at most in each of the directory and its
synced image, and a later one is of a later refresh.  `TxInv` says what
each step of a transaction knows, above all whether somebody replaced the file since it was
read: a login does not take the lock.  `PairInv` relates a state in memory to the document it
was read at; `FloorInv` is the login below which a caller must not be answered.
The proofs assume `OrderedMetadata = TRUE`, as the run does.  `IInv` was
checked by TLC with one and with two crashes or logouts.

Only model-checked: four of the five liveness properties (`WaitersLeave`,
`ExecutionEnds`, `EveryCallEnds`, `StoresReleased`).  Each needs an induction over numbers or over
a finite set whose statement is a temporal formula (the throttles to come, the rank of an execution,
the waits before a caller, the handlers that drain), and the prover cannot apply one.
`WaitsEnd` needs none: five steps are a chain of fixed length.
Every safety property that a passing run checks is a theorem.

## 5. Not modelled

The definitions map about a tenth of the implementation.  Most of the rest has no
state that could go wrong in an order nobody tried: the handlers
(`chat_handlers.go`, `responses_handler.go`, `handler.go`), the providers, the
streaming rewriters and the failure translation convert between API dialects; the
configuration is parsed once; statistics, dashboard, logging, services and
deployment are counters, formatting and I/O.  A model of a conversion that keeps
what makes it right, the fields and their spelling, is the conversion again.
`PROJECT.json` gives a reason for each component.

Left out inside the modelled parts:

* values of headers and delays (chosen from small sets), request bodies, the traces
  an operation keeps for diagnostics, the legacy (non-explicit) route of a single
  provider, health probes and idle connections at shutdown, the `bind` of the memory
  store that tests use;
* CopilotTraffic: which failures of a relayed Responses stream are rate limits, and when its
  relay reports them;
* Authenticator: `Status()`, an environment variable that changes while the process
  runs, and token files another process writes;
* CodexAuth: the lock of Windows, edits of `auth.json` in place by others, artifacts
  that are no journals, the probe files that check the directory, a document
  without refresh token, symbolic links, a lock file that is replaced, and the
  alignment of owner and mode;
* ConversationTurn: imported histories, blobs and indexes, pruning, the rewriting of a
  target, the JSON of the items, `deliveredInvalid`, and responses with several IDs;
* PolicyRouting: the order of routes, a classifier that panics, the decision of a
  tier, sampling, statistics;
* WebSocketSession: the cancellation of the lifecycle root, which `Lifecycle` has,
  deadlines as timers (a read, write or ping may fail at any time), the native
  upstream, the content of the history;
* ReplayStore: the comparison of projections and the measure of a group's size;
* MenubarStartup: the dashboard, the titles, the start of agents, a second use of
  Copilot; a server that fails does so after it was published; a click on a disabled
  item or while the loop is busy is not delivered, which is the tray library's
  part.

## 6. Plan

Done are the modules of section 2 and the proofs of section 4.  What would come
next, in this order:

1. Small shared state: the flights of the model catalog, the launch of an agent, the
   slots of the optimizer.
2. Sequential cores: the reconciliation of attempt records in the statistics and
   the machine of `responses_chat_stream.go`.

The number of runs and properties is kept small on purpose: related
properties of a module are the parts of one named invariant (as in
`BodiesInterrupted`), and modules that share no state are composed in one MC
module.
