--------------------------- MODULE MenubarStartup ---------------------------
(***************************************************************************)
(* How the tray application starts and stops its proxy:                    *)
(* cmd/menubar/proxy_lifecycle.go and the menu handlers of main.go.        *)
(*                                                                         *)
(* The menu loop handles one click at a time.  A startup runs in a worker, *)
(* numbered by its generation, that outlives the handler which began it;   *)
(* a sign-in runs in another goroutine, and the tray library calls onExit  *)
(* in yet another.  They share the lifecycle record, which has a lock, and *)
(* the menu, which has none.  A click on a disabled item, or while the     *)
(* loop is busy, is not delivered.                                         *)
(***************************************************************************)
EXTENDS Naturals, FiniteSets

CONSTANT
  MaxStartups          \* bound: no startup begins beyond it

ASSUME StartupsAssumption == MaxStartups \in Nat

Startups == 1 .. MaxStartups
Nobody == 0

VARIABLES
  current,             \* startups that loaded the configuration now saved
  server,              \* the published server, by its startup
  startup,             \* startupCancel # nil, startupCanceled and
                       \* restartAfterStartup of the lifecycle
  generation, shuttingDown,
  calledOff,           \* startups whose context was cancelled by a click or
                       \* by onExit
  listening,           \* startups whose server has its listener open
  worker,              \* the startup workers
  loop,                \* the menu loop
  signIn,              \* the goroutine of a sign-in
  exit,                \* the goroutine of onExit
  menu,                \* which items are enabled
  refresh              \* how far each goroutine is in refreshSessionUI

lifecycleVars == <<server, startup, generation, shuttingDown, calledOff>>
menuVars == <<menu, refresh>>
vars == <<current, lifecycleVars, listening, worker, loop, signIn, exit,
          menuVars>>

\* Those that refresh the menu: a worker goes by its startup.
MenuLoop == 0
SignIn == MaxStartups + 1
Goroutines == {MenuLoop, SignIn} \cup Startups

NoWorker == [pc |-> "none", server |-> FALSE, restart |-> FALSE]
IdleLoop == [pc |-> "idle", op |-> "none", server |-> Nobody]
NoStartup == [inFlight |-> FALSE, canceled |-> FALSE, restart |-> FALSE]

Init ==
  /\ current = {}
  /\ server = Nobody
  /\ startup = NoStartup
  /\ generation = 0
  /\ shuttingDown = FALSE
  /\ listening = {}
  /\ worker = [g \in Startups |-> NoWorker]
  /\ loop = IdleLoop
  /\ signIn = "idle"
  /\ exit = [pc |-> "none", server |-> Nobody]
  /\ menu = [toggle |-> TRUE, providers |-> TRUE, auth |-> TRUE]
  /\ refresh = [a \in Goroutines |-> "none"]
  /\ calledOff = {}

(***************************************************************************)
(* Steps that several goroutines take                                      *)
(***************************************************************************)

\* The process lives until onExit returns.
Alive == exit.pc # "exited"

IsRunning == server \in listening

\* cancelStartup with a startup in flight.
CancelStartup(restart) ==
  /\ startup' = [startup EXCEPT !.canceled = TRUE,
                                !.restart = @ \/ restart]
  /\ calledOff' = calledOff \cup {generation}

MayBegin == ~shuttingDown /\ ~startup.inFlight /\ ~IsRunning

\* beginStartup
BeginStartup ==
  /\ MayBegin
  /\ generation < MaxStartups
  /\ server' = Nobody
  /\ startup' = [NoStartup EXCEPT !.inFlight = TRUE]
  /\ generation' = generation + 1
  /\ UNCHANGED <<shuttingDown, calledOff>>

\* setProxyStartingUI, and the worker starts
PaintStarting ==
  menu' = [toggle |-> TRUE, providers |-> FALSE, auth |-> FALSE]
Launch(g, workers) ==
  worker' = [workers EXCEPT ![g] = [@ EXCEPT !.pc = "reload"]]

\* The menu of cancelProxyStartupWithRestart
PaintStopping == menu' = [menu EXCEPT !.toggle = FALSE]

\* Stop closes the listener of a server.
StopServer(g) == listening' = listening \ {g}

(***************************************************************************)
(* refreshSessionUI: it asks whether a startup is in flight, and then sets *)
(* the items.                                                              *)
(***************************************************************************)
RefreshDue(a) == refresh' = [refresh EXCEPT ![a] = "due"]
Refreshed(a) == refresh[a] = "none"

Ask(a) ==
  /\ refresh[a] = "due"
  /\ refresh' = [refresh EXCEPT ![a] =
       IF ~startup.inFlight THEN "over"
       ELSE IF startup.canceled THEN "stopping" ELSE "starting"]
  /\ UNCHANGED menu

Paint(a) ==
  /\ refresh[a] \in {"starting", "stopping", "over"}
  /\ menu' = [toggle |-> refresh[a] # "stopping",
              providers |-> refresh[a] = "over",
              auth |-> refresh[a] = "over"]
  /\ refresh' = [refresh EXCEPT ![a] = "none"]

Refresh(a) ==
  /\ Alive
  /\ Ask(a) \/ Paint(a)
  /\ UNCHANGED <<current, lifecycleVars, listening, worker, loop, signIn,
                 exit>>

(***************************************************************************)
(* The startup worker: reloadProvidersState, runProxyStartupAt and         *)
(* completeProxyStartup                                                    *)
(***************************************************************************)
At(g, pc) == Alive /\ worker[g].pc = pc /\ Refreshed(g)
Goto(g, pc) == worker' = [worker EXCEPT ![g].pc = pc]
Done(w) == [w EXCEPT !.pc = "done", !.server = FALSE, !.restart = FALSE]
Finish(g) == worker' = [worker EXCEPT ![g] = Done(@)]

\* reloadProvidersState: the configuration may not load.
Reload(g) ==
  /\ At(g, "reload")
  /\ \/ Goto(g, "prepare") /\ current' = current \cup {g}
     \/ Goto(g, "finish") /\ UNCHANGED current
  /\ UNCHANGED <<lifecycleVars, listening, loop, signIn, exit, menuVars>>

\* The server is made, authenticated and its models are validated; any of it
\* may fail, and the server is dropped.
Prepared(g) ==
  /\ At(g, "prepare")
  /\ \/ g \notin calledOff /\ Goto(g, "start")
     \/ Goto(g, "finish")
  /\ UNCHANGED <<current, lifecycleVars, listening, loop, signIn, exit,
                 menuVars>>

\* Server.Start: the port must be free, and listening may fail.
Listen(g) ==
  /\ At(g, "start")
  /\ \/ /\ listening = {}
        /\ listening' = {g}
        /\ Goto(g, "preflight")
     \/ Goto(g, "finish") /\ UNCHANGED listening
  /\ UNCHANGED <<current, lifecycleVars, loop, signIn, exit, menuVars>>

\* initializeProxyPolicyRouting: an error, or a cancelled context, stops the
\* server before the worker goes on.
Preflight(g) ==
  /\ At(g, "preflight")
  /\ \/ /\ g \notin calledOff
        /\ worker' = [worker EXCEPT ![g] = [@ EXCEPT !.pc = "finish",
                                                     !.server = TRUE]]
        /\ UNCHANGED listening
     \/ Goto(g, "finish") /\ StopServer(g)
  /\ UNCHANGED <<current, lifecycleVars, loop, signIn, exit, menuVars>>

\* finishStartup: the startup is over before a server of a cancelled one is
\* stopped.
\* Mutant of CancelledFirst: one that is to be restarted is published.
CancelledForGood == startup.canceled /\ ~startup.restart
CancelledFirst == startup.canceled
Superseded(g) == shuttingDown \/ g # generation \/ ~startup.inFlight
FinishStartup(g) ==
  /\ At(g, "finish")
  /\ ~Superseded(g)
  /\ startup' = NoStartup
  /\ IF CancelledFirst
     THEN /\ worker' = [worker EXCEPT ![g] =
                          [@ EXCEPT !.pc = "discard",
                                    !.restart = startup.restart]]
          /\ UNCHANGED server
     ELSE /\ Goto(g, "announce")
          /\ server' = IF worker[g].server THEN g ELSE Nobody
  /\ UNCHANGED <<current, generation, shuttingDown, calledOff, listening,
                 loop, signIn, exit, menuVars>>

FinishSuperseded(g) ==
  /\ At(g, "finish")
  /\ Superseded(g)
  /\ Goto(g, "drop")
  /\ UNCHANGED <<current, lifecycleVars, listening, loop, signIn, exit,
                 menuVars>>

\* Mutant of ToStop: the server of a cancelled startup is forgotten.
ToStopSuperseded(g) == IF worker[g].pc = "drop" /\ worker[g].server THEN {g} ELSE {}
ToStop(g) == IF worker[g].server THEN {g} ELSE {}

\* A server that is not wanted any more is stopped; the worker of a cancelled
\* startup refreshes the menu and may begin the next one.
Discard(g) ==
  /\ At(g, "discard") \/ At(g, "drop")
  /\ listening' = listening \ ToStop(g)
  /\ IF worker[g].pc = "discard"
     THEN /\ IF worker[g].restart THEN Goto(g, "begin") ELSE Finish(g)
          /\ RefreshDue(g)
     ELSE Finish(g) /\ UNCHANGED refresh
  /\ UNCHANGED <<current, lifecycleVars, loop, signIn, exit, menu>>

Announce(g) ==
  /\ At(g, "announce")
  /\ RefreshDue(g)
  /\ Finish(g)
  /\ UNCHANGED <<current, lifecycleVars, listening, loop, signIn, exit,
                 menu>>

\* startProxy, of the worker
Restart(g) ==
  /\ At(g, "begin")
  /\ IF MayBegin
     THEN BeginStartup /\ Goto(g, "launch")
     ELSE UNCHANGED lifecycleVars /\ Finish(g)
  /\ UNCHANGED <<current, listening, loop, signIn, exit, menuVars>>

RestartLaunch(g) ==
  /\ At(g, "launch")
  /\ PaintStarting
  /\ Launch(generation, [worker EXCEPT ![g] = Done(@)])
  /\ UNCHANGED <<current, lifecycleVars, listening, loop, signIn, exit,
                 refresh>>

(***************************************************************************)
(* The menu loop                                                           *)
(***************************************************************************)
LoopAt(pc) == Alive /\ loop.pc = pc /\ Refreshed(MenuLoop)
LoopGoto(pc) == loop' = [loop EXCEPT !.pc = pc]
LoopReturns == loop' = IdleLoop
Click(op, pc) == loop' = [IdleLoop EXCEPT !.op = op, !.pc = pc]

ClickToggle ==
  /\ LoopAt("idle") /\ menu.toggle
  /\ Click("toggle", "cancel")
  /\ UNCHANGED <<current, lifecycleVars, listening, worker, signIn, exit,
                 menuVars>>

ClickProviders ==
  /\ LoopAt("idle") /\ menu.providers
  /\ Click("providers", "choose")
  /\ UNCHANGED <<current, lifecycleVars, listening, worker, signIn, exit,
                 menuVars>>

\* signOut cancels a startup if the configuration loaded last uses Copilot.
ClickSignOut ==
  /\ LoopAt("idle") /\ menu.auth
  /\ \E pc \in {"cancel", "askCopilot"} : Click("signOut", pc)
  /\ UNCHANGED <<current, lifecycleVars, listening, worker, signIn, exit,
                 menuVars>>

ClickQuit ==
  /\ LoopAt("idle")
  /\ Click("quit", "cancel")
  /\ UNCHANGED <<current, lifecycleVars, listening, worker, signIn, exit,
                 menuVars>>

\* applyProvidersConfigPath: what was loaded before is not what is saved now.
\* The dialog may be dismissed, and the file may be invalid.
Choose ==
  /\ LoopAt("choose")
  /\ \/ current' = {} /\ LoopGoto("cancel")
     \/ LoopReturns /\ UNCHANGED current
  /\ UNCHANGED <<lifecycleVars, listening, worker, signIn, exit, menuVars>>

\* Only a click on the toggle is done once it has cancelled a startup.
AfterCancel == IF loop.op = "signOut" THEN "askCopilot" ELSE "ask"
LoopCancels ==
  /\ LoopAt("cancel")
  /\ IF startup.inFlight
     THEN /\ CancelStartup(loop.op = "providers")
          /\ LoopGoto("dim")
          /\ UNCHANGED <<server, generation, shuttingDown>>
     ELSE LoopGoto(AfterCancel) /\ UNCHANGED lifecycleVars
  /\ UNCHANGED <<current, listening, worker, signIn, exit, menuVars>>

Dim ==
  /\ LoopAt("dim")
  /\ PaintStopping
  /\ IF loop.op = "toggle" THEN LoopReturns ELSE LoopGoto(AfterCancel)
  /\ UNCHANGED <<current, lifecycleVars, listening, worker, signIn, exit,
                 refresh>>

\* usesCopilot
AskCopilot ==
  /\ LoopAt("askCopilot")
  /\ \/ server # Nobody /\ LoopGoto("ask") /\ UNCHANGED refresh
     \/ LoopReturns /\ RefreshDue(MenuLoop)
  /\ UNCHANGED <<current, lifecycleVars, listening, worker, signIn, exit,
                 menu>>

AskWhetherRunning ==
  /\ LoopAt("ask")
  /\ \/ IsRunning /\ LoopGoto("stop") /\ UNCHANGED refresh
     \/ /\ ~IsRunning /\ loop.op = "toggle"
        /\ LoopGoto("begin") /\ UNCHANGED refresh
     \/ /\ ~IsRunning /\ loop.op = "quit"
        /\ LoopGoto("ended") /\ UNCHANGED refresh
     \/ /\ ~IsRunning /\ loop.op \in {"signOut", "providers"}
        /\ LoopReturns /\ RefreshDue(MenuLoop)
  /\ UNCHANGED <<current, lifecycleVars, listening, worker, signIn, exit,
                 menu>>

\* stopProxy
StopCancels ==
  /\ LoopAt("stop")
  /\ IF startup.inFlight
     THEN /\ CancelStartup(FALSE)
          /\ LoopGoto("dimStop")
          /\ UNCHANGED <<server, generation, shuttingDown>>
     ELSE LoopGoto("detach") /\ UNCHANGED lifecycleVars
  /\ UNCHANGED <<current, listening, worker, signIn, exit, menuVars>>

DimStop ==
  /\ LoopAt("dimStop")
  /\ PaintStopping
  /\ LoopGoto("stopped")
  /\ UNCHANGED <<current, lifecycleVars, listening, worker, signIn, exit,
                 refresh>>

Detach ==
  /\ LoopAt("detach")
  /\ server' = Nobody
  /\ loop' = [loop EXCEPT !.server = server,
                          !.pc = IF server = Nobody THEN "stopped"
                                 ELSE "stopping"]
  /\ IF server = Nobody THEN RefreshDue(MenuLoop) ELSE UNCHANGED refresh
  /\ UNCHANGED <<current, startup, generation, shuttingDown, calledOff,
                 listening, worker, signIn, exit, menu>>

StopDetached ==
  /\ LoopAt("stopping")
  /\ StopServer(loop.server)
  /\ LoopGoto("stopped")
  /\ RefreshDue(MenuLoop)
  /\ UNCHANGED <<current, lifecycleVars, worker, signIn, exit, menu>>

\* What the handler does when stopProxy has returned
AfterStop ==
  /\ LoopAt("stopped")
  /\ \/ loop.op = "toggle" /\ LoopReturns /\ UNCHANGED refresh
     \/ loop.op = "quit" /\ LoopGoto("ended") /\ UNCHANGED refresh
     \/ loop.op = "signOut" /\ LoopReturns /\ RefreshDue(MenuLoop)
     \/ loop.op = "providers" /\ LoopGoto("begin") /\ RefreshDue(MenuLoop)
  /\ UNCHANGED <<current, lifecycleVars, listening, worker, signIn, exit,
                 menu>>

LoopBegins ==
  /\ LoopAt("begin")
  /\ IF MayBegin
     THEN BeginStartup /\ LoopGoto("launch")
     ELSE UNCHANGED lifecycleVars /\ LoopReturns
  /\ UNCHANGED <<current, listening, worker, signIn, exit, menuVars>>

LoopLaunches ==
  /\ LoopAt("launch")
  /\ PaintStarting
  /\ Launch(generation, worker)
  /\ LoopReturns
  /\ UNCHANGED <<current, lifecycleVars, listening, signIn, exit, refresh>>

(***************************************************************************)
(* A sign-in, onExit, and a server that stops by itself                    *)
(***************************************************************************)
SignInAt(pc) == Alive /\ signIn = pc /\ Refreshed(SignIn)

ClickSignIn ==
  /\ LoopAt("idle") /\ menu.auth
  /\ SignInAt("idle")
  /\ signIn' = "waiting"
  /\ menu' = [menu EXCEPT !.auth = FALSE]
  /\ UNCHANGED <<current, lifecycleVars, listening, worker, loop, exit,
                 refresh>>

SignInEnds ==
  /\ SignInAt("waiting")
  /\ signIn' \in {"idle", "failed"}
  /\ RefreshDue(SignIn)
  /\ UNCHANGED <<current, lifecycleVars, listening, worker, loop, exit,
                 menu>>

\* A sign-in that fails enables its items once more, whatever the refresh did.
SignInFailed ==
  /\ SignInAt("failed")
  /\ menu' = [menu EXCEPT !.auth = TRUE]
  /\ signIn' = "idle"
  /\ UNCHANGED <<current, lifecycleVars, listening, worker, loop, exit,
                 refresh>>

\* shutdown: the tray is told to quit, or the session ends.
Shutdown ==
  /\ exit.pc = "none"
  /\ exit' = [pc |-> "stopping", server |-> server]
  /\ shuttingDown' = TRUE
  /\ server' = Nobody
  /\ startup' = [startup EXCEPT !.canceled = startup.inFlight, !.restart = FALSE]
  /\ calledOff' = calledOff \cup (IF startup.inFlight THEN {generation} ELSE {})
  /\ UNCHANGED <<current, generation, listening, worker, loop, signIn,
                 menuVars>>

\* The process ends, and all that runs in it.
Exited ==
  /\ exit.pc = "stopping"
  /\ exit' = [pc |-> "exited", server |-> Nobody]
  /\ listening' = {}
  /\ worker' = [g \in Startups |-> NoWorker]
  /\ loop' = IdleLoop
  /\ signIn' = "idle"
  /\ refresh' = [a \in Goroutines |-> "none"]
  /\ menu' = [toggle |-> FALSE, providers |-> FALSE, auth |-> FALSE]
  /\ startup' = NoStartup
  /\ calledOff' = {}
  /\ UNCHANGED <<current, server, generation, shuttingDown>>

ServeFails ==
  /\ Alive
  /\ IsRunning
  /\ StopServer(server)
  /\ UNCHANGED <<current, lifecycleVars, worker, loop, signIn, exit,
                 menuVars>>

Worker(g) ==
  \/ Reload(g) \/ Prepared(g) \/ Listen(g)
  \/ Preflight(g) \/ FinishStartup(g) \/ FinishSuperseded(g)
  \/ Discard(g) \/ Announce(g) \/ Restart(g) \/ RestartLaunch(g)

Loop ==
  \/ ClickToggle \/ ClickProviders \/ ClickSignOut \/ ClickQuit
  \/ Choose \/ LoopCancels \/ Dim
  \/ AskCopilot \/ AskWhetherRunning \/ StopCancels \/ DimStop \/ Detach
  \/ StopDetached \/ AfterStop \/ LoopBegins \/ LoopLaunches

Next ==
  \/ Loop
  \/ \E g \in Startups : Worker(g)
  \/ \E a \in Goroutines : Refresh(a)
  \/ ClickSignIn \/ SignInEnds \/ SignInFailed
  \/ Shutdown \/ Exited \/ ServeFails

Spec == Init /\ [][Next]_vars

(***************************************************************************)
(* Properties                                                              *)
(***************************************************************************)
Working(g) == worker[g].pc \notin {"none", "done"}
Settled ==
  /\ loop.pc = "idle" /\ signIn = "idle" /\ exit.pc = "none"
  /\ \A g \in Startups : ~Working(g)
  /\ \A a \in Goroutines : Refreshed(a)

\* No listener is lost: an open one belongs to the published server, to a
\* worker that has yet to publish or stop it, or to the goroutine that stops
\* it.  A cancelled, superseded or replaced server would otherwise hold the
\* port until the application ends.
PortAccounted ==
  \A g \in listening :
    \/ server = g
    \/ worker[g].pc \in {"preflight", "finish", "discard", "drop"}
    \/ loop.pc = "stopping" /\ loop.server = g
    \/ exit.pc = "stopping"

\* A startup called off by the toggle, a sign-out, a change of the providers,
\* a stop or onExit never becomes the published server.
CalledOffStaysDown == server \notin calledOff

\* Once the handlers and the workers are done, the server that runs is one of
\* the saved configuration, however a change of the providers and the end of
\* a startup have crossed.
ConfigServed ==
  Settled /\ IsRunning => server \in current

\* The server that runs is one that nobody called off, of the configuration
\* that is saved.
WantedServerRuns == CalledOffStaysDown /\ ConfigServed

\* "A canceled attempt remains in flight until its worker has stopped any
\* listener, which prevents a replacement startup from racing the old
\* listener for the port" (proxy_lifecycle.go).
ReplacementWaits ==
  \A g \in calledOff \cap listening : \A h \in Startups \ {g} :
    worker[h].pc # "start"
=============================================================================
