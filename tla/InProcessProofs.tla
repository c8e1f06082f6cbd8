-------------------------- MODULE InProcessProofs --------------------------
(***************************************************************************)
(* Proofs about the five protocols over state in memory that share none of *)
(* it, as InProcess has them side by side.                                 *)
(*                                                                         *)
(* MenubarStartup, for any number of startups: no listener is lost, and    *)
(* the server that runs is wanted.                                         *)
(*                                                                         *)
(* WebSocketSession, for any number of calls and any limit: the closing of *)
(* a session cuts its upstream call, the shutdown waits for it, and its    *)
(* requests fit in the queue.                                              *)
(*                                                                         *)
(* PolicyRouting, for any number of profiles, routes, calls and attempts:  *)
(* the half-open permit of a breaker has one owner, a late result changes  *)
(* nothing, slots are exact, and an open gate serves.                      *)
(*                                                                         *)
(* MemoryBindings, for any number of tokens and owners and any limit: an   *)
(* entry is as its batch was bound and lives for the time it was given,    *)
(* and the store implements StateOwnership.                                *)
(*                                                                         *)
(* ReplayStore, for any sizes and limits: groups, index, list and count of *)
(* bytes agree, and a publish evicts what it must, the least recently used *)
(* first.                                                                  *)
(***************************************************************************)
EXTENDS InProcess, Lists, Integers, FiniteSetTheorems, FunctionTheorems,
        SequenceTheorems, WellFoundedInduction, TLAPS

WorkerPhases ==
  {"none", "reload", "prepare", "start", "preflight", "finish", "discard",
   "drop", "announce", "begin", "launch", "done"}
LoopPhases ==
  {"idle", "choose", "cancel", "dim", "askCopilot", "ask", "stop", "dimStop",
   "detach", "stopping", "stopped", "begin", "launch", "ended"}
Operations == {"none", "toggle", "providers", "signOut", "quit"}
Servers == Startups \cup {Nobody}

Workers == [pc : WorkerPhases, server : BOOLEAN, restart : BOOLEAN]
Loops == [pc : LoopPhases, op : Operations, server : Servers]
Records == [inFlight : BOOLEAN, canceled : BOOLEAN, restart : BOOLEAN]

MenubarTypes ==
  /\ generation \in Startups \cup {0}
  /\ server \in Servers
  /\ listening \subseteq Startups
  /\ shuttingDown \in BOOLEAN
  /\ startup \in Records
  /\ worker \in [Startups -> Workers]
  /\ loop \in Loops
  /\ exit \in [pc : {"none", "stopping", "exited"}, server : Servers]

\* Of the startups, only the latest may still be on its way to an end, and as
\* long as it is, nothing is published.
Starting == {"reload", "prepare", "start", "preflight", "finish"}
LatestInv ==
  /\ \A g \in Startups :
       worker[g].pc \in Starting => g = generation /\ startup.inFlight
  /\ \A g \in Startups : g > generation => worker[g].pc = "none"
  /\ startup.inFlight => generation \in Startups /\ server = Nobody
  /\ startup.inFlight => (startup.canceled <=> generation \in calledOff)
  /\ \A g \in calledOff : g \in Startups /\ g <= generation
  /\ exit.pc # "none" => shuttingDown /\ server = Nobody

\* Whoever has begun a startup is alone in launching its worker.
LaunchInv ==
  /\ loop.pc = "launch" =>
       /\ startup.inFlight /\ worker[generation].pc = "none"
       /\ \A g \in Startups : worker[g].pc # "launch"
  /\ \A g \in Startups : worker[g].pc = "launch" =>
       /\ startup.inFlight /\ worker[generation].pc = "none"
       /\ \A h \in Startups : worker[h].pc = "launch" => h = g

\* A worker that has its server in hand will publish or stop it.
HandInv ==
  \A g \in Startups :
    worker[g].pc \in {"none", "reload", "prepare", "start", "preflight"}
      => ~worker[g].server
HeldInv ==
  \A g \in listening :
    \/ server = g
    \/ worker[g].pc = "preflight"
    \/ worker[g].pc \in {"finish", "discard", "drop"} /\ worker[g].server
    \/ loop.pc = "stopping" /\ loop.server = g
    \/ exit.pc = "stopping"
PublishedInv ==
  server # Nobody =>
    worker[server].pc \in {"announce", "done"} /\ server \notin calledOff
PortInv == HandInv /\ HeldInv /\ PublishedInv

\* A startup of a configuration that is not the saved one is called off, and
\* a server of one is stopped by the handler that changed it.
WantedInv ==
  \A g \in Startups :
    \/ worker[g].pc \in {"prepare", "start", "preflight"}
    \/ worker[g].pc = "finish" /\ worker[g].server
    => \/ g \in current \/ g \in calledOff
       \/ loop.op = "providers" /\ loop.pc = "cancel"
ServedInv ==
  server \in listening =>
    \/ server \in current
    \/ loop.op = "providers" /\ loop.pc \in {"cancel", "ask", "stop", "detach"}
ConfigInv ==
  (loop.pc = "choose" => loop.op = "providers") /\ WantedInv /\ ServedInv

MenubarInv == MenubarTypes /\ LatestInv /\ LaunchInv /\ PortInv /\ ConfigInv

-----------------------------------------------------------------------------
\* Startups are numbered from one, and nobody is none of them.
LEMMA StartupsAreNumbers ==
  /\ Startups \subseteq Nat /\ Nobody = 0 /\ 0 \notin Startups
  /\ \A g \in Startups : g > 0
  /\ \A g \in Startups \cup {0} :
       /\ g <= g /\ ~(g > g) /\ g + 1 > g
       /\ g < MaxStartups => g + 1 \in Startups
       /\ \A h \in Startups \cup {0} : h <= g => h <= g + 1 /\ h # g + 1
  BY StartupsAssumption DEF Startups, Nobody

\* Where a step leaves a worker: the others stay as they are.
Moved(g, pc) ==
  /\ worker' \in [Startups -> Workers]
  /\ worker'[g].pc = pc
  /\ \A h \in Startups : h # g => worker'[h] = worker[h]
Keeps(g) == worker'[g].server <=> worker[g].server

\* The steps of a worker move that worker only.
LEMMA WorkerMoves ==
  ASSUME worker \in [Startups -> Workers], NEW g \in Startups
  PROVE
  /\ \A p \in WorkerPhases : Goto(g, p) => Moved(g, p) /\ Keeps(g)
  /\ worker' = [worker EXCEPT ![g] = [@ EXCEPT !.pc = "finish",
                                               !.server = TRUE]]
       => Moved(g, "finish") /\ worker'[g].server
  /\ \A b \in BOOLEAN :
       worker' = [worker EXCEPT ![g] = [@ EXCEPT !.pc = "discard",
                                                 !.restart = b]]
         => Moved(g, "discard") /\ Keeps(g)
  /\ Finish(g) => Moved(g, "done") /\ ~worker'[g].server
<1> DEFINE w == worker[g]
<1>1. w \in Workers
  OBVIOUS
<1>2. ASSUME NEW u \in Workers, worker' = [worker EXCEPT ![g] = u]
      PROVE  Moved(g, u.pc) /\ worker'[g].server = u.server
  BY <1>2 DEF Moved
<1>3. ASSUME NEW p \in WorkerPhases, Goto(g, p)
      PROVE  Moved(g, p) /\ Keeps(g)
  <2>1. worker' = [worker EXCEPT ![g] = [w EXCEPT !.pc = p]]
    BY <1>3 DEF Goto
  <2> HIDE DEF w
  <2>2. /\ [w EXCEPT !.pc = p] \in Workers
        /\ [w EXCEPT !.pc = p].pc = p
        /\ [w EXCEPT !.pc = p].server = w.server
    BY <1>1 DEF Workers
  <2> QED BY <2>1, <2>2, <1>2 DEF w, Keeps
<1>4. ASSUME worker' = [worker EXCEPT ![g] = [w EXCEPT !.pc = "finish",
                                                       !.server = TRUE]]
      PROVE  Moved(g, "finish") /\ worker'[g].server
  <2> HIDE DEF w
  <2>1. /\ [w EXCEPT !.pc = "finish", !.server = TRUE] \in Workers
        /\ [w EXCEPT !.pc = "finish", !.server = TRUE].pc = "finish"
        /\ [w EXCEPT !.pc = "finish", !.server = TRUE].server
    BY <1>1 DEF Workers, WorkerPhases
  <2> QED BY <1>4, <2>1, <1>2
<1>5. ASSUME NEW b \in BOOLEAN,
             worker' = [worker EXCEPT ![g] = [w EXCEPT !.pc = "discard",
                                                       !.restart = b]]
      PROVE  Moved(g, "discard") /\ Keeps(g)
  <2> HIDE DEF w
  <2>1. /\ [w EXCEPT !.pc = "discard", !.restart = b] \in Workers
        /\ [w EXCEPT !.pc = "discard", !.restart = b].pc = "discard"
        /\ [w EXCEPT !.pc = "discard", !.restart = b].server = w.server
    BY <1>1 DEF Workers, WorkerPhases
  <2> QED BY <1>5, <2>1, <1>2 DEF w, Keeps
<1>6. ASSUME Finish(g) PROVE Moved(g, "done") /\ ~worker'[g].server
  <2>1. worker' = [worker EXCEPT ![g] = Done(w)]
    BY <1>6 DEF Finish
  <2> HIDE DEF w
  <2>2. Done(w) \in Workers /\ Done(w).pc = "done" /\ ~Done(w).server
    BY <1>1 DEF Done, Workers, WorkerPhases
  <2> QED BY <2>1, <2>2, <1>2
<1> QED BY <1>3, <1>4, <1>5, <1>6, ZenonT(30)

\* A launch starts the worker of the latest startup; the worker that begins
\* another startup is done.
LEMMA Launches ==
  ASSUME worker \in [Startups -> Workers], NEW n \in Startups
  PROVE
  /\ Launch(n, worker) => Moved(n, "reload") /\ Keeps(n)
  /\ \A g \in Startups :
       g # n /\ Launch(n, [worker EXCEPT ![g] = Done(@)]) =>
         /\ worker' \in [Startups -> Workers]
         /\ worker'[n].pc = "reload" /\ Keeps(n)
         /\ worker'[g].pc = "done" /\ ~worker'[g].server
         /\ \A h \in Startups : h # g /\ h # n => worker'[h] = worker[h]
<1> DEFINE u == [worker[n] EXCEPT !.pc = "reload"]
<1>1. u \in Workers /\ u.pc = "reload" /\ u.server = worker[n].server
  BY DEF Workers, WorkerPhases
<1>2. ASSUME Launch(n, worker)
      PROVE  Moved(n, "reload") /\ Keeps(n)
  <2>1. worker' = [worker EXCEPT ![n] = u]
    BY <1>2 DEF Launch
  <2> HIDE DEF u
  <2> QED BY <2>1, <1>1 DEF Moved, Keeps
<1>3. ASSUME NEW g \in Startups, g # n,
             Launch(n, [worker EXCEPT ![g] = Done(@)])
      PROVE  /\ worker' \in [Startups -> Workers]
             /\ worker'[n].pc = "reload"
             /\ Keeps(n)
             /\ worker'[g].pc = "done" /\ ~worker'[g].server
             /\ \A h \in Startups : h # g /\ h # n => worker'[h] = worker[h]
  <2> DEFINE d == Done(worker[g])
  <2>1. d \in Workers /\ d.pc = "done" /\ ~d.server
    BY DEF Done, Workers, WorkerPhases
  <2>2. worker' = [[worker EXCEPT ![g] = d] EXCEPT ![n] = u]
    BY <1>3 DEF Launch
  <2> HIDE DEF u, d
  <2> QED BY <1>3, <2>1, <2>2, <1>1 DEF Keeps
<1> QED BY <1>2, <1>3

\* The menu loop goes on, waits for a click, or gets one.
LoopMoved(pc, op, server_) ==
  loop' \in Loops /\ loop'.pc = pc /\ loop'.op = op /\ loop'.server = server_
LEMMA LoopMoves ==
  ASSUME loop \in Loops
  PROVE
  /\ \A p \in LoopPhases : LoopGoto(p) => LoopMoved(p, loop.op, loop.server)
  /\ LoopReturns => LoopMoved("idle", "none", Nobody)
  /\ \A o \in Operations, p \in LoopPhases :
       Click(o, p) => LoopMoved(p, o, Nobody)
<1>1. ASSUME NEW p \in LoopPhases, LoopGoto(p)
      PROVE  LoopMoved(p, loop.op, loop.server)
  BY <1>1 DEF LoopGoto, LoopMoved, Loops
<1>2. ASSUME LoopReturns PROVE LoopMoved("idle", "none", Nobody)
  BY <1>2 DEF LoopReturns, LoopMoved, IdleLoop, Loops, LoopPhases, Operations,
     Servers
<1>3. ASSUME NEW o \in Operations, NEW p \in LoopPhases, Click(o, p)
      PROVE  LoopMoved(p, o, Nobody)
  BY <1>3 DEF Click, LoopMoved, IdleLoop, Loops, Servers
<1> QED BY <1>1, <1>2, <1>3

\* Detach takes the published server into the hands of the menu loop.
LEMMA Detaches ==
  ASSUME loop \in Loops, server \in Servers, Detach
  PROVE
  LoopMoved(IF server = Nobody THEN "stopped" ELSE "stopping", loop.op,
            server)
<1> DEFINE p == IF server = Nobody THEN "stopped" ELSE "stopping"
<1>1. p \in LoopPhases
  BY DEF LoopPhases
<1>2. loop' = [loop EXCEPT !.server = server, !.pc = p]
  BY DEF Detach
<1> HIDE DEF p
<1>3. LoopMoved(p, loop.op, server)
  BY <1>1, <1>2 DEF LoopMoved, Loops
<1> QED BY <1>3 DEF p

\* A startup begins, is cancelled, ends, and is called off by onExit.
LEMMA Begins ==
  BeginStartup =>
    /\ generation < MaxStartups /\ server' = Nobody
    /\ generation' = generation + 1
    /\ shuttingDown' = shuttingDown /\ calledOff' = calledOff
    /\ startup' \in Records
    /\ startup'.inFlight = TRUE /\ startup'.canceled = FALSE
  BY DEF BeginStartup, NoStartup, Records
LEMMA Cancels ==
  ASSUME startup \in Records, NEW b \in BOOLEAN, CancelStartup(b)
  PROVE
    /\ calledOff' = calledOff \cup {generation}
    /\ startup' \in Records /\ startup'.canceled = TRUE
    /\ startup'.inFlight = startup.inFlight
  BY DEF CancelStartup, Records
LEMMA Ends ==
  startup' = NoStartup =>
    /\ startup' \in Records
    /\ startup'.inFlight = FALSE /\ startup'.canceled = FALSE
  BY DEF NoStartup, Records
LEMMA ShutsDown ==
  ASSUME startup \in Records, server \in Servers, Shutdown
  PROVE
    /\ startup' \in Records
    /\ startup'.inFlight = startup.inFlight
    /\ startup'.canceled = startup.inFlight
    /\ exit' \in [pc : {"none", "stopping", "exited"}, server : Servers]
    /\ exit'.pc = "stopping"
  BY DEF Shutdown, Records

\* All that runs in the process ends with it.
LEMMA Exits ==
  ASSUME Exited
  PROVE
    /\ worker' \in [Startups -> Workers]
    /\ \A g \in Startups : worker'[g].pc = "none" /\ ~worker'[g].server
    /\ LoopMoved("idle", "none", Nobody)
    /\ startup' \in Records /\ startup'.inFlight = FALSE
    /\ exit' \in [pc : {"none", "stopping", "exited"}, server : Servers]
    /\ exit'.pc = "exited"
<1>1. /\ worker' = [g \in Startups |-> NoWorker] /\ loop' = IdleLoop
      /\ startup' = NoStartup /\ exit' = [pc |-> "exited", server |-> Nobody]
  BY DEF Exited
<1>2. /\ NoWorker \in Workers
      /\ NoWorker.pc = "none" /\ ~NoWorker.server
  BY DEF NoWorker, Workers, WorkerPhases
<1>3. LoopMoved("idle", "none", Nobody)
  BY <1>1 DEF LoopMoved, IdleLoop, Loops, LoopPhases, Operations, Servers
<1>4. exit' \in [pc : {"none", "stopping", "exited"}, server : Servers]
  BY <1>1 DEF Servers
<1> QED BY <1>1, <1>2, <1>3, <1>4, Ends

\* The state in which the application starts (onReady).
LEMMA InitMenubarInv == Init => MenubarInv
<1> SUFFICES ASSUME Init PROVE MenubarInv
  OBVIOUS
<1>1. /\ worker \in [Startups -> Workers]
      /\ \A g \in Startups : worker[g].pc = "none" /\ ~worker[g].server
  BY DEF Init, NoWorker, Workers, WorkerPhases
<1>2. /\ loop \in Loops /\ loop.pc = "idle" /\ loop.op = "none"
      /\ startup \in Records /\ startup.inFlight = FALSE
      /\ startup.canceled = FALSE
  BY DEF Init, IdleLoop, Loops, LoopPhases, Operations, Servers, NoStartup,
     Records
<1>3. MenubarTypes
  BY <1>1, <1>2 DEF Init, MenubarTypes, Servers
<1>4. LatestInv /\ LaunchInv /\ PortInv /\ ConfigInv
  BY <1>1, <1>2, StartupsAreNumbers
  DEF Init, LatestInv, LaunchInv, PortInv, HandInv, HeldInv, PublishedInv,
      ConfigInv, WantedInv, ServedInv, Starting, Nobody
<1> QED BY <1>3, <1>4 DEF MenubarInv

\* The configuration is loaded, or the startup fails.
LEMMA Reloads ==
  ASSUME MenubarTypes, LatestInv, LaunchInv, NEW g \in Startups, Reload(g)
  PROVE
    /\ worker[g].pc = "reload"
    /\ \/ current' = current \cup {g} /\ Moved(g, "prepare") /\ Keeps(g)
       \/ current' = current /\ Moved(g, "finish") /\ Keeps(g)
    /\ UNCHANGED <<server, startup, generation, shuttingDown, calledOff,
       listening, loop, exit>>
  BY WorkerMoves, ZenonT(30) DEF Reload, At, lifecycleVars, MenubarTypes, WorkerPhases

\* The server is made, or dropped.
LEMMA Prepares ==
  ASSUME MenubarTypes, LatestInv, LaunchInv, NEW g \in Startups, Prepared(g)
  PROVE
    /\ worker[g].pc = "prepare"
    /\ Moved(g, "start") \/ Moved(g, "finish")
    /\ Keeps(g)
    /\ UNCHANGED <<current, server, startup, generation, shuttingDown,
       calledOff, listening, loop, exit>>
  BY WorkerMoves, ZenonT(30) DEF Prepared, At, lifecycleVars, MenubarTypes, WorkerPhases

\* The listener is opened, or it fails.
LEMMA Listens ==
  ASSUME MenubarTypes, LatestInv, LaunchInv, NEW g \in Startups, Listen(g)
  PROVE
    /\ worker[g].pc = "start"
    /\ \/ listening' = {g} /\ listening = {} /\ Moved(g, "preflight") /\ Keeps(g)
       \/ listening' = listening /\ Moved(g, "finish") /\ Keeps(g)
    /\ UNCHANGED <<current, server, startup, generation, shuttingDown,
       calledOff, loop, exit>>
  BY WorkerMoves, ZenonT(30) DEF Listen, At, lifecycleVars, MenubarTypes, WorkerPhases

\* The worker takes the server in hand, or it is stopped.
LEMMA Preflights ==
  ASSUME MenubarTypes, LatestInv, LaunchInv, NEW g \in Startups, Preflight(g)
  PROVE
    /\ worker[g].pc = "preflight"
    /\ \/ listening' = listening /\ Moved(g, "finish") /\ worker'[g].server
       \/ listening' = listening \ {g} /\ Moved(g, "finish") /\ Keeps(g)
    /\ UNCHANGED <<current, server, startup, generation, shuttingDown,
       calledOff, loop, exit>>
  BY WorkerMoves, ZenonT(30) DEF Preflight, At, StopServer, lifecycleVars, MenubarTypes,
     WorkerPhases

\* The startup is over, cancelled or published.
LEMMA Finishes ==
  ASSUME MenubarTypes, LatestInv, LaunchInv, NEW g \in Startups, FinishStartup(g)
  PROVE
    /\ worker[g].pc = "finish" /\ g = generation /\ startup.inFlight
    /\ ~shuttingDown
    /\ startup'.inFlight = FALSE /\ startup'.canceled = FALSE
    /\ \/ startup.canceled /\ server' = server
          /\ Moved(g, "discard") /\ Keeps(g)
       \/ /\ ~startup.canceled /\ Moved(g, "announce") /\ Keeps(g)
          /\ server' = IF worker[g].server THEN g ELSE Nobody
    /\ UNCHANGED <<current, generation, shuttingDown, calledOff, listening,
                   loop, exit>>
<1>1. startup.restart \in BOOLEAN
  BY DEF MenubarTypes, Records
<1> QED BY <1>1, WorkerMoves, Ends, ZenonT(30)
        DEF FinishStartup, At, Superseded, CancelledFirst, menuVars, MenubarTypes,
            WorkerPhases

\* The startup was superseded, or the process is ending.
LEMMA Drops ==
  ASSUME MenubarTypes, LatestInv, LaunchInv, NEW g \in Startups, FinishSuperseded(g)
  PROVE
    /\ worker[g].pc = "finish" /\ Superseded(g)
    /\ Moved(g, "drop") /\ Keeps(g)
    /\ UNCHANGED <<current, server, startup, generation, shuttingDown,
       calledOff, listening, loop, exit>>
  BY WorkerMoves, ZenonT(30) DEF FinishSuperseded, At, lifecycleVars, MenubarTypes, WorkerPhases

\* A server nobody wants is stopped.
LEMMA Discards ==
  ASSUME MenubarTypes, LatestInv, LaunchInv, NEW g \in Startups, Discard(g)
  PROVE
    /\ worker[g].pc \in {"discard", "drop"}
    /\ listening' = listening \ (IF worker[g].server THEN {g} ELSE {})
    /\ \/ Moved(g, "begin") /\ Keeps(g)
       \/ Moved(g, "done") /\ ~worker'[g].server
    /\ UNCHANGED <<current, server, startup, generation, shuttingDown,
       calledOff, loop, exit>>
  BY WorkerMoves, ZenonT(30) DEF Discard, At, ToStop, lifecycleVars, MenubarTypes, WorkerPhases

\* The worker is done.
LEMMA Announces ==
  ASSUME MenubarTypes, LatestInv, LaunchInv, NEW g \in Startups, Announce(g)
  PROVE
    /\ worker[g].pc = "announce"
    /\ Moved(g, "done") /\ ~worker'[g].server
    /\ UNCHANGED <<current, server, startup, generation, shuttingDown,
       calledOff, listening, loop, exit>>
  BY WorkerMoves, ZenonT(30) DEF Announce, At, lifecycleVars, MenubarTypes, WorkerPhases

\* The worker begins another startup, or is done.
LEMMA Restarts ==
  ASSUME MenubarTypes, LatestInv, LaunchInv, NEW g \in Startups, Restart(g)
  PROVE
    /\ worker[g].pc = "begin"
    /\ \/ MayBegin /\ BeginStartup /\ Moved(g, "launch") /\ Keeps(g)
       \/ UNCHANGED lifecycleVars /\ Moved(g, "done") /\ ~worker'[g].server
    /\ UNCHANGED <<current, listening, loop, exit>>
  BY WorkerMoves, ZenonT(30) DEF Restart, At, MenubarTypes, WorkerPhases

\* The worker that has begun another startup launches it and is done.
LEMMA Relaunches ==
  ASSUME MenubarTypes, LatestInv, LaunchInv, NEW g \in Startups, RestartLaunch(g)
  PROVE
    /\ worker[g].pc = "launch" /\ generation \in Startups /\ g # generation
    /\ worker' \in [Startups -> Workers]
    /\ worker'[generation].pc = "reload"
    /\ Keeps(generation)
    /\ worker'[g].pc = "done" /\ ~worker'[g].server
    /\ \A h \in Startups : h # g /\ h # generation => worker'[h] = worker[h]
    /\ UNCHANGED <<current, server, startup, generation, shuttingDown,
                   calledOff, listening, loop, exit>>
<1>1. worker[g].pc = "launch" /\ generation \in Startups /\ g # generation
  BY DEF RestartLaunch, At, LatestInv, LaunchInv
<1> QED BY <1>1, Launches DEF RestartLaunch, lifecycleVars, MenubarTypes

\* So does the menu loop.
LEMMA LoopRelaunches ==
  ASSUME MenubarTypes, LatestInv, LaunchInv, LoopLaunches
  PROVE
    /\ loop.pc = "launch" /\ generation \in Startups
    /\ Moved(generation, "reload") /\ Keeps(generation)
    /\ LoopMoved("idle", "none", Nobody)
    /\ UNCHANGED <<current, server, startup, generation, shuttingDown,
                   calledOff, listening, exit>>
<1>1. loop.pc = "launch" /\ generation \in Startups
  BY DEF LoopLaunches, LoopAt, LatestInv, LaunchInv
<1> QED BY <1>1, Launches, LoopMoves DEF LoopLaunches, lifecycleVars, MenubarTypes

\* Every variable keeps its type.
LEMMA MenubarTypesStep == MenubarTypes /\ LatestInv /\ LaunchInv /\ [Next]_vars => MenubarTypes'
<1> SUFFICES ASSUME MenubarTypes, LatestInv, LaunchInv, [Next]_vars PROVE MenubarTypes'
  OBVIOUS
<1>1. CASE Loop
  <2>1. CASE ClickToggle
    BY <2>1, LoopMoves DEF ClickToggle, LoopAt, lifecycleVars, menuVars,
       MenubarTypes, LoopMoved, LoopPhases, Operations
  <2>2. CASE ClickProviders
    BY <2>2, LoopMoves DEF ClickProviders, LoopAt, lifecycleVars, menuVars,
       MenubarTypes, LoopMoved, LoopPhases, Operations
  <2>3. CASE ClickSignOut
    BY <2>3, LoopMoves DEF ClickSignOut, LoopAt, lifecycleVars, menuVars,
       MenubarTypes, LoopMoved, LoopPhases, Operations
  <2>4. CASE ClickQuit
    BY <2>4, LoopMoves DEF ClickQuit, LoopAt, lifecycleVars, menuVars, MenubarTypes,
       LoopMoved, LoopPhases, Operations
  <2>5. CASE Choose
    BY <2>5, LoopMoves DEF Choose, LoopAt, lifecycleVars, menuVars, MenubarTypes,
       LoopMoved, LoopPhases
  <2>6. CASE LoopCancels
    BY <2>6, LoopMoves, Cancels DEF LoopCancels, LoopAt, AfterCancel,
       lifecycleVars, menuVars, MenubarTypes, LoopMoved, LoopPhases
  <2>7. CASE Dim
    BY <2>7, LoopMoves DEF Dim, LoopAt, AfterCancel, lifecycleVars, MenubarTypes,
       LoopMoved, LoopPhases
  <2>8. CASE AskCopilot
    BY <2>8, LoopMoves DEF AskCopilot, LoopAt, lifecycleVars, MenubarTypes,
       LoopMoved, LoopPhases
  <2>9. CASE AskWhetherRunning
    BY <2>9, LoopMoves DEF AskWhetherRunning, LoopAt, IsRunning,
       lifecycleVars, MenubarTypes, LoopMoved, LoopPhases
  <2>10. CASE StopCancels
    BY <2>10, LoopMoves, Cancels DEF StopCancels, LoopAt, lifecycleVars,
       menuVars, MenubarTypes, LoopMoved, LoopPhases
  <2>11. CASE DimStop
    BY <2>11, LoopMoves DEF DimStop, LoopAt, lifecycleVars, MenubarTypes, LoopMoved,
       LoopPhases
  <2>12. CASE Detach
    BY <2>12, Detaches DEF Detach, LoopAt, MenubarTypes, LoopMoved, LoopPhases,
       Servers
  <2>13. CASE StopDetached
    BY <2>13, LoopMoves DEF StopDetached, LoopAt, StopServer, lifecycleVars,
       MenubarTypes, LoopMoved, LoopPhases
  <2>14. CASE AfterStop
    BY <2>14, LoopMoves DEF AfterStop, LoopAt, lifecycleVars, MenubarTypes,
       LoopMoved, LoopPhases
  <2>15. CASE LoopBegins
    BY <2>15, LoopMoves, Begins, StartupsAreNumbers DEF LoopBegins, LoopAt,
       MayBegin, IsRunning, lifecycleVars, menuVars, MenubarTypes, LoopMoved,
       LoopPhases, Servers
  <2>16. CASE LoopLaunches
    BY <2>16, LoopMoves, Launches DEF LoopLaunches, LoopAt, lifecycleVars,
       MenubarTypes, Moved, WorkerPhases, LoopMoved, LoopPhases, LatestInv, LaunchInv
  <2> QED BY <1>1, <2>1, <2>2, <2>3, <2>4, <2>5, <2>6, <2>7, <2>8, <2>9,
     <2>10, <2>11, <2>12, <2>13, <2>14, <2>15, <2>16 DEF Loop
<1>2. ASSUME NEW g \in Startups, Worker(g) PROVE MenubarTypes'
  <2>1. CASE Reload(g)
    BY <2>1, WorkerMoves, ZenonT(60) DEF Reload, At, lifecycleVars, menuVars, MenubarTypes,
       Moved, WorkerPhases
  <2>2. CASE Prepared(g)
    BY <2>2, WorkerMoves, ZenonT(30) DEF Prepared, At, lifecycleVars, menuVars, MenubarTypes,
       Moved, WorkerPhases
  <2>3. CASE Listen(g)
    BY <2>3, WorkerMoves, ZenonT(30) DEF Listen, At, lifecycleVars, menuVars, MenubarTypes,
       Moved, WorkerPhases
  <2>4. CASE Preflight(g)
    BY <2>4, WorkerMoves, ZenonT(60) DEF Preflight, At, StopServer, lifecycleVars,
       menuVars, MenubarTypes, Moved, WorkerPhases
  <2>5. CASE FinishStartup(g)
    BY <2>5, WorkerMoves, Ends, ZenonT(60) DEF FinishStartup, At, Superseded,
       CancelledFirst, menuVars, MenubarTypes, Moved, WorkerPhases, Servers, Records
  <2>6. CASE FinishSuperseded(g)
    BY <2>6, WorkerMoves, ZenonT(30) DEF FinishSuperseded, At, Superseded, lifecycleVars,
       menuVars, MenubarTypes, Moved, WorkerPhases
  <2>7. CASE Discard(g)
    BY <2>7, WorkerMoves, ZenonT(30) DEF Discard, At, ToStop, lifecycleVars, MenubarTypes, Moved,
       WorkerPhases
  <2>8. CASE Announce(g)
    BY <2>8, WorkerMoves, ZenonT(30) DEF Announce, At, lifecycleVars, MenubarTypes, Moved,
       WorkerPhases
  <2>9. CASE Restart(g)
    <3>1. CASE BeginStartup
      <4>1. generation' \in Startups
        BY <3>1, Begins, StartupsAreNumbers DEF MenubarTypes
      <4> QED BY <2>9, <3>1, <4>1, Begins, Restarts DEF MenubarTypes, Moved, Servers
    <3>2. CASE UNCHANGED lifecycleVars
      BY <2>9, <3>2, Restarts DEF MenubarTypes, Moved, lifecycleVars
    <3> QED BY <2>9, <3>1, <3>2, Restarts
  <2>10. CASE RestartLaunch(g)
    BY <2>10, Launches DEF RestartLaunch, At, lifecycleVars, MenubarTypes, LatestInv,
       LaunchInv
  <2> QED BY <1>2, <2>1, <2>2, <2>3, <2>4, <2>5, <2>6, <2>7, <2>8, <2>9, <2>10
     DEF Worker
<1>3. ASSUME NEW a \in Goroutines, Refresh(a) PROVE MenubarTypes'
  BY <1>3 DEF Refresh, lifecycleVars, MenubarTypes
<1>4. CASE ClickSignIn
  BY <1>4 DEF ClickSignIn, lifecycleVars, MenubarTypes
<1>5. CASE SignInEnds
  BY <1>5 DEF SignInEnds, lifecycleVars, MenubarTypes
<1>6. CASE SignInFailed
  BY <1>6, SMTT(60) DEF SignInFailed, lifecycleVars, MenubarTypes
<1>7. CASE Shutdown
  BY <1>7, ShutsDown DEF Shutdown, menuVars, MenubarTypes, Servers
<1>8. CASE Exited
  BY <1>8, Exits DEF Exited, MenubarTypes, Servers, LoopMoved
<1>9. CASE ServeFails
  BY <1>9 DEF ServeFails, Alive, IsRunning, StopServer, lifecycleVars,
     menuVars, MenubarTypes
<1>10. CASE UNCHANGED vars
  BY <1>10 DEF vars, lifecycleVars, MenubarTypes
<1> QED BY <1>1, <1>2, <1>3, <1>4, <1>5, <1>6, <1>7, <1>8, <1>9, <1>10 DEF
   Next

\* No worker moves forward into a startup, and none that has not begun ends.
Behind ==
  \A h \in Startups :
    /\ worker'[h].pc \in Starting => worker[h].pc \in Starting
    /\ worker[h].pc = "none" => worker'[h].pc = "none"

\* A new startup is later than every other, and not called off.
LEMMA BeginsLatest ==
  ASSUME MenubarTypes, LatestInv, BeginStartup, Behind, exit' = exit
  PROVE  LatestInv'
<1>1. /\ ~shuttingDown /\ ~startup.inFlight
      /\ generation' = generation + 1 /\ generation \in Startups \cup {0}
      /\ generation < MaxStartups /\ generation' \in Startups
      /\ server' = Nobody /\ UNCHANGED <<shuttingDown, calledOff>>
      /\ startup'.inFlight /\ ~startup'.canceled
  BY Begins, StartupsAreNumbers DEF BeginStartup, MayBegin, MenubarTypes
<1>2. \A h \in Startups : worker'[h].pc \notin Starting
  BY <1>1 DEF Behind, LatestInv
<1>3. \A h \in Startups : h > generation' => h > generation
  BY <1>1, StartupsAreNumbers
<1>4. \A h \in calledOff' :
        h \in Startups /\ h <= generation' /\ h # generation'
  BY <1>1, StartupsAreNumbers DEF LatestInv
<1>5. generation' \notin calledOff
  BY <1>1, <1>4
<1>6. exit'.pc # "none" => shuttingDown'
  BY <1>1 DEF LatestInv
<1> QED BY <1>1, <1>2, <1>3, <1>4, <1>5, <1>6 DEF LatestInv, Behind

\* A startup that is cancelled is the latest.
LEMMA CancelsLatest ==
  ASSUME MenubarTypes, LatestInv,
         \/ /\ startup.inFlight /\ startup'.inFlight /\ startup'.canceled
            /\ calledOff' = calledOff \cup {generation}
         \/ UNCHANGED <<startup, calledOff>>,
         UNCHANGED <<server, generation, shuttingDown, worker, exit>>
  PROVE  LatestInv'
<1>1. CASE UNCHANGED <<startup, calledOff>>
  BY <1>1 DEF LatestInv
<1>2. CASE /\ startup.inFlight /\ startup'.inFlight /\ startup'.canceled
           /\ calledOff' = calledOff \cup {generation}
  <2>1. generation \in Startups /\ generation <= generation
    BY <1>2, StartupsAreNumbers DEF LatestInv
  <2> QED BY <1>2, <2>1 DEF LatestInv
<1> QED BY <1>1, <1>2

\* What cancelling does to the startup.
LEMMA LoopCalls ==
  ASSUME MenubarTypes, LoopCancels \/ StopCancels
  PROVE
    /\ \/ /\ startup.inFlight /\ startup'.inFlight /\ startup'.canceled
          /\ calledOff' = calledOff \cup {generation}
       \/ ~startup.inFlight /\ UNCHANGED <<startup, calledOff>>
    /\ UNCHANGED <<current, server, generation, shuttingDown, worker,
                   listening, exit>>
<1>1. \A b \in BOOLEAN : CancelStartup(b) =>
        /\ calledOff' = calledOff \cup {generation}
        /\ startup'.inFlight = startup.inFlight /\ startup'.canceled
  BY Cancels DEF MenubarTypes
<1>2. CASE LoopCancels
  BY <1>2, <1>1 DEF LoopCancels, lifecycleVars, menuVars
<1>3. CASE StopCancels
  BY <1>3, <1>1 DEF StopCancels, lifecycleVars, menuVars
<1> QED BY <1>2, <1>3


\* Only the latest startup is on its way, and nothing is published meanwhile.
LEMMA LatestStep == MenubarTypes /\ LatestInv /\ LaunchInv /\ [Next]_vars => LatestInv'
<1> SUFFICES ASSUME MenubarTypes, LatestInv, LaunchInv, [Next]_vars PROVE LatestInv'
  OBVIOUS
<1>1. CASE Loop
  <2>1. CASE ClickToggle
    BY <2>1, LoopMoves DEF ClickToggle, LoopAt, lifecycleVars, menuVars,
       MenubarTypes, LatestInv, Starting, LoopMoved, LoopPhases, Operations
  <2>2. CASE ClickProviders
    BY <2>2, LoopMoves DEF ClickProviders, LoopAt, lifecycleVars, menuVars,
       MenubarTypes, LatestInv, Starting, LoopMoved, LoopPhases, Operations
  <2>3. CASE ClickSignOut
    BY <2>3, LoopMoves DEF ClickSignOut, LoopAt, lifecycleVars, menuVars,
       MenubarTypes, LatestInv, Starting, LoopMoved, LoopPhases, Operations
  <2>4. CASE ClickQuit
    BY <2>4, LoopMoves DEF ClickQuit, LoopAt, lifecycleVars, menuVars, MenubarTypes,
       LatestInv, Starting, LoopMoved, LoopPhases, Operations
  <2>5. CASE Choose
    BY <2>5, LoopMoves DEF Choose, LoopAt, lifecycleVars, menuVars, MenubarTypes,
       LatestInv, Starting, LoopMoved, LoopPhases
  <2>6. CASE LoopCancels
    BY <2>6, LoopCalls, CancelsLatest
  <2>7. CASE Dim
    BY <2>7, LoopMoves DEF Dim, LoopAt, AfterCancel, lifecycleVars, MenubarTypes,
       LatestInv, Starting, LoopMoved, LoopPhases
  <2>8. CASE AskCopilot
    BY <2>8, LoopMoves DEF AskCopilot, LoopAt, lifecycleVars, MenubarTypes,
       LatestInv, Starting, LoopMoved, LoopPhases
  <2>9. CASE AskWhetherRunning
    BY <2>9, LoopMoves DEF AskWhetherRunning, LoopAt, IsRunning,
       lifecycleVars, MenubarTypes, LatestInv, Starting, LoopMoved, LoopPhases
  <2>10. CASE StopCancels
    BY <2>10, LoopCalls, CancelsLatest
  <2>11. CASE DimStop
    BY <2>11, LoopMoves DEF DimStop, LoopAt, lifecycleVars, MenubarTypes, LatestInv,
       Starting, LoopMoved, LoopPhases
  <2>12. CASE Detach
    BY <2>12, Detaches DEF Detach, LoopAt, MenubarTypes, LatestInv, Starting,
       LoopMoved, LoopPhases
  <2>13. CASE StopDetached
    BY <2>13, LoopMoves DEF StopDetached, LoopAt, StopServer, lifecycleVars,
       MenubarTypes, LatestInv, Starting, LoopMoved, LoopPhases
  <2>14. CASE AfterStop
    BY <2>14, LoopMoves DEF AfterStop, LoopAt, lifecycleVars, MenubarTypes,
       LatestInv, Starting, LoopMoved, LoopPhases
  <2>15. CASE LoopBegins
    <3>1. UNCHANGED <<worker, exit>>
      BY <2>15 DEF LoopBegins
    <3>2. CASE BeginStartup
      BY <3>1, <3>2, BeginsLatest DEF Behind
    <3>3. CASE UNCHANGED lifecycleVars
      BY <3>1, <3>3 DEF LatestInv, lifecycleVars
    <3> QED BY <2>15, <3>2, <3>3 DEF LoopBegins
  <2>16. CASE LoopLaunches
    <3>1. startup.inFlight
      BY <2>16, LoopRelaunches DEF LaunchInv
    <3>2. \A h \in Startups : h # generation =>
             /\ worker'[h].pc \in Starting => worker[h].pc \in Starting
             /\ worker[h].pc = "none" => worker'[h].pc = "none"
      BY <2>16, LoopRelaunches DEF Starting, Moved
    <3>3. generation \in Startups /\ ~(generation > generation)
      BY <2>16, LoopRelaunches, StartupsAreNumbers DEF MenubarTypes
    <3> QED BY <2>16, <3>1, <3>2, <3>3, LoopRelaunches DEF LatestInv
  <2> QED BY <1>1, <2>1, <2>2, <2>3, <2>4, <2>5, <2>6, <2>7, <2>8, <2>9,
     <2>10, <2>11, <2>12, <2>13, <2>14, <2>15, <2>16 DEF Loop
<1>2. ASSUME NEW g \in Startups, Worker(g) PROVE LatestInv'
  <2>1. CASE Reload(g)
    BY <2>1, Reloads DEF LatestInv, Starting, MenubarTypes, Moved
  <2>2. CASE Prepared(g)
    BY <2>2, Prepares DEF LatestInv, Starting, MenubarTypes, Moved
  <2>3. CASE Listen(g)
    BY <2>3, Listens DEF LatestInv, Starting, MenubarTypes, Moved
  <2>4. CASE Preflight(g)
    BY <2>4, Preflights DEF LatestInv, Starting, MenubarTypes, Moved
  <2>5. CASE FinishStartup(g)
    BY <2>5, Finishes, ZenonT(60) DEF LatestInv, Starting, MenubarTypes, Moved
  <2>6. CASE FinishSuperseded(g)
    BY <2>6, Drops DEF LatestInv, Starting, MenubarTypes, Moved, Superseded
  <2>7. CASE Discard(g)
    BY <2>7, Discards DEF LatestInv, Starting, MenubarTypes, Moved
  <2>8. CASE Announce(g)
    BY <2>8, Announces DEF LatestInv, Starting, MenubarTypes, Moved
  <2>9. CASE Restart(g)
    <3>1. Behind /\ exit' = exit
      BY <2>9, Restarts DEF Behind, Moved, Starting
    <3>2. CASE BeginStartup
      BY <3>1, <3>2, BeginsLatest
    <3>3. CASE UNCHANGED lifecycleVars
      BY <3>1, <3>3 DEF LatestInv, lifecycleVars, Behind
    <3> QED BY <2>9, <3>2, <3>3, Restarts
  <2>10. CASE RestartLaunch(g)
    <3>1. startup.inFlight
      BY <2>10, Relaunches DEF LaunchInv
    <3>2. \A h \in Startups : h # generation =>
             /\ worker'[h].pc \in Starting => worker[h].pc \in Starting
             /\ worker[h].pc = "none" => worker'[h].pc = "none"
      BY <2>10, Relaunches DEF Starting, Moved
    <3>3. generation \in Startups /\ ~(generation > generation)
      BY <2>10, Relaunches, StartupsAreNumbers DEF MenubarTypes
    <3> QED BY <2>10, <3>1, <3>2, <3>3, Relaunches DEF LatestInv
  <2> QED BY <1>2, <2>1, <2>2, <2>3, <2>4, <2>5, <2>6, <2>7, <2>8, <2>9, <2>10
     DEF Worker
<1>3. ASSUME NEW a \in Goroutines, Refresh(a) PROVE LatestInv'
  BY <1>3 DEF Refresh, lifecycleVars, MenubarTypes, LatestInv, Starting
<1>4. CASE ClickSignIn
  BY <1>4 DEF ClickSignIn, lifecycleVars, MenubarTypes, LatestInv, Starting
<1>5. CASE SignInEnds
  BY <1>5 DEF SignInEnds, lifecycleVars, MenubarTypes, LatestInv, Starting
<1>6. CASE SignInFailed
  BY <1>6 DEF SignInFailed, lifecycleVars, MenubarTypes, LatestInv, Starting
<1>7. CASE Shutdown
  <2>1. calledOff' = calledOff \cup (IF startup.inFlight THEN {generation} ELSE {})
    BY <1>7 DEF Shutdown
  <2>2. startup.inFlight => generation <= generation
    BY StartupsAreNumbers DEF MenubarTypes
  <2>3. startup'.canceled = startup.inFlight /\ startup'.inFlight = startup.inFlight
    BY <1>7, ShutsDown DEF MenubarTypes
  <2>4. /\ UNCHANGED <<generation, worker>>
        /\ shuttingDown' /\ server' = Nobody
    BY <1>7 DEF Shutdown
  <2> QED BY <2>1, <2>2, <2>3, <2>4 DEF LatestInv, MenubarTypes
<1>8. CASE Exited
  BY <1>8, Exits, ZenonT(60) DEF Exited, MenubarTypes, LatestInv, Starting, LoopMoved
<1>9. CASE ServeFails
  BY <1>9 DEF ServeFails, Alive, IsRunning, StopServer, lifecycleVars,
     menuVars, MenubarTypes, LatestInv, Starting
<1>10. CASE UNCHANGED vars
  BY <1>10 DEF vars, lifecycleVars, MenubarTypes, LatestInv, Starting
<1> QED BY <1>1, <1>2, <1>3, <1>4, <1>5, <1>6, <1>7, <1>8, <1>9, <1>10 DEF
   Next

\* Whoever begins a startup launches it.
LEMMA LaunchStep == MenubarTypes /\ LatestInv /\ LaunchInv /\ [Next]_vars => LaunchInv'
<1> SUFFICES ASSUME MenubarTypes, LatestInv, LaunchInv, [Next]_vars PROVE LaunchInv'
  OBVIOUS
<1>1. CASE Loop
  <2>1. CASE ClickToggle
    BY <2>1, LoopMoves, SMTT(60) DEF ClickToggle, LoopAt, lifecycleVars, menuVars,
       MenubarTypes, LatestInv, LaunchInv, LoopMoved, LoopPhases, Operations
  <2>2. CASE ClickProviders
    BY <2>2, LoopMoves DEF ClickProviders, LoopAt, lifecycleVars, menuVars,
       MenubarTypes, LatestInv, LaunchInv, LoopMoved, LoopPhases, Operations
  <2>3. CASE ClickSignOut
    BY <2>3, LoopMoves DEF ClickSignOut, LoopAt, lifecycleVars, menuVars,
       MenubarTypes, LatestInv, LaunchInv, LoopMoved, LoopPhases, Operations
  <2>4. CASE ClickQuit
    BY <2>4, LoopMoves DEF ClickQuit, LoopAt, lifecycleVars, menuVars, MenubarTypes,
       LatestInv, LaunchInv, LoopMoved, LoopPhases, Operations
  <2>5. CASE Choose
    BY <2>5, LoopMoves DEF Choose, LoopAt, lifecycleVars, menuVars, MenubarTypes,
       LatestInv, LaunchInv, LoopMoved, LoopPhases
  <2>6. CASE LoopCancels
    BY <2>6, LoopMoves, Cancels, ZenonT(60) DEF LoopCancels, LoopAt, AfterCancel,
       lifecycleVars, menuVars, MenubarTypes, LatestInv, LaunchInv, LoopMoved,
       LoopPhases
  <2>7. CASE Dim
    BY <2>7, LoopMoves DEF Dim, LoopAt, AfterCancel, lifecycleVars, MenubarTypes,
       LatestInv, LaunchInv, LoopMoved, LoopPhases
  <2>8. CASE AskCopilot
    BY <2>8, LoopMoves DEF AskCopilot, LoopAt, lifecycleVars, MenubarTypes,
       LatestInv, LaunchInv, LoopMoved, LoopPhases
  <2>9. CASE AskWhetherRunning
    BY <2>9, LoopMoves DEF AskWhetherRunning, LoopAt, IsRunning,
       lifecycleVars, MenubarTypes, LatestInv, LaunchInv, LoopMoved, LoopPhases
  <2>10. CASE StopCancels
    BY <2>10, LoopMoves, Cancels, ZenonT(60) DEF StopCancels, LoopAt, lifecycleVars,
       menuVars, MenubarTypes, LatestInv, LaunchInv, LoopMoved, LoopPhases
  <2>11. CASE DimStop
    BY <2>11, LoopMoves DEF DimStop, LoopAt, lifecycleVars, MenubarTypes, LatestInv,
       LaunchInv, LoopMoved, LoopPhases
  <2>12. CASE Detach
    BY <2>12, Detaches DEF Detach, LoopAt, MenubarTypes, LatestInv, LaunchInv,
       LoopMoved, LoopPhases
  <2>13. CASE StopDetached
    BY <2>13, LoopMoves DEF StopDetached, LoopAt, StopServer, lifecycleVars,
       MenubarTypes, LatestInv, LaunchInv, LoopMoved, LoopPhases
  <2>14. CASE AfterStop
    BY <2>14, LoopMoves DEF AfterStop, LoopAt, lifecycleVars, MenubarTypes,
       LatestInv, LaunchInv, LoopMoved, LoopPhases
  <2>15. CASE LoopBegins
    BY <2>15, LoopMoves, Begins, StartupsAreNumbers DEF LoopBegins, LoopAt,
       MayBegin, IsRunning, lifecycleVars, menuVars, MenubarTypes, LatestInv,
       LaunchInv, LoopMoved, LoopPhases
  <2>16. CASE LoopLaunches
    BY <2>16, LoopRelaunches DEF LatestInv, LaunchInv, Moved, LoopMoved
  <2> QED BY <1>1, <2>1, <2>2, <2>3, <2>4, <2>5, <2>6, <2>7, <2>8, <2>9,
     <2>10, <2>11, <2>12, <2>13, <2>14, <2>15, <2>16 DEF Loop
<1>2. ASSUME NEW g \in Startups, Worker(g) PROVE LaunchInv'
  <2>1. CASE Reload(g)
    BY <2>1, Reloads DEF LatestInv, LaunchInv, Moved
  <2>2. CASE Prepared(g)
    BY <2>2, Prepares DEF LatestInv, LaunchInv, Moved
  <2>3. CASE Listen(g)
    BY <2>3, Listens DEF LatestInv, LaunchInv, Moved
  <2>4. CASE Preflight(g)
    BY <2>4, Preflights DEF LatestInv, LaunchInv, Moved
  <2>5. CASE FinishStartup(g)
    BY <2>5, Finishes, ZenonT(60) DEF LatestInv, LaunchInv, Moved
  <2>6. CASE FinishSuperseded(g)
    BY <2>6, Drops DEF LatestInv, LaunchInv, Moved, Superseded
  <2>7. CASE Discard(g)
    BY <2>7, Discards DEF LatestInv, LaunchInv, Moved
  <2>8. CASE Announce(g)
    BY <2>8, Announces DEF LatestInv, LaunchInv, Moved
  <2>9. CASE Restart(g)
    <3>1. loop' = loop /\ worker[g].pc = "begin"
      BY <2>9, Restarts
    <3>2. CASE MayBegin /\ BeginStartup /\ Moved(g, "launch")
      <4>1. /\ ~startup.inFlight /\ startup'.inFlight
            /\ worker[generation'].pc = "none" /\ generation' # g
            /\ generation' \in Startups
        BY <3>1, <3>2, Begins, StartupsAreNumbers
        DEF MayBegin, LatestInv, MenubarTypes
      <4>2. /\ loop.pc # "launch"
            /\ \A h \in Startups : worker[h].pc # "launch"
        BY <4>1 DEF LaunchInv
      <4> QED BY <3>1, <3>2, <4>1, <4>2 DEF LaunchInv, Moved
    <3>3. CASE UNCHANGED lifecycleVars /\ Moved(g, "done")
      BY <3>1, <3>3 DEF LaunchInv, Moved, lifecycleVars, LatestInv
    <3> QED BY <2>9, <3>2, <3>3, Restarts
  <2>10. CASE RestartLaunch(g)
    BY <2>10, Relaunches DEF LatestInv, LaunchInv
  <2> QED BY <1>2, <2>1, <2>2, <2>3, <2>4, <2>5, <2>6, <2>7, <2>8, <2>9, <2>10
     DEF Worker
<1>3. ASSUME NEW a \in Goroutines, Refresh(a) PROVE LaunchInv'
  BY <1>3 DEF Refresh, lifecycleVars, MenubarTypes, LatestInv, LaunchInv
<1>4. CASE ClickSignIn
  BY <1>4 DEF ClickSignIn, lifecycleVars, MenubarTypes, LatestInv, LaunchInv
<1>5. CASE SignInEnds
  BY <1>5 DEF SignInEnds, lifecycleVars, MenubarTypes, LatestInv, LaunchInv
<1>6. CASE SignInFailed
  BY <1>6 DEF SignInFailed, lifecycleVars, MenubarTypes, LatestInv, LaunchInv
<1>7. CASE Shutdown
  BY <1>7, ShutsDown DEF Shutdown, menuVars, MenubarTypes, LatestInv, LaunchInv
<1>8. CASE Exited
  BY <1>8, Exits DEF Exited, MenubarTypes, LatestInv, LaunchInv, LoopMoved
<1>9. CASE ServeFails
  BY <1>9 DEF ServeFails, Alive, IsRunning, StopServer, lifecycleVars,
     menuVars, MenubarTypes, LatestInv, LaunchInv
<1>10. CASE UNCHANGED vars
  BY <1>10 DEF vars, lifecycleVars, MenubarTypes, LatestInv, LaunchInv
<1> QED BY <1>1, <1>2, <1>3, <1>4, <1>5, <1>6, <1>7, <1>8, <1>9, <1>10 DEF
   Next

\* Who has a listener in hand keeps it until it is closed.
LEMMA PortStep == MenubarTypes /\ LatestInv /\ LaunchInv /\ PortInv /\ [Next]_vars => PortInv'
<1> SUFFICES ASSUME MenubarTypes, LatestInv, LaunchInv, PortInv, [Next]_vars PROVE PortInv'
  OBVIOUS
<1>1. CASE Loop
  <2>1. CASE ClickToggle
    BY <2>1, LoopMoves, SMTT(60) DEF ClickToggle, LoopAt, lifecycleVars, menuVars,
       MenubarTypes, LatestInv, PortInv, HandInv, HeldInv, PublishedInv, LoopMoved,
       LoopPhases, Operations
  <2>2. CASE ClickProviders
    BY <2>2, LoopMoves DEF ClickProviders, LoopAt, lifecycleVars, menuVars,
       MenubarTypes, LatestInv, PortInv, HandInv, HeldInv, PublishedInv, LoopMoved,
       LoopPhases, Operations
  <2>3. CASE ClickSignOut
    BY <2>3, LoopMoves DEF ClickSignOut, LoopAt, lifecycleVars, menuVars,
       MenubarTypes, LatestInv, PortInv, HandInv, HeldInv, PublishedInv, LoopMoved,
       LoopPhases, Operations
  <2>4. CASE ClickQuit
    BY <2>4, LoopMoves DEF ClickQuit, LoopAt, lifecycleVars, menuVars, MenubarTypes,
       LatestInv, PortInv, HandInv, HeldInv, PublishedInv, LoopMoved,
       LoopPhases, Operations
  <2>5. CASE Choose
    BY <2>5, LoopMoves DEF Choose, LoopAt, lifecycleVars, menuVars, MenubarTypes,
       LatestInv, PortInv, HandInv, HeldInv, PublishedInv, LoopMoved,
       LoopPhases
  <2>6. CASE LoopCancels
    BY <2>6, LoopMoves, Cancels DEF LoopCancels, LoopAt, AfterCancel,
       lifecycleVars, menuVars, MenubarTypes, LatestInv, PortInv, HandInv, HeldInv,
       PublishedInv, LoopMoved, LoopPhases
  <2>7. CASE Dim
    BY <2>7, LoopMoves DEF Dim, LoopAt, AfterCancel, lifecycleVars, MenubarTypes,
       LatestInv, PortInv, HandInv, HeldInv, PublishedInv, LoopMoved,
       LoopPhases
  <2>8. CASE AskCopilot
    BY <2>8, LoopMoves DEF AskCopilot, LoopAt, lifecycleVars, MenubarTypes,
       LatestInv, PortInv, HandInv, HeldInv, PublishedInv, LoopMoved,
       LoopPhases
  <2>9. CASE AskWhetherRunning
    BY <2>9, LoopMoves DEF AskWhetherRunning, LoopAt, IsRunning,
       lifecycleVars, MenubarTypes, LatestInv, PortInv, HandInv, HeldInv,
       PublishedInv, LoopMoved, LoopPhases
  <2>10. CASE StopCancels
    <3>1. loop.pc = "stop" /\ loop'.pc # "stopping"
      BY <2>10, LoopMoves
      DEF StopCancels, LoopAt, LoopMoved, LoopPhases, MenubarTypes
    <3>2. startup.inFlight => server = Nobody
      BY DEF LatestInv
    <3> QED BY <2>10, <3>1, <3>2, LoopCalls
            DEF PortInv, HandInv, HeldInv, PublishedInv
  <2>11. CASE DimStop
    BY <2>11, LoopMoves DEF DimStop, LoopAt, lifecycleVars, MenubarTypes, LatestInv,
       PortInv, HandInv, HeldInv, PublishedInv, LoopMoved, LoopPhases
  <2>12. CASE Detach
    BY <2>12, Detaches DEF Detach, LoopAt, MenubarTypes, LatestInv, PortInv, HandInv,
       HeldInv, PublishedInv, LoopMoved, LoopPhases
  <2>13. CASE StopDetached
    BY <2>13, LoopMoves DEF StopDetached, LoopAt, StopServer, lifecycleVars,
       MenubarTypes, LatestInv, PortInv, HandInv, HeldInv, PublishedInv, LoopMoved,
       LoopPhases
  <2>14. CASE AfterStop
    BY <2>14, LoopMoves DEF AfterStop, LoopAt, lifecycleVars, MenubarTypes,
       LatestInv, PortInv, HandInv, HeldInv, PublishedInv, LoopMoved,
       LoopPhases
  <2>15. CASE LoopBegins
    BY <2>15, LoopMoves, Begins, StartupsAreNumbers DEF LoopBegins, LoopAt,
       MayBegin, IsRunning, lifecycleVars, menuVars, MenubarTypes, LatestInv,
       PortInv, HandInv, HeldInv, PublishedInv, LoopMoved, LoopPhases
  <2>16. CASE LoopLaunches
    <3>1. HandInv'
      BY <2>16, LoopRelaunches DEF HandInv, Moved, Keeps, PortInv, LoopMoved,
         LaunchInv, LatestInv
    <3>2. HeldInv'
      BY <2>16, LoopRelaunches DEF HeldInv, Moved, Keeps, PortInv, MenubarTypes,
         LoopMoved, LaunchInv, LatestInv
    <3>3. PublishedInv'
      BY <2>16, LoopRelaunches DEF PublishedInv, Moved, Keeps, PortInv, MenubarTypes,
         Servers, LoopMoved, LaunchInv, LatestInv
    <3> QED BY <3>1, <3>2, <3>3 DEF PortInv
  <2> QED BY <1>1, <2>1, <2>2, <2>3, <2>4, <2>5, <2>6, <2>7, <2>8, <2>9,
     <2>10, <2>11, <2>12, <2>13, <2>14, <2>15, <2>16 DEF Loop
<1>2. ASSUME NEW g \in Startups, Worker(g) PROVE PortInv'
  <2>1. CASE Reload(g)
    <3>1. HandInv'
      BY <2>1, Reloads DEF HandInv, Moved, Keeps, PortInv
    <3>2. HeldInv'
      BY <2>1, Reloads DEF HeldInv, Moved, Keeps, PortInv, MenubarTypes
    <3>3. PublishedInv'
      BY <2>1, Reloads DEF PublishedInv, Moved, Keeps, PortInv, MenubarTypes, Servers
    <3> QED BY <3>1, <3>2, <3>3 DEF PortInv
  <2>2. CASE Prepared(g)
    <3>1. HandInv'
      BY <2>2, Prepares DEF HandInv, Moved, Keeps, PortInv
    <3>2. HeldInv'
      BY <2>2, Prepares DEF HeldInv, Moved, Keeps, PortInv, MenubarTypes
    <3>3. PublishedInv'
      BY <2>2, Prepares DEF PublishedInv, Moved, Keeps, PortInv, MenubarTypes,
         Servers
    <3> QED BY <3>1, <3>2, <3>3 DEF PortInv
  <2>3. CASE Listen(g)
    <3>1. HandInv'
      BY <2>3, Listens DEF HandInv, Moved, Keeps, PortInv
    <3>2. HeldInv'
      BY <2>3, Listens DEF HeldInv, Moved, Keeps, PortInv, MenubarTypes
    <3>3. PublishedInv'
      BY <2>3, Listens DEF PublishedInv, Moved, Keeps, PortInv, MenubarTypes, Servers
    <3> QED BY <3>1, <3>2, <3>3 DEF PortInv
  <2>4. CASE Preflight(g)
    <3>1. HandInv'
      BY <2>4, Preflights DEF HandInv, Moved, Keeps, PortInv
    <3>2. HeldInv'
      BY <2>4, Preflights DEF HeldInv, Moved, Keeps, PortInv, MenubarTypes
    <3>3. PublishedInv'
      BY <2>4, Preflights DEF PublishedInv, Moved, Keeps, PortInv, MenubarTypes,
         Servers
    <3> QED BY <3>1, <3>2, <3>3 DEF PortInv
  <2>5. CASE FinishStartup(g)
    <3>1. server = Nobody /\ g # Nobody /\ \A h \in listening : h # Nobody
      BY <2>5, Finishes, StartupsAreNumbers, ZenonT(60) DEF LatestInv, MenubarTypes
    <3>2. /\ worker[g].pc = "finish" /\ g = generation /\ startup.inFlight
          /\ UNCHANGED <<calledOff, listening, loop, exit>>
      BY <2>5, Finishes
    <3>3. HandInv'
      BY <2>5, Finishes DEF HandInv, Moved, Keeps, PortInv
    <3>4. CASE server' = server /\ Moved(g, "discard") /\ Keeps(g)
      <4>1. HeldInv'
        BY <3>1, <3>2, <3>4 DEF HeldInv, PortInv, Moved, Keeps, MenubarTypes
      <4> QED BY <3>1, <3>3, <3>4, <4>1 DEF PortInv, PublishedInv
    <3>5. CASE /\ ~startup.canceled /\ Moved(g, "announce")
               /\ server' = IF worker[g].server THEN g ELSE Nobody
      <4>1. /\ worker[g].server => server' = g
            /\ server' # Nobody => server' = g
        BY <3>5
      <4>2. HeldInv'
        BY <3>1, <3>2, <3>5, <4>1 DEF HeldInv, PortInv, Moved, MenubarTypes
      <4>3. PublishedInv'
        BY <3>2, <3>5, <4>1 DEF PublishedInv, Moved, LatestInv
      <4> QED BY <3>3, <4>2, <4>3 DEF PortInv
    <3> QED BY <2>5, <3>4, <3>5, Finishes
  <2>6. CASE FinishSuperseded(g)
    <3>1. HandInv'
      BY <2>6, Drops DEF HandInv, Moved, Keeps, PortInv
    <3>2. HeldInv'
      BY <2>6, Drops DEF HeldInv, Moved, Keeps, PortInv, MenubarTypes
    <3>3. PublishedInv'
      BY <2>6, Drops DEF PublishedInv, Moved, Keeps, PortInv, MenubarTypes, Servers
    <3> QED BY <3>1, <3>2, <3>3 DEF PortInv
  <2>7. CASE Discard(g)
    <3>1. HandInv'
      BY <2>7, Discards DEF HandInv, Moved, Keeps, PortInv
    <3>2. HeldInv'
      BY <2>7, Discards DEF HeldInv, Moved, Keeps, PortInv, MenubarTypes
    <3>3. PublishedInv'
      BY <2>7, Discards DEF PublishedInv, Moved, Keeps, PortInv, MenubarTypes,
         Servers
    <3> QED BY <3>1, <3>2, <3>3 DEF PortInv
  <2>8. CASE Announce(g)
    <3>1. HandInv'
      BY <2>8, Announces DEF HandInv, Moved, Keeps, PortInv
    <3>2. HeldInv'
      BY <2>8, Announces DEF HeldInv, Moved, Keeps, PortInv, MenubarTypes
    <3>3. PublishedInv'
      BY <2>8, Announces DEF PublishedInv, Moved, Keeps, PortInv, MenubarTypes,
         Servers
    <3> QED BY <3>1, <3>2, <3>3 DEF PortInv
  <2>9. CASE Restart(g)
    <3>1. HandInv'
      BY <2>9, Restarts DEF HandInv, Moved, Keeps, PortInv
    <3>2. CASE MayBegin /\ BeginStartup /\ Moved(g, "launch")
      <4>1. server' = Nobody /\ server \notin listening
        BY <3>2, Begins DEF MayBegin, IsRunning
      <4>2. HeldInv'
        BY <2>9, <3>2, <4>1, Restarts DEF HeldInv, PortInv, Moved, MenubarTypes
      <4> QED BY <3>1, <4>1, <4>2 DEF PortInv, PublishedInv
    <3>3. CASE UNCHANGED lifecycleVars /\ Moved(g, "done")
      <4>1. UNCHANGED <<server, calledOff>>
        BY <3>3 DEF lifecycleVars
      <4>2. HeldInv'
        BY <2>9, <3>3, <4>1, Restarts DEF HeldInv, PortInv, Moved, MenubarTypes
      <4>3. PublishedInv'
        BY <2>9, <3>3, <4>1, Restarts DEF PublishedInv, PortInv, Moved, MenubarTypes, Servers
      <4> QED BY <3>1, <4>2, <4>3 DEF PortInv
    <3> QED BY <2>9, <3>2, <3>3, Restarts
  <2>10. CASE RestartLaunch(g)
    <3>1. HandInv'
      BY <2>10, Relaunches, SMTT(60) DEF HandInv, Moved, Keeps, PortInv, LaunchInv,
         LatestInv
    <3>2. HeldInv'
      BY <2>10, Relaunches DEF HeldInv, Moved, Keeps, PortInv, MenubarTypes,
         LaunchInv, LatestInv
    <3>3. PublishedInv'
      BY <2>10, Relaunches DEF PublishedInv, Moved, Keeps, PortInv, MenubarTypes,
         Servers, LaunchInv, LatestInv
    <3> QED BY <3>1, <3>2, <3>3 DEF PortInv
  <2> QED BY <1>2, <2>1, <2>2, <2>3, <2>4, <2>5, <2>6, <2>7, <2>8, <2>9, <2>10
     DEF Worker
<1>3. ASSUME NEW a \in Goroutines, Refresh(a) PROVE PortInv'
  BY <1>3 DEF Refresh, lifecycleVars, MenubarTypes, LatestInv, PortInv, HandInv,
     HeldInv, PublishedInv
<1>4. CASE ClickSignIn
  BY <1>4 DEF ClickSignIn, lifecycleVars, MenubarTypes, LatestInv, PortInv, HandInv,
     HeldInv, PublishedInv
<1>5. CASE SignInEnds
  BY <1>5 DEF SignInEnds, lifecycleVars, MenubarTypes, LatestInv, PortInv, HandInv,
     HeldInv, PublishedInv
<1>6. CASE SignInFailed
  BY <1>6 DEF SignInFailed, lifecycleVars, MenubarTypes, LatestInv, PortInv, HandInv,
     HeldInv, PublishedInv
<1>7. CASE Shutdown
  BY <1>7, ShutsDown DEF Shutdown, menuVars, MenubarTypes, LatestInv, PortInv,
     HandInv, HeldInv, PublishedInv
<1>8. CASE Exited
  BY <1>8, Exits DEF Exited, MenubarTypes, LatestInv, PortInv, HandInv, HeldInv,
     PublishedInv, LoopMoved
<1>9. CASE ServeFails
  BY <1>9 DEF ServeFails, Alive, IsRunning, StopServer, lifecycleVars,
     menuVars, MenubarTypes, LatestInv, PortInv, HandInv, HeldInv, PublishedInv
<1>10. CASE UNCHANGED vars
  BY <1>10 DEF vars, lifecycleVars, MenubarTypes, LatestInv, PortInv, HandInv,
     HeldInv, PublishedInv
<1> QED BY <1>1, <1>2, <1>3, <1>4, <1>5, <1>6, <1>7, <1>8, <1>9, <1>10 DEF
   Next

\* What is not of the saved configuration is on its way out.
LEMMA ConfigStep ==
  MenubarTypes /\ LatestInv /\ LaunchInv /\ PortInv /\ ConfigInv /\ [Next]_vars => ConfigInv'
<1> SUFFICES ASSUME MenubarTypes, LatestInv, LaunchInv, PortInv, ConfigInv, [Next]_vars
             PROVE  ConfigInv'
  OBVIOUS
<1>1. CASE Loop
  <2>1. CASE ClickToggle
    BY <2>1, LoopMoves DEF ClickToggle, LoopAt, lifecycleVars, menuVars,
       MenubarTypes, LatestInv, PortInv, HandInv, HeldInv, PublishedInv, ConfigInv,
       WantedInv, ServedInv, LoopMoved, LoopPhases, Operations
  <2>2. CASE ClickProviders
    BY <2>2, LoopMoves DEF ClickProviders, LoopAt, lifecycleVars, menuVars,
       MenubarTypes, LatestInv, PortInv, HandInv, HeldInv, PublishedInv, ConfigInv,
       WantedInv, ServedInv, LoopMoved, LoopPhases, Operations
  <2>3. CASE ClickSignOut
    BY <2>3, LoopMoves DEF ClickSignOut, LoopAt, lifecycleVars, menuVars,
       MenubarTypes, LatestInv, PortInv, HandInv, HeldInv, PublishedInv, ConfigInv,
       WantedInv, ServedInv, LoopMoved, LoopPhases, Operations
  <2>4. CASE ClickQuit
    BY <2>4, LoopMoves DEF ClickQuit, LoopAt, lifecycleVars, menuVars, MenubarTypes,
       LatestInv, PortInv, HandInv, HeldInv, PublishedInv, ConfigInv,
       WantedInv, ServedInv, LoopMoved, LoopPhases, Operations
  <2>5. CASE Choose
    BY <2>5, LoopMoves DEF Choose, LoopAt, lifecycleVars, menuVars, MenubarTypes,
       LatestInv, PortInv, HandInv, HeldInv, PublishedInv, ConfigInv,
       WantedInv, ServedInv, LoopMoved, LoopPhases
  <2>6. CASE LoopCancels
    <3>1. /\ loop.pc = "cancel" /\ loop'.op = loop.op
          /\ loop'.pc \in {"dim", "ask", "askCopilot"}
          /\ ~startup.inFlight /\ loop.op = "providers" => loop'.pc = "ask"
      BY <2>6, LoopMoves
      DEF LoopCancels, LoopAt, AfterCancel, LoopMoved, LoopPhases, MenubarTypes
    <3>2. \A h \in Startups :
            worker[h].pc \in Starting => h = generation /\ startup.inFlight
      BY DEF LatestInv
    <3>3. WantedInv'
      BY <2>6, <3>1, <3>2, LoopCalls DEF ConfigInv, WantedInv, Starting
    <3>4. startup.inFlight => server \notin listening
      BY StartupsAreNumbers DEF LatestInv, MenubarTypes
    <3> QED BY <2>6, <3>1, <3>3, <3>4, LoopCalls DEF ConfigInv, ServedInv
  <2>7. CASE Dim
    BY <2>7, LoopMoves DEF Dim, LoopAt, AfterCancel, lifecycleVars, MenubarTypes,
       LatestInv, PortInv, HandInv, HeldInv, PublishedInv, ConfigInv,
       WantedInv, ServedInv, LoopMoved, LoopPhases
  <2>8. CASE AskCopilot
    BY <2>8, LoopMoves DEF AskCopilot, LoopAt, lifecycleVars, MenubarTypes,
       LatestInv, PortInv, HandInv, HeldInv, PublishedInv, ConfigInv,
       WantedInv, ServedInv, LoopMoved, LoopPhases
  <2>9. CASE AskWhetherRunning
    BY <2>9, LoopMoves DEF AskWhetherRunning, LoopAt, IsRunning,
       lifecycleVars, MenubarTypes, LatestInv, PortInv, HandInv, HeldInv,
       PublishedInv, ConfigInv, WantedInv, ServedInv, LoopMoved, LoopPhases
  <2>10. CASE StopCancels
    <3>1. /\ loop.pc = "stop" /\ loop'.op = loop.op
          /\ loop'.pc \in {"dimStop", "detach"}
          /\ ~startup.inFlight => loop'.pc = "detach"
      BY <2>10, LoopMoves
      DEF StopCancels, LoopAt, LoopMoved, LoopPhases, MenubarTypes
    <3>2. WantedInv'
      BY <2>10, <3>1, LoopCalls DEF ConfigInv, WantedInv
    <3>3. startup.inFlight => server \notin listening
      BY StartupsAreNumbers DEF LatestInv, MenubarTypes
    <3> QED BY <2>10, <3>1, <3>2, <3>3, LoopCalls DEF ConfigInv, ServedInv
  <2>11. CASE DimStop
    BY <2>11, LoopMoves DEF DimStop, LoopAt, lifecycleVars, MenubarTypes, LatestInv,
       PortInv, HandInv, HeldInv, PublishedInv, ConfigInv, WantedInv,
       ServedInv, LoopMoved, LoopPhases
  <2>12. CASE Detach
    <3>1. /\ loop.pc = "detach" /\ loop'.pc \in {"stopped", "stopping"}
          /\ UNCHANGED <<current, calledOff, worker, listening>>
          /\ server' = Nobody /\ Nobody \notin listening
      BY <2>12, Detaches, StartupsAreNumbers DEF Detach, LoopAt, LoopMoved, MenubarTypes
    <3> QED BY <3>1 DEF ConfigInv, WantedInv, ServedInv
  <2>13. CASE StopDetached
    BY <2>13, LoopMoves DEF StopDetached, LoopAt, StopServer, lifecycleVars,
       MenubarTypes, LatestInv, PortInv, HandInv, HeldInv, PublishedInv, ConfigInv,
       WantedInv, ServedInv, LoopMoved, LoopPhases
  <2>14. CASE AfterStop
    BY <2>14, LoopMoves DEF AfterStop, LoopAt, lifecycleVars, MenubarTypes,
       LatestInv, PortInv, HandInv, HeldInv, PublishedInv, ConfigInv,
       WantedInv, ServedInv, LoopMoved, LoopPhases
  <2>15. CASE LoopBegins
    BY <2>15, LoopMoves, Begins, StartupsAreNumbers DEF LoopBegins, LoopAt,
       MayBegin, IsRunning, lifecycleVars, menuVars, MenubarTypes, LatestInv,
       PortInv, HandInv, HeldInv, PublishedInv, ConfigInv, WantedInv,
       ServedInv, LoopMoved, LoopPhases
  <2>16. CASE LoopLaunches
    <3>1. WantedInv'
      BY <2>16, LoopRelaunches DEF ConfigInv, WantedInv, Moved
    <3> QED BY <2>16, <3>1, LoopRelaunches DEF ConfigInv, ServedInv, LoopMoved
  <2> QED BY <1>1, <2>1, <2>2, <2>3, <2>4, <2>5, <2>6, <2>7, <2>8, <2>9,
     <2>10, <2>11, <2>12, <2>13, <2>14, <2>15, <2>16 DEF Loop
<1>2. ASSUME NEW g \in Startups, Worker(g) PROVE ConfigInv'
  <2>1. CASE Reload(g)
    <3>1. WantedInv'
      BY <2>1, Reloads DEF WantedInv, Moved, Keeps, ConfigInv, PortInv,
         HandInv, LatestInv, Starting
    <3>2. ServedInv'
      BY <2>1, Reloads DEF ServedInv, Moved, Keeps, ConfigInv, PortInv,
         PublishedInv, MenubarTypes, Servers
    <3> QED BY <2>1, Reloads, <3>1, <3>2 DEF ConfigInv
  <2>2. CASE Prepared(g)
    <3>1. WantedInv'
      BY <2>2, Prepares DEF WantedInv, Moved, Keeps, ConfigInv, PortInv,
         HandInv, LatestInv, Starting
    <3>2. ServedInv'
      BY <2>2, Prepares DEF ServedInv, Moved, Keeps, ConfigInv, PortInv,
         PublishedInv, MenubarTypes, Servers
    <3> QED BY <2>2, Prepares, <3>1, <3>2 DEF ConfigInv
  <2>3. CASE Listen(g)
    <3>1. WantedInv'
      BY <2>3, Listens, StartupsAreNumbers DEF WantedInv, Moved, Keeps,
         ConfigInv, PortInv, HandInv, LatestInv, Starting
    <3>2. ServedInv'
      BY <2>3, Listens, StartupsAreNumbers DEF ServedInv, Moved, Keeps,
         ConfigInv, PortInv, PublishedInv, MenubarTypes, Servers
    <3> QED BY <2>3, Listens, <3>1, <3>2 DEF ConfigInv
  <2>4. CASE Preflight(g)
    <3>1. WantedInv'
      BY <2>4, Preflights DEF WantedInv, Moved, Keeps, ConfigInv, PortInv,
         HandInv, LatestInv, Starting
    <3>2. ServedInv'
      BY <2>4, Preflights DEF ServedInv, Moved, Keeps, ConfigInv, PortInv,
         PublishedInv, MenubarTypes, Servers
    <3> QED BY <2>4, Preflights, <3>1, <3>2 DEF ConfigInv
  <2>5. CASE FinishStartup(g)
    <3>1. /\ worker[g].pc = "finish" /\ g = generation /\ startup.inFlight
          /\ server = Nobody /\ g # Nobody /\ Nobody \notin listening
          /\ UNCHANGED <<current, calledOff, listening, loop>>
      BY <2>5, Finishes, StartupsAreNumbers DEF LatestInv, MenubarTypes
    <3>2. WantedInv'
      BY <2>5, <3>1, Finishes DEF ConfigInv, WantedInv, Moved
    <3>3. CASE server' = server
      BY <3>1, <3>2, <3>3 DEF ConfigInv, ServedInv
    <3>4. CASE /\ ~startup.canceled
               /\ server' = IF worker[g].server THEN g ELSE Nobody
      <4>1. server' # Nobody => server' = g /\ worker[g].server
        BY <3>4
      <4>2. server' # Nobody =>
              g \in current \/ (loop.op = "providers" /\ loop.pc = "cancel")
        <5>1. g \notin calledOff
          BY <3>1, <3>4 DEF LatestInv
        <5>2. worker[g].server =>
                \/ g \in current \/ g \in calledOff
                \/ loop.op = "providers" /\ loop.pc = "cancel"
          BY <3>1 DEF ConfigInv, WantedInv
        <5> QED BY <4>1, <5>1, <5>2
      <4> QED BY <3>1, <3>2, <4>1, <4>2 DEF ConfigInv, ServedInv
    <3> QED BY <2>5, <3>3, <3>4, Finishes
  <2>6. CASE FinishSuperseded(g)
    <3>1. WantedInv'
      BY <2>6, Drops DEF WantedInv, Moved, Keeps, ConfigInv, PortInv, HandInv,
         LatestInv, Starting
    <3>2. ServedInv'
      BY <2>6, Drops DEF ServedInv, Moved, Keeps, ConfigInv, PortInv,
         PublishedInv, MenubarTypes, Servers
    <3> QED BY <2>6, Drops, <3>1, <3>2 DEF ConfigInv
  <2>7. CASE Discard(g)
    <3>1. WantedInv'
      BY <2>7, Discards DEF WantedInv, Moved, Keeps, ConfigInv, PortInv,
         HandInv, LatestInv, Starting
    <3>2. ServedInv'
      BY <2>7, Discards DEF ServedInv, Moved, Keeps, ConfigInv, PortInv,
         PublishedInv, MenubarTypes, Servers
    <3> QED BY <2>7, Discards, <3>1, <3>2 DEF ConfigInv
  <2>8. CASE Announce(g)
    <3>1. WantedInv'
      BY <2>8, Announces DEF WantedInv, Moved, Keeps, ConfigInv, PortInv,
         HandInv, LatestInv, Starting
    <3>2. ServedInv'
      BY <2>8, Announces DEF ServedInv, Moved, Keeps, ConfigInv, PortInv,
         PublishedInv, MenubarTypes, Servers
    <3> QED BY <2>8, Announces, <3>1, <3>2 DEF ConfigInv
  <2>9. CASE Restart(g)
    <3>1. UNCHANGED <<current, listening, loop, calledOff>>
      BY <2>9, Restarts, Begins DEF lifecycleVars
    <3>2. WantedInv'
      BY <2>9, <3>1, Restarts DEF ConfigInv, WantedInv, Moved
    <3>3. server' \in listening => server' = server
      BY <2>9, Restarts, Begins, StartupsAreNumbers DEF lifecycleVars, MenubarTypes
    <3> QED BY <3>1, <3>2, <3>3 DEF ConfigInv, ServedInv
  <2>10. CASE RestartLaunch(g)
    <3>1. WantedInv'
      BY <2>10, Relaunches DEF ConfigInv, WantedInv
    <3> QED BY <2>10, <3>1, Relaunches DEF ConfigInv, ServedInv
  <2> QED BY <1>2, <2>1, <2>2, <2>3, <2>4, <2>5, <2>6, <2>7, <2>8, <2>9, <2>10
     DEF Worker
<1>3. ASSUME NEW a \in Goroutines, Refresh(a) PROVE ConfigInv'
  BY <1>3 DEF Refresh, lifecycleVars, MenubarTypes, LatestInv, PortInv, HandInv,
     HeldInv, PublishedInv, ConfigInv, WantedInv, ServedInv
<1>4. CASE ClickSignIn
  BY <1>4 DEF ClickSignIn, lifecycleVars, MenubarTypes, LatestInv, PortInv, HandInv,
     HeldInv, PublishedInv, ConfigInv, WantedInv, ServedInv
<1>5. CASE SignInEnds
  BY <1>5 DEF SignInEnds, lifecycleVars, MenubarTypes, LatestInv, PortInv, HandInv,
     HeldInv, PublishedInv, ConfigInv, WantedInv, ServedInv
<1>6. CASE SignInFailed
  BY <1>6 DEF SignInFailed, lifecycleVars, MenubarTypes, LatestInv, PortInv, HandInv,
     HeldInv, PublishedInv, ConfigInv, WantedInv, ServedInv
<1>7. CASE Shutdown
  <2>1. /\ UNCHANGED <<current, worker, listening, loop>>
        /\ calledOff \subseteq calledOff'
        /\ server' = Nobody /\ Nobody \notin listening
    BY <1>7, StartupsAreNumbers DEF Shutdown, MenubarTypes
  <2> QED BY <2>1 DEF ConfigInv, WantedInv, ServedInv
<1>8. CASE Exited
  BY <1>8, Exits DEF Exited, MenubarTypes, LatestInv, PortInv, HandInv, HeldInv,
     PublishedInv, ConfigInv, WantedInv, ServedInv, LoopMoved
<1>9. CASE ServeFails
  BY <1>9 DEF ServeFails, Alive, IsRunning, StopServer, lifecycleVars,
     menuVars, MenubarTypes, LatestInv, PortInv, HandInv, HeldInv, PublishedInv,
     ConfigInv, WantedInv, ServedInv
<1>10. CASE UNCHANGED vars
  BY <1>10 DEF vars, lifecycleVars, MenubarTypes, LatestInv, PortInv, HandInv,
     HeldInv, PublishedInv, ConfigInv, WantedInv, ServedInv
<1> QED BY <1>1, <1>2, <1>3, <1>4, <1>5, <1>6, <1>7, <1>8, <1>9, <1>10 DEF
   Next

\* Every reachable state satisfies the invariant.
THEOREM MenubarInvariant == Spec => []MenubarInv
<1>1. Init => MenubarInv
  BY InitMenubarInv
<1>2. MenubarInv /\ [Next]_vars => MenubarInv'
  BY MenubarTypesStep, LatestStep, LaunchStep, PortStep, ConfigStep DEF MenubarInv
<1> QED BY <1>1, <1>2, PTL DEF Spec

\* An open listener belongs to the published server, to a worker that has yet
\* to publish or stop it, or to whoever is stopping it, for any number of
\* startups (finishStartup and completeProxyStartup of proxy_lifecycle.go).
THEOREM PortAlwaysAccounted == Spec => []PortAccounted
<1>1. MenubarInv => PortAccounted
  BY DEF MenubarInv, PortInv, HeldInv, PortAccounted
<1> QED BY <1>1, MenubarInvariant, PTL

\* The server that runs was called off by nobody, and once the handlers are
\* done it is of the saved configuration (cancelStartup, restartAfterStartup).
THEOREM WantedServerAlwaysRuns == Spec => []WantedServerRuns
<1>1. MenubarInv => CalledOffStaysDown
  BY StartupsAreNumbers
  DEF MenubarInv, LatestInv, PortInv, PublishedInv, CalledOffStaysDown
<1>2. MenubarInv => ConfigServed
  BY DEF MenubarInv, ConfigInv, ServedInv, ConfigServed, Settled, IsRunning
<1> QED BY <1>1, <1>2, MenubarInvariant, PTL DEF WantedServerRuns

-----------------------------------------------------------------------------
(* WebSocketSession                                                        *)

CloserPhases ==
  {"no", "control", "await", "write", "begin", "holding", "cancel", "hard"}

SessionTypes ==
  /\ closer \in [Session!Closers -> CloserPhases]
  /\ taken \in [Session!Closers -> Nat]
  /\ inflightGen \in Nat /\ inflightCancel \in Nat
  /\ holds \in {0, 1}
  /\ closing \in BOOLEAN

\* The handler closes its session only where it waits for nobody, and the ping
\* loop only once.
HandlerInv ==
  /\ closer["handler"] # "no" => handler \in {"finish", "end", "leaving"}
  /\ closer["handler"] = "holding" => handler = "finish"
  /\ holds # 0 => handler = "finish"
  /\ handler = "register" => ping = "none"
  /\ ping # "ended" => closer["ping"] = "no"

\* A call that the handler waits for can be cancelled, or is.
CallInv ==
  Session!Waiting =>
    /\ inflightGen # Session!NoCall
    /\ inflightCancel = inflightGen \/ inflightGen \in cancelled

\* A barrier has an owner that releases it.
BarrierInv == Session!BarrierUp => \E a \in Session!Closers : closer[a] = "write"

\* Somebody will cancel the call of a session that is closing.
WillCut(a) ==
  \/ closer[a] \in {"await", "write", "begin"}
  \/ closer[a] = "cancel" /\ taken[a] = inflightGen
CutInv ==
  closing /\ Session!Waiting => inflightGen \in cancelled \/ \E a \in Session!Closers : WillCut(a)

\* No session is served beyond a shutdown that says it is done.
Outside == {"register", "end", "leaving", "done"}
DrainInv ==
  /\ ~registered => handler \in Outside
  /\ shutdown # "idle" => sessionsDraining
  /\ shutdown = "done" => handler \in Outside

\* Every request that is queued, served or on its way has its slot.
Busy ==
  IF handler \in {"select", "register", "end", "leaving", "done"} THEN 0 ELSE 1
Sending == IF pump = "sending" THEN 1 ELSE 0
QueueInv ==
  /\ frames \in Nat /\ outstanding \in Nat
  /\ frames + Busy + Sending <= outstanding
  /\ outstanding <= SessionLimit

SessionInv ==
  /\ SessionTypes /\ HandlerInv /\ CallInv /\ BarrierInv /\ CutInv /\ DrainInv

-----------------------------------------------------------------------------
\* A session that has not been accepted yet (HandleResponsesWebSocket).
LEMMA InitSessionInv == Session!Init => SessionInv
<1> SUFFICES ASSUME Session!Init PROVE SessionInv
  OBVIOUS
<1>1. SessionTypes
  BY DEF Session!Init, SessionTypes, CloserPhases, Session!NoCall
<1>2. HandlerInv
  BY DEF Session!Init, HandlerInv, Session!Closers
<1>3. CallInv /\ BarrierInv /\ CutInv /\ DrainInv
  BY DEF Session!Init, CallInv, BarrierInv, CutInv, DrainInv, Session!Waiting,
     Session!BarrierUp, Outside
<1> QED BY <1>1, <1>2, <1>3 DEF SessionInv

\* Every variable keeps its type.
LEMMA SessionTypesStep ==
  SessionTypes /\ [Session!Next]_(Session!vars) => SessionTypes'
<1> USE DEF Session!closeVars, Session!callVars, Session!contextVars, Session!drainVars,
            Session!queueVars, Session!closerVars, Session!goroutines, Session!HandlerAt,
            Session!HandlerGoto, Session!CloserAt, Session!CloserGoto, Session!NotClosing
<1> SUFFICES ASSUME SessionTypes,
                    [Session!Next]_(Session!vars)
             PROVE  SessionTypes'
  OBVIOUS
<1>1. ASSUME NEW a \in Session!Closers, Session!Close(a) PROVE SessionTypes'
  <2>1. CASE Session!StartControlClose(a)
    BY <2>1 DEF Session!StartControlClose, Session!MarkCause, SessionTypes, Session!Closers,
       CloserPhases, Session!NoCall
  <2>2. CASE Session!ReleaseBarrier(a)
    BY <2>2 DEF Session!ReleaseBarrier, SessionTypes, Session!Closers, CloserPhases,
       Session!NoCall
  <2>3. CASE Session!AwaitBarrier(a)
    BY <2>3 DEF Session!AwaitBarrier, Session!BarrierUp, SessionTypes, Session!Closers,
       CloserPhases, Session!NoCall
  <2>4. CASE Session!BeginClosing(a)
    BY <2>4 DEF Session!BeginClosing, Session!TakeCancels, Session!MarkCause, Session!BarrierUp,
       SessionTypes, Session!Closers, CloserPhases, Session!NoCall
  <2>5. CASE Session!CallCancels(a)
    BY <2>5 DEF Session!CallCancels, SessionTypes, Session!Closers, CloserPhases, Session!NoCall
  <2>6. CASE Session!HardClose(a)
    BY <2>6 DEF Session!HardClose, Session!BarrierUp, SessionTypes, Session!Closers,
       CloserPhases, Session!NoCall
  <2> QED BY <1>1, <2>1, <2>2, <2>3, <2>4, <2>5, <2>6 DEF Session!Close
<1>2. CASE Session!BeginHolding
  BY <1>2 DEF Session!BeginHolding, Session!Hold, Session!TakeCancels, Session!MarkCause,
     Session!BarrierUp, SessionTypes, Session!Closers, CloserPhases, Session!NoCall
<1>3. CASE Session!Register
  BY <1>3 DEF Session!Register, Session!Admitted, SessionTypes, Session!Closers, CloserPhases,
     Session!NoCall
<1>4. CASE Session!Refuse
  BY <1>4 DEF Session!Refuse, Session!Admitted, SessionTypes, Session!Closers, CloserPhases,
     Session!NoCall
<1>5. CASE Session!TakeFrame
  BY <1>5 DEF Session!TakeFrame, SessionTypes, Session!Closers, CloserPhases, Session!NoCall
<1>6. CASE Session!LeaveLoop
  BY <1>6 DEF Session!LeaveLoop, SessionTypes, Session!Closers, CloserPhases, Session!NoCall
<1>7. CASE Session!BeginTurn
  BY <1>7 DEF Session!BeginTurn, SessionTypes, Session!Closers, CloserPhases, Session!NoCall
<1>8. CASE Session!PostTurn
  <2>1. inflightGen' = inflightGen + 1 /\ inflightGen' \in Nat
    BY <1>8 DEF Session!PostTurn, Session!SetInflightCancel, SessionTypes
  <2> QED BY <1>8, <2>1
          DEF Session!PostTurn, Session!SetInflightCancel, Session!Over, SessionTypes,
              Session!NoCall
<1>9. CASE Session!PostCompaction
  <2>1. inflightGen' = inflightGen + 1 /\ inflightGen' \in Nat
    BY <1>9 DEF Session!PostCompaction, Session!SetInflightCancel, SessionTypes
  <2> QED BY <1>9, <2>1
          DEF Session!PostCompaction, Session!SetInflightCancel, Session!Over, SessionTypes,
              Session!NoCall
<1>10. CASE Session!Answered
  BY <1>10 DEF Session!Answered, SessionTypes, Session!Closers, CloserPhases, Session!NoCall
<1>11. CASE Session!WriteFails
  BY <1>11 DEF Session!WriteFails, SessionTypes, Session!Closers, CloserPhases, Session!NoCall
<1>12. CASE Session!StreamEnds
  BY <1>12 DEF Session!StreamEnds, SessionTypes, Session!Closers, CloserPhases, Session!NoCall
<1>13. CASE Session!FinishFailed
  BY <1>13 DEF Session!FinishFailed, Session!FinishCall, SessionTypes, Session!Closers,
     CloserPhases, Session!NoCall
<1>14. CASE Session!FinishComplete
  BY <1>14 DEF Session!FinishComplete, Session!FinishCall, SessionTypes, Session!Closers,
     CloserPhases, Session!NoCall
<1>15. CASE Session!FinishCompaction
  BY <1>15 DEF Session!FinishCompaction, Session!FinishCall, SessionTypes, Session!Closers,
     CloserPhases, Session!NoCall
<1>16. CASE Session!MaybeCompact
  BY <1>16 DEF Session!MaybeCompact, SessionTypes, Session!Closers, CloserPhases, Session!NoCall
<1>17. CASE Session!Served
  BY <1>17 DEF Session!Served, SessionTypes, Session!Closers, CloserPhases, Session!NoCall
<1>18. CASE Session!EndHandler
  BY <1>18 DEF Session!EndHandler, SessionTypes, Session!Closers, CloserPhases, Session!NoCall
<1>19. CASE Session!Unregister
  BY <1>19 DEF Session!Unregister, SessionTypes, Session!Closers, CloserPhases, Session!NoCall
<1>20. CASE Session!ReadFrame
  BY <1>20 DEF Session!ReadFrame, Session!PumpAt, Session!SlotFree, SessionTypes,
     Session!Closers, CloserPhases, Session!NoCall
<1>21. CASE Session!TooMany
  BY <1>21 DEF Session!TooMany, Session!PumpAt, Session!SlotFree, SessionTypes, Session!Closers,
     CloserPhases, Session!NoCall
<1>22. CASE Session!QueueFrame
  BY <1>22 DEF Session!QueueFrame, Session!PumpAt, SessionTypes, Session!Closers, CloserPhases,
     Session!NoCall
<1>23. CASE Session!ReadFails
  BY <1>23 DEF Session!ReadFails, Session!PumpAt, SessionTypes, Session!Closers, CloserPhases,
     Session!NoCall
<1>24. CASE Session!PumpEnds
  BY <1>24 DEF Session!PumpEnds, Session!PumpAt, SessionTypes, Session!Closers, CloserPhases,
     Session!NoCall
<1>25. CASE Session!PingFails
  BY <1>25 DEF Session!PingFails, SessionTypes, Session!Closers, CloserPhases, Session!NoCall
<1>26. CASE Session!PingEnds
  BY <1>26 DEF Session!PingEnds, SessionTypes, Session!Closers, CloserPhases, Session!NoCall
<1>27. CASE Session!Drain
  BY <1>27 DEF Session!Drain, Session!ShutdownAt, SessionTypes, Session!Closers, CloserPhases,
     Session!NoCall
<1>28. CASE Session!MarkServerShutdown
  BY <1>28 DEF Session!MarkServerShutdown, Session!ShutdownAt, Session!MarkCause, SessionTypes,
     Session!Closers, CloserPhases, Session!NoCall
<1>29. CASE Session!AwaitHandler
  BY <1>29 DEF Session!AwaitHandler, Session!ShutdownAt, SessionTypes, Session!Closers,
     CloserPhases, Session!NoCall
<1>30. CASE UNCHANGED Session!vars
  BY <1>30 DEF Session!vars, SessionTypes, Session!Closers, CloserPhases, Session!NoCall
<1> QED BY <1>1, <1>2, <1>3, <1>4, <1>5, <1>6, <1>7, <1>8, <1>9, <1>10, <1>11,
   <1>12, <1>13, <1>14, <1>15, <1>16, <1>17, <1>18, <1>19, <1>20, <1>21,
   <1>22, <1>23, <1>24, <1>25, <1>26, <1>27, <1>28, <1>29, <1>30 DEF Session!Next

\* The handler closes only where it waits for nobody.
LEMMA HandlerStep ==
  SessionTypes /\ HandlerInv /\ [Session!Next]_(Session!vars) => HandlerInv'
<1> USE DEF Session!closeVars, Session!callVars, Session!contextVars, Session!drainVars,
            Session!queueVars, Session!closerVars, Session!goroutines, Session!HandlerAt,
            Session!HandlerGoto, Session!CloserAt, Session!CloserGoto, Session!NotClosing
<1> SUFFICES ASSUME SessionTypes, HandlerInv,
                    [Session!Next]_(Session!vars)
             PROVE  HandlerInv'
  OBVIOUS
<1>1. ASSUME NEW a \in Session!Closers, Session!Close(a) PROVE HandlerInv'
  <2>1. CASE Session!StartControlClose(a)
    BY <2>1 DEF Session!StartControlClose, Session!MarkCause, SessionTypes, HandlerInv,
       Session!Closers
  <2>2. CASE Session!ReleaseBarrier(a)
    BY <2>2 DEF Session!ReleaseBarrier, SessionTypes, HandlerInv, Session!Closers
  <2>3. CASE Session!AwaitBarrier(a)
    BY <2>3 DEF Session!AwaitBarrier, Session!BarrierUp, SessionTypes, HandlerInv,
       Session!Closers
  <2>4. CASE Session!BeginClosing(a)
    BY <2>4 DEF Session!BeginClosing, Session!TakeCancels, Session!MarkCause, Session!BarrierUp,
       SessionTypes, HandlerInv, Session!Closers
  <2>5. CASE Session!CallCancels(a)
    BY <2>5 DEF Session!CallCancels, SessionTypes, HandlerInv, Session!Closers
  <2>6. CASE Session!HardClose(a)
    BY <2>6 DEF Session!HardClose, Session!BarrierUp, SessionTypes, HandlerInv, Session!Closers
  <2> QED BY <1>1, <2>1, <2>2, <2>3, <2>4, <2>5, <2>6 DEF Session!Close
<1>2. CASE Session!BeginHolding
  BY <1>2 DEF Session!BeginHolding, Session!Hold, Session!TakeCancels, Session!MarkCause,
     Session!BarrierUp, SessionTypes, HandlerInv, Session!Closers
<1>3. CASE Session!Register
  BY <1>3 DEF Session!Register, Session!Admitted, SessionTypes, HandlerInv, Session!Closers
<1>4. CASE Session!Refuse
  BY <1>4 DEF Session!Refuse, Session!Admitted, SessionTypes, HandlerInv, Session!Closers
<1>5. CASE Session!TakeFrame
  BY <1>5 DEF Session!TakeFrame, SessionTypes, HandlerInv, Session!Closers
<1>6. CASE Session!LeaveLoop
  BY <1>6 DEF Session!LeaveLoop, SessionTypes, HandlerInv, Session!Closers
<1>7. CASE Session!BeginTurn
  BY <1>7 DEF Session!BeginTurn, SessionTypes, HandlerInv, Session!Closers
<1>8. CASE Session!PostTurn
  BY <1>8 DEF Session!PostTurn, Session!SetInflightCancel, Session!Over, SessionTypes,
     HandlerInv, Session!Closers
<1>9. CASE Session!PostCompaction
  BY <1>9 DEF Session!PostCompaction, Session!SetInflightCancel, Session!Over, SessionTypes,
     HandlerInv, Session!Closers
<1>10. CASE Session!Answered
  BY <1>10 DEF Session!Answered, SessionTypes, HandlerInv, Session!Closers
<1>11. CASE Session!WriteFails
  BY <1>11 DEF Session!WriteFails, SessionTypes, HandlerInv, Session!Closers
<1>12. CASE Session!StreamEnds
  BY <1>12 DEF Session!StreamEnds, SessionTypes, HandlerInv, Session!Closers
<1>13. CASE Session!FinishFailed
  BY <1>13 DEF Session!FinishFailed, Session!FinishCall, SessionTypes, HandlerInv,
     Session!Closers
<1>14. CASE Session!FinishComplete
  BY <1>14 DEF Session!FinishComplete, Session!FinishCall, SessionTypes, HandlerInv,
     Session!Closers
<1>15. CASE Session!FinishCompaction
  BY <1>15 DEF Session!FinishCompaction, Session!FinishCall, SessionTypes, HandlerInv,
     Session!Closers
<1>16. CASE Session!MaybeCompact
  BY <1>16 DEF Session!MaybeCompact, SessionTypes, HandlerInv, Session!Closers
<1>17. CASE Session!Served
  BY <1>17 DEF Session!Served, SessionTypes, HandlerInv, Session!Closers
<1>18. CASE Session!EndHandler
  BY <1>18 DEF Session!EndHandler, SessionTypes, HandlerInv, Session!Closers
<1>19. CASE Session!Unregister
  BY <1>19 DEF Session!Unregister, SessionTypes, HandlerInv, Session!Closers
<1>20. CASE Session!ReadFrame
  BY <1>20 DEF Session!ReadFrame, Session!PumpAt, Session!SlotFree, SessionTypes, HandlerInv,
     Session!Closers
<1>21. CASE Session!TooMany
  BY <1>21 DEF Session!TooMany, Session!PumpAt, Session!SlotFree, SessionTypes, HandlerInv,
     Session!Closers
<1>22. CASE Session!QueueFrame
  BY <1>22 DEF Session!QueueFrame, Session!PumpAt, SessionTypes, HandlerInv, Session!Closers
<1>23. CASE Session!ReadFails
  BY <1>23 DEF Session!ReadFails, Session!PumpAt, SessionTypes, HandlerInv, Session!Closers
<1>24. CASE Session!PumpEnds
  BY <1>24 DEF Session!PumpEnds, Session!PumpAt, SessionTypes, HandlerInv, Session!Closers
<1>25. CASE Session!PingFails
  BY <1>25 DEF Session!PingFails, SessionTypes, HandlerInv, Session!Closers
<1>26. CASE Session!PingEnds
  BY <1>26 DEF Session!PingEnds, SessionTypes, HandlerInv, Session!Closers
<1>27. CASE Session!Drain
  BY <1>27 DEF Session!Drain, Session!ShutdownAt, SessionTypes, HandlerInv, Session!Closers
<1>28. CASE Session!MarkServerShutdown
  BY <1>28 DEF Session!MarkServerShutdown, Session!ShutdownAt, Session!MarkCause, SessionTypes,
     HandlerInv, Session!Closers
<1>29. CASE Session!AwaitHandler
  BY <1>29 DEF Session!AwaitHandler, Session!ShutdownAt, SessionTypes, HandlerInv,
     Session!Closers
<1>30. CASE UNCHANGED Session!vars
  BY <1>30 DEF Session!vars, SessionTypes, HandlerInv, Session!Closers
<1> QED BY <1>1, <1>2, <1>3, <1>4, <1>5, <1>6, <1>7, <1>8, <1>9, <1>10, <1>11,
   <1>12, <1>13, <1>14, <1>15, <1>16, <1>17, <1>18, <1>19, <1>20, <1>21,
   <1>22, <1>23, <1>24, <1>25, <1>26, <1>27, <1>28, <1>29, <1>30 DEF Session!Next

\* The call that the handler waits for is kept, or cancelled.
LEMMA CallStep ==
  SessionTypes /\ HandlerInv /\ CallInv /\ [Session!Next]_(Session!vars) => CallInv'
<1> USE DEF Session!closeVars, Session!callVars, Session!contextVars, Session!drainVars,
            Session!queueVars, Session!closerVars, Session!goroutines, Session!HandlerAt,
            Session!HandlerGoto, Session!CloserAt, Session!CloserGoto, Session!NotClosing
<1> SUFFICES ASSUME SessionTypes, HandlerInv, CallInv,
                    [Session!Next]_(Session!vars)
             PROVE  CallInv'
  OBVIOUS
<1>1. ASSUME NEW a \in Session!Closers, Session!Close(a) PROVE CallInv'
  <2>1. CASE Session!StartControlClose(a)
    BY <2>1 DEF Session!StartControlClose, Session!MarkCause, SessionTypes, HandlerInv, CallInv,
       Session!Waiting, Session!NoCall
  <2>2. CASE Session!ReleaseBarrier(a)
    BY <2>2 DEF Session!ReleaseBarrier, SessionTypes, HandlerInv, CallInv, Session!Waiting,
       Session!NoCall
  <2>3. CASE Session!AwaitBarrier(a)
    BY <2>3 DEF Session!AwaitBarrier, Session!BarrierUp, SessionTypes, HandlerInv, CallInv,
       Session!Waiting, Session!NoCall
  <2>4. CASE Session!BeginClosing(a)
    BY <2>4 DEF Session!BeginClosing, Session!TakeCancels, Session!MarkCause, Session!BarrierUp,
       SessionTypes, HandlerInv, CallInv, Session!Waiting, Session!NoCall
  <2>5. CASE Session!CallCancels(a)
    BY <2>5 DEF Session!CallCancels, SessionTypes, HandlerInv, CallInv, Session!Waiting,
       Session!NoCall
  <2>6. CASE Session!HardClose(a)
    BY <2>6 DEF Session!HardClose, Session!BarrierUp, SessionTypes, HandlerInv, CallInv,
       Session!Waiting, Session!NoCall
  <2> QED BY <1>1, <2>1, <2>2, <2>3, <2>4, <2>5, <2>6 DEF Session!Close
<1>2. CASE Session!BeginHolding
  BY <1>2 DEF Session!BeginHolding, Session!Hold, Session!TakeCancels, Session!MarkCause,
     Session!BarrierUp, SessionTypes, HandlerInv, CallInv, Session!Waiting, Session!NoCall
<1>3. CASE Session!Register
  BY <1>3 DEF Session!Register, Session!Admitted, SessionTypes, HandlerInv, CallInv,
     Session!Waiting, Session!NoCall
<1>4. CASE Session!Refuse
  BY <1>4 DEF Session!Refuse, Session!Admitted, SessionTypes, HandlerInv, CallInv,
     Session!Waiting, Session!NoCall
<1>5. CASE Session!TakeFrame
  BY <1>5 DEF Session!TakeFrame, SessionTypes, HandlerInv, CallInv, Session!Waiting,
     Session!NoCall
<1>6. CASE Session!LeaveLoop
  BY <1>6 DEF Session!LeaveLoop, SessionTypes, HandlerInv, CallInv, Session!Waiting,
     Session!NoCall
<1>7. CASE Session!BeginTurn
  BY <1>7 DEF Session!BeginTurn, SessionTypes, HandlerInv, CallInv, Session!Waiting,
     Session!NoCall
<1>8. CASE Session!PostTurn
  BY <1>8 DEF Session!PostTurn, Session!SetInflightCancel, Session!Over, SessionTypes,
     HandlerInv, CallInv, Session!Waiting, Session!NoCall
<1>9. CASE Session!PostCompaction
  BY <1>9 DEF Session!PostCompaction, Session!SetInflightCancel, Session!Over, SessionTypes,
     HandlerInv, CallInv, Session!Waiting, Session!NoCall
<1>10. CASE Session!Answered
  BY <1>10 DEF Session!Answered, SessionTypes, HandlerInv, CallInv, Session!Waiting,
     Session!NoCall
<1>11. CASE Session!WriteFails
  BY <1>11 DEF Session!WriteFails, SessionTypes, HandlerInv, CallInv, Session!Waiting,
     Session!NoCall
<1>12. CASE Session!StreamEnds
  BY <1>12 DEF Session!StreamEnds, SessionTypes, HandlerInv, CallInv, Session!Waiting,
     Session!NoCall
<1>13. CASE Session!FinishFailed
  BY <1>13 DEF Session!FinishFailed, Session!FinishCall, SessionTypes, HandlerInv, CallInv,
     Session!Waiting, Session!NoCall
<1>14. CASE Session!FinishComplete
  BY <1>14 DEF Session!FinishComplete, Session!FinishCall, SessionTypes, HandlerInv, CallInv,
     Session!Waiting, Session!NoCall
<1>15. CASE Session!FinishCompaction
  BY <1>15 DEF Session!FinishCompaction, Session!FinishCall, SessionTypes, HandlerInv, CallInv,
     Session!Waiting, Session!NoCall
<1>16. CASE Session!MaybeCompact
  BY <1>16 DEF Session!MaybeCompact, SessionTypes, HandlerInv, CallInv, Session!Waiting,
     Session!NoCall
<1>17. CASE Session!Served
  BY <1>17 DEF Session!Served, SessionTypes, HandlerInv, CallInv, Session!Waiting,
     Session!NoCall
<1>18. CASE Session!EndHandler
  BY <1>18 DEF Session!EndHandler, SessionTypes, HandlerInv, CallInv, Session!Waiting,
     Session!NoCall
<1>19. CASE Session!Unregister
  BY <1>19 DEF Session!Unregister, SessionTypes, HandlerInv, CallInv, Session!Waiting,
     Session!NoCall
<1>20. CASE Session!ReadFrame
  BY <1>20 DEF Session!ReadFrame, Session!PumpAt, Session!SlotFree, SessionTypes, HandlerInv,
     CallInv, Session!Waiting, Session!NoCall
<1>21. CASE Session!TooMany
  BY <1>21 DEF Session!TooMany, Session!PumpAt, Session!SlotFree, SessionTypes, HandlerInv,
     CallInv, Session!Waiting, Session!NoCall
<1>22. CASE Session!QueueFrame
  BY <1>22 DEF Session!QueueFrame, Session!PumpAt, SessionTypes, HandlerInv, CallInv,
     Session!Waiting, Session!NoCall
<1>23. CASE Session!ReadFails
  BY <1>23 DEF Session!ReadFails, Session!PumpAt, SessionTypes, HandlerInv, CallInv,
     Session!Waiting, Session!NoCall
<1>24. CASE Session!PumpEnds
  BY <1>24 DEF Session!PumpEnds, Session!PumpAt, SessionTypes, HandlerInv, CallInv,
     Session!Waiting, Session!NoCall
<1>25. CASE Session!PingFails
  BY <1>25 DEF Session!PingFails, SessionTypes, HandlerInv, CallInv, Session!Waiting,
     Session!NoCall
<1>26. CASE Session!PingEnds
  BY <1>26 DEF Session!PingEnds, SessionTypes, HandlerInv, CallInv, Session!Waiting,
     Session!NoCall
<1>27. CASE Session!Drain
  BY <1>27 DEF Session!Drain, Session!ShutdownAt, SessionTypes, HandlerInv, CallInv,
     Session!Waiting, Session!NoCall
<1>28. CASE Session!MarkServerShutdown
  BY <1>28 DEF Session!MarkServerShutdown, Session!ShutdownAt, Session!MarkCause, SessionTypes,
     HandlerInv, CallInv, Session!Waiting, Session!NoCall
<1>29. CASE Session!AwaitHandler
  BY <1>29 DEF Session!AwaitHandler, Session!ShutdownAt, SessionTypes, HandlerInv, CallInv,
     Session!Waiting, Session!NoCall
<1>30. CASE UNCHANGED Session!vars
  BY <1>30 DEF Session!vars, SessionTypes, HandlerInv, CallInv, Session!Waiting, Session!NoCall
<1> QED BY <1>1, <1>2, <1>3, <1>4, <1>5, <1>6, <1>7, <1>8, <1>9, <1>10, <1>11,
   <1>12, <1>13, <1>14, <1>15, <1>16, <1>17, <1>18, <1>19, <1>20, <1>21,
   <1>22, <1>23, <1>24, <1>25, <1>26, <1>27, <1>28, <1>29, <1>30 DEF Session!Next

\* A barrier keeps its owner.
LEMMA BarrierStep ==
  SessionTypes /\ HandlerInv /\ BarrierInv /\ [Session!Next]_(Session!vars) => BarrierInv'
<1> USE DEF Session!closeVars, Session!callVars, Session!contextVars, Session!drainVars,
            Session!queueVars, Session!closerVars, Session!goroutines, Session!HandlerAt,
            Session!HandlerGoto, Session!CloserAt, Session!CloserGoto, Session!NotClosing
<1> SUFFICES ASSUME SessionTypes, HandlerInv, BarrierInv,
                    [Session!Next]_(Session!vars)
             PROVE  BarrierInv'
  OBVIOUS
<1>1. ASSUME NEW a \in Session!Closers, Session!Close(a) PROVE BarrierInv'
  <2>1. CASE Session!StartControlClose(a)
    BY <2>1 DEF Session!StartControlClose, Session!MarkCause, SessionTypes, BarrierInv,
       Session!BarrierUp, Session!Closers
  <2>2. CASE Session!ReleaseBarrier(a)
    BY <2>2 DEF Session!ReleaseBarrier, SessionTypes, BarrierInv, Session!BarrierUp,
       Session!Closers
  <2>3. CASE Session!AwaitBarrier(a)
    BY <2>3 DEF Session!AwaitBarrier, Session!BarrierUp, SessionTypes, BarrierInv,
       Session!Closers
  <2>4. CASE Session!BeginClosing(a)
    BY <2>4 DEF Session!BeginClosing, Session!TakeCancels, Session!MarkCause, Session!BarrierUp,
       SessionTypes, BarrierInv, Session!Closers
  <2>5. CASE Session!CallCancels(a)
    BY <2>5 DEF Session!CallCancels, SessionTypes, BarrierInv, Session!BarrierUp,
       Session!Closers
  <2>6. CASE Session!HardClose(a)
    BY <2>6 DEF Session!HardClose, Session!BarrierUp, SessionTypes, BarrierInv, Session!Closers
  <2> QED BY <1>1, <2>1, <2>2, <2>3, <2>4, <2>5, <2>6 DEF Session!Close
<1>2. CASE Session!BeginHolding
  BY <1>2 DEF Session!BeginHolding, Session!Hold, Session!TakeCancels, Session!MarkCause,
     Session!BarrierUp, SessionTypes, BarrierInv, Session!Closers
<1>3. CASE Session!Register
  BY <1>3 DEF Session!Register, Session!Admitted, SessionTypes, BarrierInv, Session!BarrierUp,
     Session!Closers
<1>4. CASE Session!Refuse
  BY <1>4 DEF Session!Refuse, Session!Admitted, SessionTypes, BarrierInv, Session!BarrierUp,
     Session!Closers
<1>5. CASE Session!TakeFrame
  BY <1>5 DEF Session!TakeFrame, SessionTypes, BarrierInv, Session!BarrierUp, Session!Closers
<1>6. CASE Session!LeaveLoop
  BY <1>6 DEF Session!LeaveLoop, SessionTypes, BarrierInv, Session!BarrierUp, Session!Closers
<1>7. CASE Session!BeginTurn
  BY <1>7 DEF Session!BeginTurn, SessionTypes, BarrierInv, Session!BarrierUp, Session!Closers
<1>8. CASE Session!PostTurn
  BY <1>8 DEF Session!PostTurn, Session!SetInflightCancel, Session!Over, SessionTypes,
     BarrierInv, Session!BarrierUp, Session!Closers
<1>9. CASE Session!PostCompaction
  BY <1>9 DEF Session!PostCompaction, Session!SetInflightCancel, Session!Over, SessionTypes,
     BarrierInv, Session!BarrierUp, Session!Closers
<1>10. CASE Session!Answered
  BY <1>10 DEF Session!Answered, SessionTypes, BarrierInv, Session!BarrierUp, Session!Closers
<1>11. CASE Session!WriteFails
  BY <1>11 DEF Session!WriteFails, SessionTypes, BarrierInv, Session!BarrierUp, Session!Closers
<1>12. CASE Session!StreamEnds
  BY <1>12 DEF Session!StreamEnds, SessionTypes, BarrierInv, Session!BarrierUp, Session!Closers
<1>13. CASE Session!FinishFailed
  BY <1>13 DEF Session!FinishFailed, Session!FinishCall, SessionTypes, BarrierInv,
     Session!BarrierUp, Session!Closers
<1>14. CASE Session!FinishComplete
  BY <1>14 DEF Session!FinishComplete, Session!FinishCall, SessionTypes, BarrierInv,
     Session!BarrierUp, Session!Closers
<1>15. CASE Session!FinishCompaction
  BY <1>15 DEF Session!FinishCompaction, Session!FinishCall, SessionTypes, BarrierInv,
     Session!BarrierUp, Session!Closers
<1>16. CASE Session!MaybeCompact
  BY <1>16 DEF Session!MaybeCompact, SessionTypes, BarrierInv, Session!BarrierUp,
     Session!Closers
<1>17. CASE Session!Served
  BY <1>17 DEF Session!Served, SessionTypes, BarrierInv, Session!BarrierUp, Session!Closers
<1>18. CASE Session!EndHandler
  BY <1>18 DEF Session!EndHandler, SessionTypes, BarrierInv, Session!BarrierUp, Session!Closers
<1>19. CASE Session!Unregister
  BY <1>19 DEF Session!Unregister, SessionTypes, BarrierInv, Session!BarrierUp, Session!Closers
<1>20. CASE Session!ReadFrame
  BY <1>20 DEF Session!ReadFrame, Session!PumpAt, Session!SlotFree, SessionTypes, BarrierInv,
     Session!BarrierUp, Session!Closers
<1>21. CASE Session!TooMany
  BY <1>21 DEF Session!TooMany, Session!PumpAt, Session!SlotFree, SessionTypes, BarrierInv,
     Session!BarrierUp, Session!Closers
<1>22. CASE Session!QueueFrame
  BY <1>22 DEF Session!QueueFrame, Session!PumpAt, SessionTypes, BarrierInv, Session!BarrierUp,
     Session!Closers
<1>23. CASE Session!ReadFails
  BY <1>23 DEF Session!ReadFails, Session!PumpAt, SessionTypes, BarrierInv, Session!BarrierUp,
     Session!Closers
<1>24. CASE Session!PumpEnds
  BY <1>24 DEF Session!PumpEnds, Session!PumpAt, SessionTypes, BarrierInv, Session!BarrierUp,
     Session!Closers
<1>25. CASE Session!PingFails
  BY <1>25 DEF Session!PingFails, SessionTypes, BarrierInv, Session!BarrierUp, Session!Closers,
     HandlerInv
<1>26. CASE Session!PingEnds
  BY <1>26 DEF Session!PingEnds, SessionTypes, BarrierInv, Session!BarrierUp, Session!Closers
<1>27. CASE Session!Drain
  BY <1>27 DEF Session!Drain, Session!ShutdownAt, SessionTypes, BarrierInv, Session!BarrierUp,
     Session!Closers
<1>28. CASE Session!MarkServerShutdown
  BY <1>28 DEF Session!MarkServerShutdown, Session!ShutdownAt, Session!MarkCause, SessionTypes,
     BarrierInv, Session!BarrierUp, Session!Closers
<1>29. CASE Session!AwaitHandler
  BY <1>29 DEF Session!AwaitHandler, Session!ShutdownAt, SessionTypes, BarrierInv,
     Session!BarrierUp, Session!Closers
<1>30. CASE UNCHANGED Session!vars
  BY <1>30 DEF Session!vars, SessionTypes, BarrierInv, Session!BarrierUp, Session!Closers
<1> QED BY <1>1, <1>2, <1>3, <1>4, <1>5, <1>6, <1>7, <1>8, <1>9, <1>10, <1>11,
   <1>12, <1>13, <1>14, <1>15, <1>16, <1>17, <1>18, <1>19, <1>20, <1>21,
   <1>22, <1>23, <1>24, <1>25, <1>26, <1>27, <1>28, <1>29, <1>30 DEF Session!Next

\* Whoever closes the session goes on until the call is cancelled.
LEMMA CutStep ==
  SessionTypes /\ HandlerInv /\ CallInv /\ BarrierInv /\ CutInv /\ [Session!Next]_(Session!vars) => CutInv'
<1> USE DEF Session!closeVars, Session!callVars, Session!contextVars, Session!drainVars,
            Session!queueVars, Session!closerVars, Session!goroutines, Session!HandlerAt,
            Session!HandlerGoto, Session!CloserAt, Session!CloserGoto, Session!NotClosing
<1> SUFFICES ASSUME SessionTypes, HandlerInv, CallInv, BarrierInv, CutInv,
                    [Session!Next]_(Session!vars)
             PROVE  CutInv'
  OBVIOUS
<1>1. ASSUME NEW a \in Session!Closers, Session!Close(a) PROVE CutInv'
  <2>1. CASE Session!StartControlClose(a)
    BY <2>1 DEF Session!StartControlClose, Session!MarkCause, SessionTypes, HandlerInv, CallInv,
       CutInv, WillCut, Session!Waiting, Session!NoCall, Session!Closers
  <2>2. CASE Session!ReleaseBarrier(a)
    BY <2>2 DEF Session!ReleaseBarrier, SessionTypes, HandlerInv, CallInv, CutInv, WillCut,
       Session!Waiting, Session!NoCall, Session!Closers
  <2>3. CASE Session!AwaitBarrier(a)
    BY <2>3 DEF Session!AwaitBarrier, Session!BarrierUp, SessionTypes, HandlerInv, CallInv,
       CutInv, WillCut, Session!Waiting, Session!NoCall, Session!Closers
  <2>4. CASE Session!BeginClosing(a)
    <3>1. /\ closer[a] = "begin" /\ Session!TakeCancels(a, holds)
          /\ UNCHANGED <<inflightCancel, inflightGen, holds, cancelled, handler>>
      BY <2>4 DEF Session!BeginClosing
    <3>2. CASE Session!BarrierUp
      <4>1. PICK b \in Session!Closers : closer[b] = "write"
        BY <3>2 DEF BarrierInv
      <4>2. closer'[b] = "write"
        BY <3>1, <3>2, <4>1 DEF Session!TakeCancels, SessionTypes
      <4> QED BY <4>2 DEF CutInv, WillCut
    <3>3. CASE ~Session!BarrierUp /\ Session!Waiting /\ inflightGen \notin cancelled
      <4>1. holds = 0 /\ inflightCancel = inflightGen
        BY <3>3 DEF HandlerInv, CallInv, Session!Waiting
      <4>2. closer'[a] = "cancel" /\ taken'[a] = inflightGen
        BY <3>1, <3>3, <4>1 DEF Session!TakeCancels, SessionTypes
      <4> QED BY <3>1, <4>2 DEF CutInv, WillCut
    <3> QED BY <3>1, <3>2, <3>3 DEF CutInv, Session!Waiting
  <2>5. CASE Session!CallCancels(a)
    BY <2>5 DEF Session!CallCancels, SessionTypes, HandlerInv, CallInv, CutInv, WillCut,
       Session!Waiting, Session!NoCall, Session!Closers
  <2>6. CASE Session!HardClose(a)
    BY <2>6 DEF Session!HardClose, Session!BarrierUp, SessionTypes, HandlerInv, CallInv, CutInv,
       WillCut, Session!Waiting, Session!NoCall, Session!Closers
  <2> QED BY <1>1, <2>1, <2>2, <2>3, <2>4, <2>5, <2>6 DEF Session!Close
<1>2. CASE Session!BeginHolding
  BY <1>2 DEF Session!BeginHolding, Session!Hold, Session!TakeCancels, Session!MarkCause,
     Session!BarrierUp, SessionTypes, HandlerInv, CallInv, CutInv, WillCut, Session!Waiting,
     Session!NoCall, Session!Closers
<1>3. CASE Session!Register
  BY <1>3 DEF Session!Register, Session!Admitted, SessionTypes, HandlerInv, CallInv, CutInv,
     WillCut, Session!Waiting, Session!NoCall, Session!Closers
<1>4. CASE Session!Refuse
  BY <1>4 DEF Session!Refuse, Session!Admitted, SessionTypes, HandlerInv, CallInv, CutInv,
     WillCut, Session!Waiting, Session!NoCall, Session!Closers
<1>5. CASE Session!TakeFrame
  BY <1>5 DEF Session!TakeFrame, SessionTypes, HandlerInv, CallInv, CutInv, WillCut,
     Session!Waiting, Session!NoCall, Session!Closers
<1>6. CASE Session!LeaveLoop
  BY <1>6 DEF Session!LeaveLoop, SessionTypes, HandlerInv, CallInv, CutInv, WillCut,
     Session!Waiting, Session!NoCall, Session!Closers
<1>7. CASE Session!BeginTurn
  BY <1>7 DEF Session!BeginTurn, SessionTypes, HandlerInv, CallInv, CutInv, WillCut,
     Session!Waiting, Session!NoCall, Session!Closers
<1>8. CASE Session!PostTurn
  BY <1>8 DEF Session!PostTurn, Session!SetInflightCancel, Session!Over, SessionTypes,
     HandlerInv, CallInv, CutInv, WillCut, Session!Waiting, Session!NoCall, Session!Closers
<1>9. CASE Session!PostCompaction
  BY <1>9 DEF Session!PostCompaction, Session!SetInflightCancel, Session!Over, SessionTypes,
     HandlerInv, CallInv, CutInv, WillCut, Session!Waiting, Session!NoCall, Session!Closers
<1>10. CASE Session!Answered
  BY <1>10 DEF Session!Answered, SessionTypes, HandlerInv, CallInv, CutInv, WillCut,
     Session!Waiting, Session!NoCall, Session!Closers
<1>11. CASE Session!WriteFails
  BY <1>11 DEF Session!WriteFails, SessionTypes, HandlerInv, CallInv, CutInv, WillCut,
     Session!Waiting, Session!NoCall, Session!Closers
<1>12. CASE Session!StreamEnds
  BY <1>12 DEF Session!StreamEnds, SessionTypes, HandlerInv, CallInv, CutInv, WillCut,
     Session!Waiting, Session!NoCall, Session!Closers
<1>13. CASE Session!FinishFailed
  BY <1>13 DEF Session!FinishFailed, Session!FinishCall, SessionTypes, HandlerInv, CallInv,
     CutInv, WillCut, Session!Waiting, Session!NoCall, Session!Closers
<1>14. CASE Session!FinishComplete
  BY <1>14 DEF Session!FinishComplete, Session!FinishCall, SessionTypes, HandlerInv, CallInv,
     CutInv, WillCut, Session!Waiting, Session!NoCall, Session!Closers
<1>15. CASE Session!FinishCompaction
  BY <1>15 DEF Session!FinishCompaction, Session!FinishCall, SessionTypes, HandlerInv, CallInv,
     CutInv, WillCut, Session!Waiting, Session!NoCall, Session!Closers
<1>16. CASE Session!MaybeCompact
  BY <1>16 DEF Session!MaybeCompact, SessionTypes, HandlerInv, CallInv, CutInv, WillCut,
     Session!Waiting, Session!NoCall, Session!Closers
<1>17. CASE Session!Served
  BY <1>17 DEF Session!Served, SessionTypes, HandlerInv, CallInv, CutInv, WillCut,
     Session!Waiting, Session!NoCall, Session!Closers
<1>18. CASE Session!EndHandler
  BY <1>18 DEF Session!EndHandler, SessionTypes, HandlerInv, CallInv, CutInv, WillCut,
     Session!Waiting, Session!NoCall, Session!Closers
<1>19. CASE Session!Unregister
  BY <1>19 DEF Session!Unregister, SessionTypes, HandlerInv, CallInv, CutInv, WillCut,
     Session!Waiting, Session!NoCall, Session!Closers
<1>20. CASE Session!ReadFrame
  BY <1>20 DEF Session!ReadFrame, Session!PumpAt, Session!SlotFree, SessionTypes, HandlerInv,
     CallInv, CutInv, WillCut, Session!Waiting, Session!NoCall, Session!Closers
<1>21. CASE Session!TooMany
  BY <1>21 DEF Session!TooMany, Session!PumpAt, Session!SlotFree, SessionTypes, HandlerInv,
     CallInv, CutInv, WillCut, Session!Waiting, Session!NoCall, Session!Closers
<1>22. CASE Session!QueueFrame
  BY <1>22 DEF Session!QueueFrame, Session!PumpAt, SessionTypes, HandlerInv, CallInv, CutInv,
     WillCut, Session!Waiting, Session!NoCall, Session!Closers
<1>23. CASE Session!ReadFails
  BY <1>23 DEF Session!ReadFails, Session!PumpAt, SessionTypes, HandlerInv, CallInv, CutInv,
     WillCut, Session!Waiting, Session!NoCall, Session!Closers
<1>24. CASE Session!PumpEnds
  BY <1>24 DEF Session!PumpEnds, Session!PumpAt, SessionTypes, HandlerInv, CallInv, CutInv,
     WillCut, Session!Waiting, Session!NoCall, Session!Closers
<1>25. CASE Session!PingFails
  BY <1>25 DEF Session!PingFails, SessionTypes, HandlerInv, CallInv, CutInv, WillCut,
     Session!Waiting, Session!NoCall, Session!Closers
<1>26. CASE Session!PingEnds
  BY <1>26 DEF Session!PingEnds, SessionTypes, HandlerInv, CallInv, CutInv, WillCut,
     Session!Waiting, Session!NoCall, Session!Closers
<1>27. CASE Session!Drain
  BY <1>27 DEF Session!Drain, Session!ShutdownAt, SessionTypes, HandlerInv, CallInv, CutInv,
     WillCut, Session!Waiting, Session!NoCall, Session!Closers
<1>28. CASE Session!MarkServerShutdown
  BY <1>28 DEF Session!MarkServerShutdown, Session!ShutdownAt, Session!MarkCause, SessionTypes,
     HandlerInv, CallInv, CutInv, WillCut, Session!Waiting, Session!NoCall, Session!Closers
<1>29. CASE Session!AwaitHandler
  BY <1>29 DEF Session!AwaitHandler, Session!ShutdownAt, SessionTypes, HandlerInv, CallInv,
     CutInv, WillCut, Session!Waiting, Session!NoCall, Session!Closers
<1>30. CASE UNCHANGED Session!vars
  BY <1>30 DEF Session!vars, SessionTypes, HandlerInv, CallInv, CutInv, WillCut,
     Session!Waiting, Session!NoCall, Session!Closers
<1> QED BY <1>1, <1>2, <1>3, <1>4, <1>5, <1>6, <1>7, <1>8, <1>9, <1>10, <1>11,
   <1>12, <1>13, <1>14, <1>15, <1>16, <1>17, <1>18, <1>19, <1>20, <1>21,
   <1>22, <1>23, <1>24, <1>25, <1>26, <1>27, <1>28, <1>29, <1>30 DEF Session!Next

\* The shutdown reaches every session.
LEMMA DrainStep ==
  DrainInv /\ [Session!Next]_(Session!vars) => DrainInv'
<1> USE DEF Session!closeVars, Session!callVars, Session!contextVars, Session!drainVars,
            Session!queueVars, Session!closerVars, Session!goroutines, Session!HandlerAt,
            Session!HandlerGoto, Session!CloserAt, Session!CloserGoto, Session!NotClosing
<1> SUFFICES ASSUME DrainInv,
                    [Session!Next]_(Session!vars)
             PROVE  DrainInv'
  OBVIOUS
<1>1. ASSUME NEW a \in Session!Closers, Session!Close(a) PROVE DrainInv'
  <2>1. CASE Session!StartControlClose(a)
    BY <2>1 DEF Session!StartControlClose, Session!MarkCause, DrainInv, Outside
  <2>2. CASE Session!ReleaseBarrier(a)
    BY <2>2 DEF Session!ReleaseBarrier, DrainInv, Outside
  <2>3. CASE Session!AwaitBarrier(a)
    BY <2>3 DEF Session!AwaitBarrier, Session!BarrierUp, DrainInv, Outside
  <2>4. CASE Session!BeginClosing(a)
    BY <2>4 DEF Session!BeginClosing, Session!TakeCancels, Session!MarkCause, Session!BarrierUp,
       DrainInv, Outside
  <2>5. CASE Session!CallCancels(a)
    BY <2>5 DEF Session!CallCancels, DrainInv, Outside
  <2>6. CASE Session!HardClose(a)
    BY <2>6 DEF Session!HardClose, Session!BarrierUp, DrainInv, Outside
  <2> QED BY <1>1, <2>1, <2>2, <2>3, <2>4, <2>5, <2>6 DEF Session!Close
<1>2. CASE Session!BeginHolding
  BY <1>2 DEF Session!BeginHolding, Session!Hold, Session!TakeCancels, Session!MarkCause,
     Session!BarrierUp, DrainInv, Outside
<1>3. CASE Session!Register
  BY <1>3 DEF Session!Register, Session!Admitted, DrainInv, Outside
<1>4. CASE Session!Refuse
  BY <1>4 DEF Session!Refuse, Session!Admitted, DrainInv, Outside
<1>5. CASE Session!TakeFrame
  BY <1>5 DEF Session!TakeFrame, DrainInv, Outside
<1>6. CASE Session!LeaveLoop
  BY <1>6 DEF Session!LeaveLoop, DrainInv, Outside
<1>7. CASE Session!BeginTurn
  BY <1>7 DEF Session!BeginTurn, DrainInv, Outside
<1>8. CASE Session!PostTurn
  BY <1>8 DEF Session!PostTurn, Session!SetInflightCancel, Session!Over, DrainInv, Outside
<1>9. CASE Session!PostCompaction
  BY <1>9 DEF Session!PostCompaction, Session!SetInflightCancel, Session!Over, DrainInv, Outside
<1>10. CASE Session!Answered
  BY <1>10 DEF Session!Answered, DrainInv, Outside
<1>11. CASE Session!WriteFails
  BY <1>11 DEF Session!WriteFails, DrainInv, Outside
<1>12. CASE Session!StreamEnds
  BY <1>12 DEF Session!StreamEnds, DrainInv, Outside
<1>13. CASE Session!FinishFailed
  BY <1>13 DEF Session!FinishFailed, Session!FinishCall, DrainInv, Outside
<1>14. CASE Session!FinishComplete
  BY <1>14 DEF Session!FinishComplete, Session!FinishCall, DrainInv, Outside
<1>15. CASE Session!FinishCompaction
  BY <1>15 DEF Session!FinishCompaction, Session!FinishCall, DrainInv, Outside
<1>16. CASE Session!MaybeCompact
  BY <1>16 DEF Session!MaybeCompact, DrainInv, Outside
<1>17. CASE Session!Served
  BY <1>17 DEF Session!Served, DrainInv, Outside
<1>18. CASE Session!EndHandler
  BY <1>18 DEF Session!EndHandler, DrainInv, Outside
<1>19. CASE Session!Unregister
  BY <1>19 DEF Session!Unregister, DrainInv, Outside
<1>20. CASE Session!ReadFrame
  BY <1>20 DEF Session!ReadFrame, Session!PumpAt, Session!SlotFree, DrainInv, Outside
<1>21. CASE Session!TooMany
  BY <1>21 DEF Session!TooMany, Session!PumpAt, Session!SlotFree, DrainInv, Outside
<1>22. CASE Session!QueueFrame
  BY <1>22 DEF Session!QueueFrame, Session!PumpAt, DrainInv, Outside
<1>23. CASE Session!ReadFails
  BY <1>23 DEF Session!ReadFails, Session!PumpAt, DrainInv, Outside
<1>24. CASE Session!PumpEnds
  BY <1>24 DEF Session!PumpEnds, Session!PumpAt, DrainInv, Outside
<1>25. CASE Session!PingFails
  BY <1>25 DEF Session!PingFails, DrainInv, Outside
<1>26. CASE Session!PingEnds
  BY <1>26 DEF Session!PingEnds, DrainInv, Outside
<1>27. CASE Session!Drain
  BY <1>27 DEF Session!Drain, Session!ShutdownAt, DrainInv, Outside
<1>28. CASE Session!MarkServerShutdown
  BY <1>28 DEF Session!MarkServerShutdown, Session!ShutdownAt, Session!MarkCause, DrainInv,
     Outside
<1>29. CASE Session!AwaitHandler
  BY <1>29 DEF Session!AwaitHandler, Session!ShutdownAt, DrainInv, Outside
<1>30. CASE UNCHANGED Session!vars
  BY <1>30 DEF Session!vars, DrainInv, Outside
<1> QED BY <1>1, <1>2, <1>3, <1>4, <1>5, <1>6, <1>7, <1>8, <1>9, <1>10, <1>11,
   <1>12, <1>13, <1>14, <1>15, <1>16, <1>17, <1>18, <1>19, <1>20, <1>21,
   <1>22, <1>23, <1>24, <1>25, <1>26, <1>27, <1>28, <1>29, <1>30 DEF Session!Next

\* Slots are taken and given back with the requests.
LEMMA QueueStep ==
  ASSUME SessionLimit \in Nat
  PROVE  QueueInv /\ [Session!Next]_(Session!vars) => QueueInv'
<1> USE DEF Session!closeVars, Session!callVars, Session!contextVars, Session!drainVars,
            Session!queueVars, Session!closerVars, Session!goroutines, Session!HandlerAt,
            Session!HandlerGoto, Session!CloserAt, Session!CloserGoto, Session!NotClosing
<1> SUFFICES ASSUME QueueInv,
                    [Session!Next]_(Session!vars)
             PROVE  QueueInv'
  OBVIOUS
<1>1. ASSUME NEW a \in Session!Closers, Session!Close(a) PROVE QueueInv'
  <2>1. CASE Session!StartControlClose(a)
    BY <2>1 DEF Session!StartControlClose, Session!MarkCause, QueueInv, Busy, Sending
  <2>2. CASE Session!ReleaseBarrier(a)
    BY <2>2 DEF Session!ReleaseBarrier, QueueInv, Busy, Sending
  <2>3. CASE Session!AwaitBarrier(a)
    BY <2>3 DEF Session!AwaitBarrier, Session!BarrierUp, QueueInv, Busy, Sending
  <2>4. CASE Session!BeginClosing(a)
    BY <2>4 DEF Session!BeginClosing, Session!TakeCancels, Session!MarkCause, Session!BarrierUp,
       QueueInv, Busy, Sending
  <2>5. CASE Session!CallCancels(a)
    BY <2>5 DEF Session!CallCancels, QueueInv, Busy, Sending
  <2>6. CASE Session!HardClose(a)
    BY <2>6 DEF Session!HardClose, Session!BarrierUp, QueueInv, Busy, Sending
  <2> QED BY <1>1, <2>1, <2>2, <2>3, <2>4, <2>5, <2>6 DEF Session!Close
<1>2. CASE Session!BeginHolding
  BY <1>2 DEF Session!BeginHolding, Session!Hold, Session!TakeCancels, Session!MarkCause,
     Session!BarrierUp, QueueInv, Busy, Sending
<1>3. CASE Session!Register
  BY <1>3 DEF Session!Register, Session!Admitted, QueueInv, Busy, Sending
<1>4. CASE Session!Refuse
  BY <1>4 DEF Session!Refuse, Session!Admitted, QueueInv, Busy, Sending
<1>5. CASE Session!TakeFrame
  BY <1>5 DEF Session!TakeFrame, QueueInv, Busy, Sending
<1>6. CASE Session!LeaveLoop
  BY <1>6 DEF Session!LeaveLoop, QueueInv, Busy, Sending
<1>7. CASE Session!BeginTurn
  BY <1>7 DEF Session!BeginTurn, QueueInv, Busy, Sending
<1>8. CASE Session!PostTurn
  BY <1>8 DEF Session!PostTurn, Session!SetInflightCancel, Session!Over, QueueInv, Busy, Sending
<1>9. CASE Session!PostCompaction
  BY <1>9 DEF Session!PostCompaction, Session!SetInflightCancel, Session!Over, QueueInv, Busy,
     Sending
<1>10. CASE Session!Answered
  BY <1>10 DEF Session!Answered, QueueInv, Busy, Sending
<1>11. CASE Session!WriteFails
  BY <1>11 DEF Session!WriteFails, QueueInv, Busy, Sending
<1>12. CASE Session!StreamEnds
  BY <1>12 DEF Session!StreamEnds, QueueInv, Busy, Sending
<1>13. CASE Session!FinishFailed
  BY <1>13 DEF Session!FinishFailed, Session!FinishCall, QueueInv, Busy, Sending
<1>14. CASE Session!FinishComplete
  BY <1>14 DEF Session!FinishComplete, Session!FinishCall, QueueInv, Busy, Sending
<1>15. CASE Session!FinishCompaction
  BY <1>15 DEF Session!FinishCompaction, Session!FinishCall, QueueInv, Busy, Sending
<1>16. CASE Session!MaybeCompact
  BY <1>16 DEF Session!MaybeCompact, QueueInv, Busy, Sending
<1>17. CASE Session!Served
  BY <1>17 DEF Session!Served, QueueInv, Busy, Sending
<1>18. CASE Session!EndHandler
  BY <1>18 DEF Session!EndHandler, QueueInv, Busy, Sending
<1>19. CASE Session!Unregister
  BY <1>19 DEF Session!Unregister, QueueInv, Busy, Sending
<1>20. CASE Session!ReadFrame
  BY <1>20 DEF Session!ReadFrame, Session!PumpAt, Session!SlotFree, QueueInv, Busy, Sending
<1>21. CASE Session!TooMany
  BY <1>21 DEF Session!TooMany, Session!PumpAt, Session!SlotFree, QueueInv, Busy, Sending
<1>22. CASE Session!QueueFrame
  BY <1>22 DEF Session!QueueFrame, Session!PumpAt, QueueInv, Busy, Sending
<1>23. CASE Session!ReadFails
  BY <1>23 DEF Session!ReadFails, Session!PumpAt, QueueInv, Busy, Sending
<1>24. CASE Session!PumpEnds
  BY <1>24 DEF Session!PumpEnds, Session!PumpAt, QueueInv, Busy, Sending
<1>25. CASE Session!PingFails
  BY <1>25 DEF Session!PingFails, QueueInv, Busy, Sending
<1>26. CASE Session!PingEnds
  BY <1>26 DEF Session!PingEnds, QueueInv, Busy, Sending
<1>27. CASE Session!Drain
  BY <1>27 DEF Session!Drain, Session!ShutdownAt, QueueInv, Busy, Sending
<1>28. CASE Session!MarkServerShutdown
  BY <1>28 DEF Session!MarkServerShutdown, Session!ShutdownAt, Session!MarkCause, QueueInv,
     Busy, Sending
<1>29. CASE Session!AwaitHandler
  BY <1>29 DEF Session!AwaitHandler, Session!ShutdownAt, QueueInv, Busy, Sending
<1>30. CASE UNCHANGED Session!vars
  BY <1>30 DEF Session!vars, QueueInv, Busy, Sending
<1> QED BY <1>1, <1>2, <1>3, <1>4, <1>5, <1>6, <1>7, <1>8, <1>9, <1>10, <1>11,
   <1>12, <1>13, <1>14, <1>15, <1>16, <1>17, <1>18, <1>19, <1>20, <1>21,
   <1>22, <1>23, <1>24, <1>25, <1>26, <1>27, <1>28, <1>29, <1>30 DEF Session!Next


\* Every reachable state satisfies the invariant.
THEOREM SessionInvariant == Session!Spec => []SessionInv
<1>1. Session!Init => SessionInv
  BY InitSessionInv
<1>2. SessionInv /\ [Session!Next]_(Session!vars) => SessionInv'
  BY SessionTypesStep, HandlerStep, CallStep, BarrierStep, CutStep, DrainStep DEF SessionInv
<1> QED BY <1>1, <1>2, PTL DEF Session!Spec

\* The other protocols change nothing of a session.
LEMMA SessionAlone == InProcessSpec => Session!Spec
<1>1. InProcessInit => Session!Init
  BY DEF InProcessInit
<1>2. [InProcessNext]_allVars => [Session!Next]_(Session!vars)
  BY DEF InProcessNext, allVars, sessionVars, Session!vars, Session!closeVars, Session!callVars,
     Session!contextVars, Session!drainVars, Session!queueVars, Session!closerVars,
     Session!goroutines
<1> QED BY <1>1, <1>2, PTL DEF InProcessSpec, Session!Spec

\* Once those who close a session have gone through, the upstream call its
\* handler waits for is cancelled, and a shutdown that is done leaves no
\* session served (beginClosing, setInflightCancel and
\* ShutdownWebSocketSessions).
THEOREM SessionsAlwaysCut == InProcessSpec => []SessionsCut
<1> USE DEF Session!closeVars, Session!callVars, Session!contextVars, Session!drainVars,
            Session!queueVars, Session!closerVars, Session!goroutines, Session!HandlerAt,
            Session!HandlerGoto, Session!CloserAt, Session!CloserGoto, Session!NotClosing
<1>1. SessionInv => Session!CallsCut
  BY DEF SessionInv, CutInv, WillCut, Session!CallsCut
<1>2. SessionInv => Session!DrainCovers
  BY DEF SessionInv, DrainInv, Outside, Session!DrainCovers
<1>3. SessionInv => SessionsCut
  BY <1>1, <1>2 DEF SessionsCut, Session!SessionsCut
<1> QED BY <1>3, SessionInvariant, SessionAlone, PTL

\* The requests a session has accepted fit in its queue, whatever the limit
\* (readPump and the loop of HandleResponsesWebSocket).
THEOREM OneAlwaysQueued == InProcessSpec => []OneQueued
<1>1. Session!Init => QueueInv
  BY SessionAssumption DEF Session!Init, QueueInv, Busy, Sending
<1>2. QueueInv /\ [Session!Next]_(Session!vars) => QueueInv'
  BY QueueStep, SessionAssumption
<1>3. QueueInv => OneQueued
  BY SessionAssumption DEF QueueInv, Busy, Sending, OneQueued, Session!OneQueued
<1> QED BY <1>1, <1>2, <1>3, SessionAlone, PTL DEF Session!Spec

-----------------------------------------------------------------------------
(* PolicyRouting                                                           *)

\* One call joins or leaves those that are counted.
LEMMA CountJoins ==
  ASSUME NEW U, IsFiniteSet(U), NEW S \in SUBSET U, NEW T, NEW c \in U, c \notin S,
         T = S \cup {c}
  PROVE  Cardinality(T) = Cardinality(S) + 1 /\ Cardinality(S) \in Nat
  BY FS_Subset, FS_AddElement, FS_CardinalityType

LEMMA CountLeaves ==
  ASSUME NEW U, IsFiniteSet(U), NEW S \in SUBSET U, NEW T, NEW c \in S, T = S \ {c}
  PROVE  /\ Cardinality(T) = Cardinality(S) - 1 /\ Cardinality(S) \in Nat
         /\ Cardinality(S) # 0
<1>1. IsFiniteSet(S) /\ IsFiniteSet(T) /\ Cardinality(S) \in Nat
  BY FS_Subset, FS_CardinalityType
<1>2. Cardinality(S) # 0
  BY <1>1, FS_EmptySet
<1> QED
  BY <1>1, <1>2, FS_RemoveElement

CallType ==
  [pc : {"idle", "gated", "freed"} \cup Policy!Holding, mode : Policy!Modes,
   profile : Profiles \cup {None}, probe : BOOLEAN, generation : Nat]
BreakerType ==
  [failures : Nat, generation : Nat, until : {"zero", "future", "past"}, halfOpen : BOOLEAN]
AttemptType ==
  [pc : {"idle", "waiting", "running", "failing", "returning", "finishing", "done"},
   todo : SUBSET Routes, failures : BOOLEAN, success : BOOLEAN]

CallTypes ==
  /\ call \in [Calls -> CallType]
  /\ \A c \in Calls : call[c].pc = "idle" <=> call[c].profile = None
BreakerTypes == breaker \in [Routes -> BreakerType] /\ stale \subseteq Calls
ProfileTypes ==
  /\ mode \in [Profiles -> Policy!Modes]
  /\ ready \in [Profiles -> BOOLEAN] /\ required \in [Profiles -> BOOLEAN]
PreflightTypes ==
  /\ draining \in BOOLEAN /\ pending \in BOOLEAN /\ attempts \in Nat
  /\ permit \in BOOLEAN /\ diagnostic \in BOOLEAN
  /\ attempt \in [Attempts -> AttemptType]

\* A call keeps its slots from the admission to the release of its lease.
UsesGlobal(c) == call[c].pc \in {"admitted", "granted", "running", "settled"}
UsesProfile(c, p) ==
  call[c].pc \in Policy!Holding \cup {"freed"} /\ call[c].profile = p
GlobalUsers == {c \in Calls : UsesGlobal(c)}
ProfileUsers(p) == {c \in Calls : UsesProfile(c, p)}
GlobalCounted ==
  globalSlots = Cardinality(GlobalUsers) /\ globalSlots <= GlobalCapacity
ProfileCounted(p) ==
  /\ profileSlots[p] = Cardinality(ProfileUsers(p))
  /\ profileSlots[p] <= ProfileCapacity
SlotInv ==
  /\ profileSlots \in [Profiles -> Nat] /\ globalSlots \in Nat
  /\ GlobalCounted /\ \A p \in Profiles : ProfileCounted(p)

\* A permit of the present generation was granted since the breaker last
\* opened or closed: it is the half-open one if the breaker has opened.
HasPermit(c) == call[c].pc \in Policy!Permitted
IsProbe(c) == HasPermit(c) /\ call[c].probe
PermitOK(c) ==
  HasPermit(c) =>
    /\ call[c].generation <= Policy!BreakerOf(c).generation
    /\ Policy!IsCurrent(c) =>
         /\ Policy!BreakerOf(c).until # "future"
         /\ call[c].probe <=> Policy!BreakerOf(c).until = "past"
    /\ call[c].probe => Policy!IsCurrent(c) /\ Policy!BreakerOf(c).halfOpen

\* The half-open flag has an owner, and one only.
ProbeOK(r) ==
  /\ breaker[r].halfOpen => \E c \in Calls : IsProbe(c) /\ Policy!RouteOfCall(c) = r
  /\ \A c, d \in Calls :
       IsProbe(c) /\ IsProbe(d) /\ Policy!RouteOfCall(c) = r /\ Policy!RouteOfCall(d) = r
         => c = d
StaleOK(c) == c \in stale => HasPermit(c) /\ ~Policy!IsCurrent(c)
BreakerInv ==
  /\ \A c \in Calls : PermitOK(c) /\ StaleOK(c)
  /\ \A r \in Routes : ProbeOK(r)

\* A step that leaves the breakers and the permits alone.
LEMMA BreakersStay ==
  ASSUME BreakerTypes, BreakerInv, UNCHANGED <<breaker, stale>>,
         \A c \in Calls : HasPermit(c) \/ HasPermit(c)' =>
           /\ HasPermit(c) /\ HasPermit(c)'
           /\ call'[c].profile = call[c].profile /\ call'[c].probe = call[c].probe
           /\ call'[c].generation = call[c].generation
  PROVE  BreakerTypes' /\ BreakerInv'
<1>1. BreakerTypes'
  BY DEF BreakerTypes
<1>2. ASSUME NEW c \in Calls, HasPermit(c)
      PROVE  /\ Policy!BreakerOf(c)' = Policy!BreakerOf(c)
             /\ Policy!RouteOfCall(c)' = Policy!RouteOfCall(c)
             /\ Policy!IsCurrent(c)' = Policy!IsCurrent(c)
  BY <1>2 DEF Policy!BreakerOf, Policy!RouteOfCall, Policy!IsCurrent
<1>3. \A c \in Calls : PermitOK(c)' /\ StaleOK(c)'
  BY <1>2 DEF BreakerInv, PermitOK, StaleOK
<1>4. \A c \in Calls : IsProbe(c)' <=> IsProbe(c)
  BY DEF IsProbe
<1>5. ASSUME NEW r \in Routes PROVE ProbeOK(r)'
  BY <1>2, <1>4 DEF BreakerInv, ProbeOK, IsProbe
<1> QED
  BY <1>1, <1>3, <1>5 DEF BreakerInv

\* tryAcquire grants a permit, the half-open one if nobody has it.
LEMMA BreakerGranted ==
  ASSUME PolicyConstants, CallTypes, CallTypes', BreakerTypes, BreakerInv,
         NEW c \in Calls, call[c].pc = "admitted",
         ~Policy!Refused(Policy!BreakerOf(c)), UNCHANGED stale,
         \A d \in Calls : d # c => call'[d] = call[d],
         call'[c].pc = "granted", call'[c].profile = call[c].profile,
         call'[c].probe = (Policy!BreakerOf(c).until = "past"),
         call'[c].generation = Policy!BreakerOf(c).generation,
         breaker' = [breaker EXCEPT ![Policy!RouteOfCall(c)].halfOpen =
                       @ \/ Policy!BreakerOf(c).until = "past"]
  PROVE  BreakerTypes' /\ BreakerInv'
<1> DEFINE r == Policy!RouteOfCall(c)
           b == breaker[r]
           probe == b.until = "past"
<1>1. r \in Routes /\ b \in BreakerType
  BY DEF PolicyConstants, CallTypes, CallType, BreakerTypes, Policy!RouteOfCall
<1>2. Policy!BreakerOf(c) = b /\ b.until # "future" /\ (probe => ~b.halfOpen)
  BY DEF Policy!BreakerOf, Policy!Refused
<1>3. /\ breaker'[r].generation = b.generation /\ breaker'[r].until = b.until
      /\ breaker'[r].halfOpen = (b.halfOpen \/ probe)
      /\ \A s \in Routes : s # r => breaker'[s] = breaker[s]
  BY <1>1, <1>2 DEF BreakerTypes, BreakerType
<1>4. BreakerTypes'
  BY <1>1, <1>2 DEF BreakerTypes, BreakerType
<1>5. Policy!RouteOfCall(c)' = r
  BY DEF Policy!RouteOfCall
<1>6. ~HasPermit(c) /\ HasPermit(c)' /\ c \notin stale
  BY DEF HasPermit, Policy!Permitted, BreakerInv, StaleOK
<1>7. \A s \in Routes : breaker'[s].generation = breaker[s].generation
                        /\ breaker'[s].until = breaker[s].until
  BY <1>3
<1>8. PermitOK(c)' /\ StaleOK(c)'
  <2>1. Policy!BreakerOf(c)' = breaker'[r]
    BY <1>5 DEF Policy!BreakerOf
  <2>2. b.generation \in Nat
    BY <1>1 DEF BreakerType
  <2>3. call'[c].probe <=> probe
    BY <1>2
  <2> QED
    BY <1>1, <1>2, <1>3, <1>6, <2>1, <2>2, <2>3 DEF PermitOK, StaleOK, Policy!IsCurrent
<1>9. ASSUME NEW d \in Calls, d # c PROVE PermitOK(d)' /\ StaleOK(d)'
  <2>1. /\ call'[d] = call[d] /\ (HasPermit(d)' <=> HasPermit(d))
        /\ Policy!RouteOfCall(d)' = Policy!RouteOfCall(d)
    BY <1>9 DEF HasPermit, Policy!RouteOfCall
  <2>2. CASE ~HasPermit(d)
    BY <2>1, <2>2 DEF PermitOK, StaleOK, BreakerInv
  <2>3. CASE HasPermit(d)
    <3>1. Policy!RouteOfCall(d) \in Routes
      BY <2>3 DEF HasPermit, Policy!Permitted, PolicyConstants, CallTypes, CallType,
                  Policy!RouteOfCall
    <3>2. /\ Policy!BreakerOf(d)'.generation = Policy!BreakerOf(d).generation
          /\ Policy!BreakerOf(d)'.until = Policy!BreakerOf(d).until
          /\ Policy!BreakerOf(d).halfOpen => Policy!BreakerOf(d)'.halfOpen
      BY <1>3, <2>1, <3>1, ZenonT(60) DEF Policy!BreakerOf
    <3>3. Policy!IsCurrent(d)' <=> Policy!IsCurrent(d)
      BY <2>1, <3>2 DEF Policy!IsCurrent
    <3> QED
      BY <2>1, <3>2, <3>3 DEF PermitOK, StaleOK, BreakerInv
  <2> QED
    BY <2>2, <2>3
<1>10. \A d \in Calls : d # c => /\ IsProbe(d)' <=> IsProbe(d)
                                 /\ Policy!RouteOfCall(d)' = Policy!RouteOfCall(d)
  BY DEF IsProbe, HasPermit, Policy!RouteOfCall
<1>11. IsProbe(c)' <=> probe
  BY <1>2, <1>6 DEF IsProbe
<1>12. ~IsProbe(c)
  BY <1>6 DEF IsProbe
<1>13. probe => \A d \in Calls : IsProbe(d) => Policy!RouteOfCall(d) # r
  BY <1>1, <1>2 DEF BreakerInv, PermitOK, IsProbe, Policy!BreakerOf
<1>14. ASSUME NEW s \in Routes PROVE ProbeOK(s)'
  <2>1. ProbeOK(s)
    BY DEF BreakerInv
  <2>2. CASE s # r
    BY <1>3, <1>5, <1>10, <1>12, <2>1, <2>2 DEF ProbeOK
  <2>3. CASE s = r /\ probe
    BY <1>5, <1>10, <1>11, <1>13, <2>3 DEF ProbeOK
  <2>4. CASE s = r /\ ~probe
    BY <1>3, <1>5, <1>10, <1>11, <1>12, <2>1, <2>4, ZenonT(60) DEF ProbeOK
  <2> QED
    BY <2>2, <2>3, <2>4
<1> QED
  BY <1>4, <1>8, <1>9, <1>14 DEF BreakerInv

\* What a settlement leaves of the breaker: a change of generation, or no
\* change of what the permits that are out depend on; and never a half-open
\* flag that was the settled permit's.
LEMMA SettledBreaker ==
  ASSUME PolicyConstants, NEW b \in BreakerType, NEW probe \in BOOLEAN,
         NEW outcome \in Policy!Outcomes, b.until # "future", probe <=> b.until = "past",
         NEW n, n = Policy!Settlement(b, probe, outcome)
  PROVE  /\ n \in BreakerType
         /\ n.generation = b.generation + 1 \/ (n.generation = b.generation /\ n.until = b.until)
         /\ probe => ~n.halfOpen
         /\ ~probe /\ ~b.halfOpen => ~n.halfOpen
<1> USE DEF Policy!Opened, BreakerType, PolicyConstants
<1>1. CASE outcome = "accepted"
  BY <1>1 DEF Policy!Settlement, Policy!Succeeded
<1>2. CASE outcome = "retryAfter"
  BY <1>2 DEF Policy!Settlement, Policy!Failed
<1>3. CASE outcome = "failed"
  <2>1. n = Policy!Failed(b, probe, FALSE)
    BY <1>3 DEF Policy!Settlement
  <2>2. CASE probe \/ b.failures + 1 >= FailureThreshold
    BY <2>1, <2>2 DEF Policy!Failed
  <2>3. CASE ~(probe \/ b.failures + 1 >= FailureThreshold)
    <3>1. n = [b EXCEPT !.halfOpen = FALSE, !.failures = b.failures + 1]
      BY <2>1, <2>3 DEF Policy!Failed
    <3>2. n \in BreakerType
      <4>1. \A x \in Nat : [b EXCEPT !.halfOpen = FALSE, !.failures = x] \in BreakerType
        OBVIOUS
      <4>2. b.failures + 1 \in Nat
        OBVIOUS
      <4> QED
        BY <3>1, <4>1, <4>2, ZenonT(30)
    <3>3. n.generation = b.generation /\ n.until = b.until /\ n.halfOpen = FALSE
      BY <3>1
    <3> QED
      BY <3>2, <3>3, <2>3
  <2> QED
    BY <2>2, <2>3
<1>4. CASE outcome = "neutral"
  BY <1>4 DEF Policy!Settlement, Policy!Released
<1> QED
  BY <1>1, <1>2, <1>3, <1>4 DEF Policy!Outcomes

\* The permit of c is settled, and c has none any more.
LEMMA BreakerSettled ==
  ASSUME PolicyConstants, CallTypes, BreakerTypes, BreakerInv,
         NEW c \in Calls, HasPermit(c), NEW outcome \in Policy!Outcomes,
         Policy!Settles(c, outcome),
         \A d \in Calls : d # c => call'[d] = call[d], ~HasPermit(c)'
  PROVE  BreakerTypes' /\ BreakerInv'
<1> DEFINE r == Policy!RouteOfCall(c)
           b == breaker[r]
           n == breaker'[r]
<1>1. \A d \in Calls : HasPermit(d) => Policy!RouteOfCall(d) \in Routes
  BY DEF HasPermit, Policy!Permitted, PolicyConstants, CallTypes, CallType,
         Policy!RouteOfCall
<1>2. r \in Routes /\ b \in BreakerType /\ Policy!BreakerOf(c) = b
      /\ call[c].probe \in BOOLEAN /\ call[c].generation \in Nat
  BY <1>1 DEF BreakerTypes, CallTypes, CallType, Policy!BreakerOf
<1>3. \A s \in Routes : s # r => breaker'[s] = breaker[s]
  BY DEF Policy!Settles, BreakerTypes
<1>4. PermitOK(c) /\ ProbeOK(r)
  BY <1>2 DEF BreakerInv
<1>5. ASSUME NEW d \in Calls, d # c
      PROVE  /\ call'[d] = call[d] /\ (HasPermit(d)' <=> HasPermit(d))
             /\ (IsProbe(d)' <=> IsProbe(d))
             /\ Policy!RouteOfCall(d)' = Policy!RouteOfCall(d)
  BY <1>5 DEF HasPermit, IsProbe, Policy!RouteOfCall
<1>6. ~IsProbe(c)' /\ c \notin stale'
  BY DEF IsProbe, Policy!Settles, Policy!Permits
<1>7. stale' \subseteq Calls
  BY DEF Policy!Settles, Policy!Permits, BreakerTypes
<1>8. CASE ~Policy!IsCurrent(c)
  <2>1. breaker' = breaker /\ stale' = stale \ {c}
    BY <1>2, <1>8 DEF Policy!Settles, BreakerTypes, BreakerType
  <2>2. ~IsProbe(c)
    BY <1>4, <1>8 DEF PermitOK, IsProbe
  <2>3. ASSUME NEW d \in Calls, d # c PROVE PermitOK(d)' /\ StaleOK(d)'
    BY <1>5, <2>1, <2>3
    DEF BreakerInv, PermitOK, StaleOK, Policy!BreakerOf, Policy!IsCurrent
  <2>4. PermitOK(c)' /\ StaleOK(c)'
    BY <1>6 DEF PermitOK, StaleOK
  <2>5. ASSUME NEW s \in Routes PROVE ProbeOK(s)'
    BY <1>5, <1>6, <2>1, <2>2 DEF ProbeOK, BreakerInv
  <2> QED
    BY <2>1, <2>3, <2>4, <2>5 DEF BreakerTypes, BreakerInv
<1>9. CASE Policy!IsCurrent(c)
  <2>1. b.until # "future" /\ (call[c].probe <=> b.until = "past")
    BY <1>2, <1>4, <1>9 DEF PermitOK
  <2>2. n = Policy!Settlement(b, call[c].probe, outcome)
    BY <1>2, <1>9 DEF Policy!Settles, BreakerTypes
  <2>3. /\ n \in BreakerType
        /\ n.generation = b.generation + 1 \/ (n.generation = b.generation /\ n.until = b.until)
        /\ call[c].probe => ~n.halfOpen
        /\ ~call[c].probe /\ ~b.halfOpen => ~n.halfOpen
    <3> HIDE DEF n, b, r
    <3> QED
      BY <1>2, <2>1, <2>2, SettledBreaker
  \* No other call on this route has a half-open permit.
  <2>4. ASSUME NEW d \in Calls, d # c, IsProbe(d) PROVE Policy!RouteOfCall(d) # r
    <3>1. SUFFICES ASSUME Policy!RouteOfCall(d) = r PROVE FALSE
      OBVIOUS
    <3>2. Policy!BreakerOf(d) = b
      BY <3>1 DEF Policy!BreakerOf
    <3>3. b.until = "past"
      BY <2>4, <3>2 DEF BreakerInv, PermitOK, IsProbe
    <3>4. IsProbe(c)
      BY <2>1, <3>3 DEF IsProbe
    <3> QED
      BY <1>4, <2>4, <3>1, <3>4 DEF ProbeOK
  <2>5. ~n.halfOpen
    <3>1. CASE call[c].probe
      BY <2>3, <3>1
    <3>2. CASE ~call[c].probe
      <4>1. \A d \in Calls : IsProbe(d) => Policy!RouteOfCall(d) # r
        BY <2>4, <3>2 DEF IsProbe
      <4>2. ~b.halfOpen
        BY <1>4, <4>1 DEF ProbeOK
      <4> QED
        BY <2>3, <3>2, <4>2
    <3> QED
      BY <3>1, <3>2
  <2>6. BreakerTypes'
    BY <1>2, <1>3, <1>7, <2>3 DEF BreakerTypes, Policy!Settles
  <2>7. stale' = (stale \ {c}) \cup (IF n.until # b.until THEN Policy!Permits(r) \ {c} ELSE {})
    BY <1>2, <1>9, <2>2 DEF Policy!Settles
  <2>8. ASSUME NEW d \in Calls, d # c PROVE PermitOK(d)' /\ StaleOK(d)'
    <3>1. PermitOK(d) /\ StaleOK(d)
      BY DEF BreakerInv
    <3>2. CASE ~HasPermit(d)
      <4>1. d \notin stale'
        BY <2>7, <3>1, <3>2 DEF StaleOK, HasPermit, Policy!Permits
      <4> QED
        BY <1>5, <2>8, <3>2, <4>1 DEF PermitOK, StaleOK
    <3>3. CASE HasPermit(d) /\ Policy!RouteOfCall(d) # r
      <4>1. Policy!BreakerOf(d)' = Policy!BreakerOf(d)
        BY <1>1, <1>3, <1>5, <2>8, <3>3 DEF Policy!BreakerOf
      <4>2. Policy!IsCurrent(d)' <=> Policy!IsCurrent(d)
        BY <1>5, <2>8, <4>1 DEF Policy!IsCurrent
      <4>3. d \in stale' => d \in stale
        BY <2>7, <3>3 DEF Policy!Permits
      <4> QED
        BY <1>5, <2>8, <3>1, <3>3, <4>1, <4>2, <4>3 DEF PermitOK, StaleOK
    <3>4. CASE HasPermit(d) /\ Policy!RouteOfCall(d) = r
      <4>1. Policy!BreakerOf(d) = b /\ Policy!BreakerOf(d)' = n
        BY <1>5, <2>8, <3>4 DEF Policy!BreakerOf
      <4>2. ~call[d].probe
        BY <2>4, <2>8, <3>4 DEF IsProbe
      <4>3. /\ call[d].generation \in Nat /\ call[d].generation <= b.generation
            /\ b.generation \in Nat
        BY <1>2, <3>1, <3>4, <4>1 DEF PermitOK, CallTypes, CallType, BreakerType
      <4>4. CASE n.generation = b.generation + 1
        <5>1. ~Policy!IsCurrent(d)' /\ call[d].generation <= n.generation
          BY <1>5, <2>8, <4>1, <4>3, <4>4 DEF Policy!IsCurrent
        <5> QED
          BY <1>5, <2>8, <3>4, <4>1, <4>2, <5>1 DEF PermitOK, StaleOK
      <4>5. CASE n.generation = b.generation /\ n.until = b.until
        <5>1. Policy!IsCurrent(d)' <=> Policy!IsCurrent(d)
          BY <1>5, <2>8, <4>1, <4>5 DEF Policy!IsCurrent
        <5>2. d \in stale' => d \in stale
          BY <2>7, <4>5
        <5> QED
          BY <1>5, <2>8, <3>1, <3>4, <4>1, <4>2, <4>5, <5>1, <5>2 DEF PermitOK, StaleOK
      <4> QED
        BY <2>3, <4>4, <4>5
    <3> QED
      BY <3>2, <3>3, <3>4
  <2>9. PermitOK(c)' /\ StaleOK(c)'
    BY <1>6 DEF PermitOK, StaleOK
  <2>10. ASSUME NEW s \in Routes PROVE ProbeOK(s)'
    <3>1. ProbeOK(s)
      BY DEF BreakerInv
    <3>2. CASE s # r
      <4>1. breaker'[s] = breaker[s]
        BY <1>3, <3>2
      <4> QED
        BY <1>5, <1>6, <3>1, <3>2, <4>1 DEF ProbeOK
    <3>3. CASE s = r
      BY <1>5, <1>6, <2>4, <2>5, <3>3 DEF ProbeOK
    <3> QED
      BY <3>2, <3>3
  <2> QED
    BY <2>6, <2>8, <2>9, <2>10 DEF BreakerInv
<1> QED
  BY <1>8, <1>9

\* The cooldown ends: whoever has a permit then is of an earlier generation.
LEMMA CooldownEnded ==
  ASSUME PolicyConstants, CallTypes, BreakerTypes, BreakerInv, NEW r \in Routes,
         Policy!CooldownEnds(r)
  PROVE  BreakerTypes' /\ BreakerInv' /\ UNCHANGED call
<1> USE DEF Policy!callVars, Policy!CooldownEnds
<1>1. /\ breaker[r] \in BreakerType /\ breaker[r].until = "future"
      /\ breaker' = [breaker EXCEPT ![r].until = "past"] /\ UNCHANGED <<stale, call>>
  BY DEF BreakerTypes
<1>2. BreakerTypes'
  BY <1>1 DEF BreakerTypes, BreakerType
<1>3. \A s \in Routes : /\ breaker'[s].generation = breaker[s].generation
                        /\ breaker'[s].halfOpen = breaker[s].halfOpen
                        /\ s # r => breaker'[s].until = breaker[s].until
  BY <1>1 DEF BreakerTypes, BreakerType
<1>4. \A d \in Calls : (IsProbe(d)' <=> IsProbe(d)) /\ (HasPermit(d)' <=> HasPermit(d))
                       /\ Policy!RouteOfCall(d)' = Policy!RouteOfCall(d)
  BY <1>1 DEF IsProbe, HasPermit, Policy!RouteOfCall
<1>5. ASSUME NEW d \in Calls PROVE PermitOK(d)' /\ StaleOK(d)'
  <2>1. PermitOK(d) /\ StaleOK(d)
    BY DEF BreakerInv
  <2>2. CASE ~HasPermit(d)
    BY <1>1, <1>4, <2>1, <2>2 DEF PermitOK, StaleOK
  <2>3. CASE HasPermit(d)
    <3>1. Policy!RouteOfCall(d) \in Routes
      BY <2>3 DEF HasPermit, Policy!Permitted, PolicyConstants, CallTypes, CallType,
                  Policy!RouteOfCall
    <3>2. /\ Policy!BreakerOf(d)'.generation = Policy!BreakerOf(d).generation
          /\ Policy!BreakerOf(d)'.halfOpen = Policy!BreakerOf(d).halfOpen
          /\ Policy!IsCurrent(d)' <=> Policy!IsCurrent(d)
      BY <1>1, <1>3, <1>4, <3>1 DEF Policy!BreakerOf, Policy!IsCurrent
    <3>3. Policy!IsCurrent(d) => Policy!BreakerOf(d)'.until = Policy!BreakerOf(d).until
      BY <1>1, <1>3, <1>4, <2>1, <2>3, <3>1 DEF Policy!BreakerOf, PermitOK
    <3> QED
      BY <1>1, <1>4, <2>1, <2>3, <3>2, <3>3 DEF PermitOK, StaleOK
  <2> QED
    BY <2>2, <2>3
<1>6. ASSUME NEW s \in Routes PROVE ProbeOK(s)'
  BY <1>3, <1>4 DEF BreakerInv, ProbeOK
<1> QED
  BY <1>1, <1>2, <1>5, <1>6 DEF BreakerInv

\* A step that leaves the slots, and what each call uses of them, alone.
LEMMA SlotsStay ==
  ASSUME SlotInv, UNCHANGED <<profileSlots, globalSlots>>,
         \A d \in Calls : /\ UsesGlobal(d)' <=> UsesGlobal(d)
                          /\ \A p \in Profiles : UsesProfile(d, p)' <=> UsesProfile(d, p)
  PROVE  SlotInv'
<1>1. GlobalUsers' = GlobalUsers
  BY DEF GlobalUsers
<1>2. \A p \in Profiles : ProfileUsers(p)' = ProfileUsers(p)
  BY DEF ProfileUsers
<1> QED
  BY <1>1, <1>2 DEF SlotInv, GlobalCounted, ProfileCounted

\* A call takes a slot of the process, or gives it back.
LEMMA GlobalSlotMoves ==
  ASSUME PolicyConstants, SlotInv, UNCHANGED profileSlots, NEW c \in Calls,
         \A d \in Calls : /\ d # c => (UsesGlobal(d)' <=> UsesGlobal(d))
                          /\ \A p \in Profiles : UsesProfile(d, p)' <=> UsesProfile(d, p),
         \/ /\ ~UsesGlobal(c) /\ UsesGlobal(c)'
            /\ globalSlots < GlobalCapacity /\ globalSlots' = globalSlots + 1
         \/ /\ UsesGlobal(c) /\ ~UsesGlobal(c)'
            /\ globalSlots' = globalSlots - 1
  PROVE  SlotInv'
<1>1. \A p \in Profiles : ProfileUsers(p)' = ProfileUsers(p)
  BY DEF ProfileUsers
<1>2. IsFiniteSet(Calls) /\ GlobalUsers \in SUBSET Calls
  BY DEF PolicyConstants, GlobalUsers
<1>3. /\ globalSlots \in Nat /\ GlobalCapacity \in Nat
      /\ globalSlots = Cardinality(GlobalUsers) /\ globalSlots <= GlobalCapacity
  BY DEF SlotInv, GlobalCounted, PolicyConstants
<1>4. globalSlots' \in Nat /\ GlobalCounted'
  <2>1. CASE ~UsesGlobal(c)
    <3>1. GlobalUsers' = GlobalUsers \cup {c} /\ c \notin GlobalUsers
      BY <2>1 DEF GlobalUsers
    <3>2. Cardinality(GlobalUsers') = Cardinality(GlobalUsers) + 1
      BY <1>2, <3>1, CountJoins
    <3>3. globalSlots' = globalSlots + 1 /\ globalSlots < GlobalCapacity
      BY <2>1
    <3> QED
      BY <1>3, <3>2, <3>3 DEF GlobalCounted
  <2>2. CASE UsesGlobal(c)
    <3>1. GlobalUsers' = GlobalUsers \ {c} /\ c \in GlobalUsers
      BY <2>2 DEF GlobalUsers
    <3>2. /\ Cardinality(GlobalUsers') = Cardinality(GlobalUsers) - 1
          /\ Cardinality(GlobalUsers) # 0
      BY <1>2, <3>1, CountLeaves
    <3>3. globalSlots' = globalSlots - 1
      BY <2>2
    <3> QED
      BY <1>3, <3>2, <3>3 DEF GlobalCounted
  <2> QED
    BY <2>1, <2>2
<1> QED
  BY <1>1, <1>4 DEF SlotInv, ProfileCounted

\* A call takes a slot of its profile, or gives it back.
LEMMA ProfileSlotMoves ==
  ASSUME PolicyConstants, SlotInv, UNCHANGED globalSlots, NEW c \in Calls, NEW q \in Profiles,
         \A d \in Calls : /\ UsesGlobal(d)' <=> UsesGlobal(d)
                          /\ \A p \in Profiles : d # c \/ p # q
                               => (UsesProfile(d, p)' <=> UsesProfile(d, p)),
         \/ /\ ~UsesProfile(c, q) /\ UsesProfile(c, q)'
            /\ profileSlots[q] < ProfileCapacity
            /\ profileSlots' = [profileSlots EXCEPT ![q] = @ + 1]
         \/ /\ UsesProfile(c, q) /\ ~UsesProfile(c, q)'
            /\ profileSlots' = [profileSlots EXCEPT ![q] = @ - 1]
  PROVE  SlotInv'
<1>1. GlobalUsers' = GlobalUsers
  BY DEF GlobalUsers
<1>2. IsFiniteSet(Calls) /\ ProfileUsers(q) \in SUBSET Calls
  BY DEF PolicyConstants, ProfileUsers
<1>3. /\ profileSlots \in [Profiles -> Nat] /\ ProfileCapacity \in Nat
      /\ profileSlots[q] = Cardinality(ProfileUsers(q)) /\ profileSlots[q] <= ProfileCapacity
  BY DEF SlotInv, ProfileCounted, PolicyConstants
<1>4. \A p \in Profiles : p # q => profileSlots'[p] = profileSlots[p]
  BY <1>3
<1>5. \A p \in Profiles : p # q => ProfileUsers(p)' = ProfileUsers(p)
  BY DEF ProfileUsers
<1>6. profileSlots' \in [Profiles -> Nat] /\ ProfileCounted(q)'
  <2>1. CASE ~UsesProfile(c, q)
    <3>1. ProfileUsers(q)' = ProfileUsers(q) \cup {c} /\ c \notin ProfileUsers(q)
      BY <2>1 DEF ProfileUsers
    <3>2. Cardinality(ProfileUsers(q)') = Cardinality(ProfileUsers(q)) + 1
      BY <1>2, <3>1, CountJoins
    <3>3. profileSlots[q] < ProfileCapacity
          /\ profileSlots' = [profileSlots EXCEPT ![q] = profileSlots[q] + 1]
      BY <2>1
    <3>4. profileSlots' \in [Profiles -> Nat] /\ profileSlots'[q] = profileSlots[q] + 1
      BY <1>3, <3>3
    <3> QED
      BY <1>3, <3>2, <3>3, <3>4 DEF ProfileCounted
  <2>2. CASE UsesProfile(c, q)
    <3>1. ProfileUsers(q)' = ProfileUsers(q) \ {c} /\ c \in ProfileUsers(q)
      BY <2>2 DEF ProfileUsers
    <3>2. /\ Cardinality(ProfileUsers(q)') = Cardinality(ProfileUsers(q)) - 1
          /\ Cardinality(ProfileUsers(q)) # 0
      BY <1>2, <3>1, CountLeaves
    <3>3. profileSlots' = [profileSlots EXCEPT ![q] = profileSlots[q] - 1]
      BY <2>2
    <3>4. profileSlots[q] - 1 \in Nat
      BY <1>3, <3>2
    <3>5. profileSlots' \in [Profiles -> Nat] /\ profileSlots'[q] = profileSlots[q] - 1
      BY <1>3, <3>3, <3>4
    <3> QED
      BY <1>3, <3>2, <3>5 DEF ProfileCounted
  <2> QED
    BY <2>1, <2>2
<1> QED
  BY <1>1, <1>4, <1>5, <1>6 DEF SlotInv, GlobalCounted, ProfileCounted

ClassificationInv == CallTypes /\ BreakerTypes /\ SlotInv /\ BreakerInv

\* A step of a classification.
LEMMA ClassificationStep ==
  ASSUME PolicyConstants, ClassificationInv, ProfileTypes, NEW c \in Calls, Policy!Classification(c)
  PROVE  ClassificationInv' /\ UNCHANGED <<mode, ready, required>>
                  /\ UNCHANGED <<draining, pending, attempts, permit, attempt, diagnostic>>
<1> USE DEF Policy!profileVars, Policy!slotVars, Policy!gateVars, Policy!preflightVars,
            Policy!callVars, Policy!breakerVars
<1>0. /\ call[c] \in CallType /\ Policy!NoCall \in CallType
      /\ UNCHANGED <<mode, ready, required>>
      /\ UNCHANGED <<draining, pending, attempts, permit, attempt, diagnostic>>
  <2>1. call[c] \in CallType /\ Policy!NoCall \in CallType
    BY DEF ClassificationInv, CallTypes, CallType, Policy!NoCall, Policy!Modes
  <2> QED
    BY <2>1
    DEF Policy!Classification, Policy!Arrive, Policy!PlanWithout, Policy!PlanClassify,
        Policy!AcquireGlobal, Policy!GlobalFull, Policy!AcquireBreaker, Policy!BreakerOpen,
        Policy!Launch, Policy!WorkerRefused, Policy!Classified, Policy!ReleaseGlobal,
        Policy!LeaseReleased
\* Each step changes one call; this is what becomes of it.
<1>1. ASSUME NEW x \in CallType, call' = [call EXCEPT ![c] = x],
             x.pc = "idle" <=> x.profile = None
      PROVE  /\ CallTypes' /\ call'[c] = x
             /\ \A d \in Calls : d # c => call'[d] = call[d]
             /\ \A d \in Calls : d # c => UsesGlobal(d)' = UsesGlobal(d)
             /\ \A d \in Calls : d # c =>
                  \A p \in Profiles : UsesProfile(d, p)' = UsesProfile(d, p)
  <2>1. CallTypes' /\ call'[c] = x /\ \A d \in Calls : d # c => call'[d] = call[d]
    BY <1>1 DEF ClassificationInv, CallTypes
  <2> QED
    BY <2>1 DEF UsesGlobal, UsesProfile
\* The permit of c is not touched.
<1>2. ASSUME \A d \in Calls : d # c => call'[d] = call[d], UNCHANGED <<breaker, stale>>,
             \/ ~HasPermit(c) /\ ~HasPermit(c)'
             \/ HasPermit(c) /\ HasPermit(c)'
                /\ call'[c].profile = call[c].profile /\ call'[c].probe = call[c].probe
                /\ call'[c].generation = call[c].generation
      PROVE  BreakerTypes' /\ BreakerInv'
  <2>1. \A d \in Calls : d # c => HasPermit(d)' = HasPermit(d)
    BY <1>2 DEF HasPermit
  <2> QED
    BY <1>2, <2>1, BreakersStay DEF ClassificationInv
\* Of a call that has no permit only the phase, the mode and the profile count.
<1>3. ASSUME NEW x \in CallType, call' = [call EXCEPT ![c] = x], UNCHANGED <<breaker, stale>>,
             x.pc = "idle" <=> x.profile = None,
             call[c].pc \notin Policy!Permitted, x.pc \notin Policy!Permitted
      PROVE  CallTypes' /\ BreakerTypes' /\ BreakerInv'
  <2>1. CallTypes' /\ call'[c] = x /\ \A d \in Calls : d # c => call'[d] = call[d]
    BY <1>1, <1>3
  <2> QED
    BY <1>2, <1>3, <2>1 DEF HasPermit
<1>4. ASSUME NEW p \in Profiles, Policy!Arrive(c, p) PROVE ClassificationInv'
  <2> DEFINE x == [call[c] EXCEPT !.pc = "gated", !.profile = p]
  <2>1. /\ x \in CallType /\ x.pc = "gated" /\ x.profile = p /\ call[c].pc = "idle"
        /\ call' = [call EXCEPT ![c] = x]
        /\ UNCHANGED <<breaker, stale, profileSlots, globalSlots>> /\ p # None
    BY <1>0, <1>4, ZenonT(60) DEF Policy!Arrive, CallType, PolicyConstants
  <2> HIDE DEF x
  <2>2. /\ call'[c] = x
        /\ \A d \in Calls : d # c =>
             /\ UsesGlobal(d)' = UsesGlobal(d)
             /\ \A q \in Profiles : UsesProfile(d, q)' = UsesProfile(d, q)
    BY <1>1, <2>1
  <2>3. ~UsesGlobal(c) /\ ~UsesGlobal(c)' /\ \A q : ~UsesProfile(c, q) /\ ~UsesProfile(c, q)'
    BY <2>1, <2>2 DEF UsesGlobal, UsesProfile, Policy!Holding
  <2>4. SlotInv'
    BY <2>1, <2>2, <2>3, SlotsStay DEF ClassificationInv
  <2>5. CallTypes' /\ BreakerTypes' /\ BreakerInv'
    BY <1>3, <2>1 DEF Policy!Permitted
  <2> QED
    BY <2>4, <2>5 DEF ClassificationInv
<1>5. ASSUME Policy!PlanWithout(c) PROVE ClassificationInv'
  <2> DEFINE x == Policy!NoCall
  <2>1. /\ x \in CallType /\ x.pc = "idle" /\ x.profile = None /\ call[c].pc = "gated"
        /\ call' = [call EXCEPT ![c] = x]
        /\ UNCHANGED <<breaker, stale, profileSlots, globalSlots>>
    BY <1>0, <1>5 DEF Policy!PlanWithout, Policy!Ends, Policy!NoCall
  <2> HIDE DEF x
  <2>2. /\ call'[c] = x
        /\ \A d \in Calls : d # c =>
             /\ UsesGlobal(d)' = UsesGlobal(d)
             /\ \A q \in Profiles : UsesProfile(d, q)' = UsesProfile(d, q)
    BY <1>1, <2>1
  <2>3. ~UsesGlobal(c) /\ ~UsesGlobal(c)' /\ \A q : ~UsesProfile(c, q) /\ ~UsesProfile(c, q)'
    BY <2>1, <2>2 DEF UsesGlobal, UsesProfile, Policy!Holding
  <2>4. SlotInv'
    BY <2>1, <2>2, <2>3, SlotsStay DEF ClassificationInv
  <2>5. CallTypes' /\ BreakerTypes' /\ BreakerInv'
    BY <1>3, <2>1 DEF Policy!Permitted
  <2> QED
    BY <2>4, <2>5 DEF ClassificationInv
\* The slots of the profile.
<1>6. ASSUME Policy!PlanClassify(c) PROVE ClassificationInv'
  <2>0. PICK p \in Profiles : p = call[c].profile
    BY <1>0, <1>6 DEF Policy!PlanClassify, ClassificationInv, CallTypes, CallType
  <2> DEFINE x == [call[c] EXCEPT !.pc = "slot", !.mode = mode[p]]
  <2>1. p \in Profiles /\ mode[p] \in Policy!Modes
    BY <2>0, <1>0, <1>6 DEF Policy!PlanClassify, ClassificationInv, CallTypes, CallType, ProfileTypes
  <2>2. /\ x \in CallType /\ x.pc = "slot" /\ x.profile = p /\ call[c].pc = "gated"
        /\ call' = [call EXCEPT ![c] = x]
        /\ UNCHANGED <<breaker, stale, globalSlots>> /\ p # None
        /\ profileSlots[p] < ProfileCapacity
        /\ profileSlots' = [profileSlots EXCEPT ![p] = @ + 1]
    BY <1>0, <1>6, <2>0, <2>1, ZenonT(60) DEF Policy!PlanClassify, CallType, PolicyConstants, Policy!Holding
  <2> HIDE DEF x
  <2>3. /\ call'[c] = x
        /\ \A d \in Calls : d # c =>
             /\ UsesGlobal(d)' = UsesGlobal(d)
             /\ \A q \in Profiles : UsesProfile(d, q)' = UsesProfile(d, q)
    BY <1>1, <2>2
  <2>4. /\ ~UsesGlobal(c) /\ ~UsesGlobal(c)' /\ ~UsesProfile(c, p) /\ UsesProfile(c, p)'
        /\ \A q \in Profiles : q # p => ~UsesProfile(c, q) /\ ~UsesProfile(c, q)'
    BY <2>2, <2>3 DEF UsesGlobal, UsesProfile, Policy!Holding
  <2>5. \A d \in Calls :
          /\ UsesGlobal(d)' <=> UsesGlobal(d)
          /\ \A q \in Profiles : d # c \/ q # p => (UsesProfile(d, q)' <=> UsesProfile(d, q))
    BY <2>3, <2>4
  <2>6. SlotInv'
    BY <2>2, <2>4, <2>5, ProfileSlotMoves DEF ClassificationInv
  <2>7. CallTypes' /\ BreakerTypes' /\ BreakerInv'
    BY <1>3, <2>2 DEF Policy!Permitted
  <2> QED
    BY <2>6, <2>7 DEF ClassificationInv
<1>7. ASSUME Policy!GlobalFull(c) \/ Policy!LeaseReleased(c) PROVE ClassificationInv'
  <2> DEFINE x == Policy!NoCall
  <2>1. PICK p \in Profiles : p = call[c].profile
    BY <1>0, <1>7 DEF Policy!GlobalFull, Policy!LeaseReleased, ClassificationInv, CallTypes, CallType
  <2>2. /\ x \in CallType /\ x.pc = "idle" /\ x.profile = None
        /\ call[c].pc \in {"slot", "freed"}
        /\ call' = [call EXCEPT ![c] = x]
        /\ UNCHANGED <<breaker, stale, globalSlots>>
        /\ profileSlots' = [profileSlots EXCEPT ![p] = @ - 1]
    BY <1>0, <1>7, <2>1 DEF Policy!GlobalFull, Policy!LeaseReleased, Policy!ReleaseProfile,
                            Policy!Ends, Policy!NoCall
  <2>3. p = call[c].profile
    BY <2>1
  <2> HIDE DEF x
  <2>4. /\ call'[c] = x
        /\ \A d \in Calls : d # c =>
             /\ UsesGlobal(d)' = UsesGlobal(d)
             /\ \A q \in Profiles : UsesProfile(d, q)' = UsesProfile(d, q)
    BY <1>1, <2>2
  <2>5. /\ ~UsesGlobal(c) /\ ~UsesGlobal(c)' /\ UsesProfile(c, p) /\ ~UsesProfile(c, p)'
        /\ \A q \in Profiles : q # p => ~UsesProfile(c, q) /\ ~UsesProfile(c, q)'
    BY <2>2, <2>3, <2>4 DEF UsesGlobal, UsesProfile, Policy!Holding
  <2>6. \A d \in Calls :
          /\ UsesGlobal(d)' <=> UsesGlobal(d)
          /\ \A q \in Profiles : d # c \/ q # p => (UsesProfile(d, q)' <=> UsesProfile(d, q))
    BY <2>4, <2>5
  <2>7. SlotInv'
    BY <2>2, <2>5, <2>6, ProfileSlotMoves DEF ClassificationInv
  <2>8. CallTypes' /\ BreakerTypes' /\ BreakerInv'
    BY <1>3, <2>2 DEF Policy!Permitted
  <2> QED
    BY <2>7, <2>8 DEF ClassificationInv
\* What else a call that holds a slot of its profile does.
<1>8. ASSUME NEW x \in CallType, call' = [call EXCEPT ![c] = x], UNCHANGED profileSlots,
             call[c].pc \in Policy!Holding, x.pc \in Policy!Holding \cup {"freed"},
             x.profile = call[c].profile,
             \/ /\ UNCHANGED globalSlots /\ call[c].pc # "slot" /\ x.pc \notin {"slot", "freed"}
             \/ /\ call[c].pc = "slot" /\ x.pc = "admitted"
                /\ globalSlots < GlobalCapacity /\ globalSlots' = globalSlots + 1
             \/ /\ call[c].pc = "settled" /\ x.pc = "freed" /\ globalSlots' = globalSlots - 1
      PROVE  SlotInv' /\ CallTypes' /\ \A d \in Calls : d # c => call'[d] = call[d]
  <2>1. /\ call[c].pc # "idle" /\ x.pc # "idle"
        /\ x.pc = "idle" <=> x.profile = None
    BY <1>0, <1>8 DEF Policy!Holding, ClassificationInv, CallTypes
  <2>2. /\ call'[c] = x /\ CallTypes' /\ \A d \in Calls : d # c => call'[d] = call[d]
        /\ \A d \in Calls : d # c =>
             /\ UsesGlobal(d)' = UsesGlobal(d)
             /\ \A q \in Profiles : UsesProfile(d, q)' = UsesProfile(d, q)
    BY <1>1, <1>8, <2>1
  <2>3. \A q \in Profiles : UsesProfile(c, q)' <=> UsesProfile(c, q)
    BY <1>8, <2>2 DEF UsesProfile
  <2>4. UsesGlobal(c)' <=> x.pc \in {"admitted", "granted", "running", "settled"}
    BY <2>2 DEF UsesGlobal
  <2>5. CASE UNCHANGED globalSlots /\ call[c].pc # "slot" /\ x.pc \notin {"slot", "freed"}
    <3>1. UsesGlobal(c)' <=> UsesGlobal(c)
      BY <1>8, <2>4, <2>5 DEF UsesGlobal, Policy!Holding
    <3> QED
      BY <1>8, <2>2, <2>3, <2>5, <3>1, SlotsStay DEF ClassificationInv
  <2>6. CASE /\ call[c].pc = "slot" /\ x.pc = "admitted"
             /\ globalSlots < GlobalCapacity /\ globalSlots' = globalSlots + 1
    <3>1. ~UsesGlobal(c) /\ UsesGlobal(c)'
      BY <2>4, <2>6 DEF UsesGlobal
    <3> QED
      BY <1>8, <2>2, <2>3, <2>6, <3>1, GlobalSlotMoves DEF ClassificationInv
  <2>7. CASE call[c].pc = "settled" /\ x.pc = "freed" /\ globalSlots' = globalSlots - 1
    <3>1. UsesGlobal(c) /\ ~UsesGlobal(c)'
      BY <2>4, <2>7 DEF UsesGlobal
    <3> QED
      BY <1>8, <2>2, <2>3, <2>7, <3>1, GlobalSlotMoves DEF ClassificationInv
  <2> QED
    BY <1>8, <2>5, <2>6, <2>7
<1>9. ASSUME Policy!AcquireGlobal(c) \/ Policy!BreakerOpen(c) \/ Policy!ReleaseGlobal(c)
      PROVE  ClassificationInv'
  <2>1. PICK pc0 \in {"admitted", "settled", "freed"} :
          /\ call' = [call EXCEPT ![c].pc = pc0]
          /\ UNCHANGED <<profileSlots, breaker, stale>>
          /\ call[c].pc \in {"slot", "admitted", "settled"}
          /\ \/ /\ UNCHANGED globalSlots /\ call[c].pc # "slot" /\ pc0 # "freed"
             \/ /\ call[c].pc = "slot" /\ pc0 = "admitted"
                /\ globalSlots < GlobalCapacity /\ globalSlots' = globalSlots + 1
             \/ /\ call[c].pc = "settled" /\ pc0 = "freed" /\ globalSlots' = globalSlots - 1
    BY <1>9 DEF Policy!AcquireGlobal, Policy!BreakerOpen, Policy!ReleaseGlobal, Policy!Goes
  <2> DEFINE x == [call[c] EXCEPT !.pc = pc0]
  <2>2. /\ x \in CallType /\ x.pc = pc0 /\ x.profile = call[c].profile
        /\ call' = [call EXCEPT ![c] = x]
    BY <1>0, <2>1 DEF CallType, Policy!Holding
  <2> HIDE DEF x
  <2>3. SlotInv' /\ CallTypes'
    BY <1>8, <2>1, <2>2 DEF Policy!Holding
  <2>4. x.pc = "idle" <=> x.profile = None
    BY <2>1, <2>2 DEF ClassificationInv, CallTypes
  <2>5. BreakerTypes' /\ BreakerInv'
    BY <1>3, <2>1, <2>2, <2>4 DEF Policy!Permitted
  <2> QED
    BY <2>3, <2>5 DEF ClassificationInv
<1>10. ASSUME Policy!AcquireBreaker(c) PROVE ClassificationInv'
  <2> DEFINE b == Policy!BreakerOf(c)
             x == [call[c] EXCEPT !.pc = "granted", !.probe = (b.until = "past"),
                                  !.generation = b.generation]
  <2>1. b.generation \in Nat
    <3>1. call[c].profile \in Profiles
      BY <1>0, <1>10 DEF Policy!AcquireBreaker, ClassificationInv, CallTypes, CallType
    <3>2. Policy!RouteOfCall(c) \in Routes
      BY <3>1 DEF Policy!RouteOfCall, PolicyConstants
    <3> QED
      BY <3>2 DEF Policy!BreakerOf, ClassificationInv, BreakerTypes, BreakerType
  <2>2. /\ call[c].pc = "admitted" /\ ~Policy!Refused(b)
        /\ breaker' = [breaker EXCEPT ![Policy!RouteOfCall(c)].halfOpen =
                         @ \/ b.until = "past"]
        /\ call' = [call EXCEPT ![c] = x] /\ UNCHANGED <<stale, profileSlots, globalSlots>>
    BY <1>10 DEF Policy!AcquireBreaker
  <2>3. /\ x \in CallType /\ x.pc = "granted" /\ x.profile = call[c].profile
        /\ x.probe = (b.until = "past") /\ x.generation = b.generation
    BY <1>0, <2>1 DEF CallType, Policy!Holding
  <2>4. b = Policy!BreakerOf(c)
    OBVIOUS
  <2> HIDE DEF x, b
  <2>5. SlotInv' /\ CallTypes' /\ \A d \in Calls : d # c => call'[d] = call[d]
    BY <1>8, <2>2, <2>3, ZenonT(60) DEF Policy!Holding
  <2>6. call'[c] = x
    BY <2>2 DEF ClassificationInv, CallTypes
  <2>7. BreakerTypes' /\ BreakerInv'
    BY <2>2, <2>3, <2>4, <2>5, <2>6, BreakerGranted DEF ClassificationInv
  <2> QED
    BY <2>5, <2>7 DEF ClassificationInv
<1>11. ASSUME Policy!Goes(c, "running") \/ Policy!Goes(c, "settled"),
              call[c].pc \in Policy!Permitted, UNCHANGED <<profileSlots, globalSlots>>
       PROVE  /\ SlotInv' /\ CallTypes' /\ \A d \in Calls : d # c => call'[d] = call[d]
              /\ call'[c].pc \in {"running", "settled"}
              /\ Policy!Goes(c, "running") => call'[c].pc = "running"
              /\ Policy!Goes(c, "settled") => call'[c].pc = "settled"
              /\ call'[c].profile = call[c].profile /\ call'[c].probe = call[c].probe
              /\ call'[c].generation = call[c].generation
  <2>1. PICK pc0 \in {"running", "settled"} : Policy!Goes(c, pc0)
    BY <1>11
  <2> DEFINE x == [call[c] EXCEPT !.pc = pc0]
  <2>2. /\ x \in CallType /\ x.pc = pc0 /\ x.profile = call[c].profile
        /\ x.probe = call[c].probe /\ x.generation = call[c].generation
        /\ call' = [call EXCEPT ![c] = x]
    BY <1>0, <2>1 DEF CallType, Policy!Holding, Policy!Goes
  <2>3. /\ Policy!Goes(c, "running") => pc0 = "running"
        /\ Policy!Goes(c, "settled") => pc0 = "settled"
    BY <1>0, <2>2 DEF Policy!Goes, ClassificationInv, CallTypes, CallType
  <2> HIDE DEF x
  <2>4. SlotInv' /\ CallTypes' /\ \A d \in Calls : d # c => call'[d] = call[d]
    BY <1>8, <1>11, <2>1, <2>2 DEF Policy!Holding, Policy!Permitted
  <2>5. call'[c] = x
    BY <2>2 DEF ClassificationInv, CallTypes
  <2> QED
    BY <2>2, <2>3, <2>4, <2>5
<1>12. ASSUME Policy!Launch(c) PROVE ClassificationInv'
  <2>1. /\ Policy!Goes(c, "running") /\ call[c].pc \in Policy!Permitted
        /\ UNCHANGED <<breaker, stale, profileSlots, globalSlots>>
    BY <1>12 DEF Policy!Launch, Policy!Permitted
  <2>2. BreakerTypes' /\ BreakerInv'
    BY <1>2, <1>11, <2>1 DEF HasPermit, Policy!Permitted
  <2> QED
    BY <1>11, <2>1, <2>2 DEF ClassificationInv
<1>13. ASSUME NEW outcome \in Policy!Outcomes,
              Policy!Classified(c, outcome)
              \/ (Policy!WorkerRefused(c) /\ outcome = "neutral")
       PROVE  ClassificationInv'
  <2>1. /\ Policy!Goes(c, "settled") /\ call[c].pc \in Policy!Permitted
        /\ UNCHANGED <<profileSlots, globalSlots>> /\ Policy!Settles(c, outcome)
    BY <1>13 DEF Policy!Classified, Policy!WorkerRefused, Policy!Permitted
  <2>2. HasPermit(c) /\ ~HasPermit(c)'
    BY <1>11, <2>1 DEF HasPermit, Policy!Permitted
  <2>3. BreakerTypes' /\ BreakerInv'
    BY <1>11, <2>1, <2>2, BreakerSettled DEF ClassificationInv
  <2> QED
    BY <1>11, <2>1, <2>3 DEF ClassificationInv
<1>14. "neutral" \in Policy!Outcomes
  BY DEF Policy!Outcomes
<1> QED
  BY <1>0, <1>4, <1>5, <1>6, <1>7, <1>9, <1>10, <1>12, <1>13, <1>14 DEF Policy!Classification

\* A profile that is on has passed its preflight.
Serves == \A p \in Profiles : mode[p] # "off" => ready[p]

HoldsSemaphore(a) == attempt[a].pc \in {"running", "failing", "returning"}
AtWork(a) == attempt[a].pc \notin {"idle", "done"}
AtWorkNow == {a \in Attempts : AtWork(a)}
ExclusiveInv ==
  /\ \A a \in Attempts : HoldsSemaphore(a) => ~permit
  /\ \A a, b \in Attempts : HoldsSemaphore(a) /\ HoldsSemaphore(b) => a = b

\* Who runs the preflight has done all routes but those that are left.
ProgressInv ==
  \A a \in Attempts : attempt[a].pc = "running" =>
    \A p \in Profiles :
      mode[p] # "off" /\ RouteOf[p] \notin attempt[a].todo => ready[p]

\* After the first success all profiles that are on serve, or the diagnostic
\* says that they do not, or is about to.
SuccessInv ==
  (\E a \in Attempts : attempt[a].success) =>
    diagnostic \/ Serves \/ \E a \in Attempts : attempt[a].pc = "failing"
CountInv == attempts = Cardinality(AtWorkNow)
OpenInv ==
  ~pending => /\ \A a \in Attempts : ~AtWork(a)
              /\ \E a \in Attempts : attempt[a].success
GateInv ==
  /\ ProfileTypes /\ PreflightTypes
  /\ ExclusiveInv /\ ProgressInv /\ SuccessInv /\ CountInv /\ OpenInv

\* One attempt goes on.  Without it, and with it, the number of those at work
\* is what finishPolicyPreflightAttempt counts.
LEMMA WorkersCounted ==
  ASSUME PolicyConstants, PreflightTypes, CountInv, NEW a \in Attempts,
         \A b \in Attempts : b # a => attempt'[b] = attempt[b],
         \/ (AtWork(a)' <=> AtWork(a)) /\ attempts' = attempts
         \/ ~AtWork(a) /\ AtWork(a)' /\ attempts' = attempts + 1
         \/ AtWork(a) /\ ~AtWork(a)' /\ attempts' = attempts - 1
  PROVE  CountInv' /\ attempts' \in Nat
<1>1. IsFiniteSet(Attempts) /\ AtWorkNow \in SUBSET Attempts
  BY DEF PolicyConstants, AtWorkNow
<1>2. \A b \in Attempts : b # a => (AtWork(b)' <=> AtWork(b))
  BY DEF AtWork
<1>3. CASE (AtWork(a)' <=> AtWork(a)) /\ attempts' = attempts
  <2>1. AtWorkNow' = AtWorkNow
    BY <1>2, <1>3 DEF AtWorkNow
  <2> QED
    BY <1>3, <2>1 DEF CountInv, PreflightTypes
<1>4. CASE ~AtWork(a) /\ AtWork(a)' /\ attempts' = attempts + 1
  <2>1. AtWorkNow' = AtWorkNow \cup {a} /\ a \notin AtWorkNow
    BY <1>2, <1>4 DEF AtWorkNow
  <2>2. Cardinality(AtWorkNow') = Cardinality(AtWorkNow) + 1
    BY <1>1, <2>1, CountJoins
  <2> QED
    BY <1>4, <2>2 DEF CountInv, PreflightTypes
<1>5. CASE AtWork(a) /\ ~AtWork(a)' /\ attempts' = attempts - 1
  <2>1. AtWorkNow' = AtWorkNow \ {a} /\ a \in AtWorkNow
    BY <1>2, <1>5 DEF AtWorkNow
  <2>2. Cardinality(AtWorkNow') = Cardinality(AtWorkNow) - 1 /\ Cardinality(AtWorkNow) # 0
    BY <1>1, <2>1, CountLeaves
  <2> QED
    BY <1>5, <2>2 DEF CountInv, PreflightTypes
<1> QED
  BY <1>3, <1>4, <1>5

\* A gate that opens is opened by the last attempt.
LEMMA LastWorker ==
  ASSUME PolicyConstants, CountInv, NEW a \in Attempts, AtWork(a), attempts - 1 = 0
  PROVE  \A b \in Attempts : b # a => ~AtWork(b)
<1>1. IsFiniteSet(AtWorkNow) /\ a \in AtWorkNow
  BY FS_Subset DEF PolicyConstants, AtWorkNow
<1>2. /\ Cardinality(AtWorkNow \ {a}) = Cardinality(AtWorkNow) - 1
      /\ IsFiniteSet(AtWorkNow \ {a})
  BY <1>1, FS_RemoveElement
<1>3. AtWorkNow \ {a} = {}
  BY <1>2, FS_EmptySet DEF CountInv
<1> QED
  BY <1>3 DEF AtWorkNow

\* A step of an attempt that leaves the profiles and the diagnostic alone.
LEMMA AttemptGoesOn ==
  ASSUME PolicyConstants, GateInv, NEW a \in Attempts, NEW x \in AttemptType,
         attempt' = [attempt EXCEPT ![a] = x], UNCHANGED <<mode, ready, required>>,
         UNCHANGED <<draining, diagnostic>>, pending' \in BOOLEAN, permit' \in BOOLEAN,
         CountInv', attempts' \in Nat,
         ExclusiveInv', attempt[a].pc # "failing", x.pc # "failing",
         x.success => attempt[a].success,
         x.pc = "running" =>
           \A p \in Profiles : mode[p] # "off" /\ RouteOf[p] \notin x.todo => ready[p],
         OpenInv'
  PROVE  GateInv'
<1>1. /\ attempt \in [Attempts -> AttemptType] /\ attempt' \in [Attempts -> AttemptType]
      /\ attempt'[a] = x /\ \A b \in Attempts : b # a => attempt'[b] = attempt[b]
  BY DEF GateInv, PreflightTypes
<1>2. ProfileTypes' /\ PreflightTypes'
  BY <1>1 DEF GateInv, ProfileTypes, PreflightTypes
<1>3. ProgressInv'
  BY <1>1 DEF GateInv, ProgressInv
<1>4. SuccessInv'
  BY <1>1 DEF GateInv, SuccessInv, Serves
<1> QED
  BY <1>2, <1>3, <1>4 DEF GateInv

\* Who holds the semaphore is alone, whatever it does with it next.
LEMMA HolderAlone ==
  ASSUME ExclusiveInv, NEW a \in Attempts, HoldsSemaphore(a) \/ permit,
         \A b \in Attempts : b # a => attempt'[b] = attempt[b],
         permit' => ~HoldsSemaphore(a)'
  PROVE  ExclusiveInv' /\ \A b \in Attempts : b # a => ~HoldsSemaphore(b)
<1>1. \A b \in Attempts : b # a => ~HoldsSemaphore(b)
  BY DEF ExclusiveInv
<1>2. \A b \in Attempts : b # a => ~HoldsSemaphore(b)'
  BY <1>1 DEF HoldsSemaphore
<1> QED
  BY <1>1, <1>2 DEF ExclusiveInv

\* A step of an attempt.
LEMMA PreflightStep ==
  ASSUME PolicyConstants, GateInv, NEW a \in Attempts, Policy!Preflight(a)
  PROVE  GateInv' /\ UNCHANGED <<breaker, stale, profileSlots, globalSlots, call>>
<1> USE DEF Policy!profileVars, Policy!slotVars, Policy!gateVars, Policy!preflightVars,
            Policy!callVars, Policy!breakerVars, Policy!AttemptGoes
<1>0. /\ ProfileTypes /\ PreflightTypes /\ ExclusiveInv /\ ProgressInv /\ SuccessInv
      /\ CountInv /\ OpenInv /\ attempt \in [Attempts -> AttemptType]
      /\ attempt[a] \in AttemptType
  BY DEF GateInv, PreflightTypes
<1>1. UNCHANGED <<breaker, stale, profileSlots, globalSlots, call>>
  BY DEF Policy!Preflight, Policy!BeginAttempt, Policy!WaitCancelled, Policy!AcquirePreflight,
         Policy!RoutePasses, Policy!EnforcedRouteFails, Policy!ObservedRouteFails,
         Policy!InitializeFails, Policy!RunCancelled, Policy!InitializeEnds,
         Policy!ReleasePreflight, Policy!FinishAttempt
\* Each step changes one attempt.
<1>2. ASSUME NEW x \in AttemptType, attempt' = [attempt EXCEPT ![a] = x]
      PROVE  /\ attempt' \in [Attempts -> AttemptType] /\ attempt'[a] = x
             /\ \A b \in Attempts : b # a => attempt'[b] = attempt[b]
  BY <1>0, <1>2
\* While somebody is at work the gate is closed.
<1>3. ASSUME AtWork(a), UNCHANGED pending PROVE pending /\ OpenInv'
  BY <1>0, <1>3 DEF OpenInv
<1>4. ASSUME Policy!BeginAttempt(a) PROVE GateInv'
  <2> DEFINE x == [attempt[a] EXCEPT !.pc = "waiting"]
  <2>1. /\ x \in AttemptType /\ x.pc = "waiting" /\ x.success = attempt[a].success
        /\ attempt' = [attempt EXCEPT ![a] = x] /\ attempt[a].pc = "idle"
        /\ attempts' = attempts + 1 /\ pending' = TRUE
        /\ UNCHANGED <<mode, ready, required>>
        /\ UNCHANGED <<draining, diagnostic, permit>>
    BY <1>0, <1>4 DEF Policy!BeginAttempt, AttemptType
  <2> HIDE DEF x
  <2>2. attempt'[a] = x /\ \A b \in Attempts : b # a => attempt'[b] = attempt[b]
    BY <1>2, <2>1
  <2>3. ~AtWork(a) /\ AtWork(a)'
    BY <2>1, <2>2 DEF AtWork
  <2>4. CountInv' /\ attempts' \in Nat
    BY <1>0, <2>1, <2>2, <2>3, WorkersCounted
  <2>5. ExclusiveInv'
    BY <1>0, <2>1, <2>2 DEF ExclusiveInv, HoldsSemaphore
  <2>6. OpenInv'
    BY <2>1 DEF OpenInv
  <2>7. pending' \in BOOLEAN /\ permit' \in BOOLEAN
    BY <1>0, <2>1 DEF PreflightTypes
  <2> QED
    BY <2>1, <2>4, <2>5, <2>6, <2>7, AttemptGoesOn
<1>5. ASSUME Policy!WaitCancelled(a) PROVE GateInv'
  <2> DEFINE x == [attempt[a] EXCEPT !.pc = "finishing"]
  <2>1. /\ x \in AttemptType /\ x.pc = "finishing" /\ x.success = attempt[a].success
        /\ attempt' = [attempt EXCEPT ![a] = x] /\ attempt[a].pc = "waiting"
        /\ UNCHANGED <<mode, ready, required>>
        /\ UNCHANGED <<draining, diagnostic, permit, attempts, pending>>
    BY <1>0, <1>5 DEF Policy!WaitCancelled, AttemptType
  <2> HIDE DEF x
  <2>2. attempt'[a] = x /\ \A b \in Attempts : b # a => attempt'[b] = attempt[b]
    BY <1>2, <2>1
  <2>3. AtWork(a) /\ AtWork(a)'
    BY <2>1, <2>2 DEF AtWork
  <2>4. CountInv' /\ attempts' \in Nat
    BY <1>0, <2>1, <2>2, <2>3, WorkersCounted
  <2>5. ExclusiveInv'
    BY <1>0, <2>1, <2>2 DEF ExclusiveInv, HoldsSemaphore
  <2>6. OpenInv'
    BY <1>3, <2>1, <2>3
  <2>7. pending' \in BOOLEAN /\ permit' \in BOOLEAN
    BY <1>0, <2>1 DEF PreflightTypes
  <2> QED
    BY <2>1, <2>4, <2>5, <2>6, <2>7, AttemptGoesOn
<1>6. ASSUME Policy!AcquirePreflight(a) PROVE GateInv'
  <2> DEFINE routed == {r \in Routes : Policy!Group(r) # {}}
             x == [attempt[a] EXCEPT !.pc = "running", !.todo = routed]
  <2>1. /\ x \in AttemptType /\ x.pc = "running" /\ x.success = attempt[a].success
        /\ x.todo = routed
        /\ attempt' = [attempt EXCEPT ![a] = x] /\ attempt[a].pc = "waiting"
        /\ UNCHANGED <<mode, ready, required>> /\ permit /\ permit' = FALSE
        /\ UNCHANGED <<draining, diagnostic, attempts, pending>>
    BY <1>0, <1>6, ZenonT(30) DEF Policy!AcquirePreflight, AttemptType
  <2>2. \A p \in Profiles : mode[p] # "off" => RouteOf[p] \in routed
    BY DEF Policy!Group, PolicyConstants
  <2> HIDE DEF x, routed
  <2>3. attempt'[a] = x /\ \A b \in Attempts : b # a => attempt'[b] = attempt[b]
    BY <1>2, <2>1
  <2>4. AtWork(a) /\ AtWork(a)'
    BY <2>1, <2>3 DEF AtWork
  <2>5. CountInv' /\ attempts' \in Nat
    BY <1>0, <2>1, <2>3, <2>4, WorkersCounted
  <2>6. ExclusiveInv'
    BY <1>0, <2>1, <2>3, HolderAlone
  <2>7. OpenInv'
    BY <1>3, <2>1, <2>4
  <2>8. pending' \in BOOLEAN /\ permit' \in BOOLEAN
    BY <1>0, <2>1 DEF PreflightTypes
  <2>9. \A p \in Profiles : mode[p] # "off" /\ RouteOf[p] \notin x.todo => ready[p]
    BY <2>1, <2>2
  <2> QED
    BY <2>1, <2>5, <2>6, <2>7, <2>8, <2>9, AttemptGoesOn
<1>7. ASSUME Policy!RunCancelled(a) PROVE GateInv'
  <2> DEFINE x == [attempt[a] EXCEPT !.pc = "returning", !.success = FALSE]
  <2>1. /\ x \in AttemptType /\ x.pc = "returning" /\ ~x.success
        /\ attempt' = [attempt EXCEPT ![a] = x] /\ attempt[a].pc = "running"
        /\ UNCHANGED <<mode, ready, required>>
        /\ UNCHANGED <<draining, diagnostic, permit, attempts, pending>>
    BY <1>0, <1>7 DEF Policy!RunCancelled, Policy!Returns, AttemptType
  <2> HIDE DEF x
  <2>2. attempt'[a] = x /\ \A b \in Attempts : b # a => attempt'[b] = attempt[b]
    BY <1>2, <2>1
  <2>3. AtWork(a) /\ AtWork(a)'
    BY <2>1, <2>2 DEF AtWork
  <2>4. CountInv' /\ attempts' \in Nat
    BY <1>0, <2>1, <2>2, <2>3, WorkersCounted
  <2>5. ExclusiveInv'
    BY <1>0, <2>1, <2>2 DEF ExclusiveInv, HoldsSemaphore
  <2>6. OpenInv'
    BY <1>3, <2>1, <2>3
  <2>7. pending' \in BOOLEAN /\ permit' \in BOOLEAN
    BY <1>0, <2>1 DEF PreflightTypes
  <2> QED
    BY <2>1, <2>4, <2>5, <2>6, <2>7, AttemptGoesOn
<1>8. ASSUME Policy!ReleasePreflight(a) PROVE GateInv'
  <2> DEFINE x == [attempt[a] EXCEPT !.pc = "finishing"]
  <2>1. /\ x \in AttemptType /\ x.pc = "finishing" /\ x.success = attempt[a].success
        /\ attempt' = [attempt EXCEPT ![a] = x] /\ attempt[a].pc = "returning"
        /\ UNCHANGED <<mode, ready, required>> /\ permit' = TRUE
        /\ UNCHANGED <<draining, diagnostic, attempts, pending>>
    BY <1>0, <1>8 DEF Policy!ReleasePreflight, AttemptType
  <2> HIDE DEF x
  <2>2. attempt'[a] = x /\ \A b \in Attempts : b # a => attempt'[b] = attempt[b]
    BY <1>2, <2>1
  <2>3. AtWork(a) /\ AtWork(a)' /\ HoldsSemaphore(a) /\ ~HoldsSemaphore(a)'
    BY <2>1, <2>2 DEF AtWork, HoldsSemaphore
  <2>4. CountInv' /\ attempts' \in Nat
    BY <1>0, <2>1, <2>2, <2>3, WorkersCounted
  <2>5. ExclusiveInv'
    BY <1>0, <2>2, <2>3, HolderAlone
  <2>6. OpenInv'
    BY <1>3, <2>1, <2>3
  <2>7. pending' \in BOOLEAN /\ permit' \in BOOLEAN
    BY <1>0, <2>1 DEF PreflightTypes
  <2> QED
    BY <2>1, <2>4, <2>5, <2>6, <2>7, AttemptGoesOn
<1>9. ASSUME Policy!FinishAttempt(a) PROVE GateInv'
  <2> DEFINE x == [attempt[a] EXCEPT !.pc = "done"]
  <2>1. /\ x \in AttemptType /\ x.pc = "done" /\ x.success = attempt[a].success
        /\ attempt' = [attempt EXCEPT ![a] = x] /\ attempt[a].pc = "finishing"
        /\ attempts' = attempts - 1
        /\ pending' = (pending /\ ~(attempt[a].success /\ attempts - 1 = 0))
        /\ UNCHANGED <<mode, ready, required>>
        /\ UNCHANGED <<draining, diagnostic, permit>>
    BY <1>0, <1>9 DEF Policy!FinishAttempt, Policy!Opens, AttemptType
  <2> HIDE DEF x
  <2>2. attempt'[a] = x /\ \A b \in Attempts : b # a => attempt'[b] = attempt[b]
    BY <1>2, <2>1
  <2>3. AtWork(a) /\ ~AtWork(a)'
    BY <2>1, <2>2 DEF AtWork
  <2>4. CountInv' /\ attempts' \in Nat
    BY <1>0, <2>1, <2>2, <2>3, WorkersCounted
  <2>5. ExclusiveInv'
    BY <1>0, <2>1, <2>2 DEF ExclusiveInv, HoldsSemaphore
  <2>6. OpenInv'
    <3>1. SUFFICES ASSUME ~pending'
                   PROVE  /\ \A b \in Attempts : ~AtWork(b)'
                          /\ \E b \in Attempts : attempt'[b].success
      BY DEF OpenInv
    <3>2. pending
      BY <1>0, <2>3 DEF OpenInv
    <3>3. attempt[a].success /\ attempts - 1 = 0
      BY <2>1, <3>1, <3>2
    <3>4. \A b \in Attempts : b # a => ~AtWork(b)
      BY <1>0, <2>3, <3>3, LastWorker
    <3>5. \A b \in Attempts : ~AtWork(b)'
      BY <2>2, <2>3, <3>4 DEF AtWork
    <3> QED
      BY <2>1, <2>2, <3>3, <3>5
  <2>7. pending' \in BOOLEAN /\ permit' \in BOOLEAN
    BY <1>0, <2>1 DEF PreflightTypes
  <2> QED
    BY <2>1, <2>4, <2>5, <2>6, <2>7, AttemptGoesOn
\* The steps of the holder of the semaphore that change what profiles serve.
<1>10. ASSUME NEW x \in AttemptType, attempt' = [attempt EXCEPT ![a] = x],
              HoldsSemaphore(a), x.pc \in {"running", "failing", "returning"},
              ProfileTypes', diagnostic' \in BOOLEAN,
              UNCHANGED <<draining, permit, attempts, pending>>,
              x.pc = "running" =>
                \A p \in Profiles :
                  mode'[p] # "off" /\ RouteOf[p] \notin x.todo => ready'[p],
              \/ diagnostic' \/ Serves' \/ x.pc = "failing"
              \/ /\ x.success = attempt[a].success /\ attempt[a].pc # "failing"
                 /\ Serves => Serves'
                 /\ diagnostic => diagnostic'
       PROVE  GateInv'
  <2>1. /\ attempt' \in [Attempts -> AttemptType] /\ attempt'[a] = x
        /\ \A b \in Attempts : b # a => attempt'[b] = attempt[b]
    BY <1>2, <1>10, ZenonT(60)
  <2>2. AtWork(a) /\ AtWork(a)'
    BY <1>10, <2>1 DEF AtWork, HoldsSemaphore
  <2>3. CountInv' /\ attempts' \in Nat
    BY <1>0, <1>10, <2>1, <2>2, WorkersCounted
  <2>4. OpenInv'
    BY <1>3, <1>10, <2>2
  <2>5. ~permit
    BY <1>0, <1>10 DEF ExclusiveInv
  <2>6. ExclusiveInv' /\ \A b \in Attempts : b # a => ~HoldsSemaphore(b)
    BY <1>0, <1>10, <2>1, <2>5, HolderAlone
  <2>7. PreflightTypes'
    BY <1>0, <1>10, <2>1, <2>3 DEF PreflightTypes
  <2>8. ProgressInv'
    BY <1>10, <2>1, <2>6 DEF ProgressInv, HoldsSemaphore
  <2>9. SuccessInv'
    <3>1. CASE diagnostic' \/ Serves' \/ x.pc = "failing"
      BY <2>1, <3>1 DEF SuccessInv
    <3>2. CASE /\ x.success = attempt[a].success /\ attempt[a].pc # "failing"
               /\ Serves => Serves'
               /\ diagnostic => diagnostic'
      <4>1. \A b \in Attempts : attempt[b].pc # "failing"
        BY <2>6, <3>2 DEF HoldsSemaphore
      <4>2. \A b \in Attempts : attempt'[b].success => attempt[b].success
        BY <2>1, <3>2
      <4> QED
        BY <1>0, <3>2, <4>1, <4>2 DEF SuccessInv
    <3> QED
      BY <1>10, <3>1, <3>2
  <2> QED
    BY <1>10, <2>3, <2>4, <2>6, <2>7, <2>8, <2>9 DEF GateInv
<1>11. ASSUME NEW r \in Routes, Policy!RoutePasses(a, r) PROVE GateInv'
  <2> DEFINE x == [attempt[a] EXCEPT !.todo = @ \ {r}]
  <2>1. /\ x \in AttemptType /\ x.pc = "running" /\ x.success = attempt[a].success
        /\ x.todo = attempt[a].todo \ {r} /\ attempt[a].pc = "running"
        /\ attempt' = [attempt EXCEPT ![a] = x]
        /\ UNCHANGED <<mode, required, draining, diagnostic, permit>>
        /\ UNCHANGED <<attempts, pending>>
        /\ ready' = [p \in Profiles |-> IF p \in Policy!Group(r) THEN TRUE ELSE ready[p]]
    BY <1>0, <1>11 DEF Policy!RoutePasses, Policy!SetReady, AttemptType
  <2> HIDE DEF x
  <2>2. ProfileTypes' /\ diagnostic' \in BOOLEAN
    BY <1>0, <2>1 DEF ProfileTypes, PreflightTypes
  <2>3. \A p \in Profiles : mode[p] # "off" /\ RouteOf[p] \notin x.todo => ready'[p]
    BY <1>0, <2>1 DEF ProgressInv, Policy!Group
  <2>4. Serves => Serves'
    BY <2>1 DEF Serves
  <2> QED
    BY <1>10, <2>1, <2>2, <2>3, <2>4 DEF HoldsSemaphore
<1>12. ASSUME NEW r \in Routes, Policy!EnforcedRouteFails(a, r) PROVE GateInv'
  <2> DEFINE x == [attempt[a] EXCEPT !.pc = "failing"]
  <2>1. /\ x \in AttemptType /\ x.pc = "failing" /\ attempt[a].pc = "running"
        /\ attempt' = [attempt EXCEPT ![a] = x]
        /\ UNCHANGED <<mode, required, draining, diagnostic, permit>>
        /\ UNCHANGED <<attempts, pending>>
        /\ ready' = [p \in Profiles |-> IF p \in Policy!Group(r) THEN FALSE ELSE ready[p]]
    BY <1>0, <1>12 DEF Policy!EnforcedRouteFails, Policy!SetReady, AttemptType
  <2> HIDE DEF x
  <2>2. ProfileTypes' /\ diagnostic' \in BOOLEAN
    BY <1>0, <2>1 DEF ProfileTypes, PreflightTypes
  <2> QED
    BY <1>10, <2>1, <2>2 DEF HoldsSemaphore
<1>13. ASSUME NEW r \in Routes, Policy!ObservedRouteFails(a, r) PROVE GateInv'
  <2> DEFINE x == [attempt[a] EXCEPT !.todo = @ \ {r}, !.failures = TRUE]
  <2>1. /\ x \in AttemptType /\ x.pc = "running" /\ x.success = attempt[a].success
        /\ x.todo = attempt[a].todo \ {r} /\ attempt[a].pc = "running"
        /\ attempt' = [attempt EXCEPT ![a] = x]
        /\ UNCHANGED <<required, draining, diagnostic, permit>>
        /\ UNCHANGED <<attempts, pending>>
        /\ ready' = [p \in Profiles |-> IF p \in Policy!Group(r) THEN FALSE ELSE ready[p]]
        /\ mode' = [p \in Profiles |-> IF p \in Policy!Group(r) THEN "off"
                                                              ELSE mode[p]]
    BY <1>0, <1>13 DEF Policy!ObservedRouteFails, Policy!SetReady, AttemptType
  <2> HIDE DEF x
  <2>2. ProfileTypes' /\ diagnostic' \in BOOLEAN
    BY <1>0, <2>1 DEF ProfileTypes, PreflightTypes, Policy!Modes
  <2>3. \A p \in Profiles : mode'[p] # "off" =>
          /\ mode[p] # "off" /\ RouteOf[p] # r /\ ready'[p] = ready[p]
    BY <2>1 DEF Policy!Group
  <2>4. \A p \in Profiles : mode'[p] # "off" /\ RouteOf[p] \notin x.todo => ready'[p]
    BY <1>0, <2>1, <2>3 DEF ProgressInv
  <2>5. Serves => Serves'
    BY <2>3 DEF Serves
  <2> QED
    BY <1>10, <2>1, <2>2, <2>4, <2>5 DEF HoldsSemaphore
<1>14. ASSUME Policy!InitializeFails(a) PROVE GateInv'
  <2> DEFINE x == [attempt[a] EXCEPT !.pc = "returning", !.success = FALSE]
  <2>1. /\ x \in AttemptType /\ x.pc = "returning" /\ attempt[a].pc = "failing"
        /\ attempt' = [attempt EXCEPT ![a] = x] /\ diagnostic' = TRUE
        /\ UNCHANGED <<mode, ready, required, draining, permit>>
        /\ UNCHANGED <<attempts, pending>>
    BY <1>0, <1>14 DEF Policy!InitializeFails, Policy!Returns, AttemptType
  <2> HIDE DEF x
  <2>2. ProfileTypes' /\ diagnostic' \in BOOLEAN
    BY <1>0, <2>1 DEF ProfileTypes
  <2> QED
    BY <1>10, <2>1, <2>2 DEF HoldsSemaphore
<1>15. ASSUME Policy!InitializeEnds(a) PROVE GateInv'
  <2> DEFINE x == [attempt[a] EXCEPT !.pc = "returning", !.success = TRUE]
  <2>1. /\ x \in AttemptType /\ x.pc = "returning" /\ attempt[a].pc = "running"
        /\ attempt[a].todo = {}
        /\ attempt' = [attempt EXCEPT ![a] = x]
        /\ UNCHANGED <<mode, ready, required, draining, permit>>
        /\ UNCHANGED <<attempts, pending>>
    BY <1>0, <1>15 DEF Policy!InitializeEnds, Policy!Returns, AttemptType
  <2>2. diagnostic' \in BOOLEAN
    <3>1. attempt[a].failures \in BOOLEAN /\ diagnostic \in BOOLEAN
      BY <1>0 DEF AttemptType, PreflightTypes
    <3>2. diagnostic' = (attempt[a].failures \/ (diagnostic /\ Policy!Unready # {}))
      BY <1>15 DEF Policy!InitializeEnds
    <3> QED
      BY <3>1, <3>2
  <2> HIDE DEF x
  <2>3. ProfileTypes'
    BY <1>0, <2>1 DEF ProfileTypes
  <2>4. Serves'
    BY <1>0, <2>1 DEF ProgressInv, Serves
  <2> QED
    BY <1>10, <2>1, <2>2, <2>3, <2>4 DEF HoldsSemaphore
<1> QED
  BY <1>1, <1>4, <1>5, <1>6, <1>7, <1>8, <1>9, <1>11, <1>12, <1>13, <1>14, <1>15
  DEF Policy!Preflight

-----------------------------------------------------------------------------
(* The invariant of policy routing, and what follows from it.              *)

PolicyInv == ClassificationInv /\ GateInv

\* Nothing is counted yet, and the gate is closed.
LEMMA PolicyInit ==
  ASSUME PolicyConstants, Policy!Init
  PROVE  PolicyInv
<1> USE DEF Policy!Init
<1>1. CallTypes
  BY DEF CallTypes, CallType, Policy!NoCall, Policy!Modes
<1>2. BreakerTypes
  BY DEF BreakerTypes, BreakerType, Policy!Closed
<1>3. \A c \in Calls : call[c].pc = "idle"
  BY DEF Policy!NoCall
<1>4. SlotInv
  <2>1. GlobalUsers = {} /\ \A p \in Profiles : ProfileUsers(p) = {}
    BY <1>3 DEF GlobalUsers, ProfileUsers, UsesGlobal, UsesProfile, Policy!Holding
  <2>2. Cardinality({}) = 0
    BY FS_EmptySet
  <2>3. /\ profileSlots \in [Profiles -> Nat] /\ globalSlots = 0
        /\ \A p \in Profiles : profileSlots[p] = 0
    OBVIOUS
  <2>4. 0 <= GlobalCapacity /\ 0 <= ProfileCapacity
    BY DEF PolicyConstants
  <2> HIDE DEF Policy!Init
  <2> QED
    BY <2>1, <2>2, <2>3, <2>4 DEF SlotInv, GlobalCounted, ProfileCounted
<1>5. BreakerInv
  <2>1. \A c \in Calls : ~HasPermit(c) /\ c \notin stale
    BY <1>3 DEF HasPermit, Policy!Permitted
  <2>2. \A r \in Routes : ~breaker[r].halfOpen
    BY DEF Policy!Closed
  <2> QED
    BY <2>1, <2>2 DEF BreakerInv, PermitOK, StaleOK, ProbeOK, IsProbe
<1>6. ProfileTypes
  <2>1. mode \in [Profiles -> Policy!Modes]
    BY DEF PolicyConstants
  <2> QED
    BY <2>1 DEF ProfileTypes
<1>7. PreflightTypes
  BY DEF PreflightTypes, AttemptType, Policy!NoAttempt
<1>8. \A a \in Attempts : attempt[a].pc = "idle" /\ attempt[a].success = FALSE
  BY DEF Policy!NoAttempt
<1>9. CountInv
  <2>1. AtWorkNow = {}
    BY <1>8 DEF AtWorkNow, AtWork
  <2> QED
    BY <2>1, FS_EmptySet DEF CountInv
<1>10. ExclusiveInv /\ ProgressInv /\ SuccessInv /\ OpenInv
  BY <1>8 DEF ExclusiveInv, ProgressInv, SuccessInv, OpenInv, HoldsSemaphore
<1> QED
  BY <1>1, <1>2, <1>4, <1>5, <1>6, <1>7, <1>9, <1>10 DEF PolicyInv, ClassificationInv, GateInv

\* A step that leaves the variables of one half alone keeps its invariant.
LEMMA CallsKept ==
  ASSUME PolicyConstants, ClassificationInv,
         UNCHANGED <<breaker, stale, profileSlots, globalSlots, call>>
  PROVE  ClassificationInv'
<1>1. CallTypes' /\ BreakerTypes'
  BY DEF ClassificationInv, CallTypes, BreakerTypes
<1>2. SlotInv'
  BY SlotsStay DEF ClassificationInv, UsesGlobal, UsesProfile
<1>3. BreakerInv'
  BY BreakersStay DEF ClassificationInv, HasPermit
<1> QED
  BY <1>1, <1>2, <1>3 DEF ClassificationInv

LEMMA GateKept ==
  ASSUME GateInv, UNCHANGED <<mode, ready, required>>, draining' \in BOOLEAN,
         UNCHANGED <<pending, attempts, permit, attempt, diagnostic>>
  PROVE  GateInv'
<1>1. ProfileTypes' /\ PreflightTypes'
  BY DEF GateInv, ProfileTypes, PreflightTypes
<1>2. ExclusiveInv' /\ OpenInv'
  BY DEF GateInv, ExclusiveInv, OpenInv, HoldsSemaphore, AtWork
<1>3. ProgressInv' /\ SuccessInv'
  BY DEF GateInv, ProgressInv, SuccessInv, Serves
<1>4. AtWorkNow' = AtWorkNow
  BY DEF AtWorkNow, AtWork
<1>5. CountInv'
  BY <1>4 DEF GateInv, CountInv
<1> QED
  BY <1>1, <1>2, <1>3, <1>5 DEF GateInv

LEMMA PolicyStep ==
  ASSUME PolicyConstants, PolicyInv, [Policy!Next]_(Policy!vars)
  PROVE  PolicyInv'
<1>0. ClassificationInv /\ GateInv /\ ProfileTypes /\ draining \in BOOLEAN
  BY DEF PolicyInv, GateInv, PreflightTypes
<1>1. ASSUME NEW c \in Calls, Policy!Classification(c) PROVE PolicyInv'
  <2>1. ClassificationInv' /\ UNCHANGED <<mode, ready, required>>
        /\ UNCHANGED <<draining, pending, attempts, permit, attempt, diagnostic>>
    BY <1>0, <1>1, ClassificationStep
  <2> QED
    BY <1>0, <2>1, GateKept DEF PolicyInv
<1>2. ASSUME NEW a \in Attempts, Policy!Preflight(a) PROVE PolicyInv'
  BY <1>0, <1>2, PreflightStep, CallsKept DEF PolicyInv
<1>3. ASSUME NEW r \in Routes, Policy!CooldownEnds(r) PROVE PolicyInv'
  <2>1. BreakerTypes' /\ BreakerInv' /\ UNCHANGED call
    BY <1>0, <1>3, CooldownEnded DEF ClassificationInv
  <2>2. /\ UNCHANGED <<mode, ready, required, draining>>
        /\ UNCHANGED <<pending, attempts, permit, attempt, diagnostic>>
        /\ UNCHANGED <<profileSlots, globalSlots>>
    BY <1>3 DEF Policy!CooldownEnds, Policy!profileVars, Policy!preflightVars, Policy!gateVars,
                Policy!callVars, Policy!slotVars
  <2>3. CallTypes'
    BY <1>0, <2>1 DEF ClassificationInv, CallTypes
  <2>4. SlotInv'
    BY <1>0, <2>1, <2>2, SlotsStay DEF ClassificationInv, UsesGlobal, UsesProfile
  <2>5. GateInv'
    BY <1>0, <2>2, GateKept
  <2> QED
    BY <2>1, <2>3, <2>4, <2>5 DEF PolicyInv, ClassificationInv
<1>4. ASSUME Policy!BeginShutdown PROVE PolicyInv'
  <2>1. /\ UNCHANGED <<mode, ready, required>> /\ draining' \in BOOLEAN
        /\ UNCHANGED <<pending, attempts, permit, attempt, diagnostic>>
        /\ UNCHANGED <<breaker, stale, profileSlots, globalSlots, call>>
    BY <1>4 DEF Policy!BeginShutdown, Policy!profileVars, Policy!preflightVars, Policy!gateVars,
                Policy!callVars, Policy!slotVars, Policy!breakerVars
  <2> QED
    BY <1>0, <2>1, CallsKept, GateKept DEF PolicyInv
<1>5. ASSUME UNCHANGED Policy!vars PROVE PolicyInv'
  <2>1. /\ UNCHANGED <<mode, ready, required, draining>>
        /\ UNCHANGED <<pending, attempts, permit, attempt, diagnostic>>
        /\ UNCHANGED <<breaker, stale, profileSlots, globalSlots, call>>
    BY <1>5 DEF Policy!vars, Policy!profileVars, Policy!preflightVars, Policy!gateVars,
                Policy!callVars, Policy!slotVars, Policy!breakerVars
  <2> QED
    BY <1>0, <2>1, CallsKept, GateKept DEF PolicyInv
<1> QED
  BY <1>1, <1>2, <1>3, <1>4, <1>5 DEF Policy!Next

\* Policy routing keeps its invariant (chat_policy_runtime.go, the permits and
\* generations of policyBreaker and the slots of the lease; policy_routing.go
\* Initialize; policy_controller.go, the startup gate).
THEOREM PolicyInvariant ==
  ASSUME PolicyConstants
  PROVE  Policy!Spec => []PolicyInv
<1>1. Policy!Init => PolicyInv
  BY PolicyInit
<1>2. PolicyInv /\ [Policy!Next]_(Policy!vars) => PolicyInv'
  BY PolicyStep
<1> QED
  BY <1>1, <1>2, PTL DEF Policy!Spec

\* The variables have their types.
THEOREM PolicyTypes ==
  ASSUME PolicyConstants
  PROVE  Policy!Spec => []Policy!TypeOK
<1>1. PolicyInv => Policy!TypeOK
  <2> SUFFICES ASSUME PolicyInv PROVE Policy!TypeOK
    OBVIOUS
  <2>1. CallTypes /\ BreakerTypes /\ ProfileTypes /\ PreflightTypes /\ SlotInv
    BY DEF PolicyInv, ClassificationInv, GateInv
  <2>2. \A c \in Calls : (call[c].pc = "idle") = (call[c].profile = None)
    BY <2>1 DEF CallTypes
  <2> QED
    BY <2>1, <2>2
    DEF Policy!TypeOK, CallTypes, BreakerTypes, ProfileTypes, PreflightTypes, SlotInv,
        CallType, BreakerType, AttemptType
<1> QED
  BY <1>1, PolicyInvariant, PTL

\* The slots that are taken are those of the calls that are under way: none is
\* lost, on any way that a classification ends, and none is given twice
\* (chat_policy_runtime.go, acquire and release of the lease).
SlotsExact ==
  /\ globalSlots = Cardinality(GlobalUsers) /\ globalSlots <= GlobalCapacity
  /\ \A p \in Profiles : /\ profileSlots[p] = Cardinality(ProfileUsers(p))
                         /\ profileSlots[p] <= ProfileCapacity
THEOREM PolicySlotsExact ==
  ASSUME PolicyConstants
  PROVE  Policy!Spec => []SlotsExact
<1>1. PolicyInv => SlotsExact
  BY DEF PolicyInv, ClassificationInv, SlotInv, GlobalCounted, ProfileCounted, SlotsExact
<1> QED
  BY <1>1, PolicyInvariant, PTL

\* The other protocols change nothing of policy routing.
LEMMA PolicyAlone == InProcessSpec => Policy!Spec
<1>1. InProcessInit => Policy!Init
  BY DEF InProcessInit
<1>2. [InProcessNext]_allVars => [Policy!Next]_(Policy!vars)
  BY DEF InProcessNext, allVars, policyVars, Policy!vars, Policy!profileVars, Policy!breakerVars,
     Policy!callVars, Policy!preflightVars, Policy!slotVars, Policy!gateVars
<1> QED BY <1>1, <1>2, PTL DEF InProcessSpec, Policy!Spec

\* So its invariant holds of the three together.
LEMMA PolicyHolds == InProcessSpec => []PolicyInv
<1>1. Policy!Spec => []PolicyInv
  BY PolicyAssumption, PolicyInvariant
<1> QED BY <1>1, PolicyAlone, PTL

\* The half-open flag of a breaker is set exactly while one call holds the
\* half-open permit of the current generation (chat_policy_runtime.go
\* tryAcquire, releaseNeutral, recordSuccess, recordFailure).
THEOREM HalfOpenHasOneOwner == InProcessSpec => []HalfOpenOwned
<1>1. PolicyInv => HalfOpenOwned
  <2> SUFFICES ASSUME PolicyInv, NEW r \in Routes
               PROVE  /\ breaker[r].halfOpen <=> Policy!Probes(r) # {}
                      /\ \A c, d \in Policy!Probes(r) : c = d
                      /\ \A c \in Policy!Probes(r) : Policy!IsCurrent(c)
    BY DEF HalfOpenOwned, Policy!HalfOpenOwned
  <2>1. Policy!Probes(r) = {c \in Calls : IsProbe(c) /\ Policy!RouteOfCall(c) = r}
    BY DEF Policy!Probes, Policy!Permits, IsProbe, HasPermit
  <2>2. \A c \in Calls : PermitOK(c)
    BY DEF PolicyInv, ClassificationInv, BreakerInv
  <2>3. ProbeOK(r)
    BY DEF PolicyInv, ClassificationInv, BreakerInv
  <2> QED
    BY <2>1, <2>2, <2>3 DEF PermitOK, ProbeOK, IsProbe, Policy!BreakerOf
<1> QED BY <1>1, PolicyHolds, PTL

\* An open gate without a diagnostic serves every profile that is on
\* (policy_controller.go finishPolicyPreflightAttempt; policy_routing.go
\* Initialize).
THEOREM OpenGateServes == InProcessSpec => []ReadyProfilesServe
<1>1. PolicyInv => ReadyProfilesServe
  <2> SUFFICES ASSUME PolicyInv, ~pending, ~diagnostic PROVE Serves
    BY DEF ReadyProfilesServe, Policy!ReadyProfilesServe, Serves
  <2>1. /\ \A a \in Attempts : attempt[a].pc # "failing"
        /\ \E a \in Attempts : attempt[a].success
    BY DEF PolicyInv, GateInv, OpenInv, AtWork
  <2> QED
    BY <2>1 DEF PolicyInv, GateInv, SuccessInv
<1> QED BY <1>1, PolicyHolds, PTL

\* The result of a call whose permit is of an earlier generation changes no
\* breaker (chat_policy_runtime.go recordSuccess, recordFailure).
THEOREM LateResultsChangeNothing == InProcessSpec => LateResultsIgnored
<1> USE PolicyAssumption
<1> DEFINE Ignored == \A c \in stale : c \notin stale' => breaker' = breaker
<1>1. PolicyInv /\ [Policy!Next]_(Policy!vars) => [Ignored]_(Policy!vars)
  <2> SUFFICES ASSUME PolicyInv, Policy!Next, NEW d \in stale, d \notin stale'
               PROVE  breaker' = breaker
    OBVIOUS
  <2> USE DEF Policy!profileVars, Policy!slotVars, Policy!gateVars, Policy!preflightVars,
              Policy!callVars, Policy!breakerVars
  <2>1. ASSUME NEW c \in Calls, NEW outcome, Policy!Settles(c, outcome)
        PROVE  breaker' = breaker
    <3>1. d = c
      BY <2>1 DEF Policy!Settles
    <3>2. ~Policy!IsCurrent(c)
      BY <3>1 DEF PolicyInv, ClassificationInv, BreakerInv, StaleOK
    <3>3. breaker' = [breaker EXCEPT ![Policy!RouteOfCall(c)] = Policy!BreakerOf(c)]
      BY <2>1, <3>2 DEF Policy!Settles
    <3>4. breaker \in [Routes -> BreakerType]
      BY DEF PolicyInv, ClassificationInv, BreakerTypes
    <3> QED
      BY <3>3, <3>4 DEF Policy!BreakerOf
  <2>2. ASSUME NEW c \in Calls, Policy!Classification(c) PROVE breaker' = breaker
    <3>1. \E outcome : Policy!Settles(c, outcome)
      BY <2>2
      DEF Policy!Classification, Policy!Arrive, Policy!PlanWithout, Policy!PlanClassify,
          Policy!AcquireGlobal, Policy!GlobalFull, Policy!AcquireBreaker, Policy!BreakerOpen,
          Policy!Launch, Policy!WorkerRefused, Policy!Classified, Policy!ReleaseGlobal,
          Policy!LeaseReleased
    <3> QED
      BY <2>1, <3>1
  <2>3. ASSUME NEW a \in Attempts, Policy!Preflight(a) PROVE breaker' = breaker
    BY <2>3, PreflightStep DEF PolicyInv
  <2>4. ASSUME NEW r \in Routes, Policy!CooldownEnds(r) PROVE breaker' = breaker
    BY <2>4 DEF Policy!CooldownEnds
  <2>5. ASSUME Policy!BeginShutdown PROVE breaker' = breaker
    BY <2>5 DEF Policy!BeginShutdown
  <2> QED
    BY <2>2, <2>3, <2>4, <2>5 DEF Policy!Next
<1> HIDE DEF Ignored
<1>2. InProcessSpec => [][Ignored]_(Policy!vars)
  BY <1>1, PolicyHolds, PolicyAlone, PTL DEF Policy!Spec
<1> QED BY <1>2 DEF LateResultsIgnored, Policy!LateResultsIgnored, Ignored

-----------------------------------------------------------------------------
(* Induction, lists and folds, for the two stores.                         *)

\* The numbers are well founded, and so what holds of 0 and passes from each to
\* the next holds of all.
LEMMA Numbers == IsWellFoundedOn({p \in Nat \X Nat : p[1] < p[2]}, Nat)
  BY NatLessThanWellFounded DEF OpToRel

LEMMA Induction ==
  ASSUME NEW T, 0 \in T, \A n \in Nat : n \in T => n + 1 \in T
  PROVE  \A n \in Nat : n \in T
<1> DEFINE Less == {p \in Nat \X Nat : p[1] < p[2]}
           Rest == Nat \ T
<1>1. ASSUME Rest # {} PROVE FALSE
  <2>1. PICK x \in Rest : \A y \in Rest : <<y, x>> \notin Less
    <3>1. Rest \subseteq Nat
      OBVIOUS
    <3> HIDE DEF Rest, Less
    <3>2. IsWellFoundedOn(Less, Nat)
      BY Numbers DEF Less
    <3> QED BY <1>1, <3>1, <3>2, WFMin
  <2>2. x # 0 /\ x \in Nat
    OBVIOUS
  <2>3. x - 1 \in Nat /\ <<x - 1, x>> \in Less
    BY <2>2
  <2>4. x - 1 \in T
    BY <2>1, <2>3
  <2> QED BY <2>2, <2>3, <2>4
<1> QED BY <1>1

Mx(S) == CHOOSE x \in S : \A y \in S : x >= y
Steps(F, r, ts, f, D) ==
  f = [S \in SUBSET D |-> IF S = {} THEN r ELSE F[ts[Mx(S)]][f[S \ {Mx(S)}]]]
Iter(F, r, ts) == CHOOSE f : Steps(F, r, ts, f, DOMAIN ts)

\* After, as one step for each element of ts.
LEMMA Unfold == ASSUME NEW F, NEW r, NEW ts PROVE After(F, r, ts) = Iter(F, r, ts)[DOMAIN ts]
 BY DEF After, FoldLeft, MapThenFoldSet, Max, Iter, Mx, Steps

LEMMA Largest == ASSUME NEW k \in Nat, NEW S \in SUBSET (1 .. k), k \in S PROVE Mx(S) = k
<1>1. \A y \in S : k >= y
  OBVIOUS
<1>2. \A x \in S : (\A y \in S : x >= y) => x = k
  OBVIOUS
<1> QED BY <1>1, <1>2 DEF Mx

LEMMA StepsExist ==
  ASSUME NEW F, NEW r, NEW ts, NEW n \in Nat
  PROVE  \E f : Steps(F, r, ts, f, 1 .. n)
<1> DEFINE T == {k \in Nat : \E f : Steps(F, r, ts, f, 1 .. k)}
<1>1. 0 \in T
  <2>1. 1 .. 0 = {}
    OBVIOUS
  <2>2. Steps(F, r, ts, [S \in SUBSET {} |-> r], {})
    BY DEF Steps
  <2> QED BY <2>1, <2>2
<1>2. ASSUME NEW k \in Nat, k \in T PROVE k + 1 \in T
  <2>1. PICK f : Steps(F, r, ts, f, 1 .. k)
    BY <1>2, SMTT(60)
  <2> DEFINE g == [S \in SUBSET (1 .. k + 1) |->
                     IF k + 1 \in S THEN F[ts[k + 1]][f[S \ {k + 1}]] ELSE f[S]]
  <2>2. ASSUME NEW S \in SUBSET (1 .. k + 1)
        PROVE  g[S] = IF S = {} THEN r ELSE F[ts[Mx(S)]][g[S \ {Mx(S)}]]
    <3>1. CASE k + 1 \in S
      <4>1. Mx(S) = k + 1
        BY <3>1, Largest
      <4>2. S \ {k + 1} \in SUBSET (1 .. k + 1) /\ k + 1 \notin S \ {k + 1}
        OBVIOUS
      <4>3. g[S \ {k + 1}] = f[S \ {k + 1}]
        BY <4>2
      <4>4. g[S] = F[ts[k + 1]][f[S \ {k + 1}]] /\ S # {}
        BY <3>1
      <4> HIDE DEF g
      <4> QED BY <4>1, <4>3, <4>4
    <3>2. CASE k + 1 \notin S
      <4>1. S \in SUBSET (1 .. k)
        BY <3>2
      <4>2. S \ {Mx(S)} \in SUBSET (1 .. k + 1) /\ k + 1 \notin S \ {Mx(S)}
        BY <3>2
      <4>3. g[S \ {Mx(S)}] = f[S \ {Mx(S)}] /\ g[S] = f[S]
        BY <3>2, <4>2, SMTT(60)
      <4>4. f[S] = IF S = {} THEN r ELSE F[ts[Mx(S)]][f[S \ {Mx(S)}]]
        BY <2>1, <4>1 DEF Steps
      <4> HIDE DEF g
      <4> QED BY <4>3, <4>4
    <3> QED BY <3>1, <3>2
  <2>3. g = [S \in SUBSET (1 .. k + 1) |-> g[S]]
    OBVIOUS
  <2> HIDE DEF g
  <2>4. Steps(F, r, ts, g, 1 .. k + 1)
    BY <2>2, <2>3 DEF Steps
  <2> QED BY <2>4, SMTT(60)
<1> HIDE DEF T
<1>3. n \in T
  BY <1>1, <1>2, Induction
<1> QED BY <1>3 DEF T

\* What every step of After keeps, for the place it is at, holds at its end.
LEMMA AfterKeeps ==
  ASSUME NEW F, NEW r, NEW ts, NEW n \in Nat, DOMAIN ts = 1 .. n, NEW J, <<0, r>> \in J,
         \A k \in 0 .. n - 1 : \A x : <<k, x>> \in J => <<k + 1, F[ts[k + 1]][x]>> \in J
  PROVE  <<n, After(F, r, ts)>> \in J
<1> DEFINE f == Iter(F, r, ts)
           T == {k \in Nat : k <= n => <<k, f[1 .. k]>> \in J}
<1>1. Steps(F, r, ts, f, 1 .. n)
  BY StepsExist, SMTT(60) DEF Iter
<1> HIDE DEF f
<1>2. 0 \in T
  BY <1>1 DEF Steps
<1>3. ASSUME NEW k \in Nat, k \in T PROVE k + 1 \in T
  <2> SUFFICES ASSUME k + 1 <= n PROVE <<k + 1, f[1 .. k + 1]>> \in J
    OBVIOUS
  <2>1. <<k, f[1 .. k]>> \in J
    BY <1>3
  <2>2. Mx(1 .. k + 1) = k + 1
    BY Largest
  <2>3. (1 .. k + 1) \ {k + 1} = 1 .. k
    OBVIOUS
  <2>6. k + 1 \in 1 .. k + 1 /\ 1 .. k + 1 \in SUBSET (1 .. n)
    OBVIOUS
  <2>4. f[1 .. k + 1] = F[ts[k + 1]][f[1 .. k]]
    <3> DEFINE S == 1 .. k + 1
    <3>1. S \in SUBSET (1 .. n) /\ S # {} /\ Mx(S) = k + 1 /\ S \ {k + 1} = 1 .. k
      BY <2>2, <2>3, <2>6
    <3> HIDE DEF S
    <3>2. f[S] = F[ts[Mx(S)]][f[S \ {Mx(S)}]]
      BY <1>1, <3>1 DEF Steps
    <3>3. f[S] = F[ts[k + 1]][f[1 .. k]]
      BY <3>1, <3>2
    <3> QED BY <3>3 DEF S
  <2>5. k \in 0 .. n - 1
    OBVIOUS
  <2> QED BY <2>1, <2>4, <2>5
<1> HIDE DEF T
<1>4. n \in T
  BY <1>2, <1>3, Induction
<1> QED BY <1>4, Unfold DEF T, f

\* Kept, as one step for each element of s.
KeptSteps(s, S, f, n) ==
  f = [k \in 0 .. n |-> IF k = 0 THEN <<>>
                        ELSE IF s[k] \in S THEN Append(f[k - 1], s[k])
                        ELSE f[k - 1]]

LEMMA KeptStepsExist ==
  ASSUME NEW s, NEW S, NEW n \in Nat
  PROVE  \E f : KeptSteps(s, S, f, n)
<1> DEFINE T == {k \in Nat : \E f : KeptSteps(s, S, f, k)}
<1>1. 0 \in T
  <2>1. KeptSteps(s, S, [k \in 0 .. 0 |-> <<>>], 0)
    BY DEF KeptSteps
  <2> QED BY <2>1
<1>2. ASSUME NEW k \in Nat, k \in T PROVE k + 1 \in T
  <2>1. PICK f : KeptSteps(s, S, f, k)
    BY <1>2
  <2> DEFINE g == [i \in 0 .. k + 1 |->
                     IF i <= k THEN f[i]
                     ELSE IF s[k + 1] \in S THEN Append(f[k], s[k + 1]) ELSE f[k]]
  <2>2. ASSUME NEW i \in 0 .. k + 1
        PROVE  g[i] = IF i = 0 THEN <<>>
                      ELSE IF s[i] \in S THEN Append(g[i - 1], s[i])
                      ELSE g[i - 1]
    <3>1. CASE i <= k
      <4>1. i \in 0 .. k /\ (i # 0 => i - 1 \in 0 .. k + 1 /\ i - 1 <= k)
        BY <3>1
      <4>2. g[i] = f[i] /\ (i # 0 => g[i - 1] = f[i - 1])
        BY <3>1, <4>1
      <4> HIDE DEF g
      <4> QED BY <4>1, <4>2, <2>1 DEF KeptSteps
    <3>2. CASE i = k + 1
      <4>1. i # 0 /\ i - 1 = k /\ k \in 0 .. k + 1
        BY <3>2
      <4>2. g[k] = f[k]
        OBVIOUS
      <4>3. g[i] = IF s[k + 1] \in S THEN Append(f[k], s[k + 1]) ELSE f[k]
        BY <3>2
      <4> HIDE DEF g
      <4> QED BY <3>2, <4>1, <4>2, <4>3
    <3> QED BY <3>1, <3>2
  <2>3. g = [i \in 0 .. k + 1 |-> g[i]]
    OBVIOUS
  <2> HIDE DEF g
  <2>4. KeptSteps(s, S, g, k + 1)
    BY <2>2, <2>3 DEF KeptSteps
  <2> QED BY <2>4
<1> HIDE DEF T
<1>3. n \in T
  BY <1>1, <1>2, Induction
<1> QED BY <1>3 DEF T

\* Where the elements that are kept come from.
Picks(s, S, r, p, n) ==
  /\ p \in [1 .. Len(r) -> 1 .. n]
  /\ \A i \in 1 .. Len(r) : r[i] = s[p[i]] /\ s[p[i]] \in S
  /\ \A i, j \in 1 .. Len(r) : i < j => p[i] < p[j]
  /\ \A m \in 1 .. n : s[m] \in S => \E i \in 1 .. Len(r) : p[i] = m

LEMMA KeptPicks ==
  ASSUME NEW X, NEW s \in Seq(X), NEW S
  PROVE  /\ Kept(s, S) \in Seq(X)
         /\ \E p : Picks(s, S, Kept(s, S), p, Len(s))
<1> DEFINE f == CHOOSE g : KeptSteps(s, S, g, Len(s))
           T == {k \in Nat : k <= Len(s) =>
                   f[k] \in Seq(X) /\ \E p : Picks(s, S, f[k], p, k)}
<1>1. KeptSteps(s, S, f, Len(s)) /\ Len(s) \in Nat
  BY KeptStepsExist
<1>2. Kept(s, S) = f[Len(s)]
  BY DEF Kept, KeptSteps
<1> HIDE DEF f
<1>3. 0 \in T
  <2>1. f[0] = <<>>
    BY <1>1 DEF KeptSteps
  <2>2. Picks(s, S, f[0], <<>>, 0)
    BY <2>1 DEF Picks
  <2>3. f[0] \in Seq(X)
    BY <2>1
  <2>4. \E p : Picks(s, S, f[0], p, 0)
    BY <2>2
  <2> QED BY <2>3, <2>4
<1>4. ASSUME NEW k \in Nat, k \in T PROVE k + 1 \in T
  <2> SUFFICES ASSUME k + 1 <= Len(s)
               PROVE  f[k + 1] \in Seq(X) /\ \E p : Picks(s, S, f[k + 1], p, k + 1)
    OBVIOUS
  <2>1. f[k] \in Seq(X)
    BY <1>4
  <2>2. PICK p : Picks(s, S, f[k], p, k)
    BY <1>4
  <2>3. f[k + 1] = IF s[k + 1] \in S THEN Append(f[k], s[k + 1]) ELSE f[k]
    <3>1. k + 1 \in 0 .. Len(s) /\ k + 1 # 0 /\ (k + 1) - 1 = k
      BY <1>1
    <3> QED BY <1>1, <3>1 DEF KeptSteps
  <2>4. CASE s[k + 1] \in S
    <3> DEFINE n == Len(f[k])
               q == [i \in 1 .. n + 1 |-> IF i <= n THEN p[i] ELSE k + 1]
               r == f[k + 1]
    <3>1. r \in Seq(X) /\ Len(r) = n + 1 /\ n \in Nat /\ r[n + 1] = s[k + 1]
      BY <1>1, <2>1, <2>3, <2>4
    <3>2. \A i \in 1 .. n : r[i] = f[k][i]
      BY <1>1, <2>1, <2>3, <2>4
    <3>3. \A i \in 1 .. n : q[i] = p[i]
      BY <3>1
    <3>4. q[n + 1] = k + 1 /\ DOMAIN q = 1 .. n + 1
      BY <3>1
    <3>5. \A i \in 1 .. n : p[i] \in 1 .. k
      BY <2>2 DEF Picks
    <3>6. q \in [1 .. n + 1 -> 1 .. k + 1]
      <4>1. \A i \in 1 .. n + 1 : q[i] \in 1 .. k + 1
        BY <3>1, <3>3, <3>4, <3>5
      <4> QED BY <4>1
    <3> HIDE DEF q
    <3>7. \A i \in 1 .. n + 1 : r[i] = s[q[i]] /\ s[q[i]] \in S
      <4>1. \A i \in 1 .. n : f[k][i] = s[p[i]] /\ s[p[i]] \in S
        BY <2>2 DEF Picks
      <4>2. \A i \in 1 .. n : r[i] = s[q[i]] /\ s[q[i]] \in S
        BY <4>1, <3>2, <3>3
      <4>3. \A i \in 1 .. n + 1 : i \in 1 .. n \/ i = n + 1
        BY <3>1
      <4> HIDE DEF r, n
      <4> QED BY <2>4, <3>1, <3>4, <4>2, <4>3
    <3>8. \A i, j \in 1 .. n + 1 : i < j => q[i] < q[j]
      BY <2>2, <3>1, <3>3, <3>4, <3>5, SMTT(60) DEF Picks
    <3>9. \A m \in 1 .. k + 1 : s[m] \in S => \E i \in 1 .. n + 1 : q[i] = m
      <4> SUFFICES ASSUME NEW m \in 1 .. k + 1, s[m] \in S PROVE \E i \in 1 .. n + 1 : q[i] = m
        OBVIOUS
      <4>1. CASE m = k + 1
        BY <4>1, <3>1, <3>4
      <4>2. CASE m \in 1 .. k
        <5>1. PICK i \in 1 .. n : p[i] = m
          BY <4>2, <2>2 DEF Picks
        <5>2. q[i] = m /\ i \in 1 .. n + 1
          BY <5>1, <3>1, <3>3, SMTT(60)
        <5> QED BY <5>2
      <4> QED BY <4>1, <4>2
    <3> HIDE DEF r, n
    <3>10. Picks(s, S, r, q, k + 1)
      BY <3>1, <3>6, <3>7, <3>8, <3>9 DEF Picks
    <3> QED BY <3>1, <3>10 DEF r
  <2>5. CASE s[k + 1] \notin S
    <3>1. f[k + 1] = f[k]
      BY <2>3, <2>5
    <3>2. Picks(s, S, f[k], p, k + 1)
      <4>1. p \in [1 .. Len(f[k]) -> 1 .. k + 1]
        BY <2>2 DEF Picks
      <4>2. ASSUME NEW m \in 1 .. k + 1, s[m] \in S PROVE m \in 1 .. k
        BY <2>5, <4>2
      <4> QED BY <2>2, <4>1, <4>2 DEF Picks
    <3> QED BY <2>1, <3>1, <3>2
  <2> QED BY <2>4, <2>5
<1> HIDE DEF T
<1>5. Len(s) \in T
  BY <1>1, <1>3, <1>4, Induction
<1> QED BY <1>1, <1>2, <1>5 DEF T

-----------------------------------------------------------------------------
(* MemoryBindings                                                          *)

\* MemoryBindings has a copy of the operators of Lists.
LEMMA SameLists ==
  /\ \A s, S : Bindings!Kept(s, S) = Kept(s, S)
  /\ \A F, s, ts : Bindings!After(F, s, ts) = After(F, s, ts)
<1>1. \A s, S : Bindings!Kept(s, S) = Kept(s, S)
  BY DEF Bindings!Kept, Kept
<1>2. ASSUME NEW F, NEW s, NEW ts PROVE Bindings!After(F, s, ts) = After(F, s, ts)
  <2>1. Bindings!After(F, s, ts) = Iter(F, s, ts)[DOMAIN ts]
    BY DEF Bindings!After, Bindings!FoldLeft, Bindings!MapThenFoldSet, Bindings!Max, Iter, Mx,
           Steps
  <2> QED BY <2>1, Unfold
<1> QED BY <1>1, <1>2

-----------------------------------------------------------------------------
(* The primitives.                                                         *)

Entries == [token : Tokens, is : Bindings!Outcomes, left : 0 .. BindingTTL]
OneEach(s) == \A m, n \in 1 .. Len(s) : s[m].token = s[n].token => m = n
Good(s) == s \in Bindings!Stores /\ OneEach(s) /\ Len(s) <= MaxEntries

LEMMA EntryIs ==
  ASSUME NEW t \in Tokens, NEW o \in Bindings!Outcomes
  PROVE  Bindings!Entry(t, o) \in Entries
  BY BindingsAssumption DEF Bindings!Entry, Entries

LEMMA ListOf ==
  ASSUME NEW s \in Bindings!Stores
  PROVE  /\ s \in Seq(Entries) /\ Len(s) \in Nat /\ DOMAIN s = 1 .. Len(s)
         /\ \A n \in 1 .. Len(s) : s[n] \in Entries
         /\ Bindings!ToSet(s) = {s[n] : n \in 1 .. Len(s)}
         /\ Bindings!ToSet(s) \subseteq Entries
<1>1. s \in Seq(Entries)
  BY DEF Bindings!Stores, Entries
<1>2. Len(s) \in Nat /\ DOMAIN s = 1 .. Len(s) /\ \A n \in 1 .. Len(s) : s[n] \in Entries
  BY <1>1
<1>3. Bindings!ToSet(s) = {s[n] : n \in 1 .. Len(s)}
  BY <1>2 DEF Bindings!ToSet
<1> QED BY <1>1, <1>2, <1>3

LEMMA Member ==
  ASSUME NEW s \in Bindings!Stores, NEW e
  PROVE  e \in Bindings!ToSet(s) <=> \E n \in 1 .. Len(s) : s[n] = e
  BY ListOf

LEMMA Unique ==
  ASSUME NEW s \in Bindings!Stores, OneEach(s), NEW d \in Bindings!ToSet(s),
         NEW e \in Bindings!ToSet(s), d.token = e.token
  PROVE  d = e
<1>1. PICK m \in 1 .. Len(s) : s[m] = d
  BY Member
<1>2. PICK n \in 1 .. Len(s) : s[n] = e
  BY Member
<1> QED BY <1>1, <1>2 DEF OneEach

LEMMA Index ==
  ASSUME NEW s \in Bindings!Stores, NEW t, Bindings!Holds(s, t)
  PROVE  Bindings!IndexOf(s, t) \in 1 .. Len(s) /\ s[Bindings!IndexOf(s, t)].token = t
  BY ListOf DEF Bindings!Holds, Bindings!IndexOf

LEMMA HoldsIs ==
  ASSUME NEW s \in Bindings!Stores, NEW t
  PROVE  Bindings!Holds(s, t) <=> \E e \in Bindings!ToSet(s) : e.token = t
  BY ListOf, Member DEF Bindings!Holds

LEMMA IndexedIs ==
  ASSUME NEW s \in Bindings!Stores, OneEach(s), NEW e \in Bindings!ToSet(s)
  PROVE  Bindings!Holds(s, e.token) /\ s[Bindings!IndexOf(s, e.token)] = e
<1>1. Bindings!Holds(s, e.token)
  BY HoldsIs
<1>2. s[Bindings!IndexOf(s, e.token)] \in Bindings!ToSet(s) /\
        s[Bindings!IndexOf(s, e.token)].token = e.token
  BY <1>1, Index, Member
<1> QED BY <1>1, <1>2, Unique

LEMMA Removed ==
  ASSUME NEW s \in Bindings!Stores, OneEach(s), NEW n \in 1 .. Len(s)
  PROVE  /\ Bindings!RemoveAt(s, n) \in Bindings!Stores /\ OneEach(Bindings!RemoveAt(s, n))
         /\ Len(Bindings!RemoveAt(s, n)) = Len(s) - 1
         /\ \A i \in 1 .. Len(s) - 1 :
            Bindings!RemoveAt(s, n)[i] = IF i < n THEN s[i] ELSE s[i + 1]
         /\ Bindings!ToSet(Bindings!RemoveAt(s,
            n)) = {e \in Bindings!ToSet(s) : e.token # s[n].token}
<1> DEFINE r == Bindings!RemoveAt(s, n)
<1>1. s \in Seq(Entries) /\ Len(s) \in Nat
  BY ListOf
<1> DEFINE a == SubSeq(s, 1, n - 1)
           b == SubSeq(s, n + 1, Len(s))
<1>8. a \in Seq(Entries) /\ Len(a) = n - 1 /\ \A i \in 1 .. n - 1 : a[i] = s[i]
  BY <1>1
<1>9. b \in Seq(Entries) /\ Len(b) = Len(s) - n /\ \A i \in 1 .. Len(s) - n : b[i] = s[n + i]
  BY <1>1
<1>10. r = a \o b
  BY DEF Bindings!RemoveAt
<1> HIDE DEF a, b
<1>2. r \in Seq(Entries) /\ Len(r) = Len(s) - 1
  BY <1>1, <1>8, <1>9, <1>10, SMTT(60)
<1>3. \A i \in 1 .. Len(s) - 1 : r[i] = IF i < n THEN s[i] ELSE s[i + 1]
  <2> SUFFICES ASSUME NEW i \in 1 .. Len(s) - 1
               PROVE  r[i] = IF i < n THEN s[i] ELSE s[i + 1]
    OBVIOUS
  <2>1. r[i] = IF i <= n - 1 THEN a[i] ELSE b[i - (n - 1)]
    BY <1>1, <1>8, <1>9, <1>10
  <2>2. CASE i < n
    BY <1>1, <1>8, <2>1, <2>2
  <2>3. CASE ~(i < n)
    <3>1. i - (n - 1) \in 1 .. Len(s) - n /\ n + (i - (n - 1)) = i + 1 /\ ~(i <= n - 1)
      BY <1>1, <2>3
    <3> QED BY <1>9, <2>1, <2>3, <3>1
  <2> QED BY <2>2, <2>3
<1> HIDE DEF r
<1>4. r \in Bindings!Stores
  BY <1>2 DEF Bindings!Stores, Entries
<1>5. OneEach(r)
  <2> SUFFICES ASSUME NEW i \in 1 .. Len(r), NEW j \in 1 .. Len(r), r[i].token = r[j].token
               PROVE  i = j
    BY DEF OneEach
  <2> DEFINE from(k) == IF k < n THEN k ELSE k + 1
  <2>1. \A k \in 1 .. Len(r) : r[k] = s[from(k)] /\ from(k) \in 1 .. Len(s)
    BY <1>1, <1>2, <1>3
  <2>2. from(i) = from(j)
    BY <2>1, SMTT(60) DEF OneEach
  <2> QED BY <1>1, <1>2, <2>2
<1>6. ASSUME NEW e \in Bindings!ToSet(r) PROVE e \in Bindings!ToSet(s) /\ e.token # s[n].token
  <2>1. PICK i \in 1 .. Len(r) : r[i] = e
    BY <1>4, Member
  <2>2. PICK j \in 1 .. Len(s) : s[j] = e /\ j # n
    BY <1>1, <1>2, <1>3, <2>1
  <2> QED BY <2>2, Member DEF OneEach
<1>7. ASSUME NEW e \in Bindings!ToSet(s), e.token # s[n].token PROVE e \in Bindings!ToSet(r)
  <2>1. PICK j \in 1 .. Len(s) : s[j] = e /\ j # n
    BY <1>7, Member
  <2>2. PICK i \in 1 .. Len(r) : r[i] = e
    <3>1. CASE j < n
      BY <1>1, <1>2, <1>3, <2>1, <3>1
    <3>2. CASE j > n
      <4>1. j - 1 \in 1 .. Len(s) - 1 /\ ~(j - 1 < n) /\ (j - 1) + 1 = j
        BY <1>1, <3>2
      <4> QED BY <1>2, <1>3, <2>1, <4>1
    <3> QED BY <2>1, <3>1, <3>2
  <2> QED BY <2>2, <1>4, Member
<1> QED BY <1>2, <1>3, <1>4, <1>5, <1>6, <1>7 DEF r

LEMMA Left ==
  ASSUME NEW s \in Bindings!Stores, OneEach(s), NEW t
  PROVE  /\ Bindings!Without(s, t) \in Bindings!Stores /\ OneEach(Bindings!Without(s, t))
         /\ Len(Bindings!Without(s, t)) <= Len(s)
         /\ Bindings!Holds(s, t) => Len(Bindings!Without(s, t)) = Len(s) - 1
         /\ Bindings!ToSet(Bindings!Without(s, t)) = {e \in Bindings!ToSet(s) : e.token # t}
<1>1. Len(s) \in Nat
  BY ListOf
<1>2. CASE Bindings!Holds(s, t)
  <2>1. Bindings!IndexOf(s, t) \in 1 .. Len(s) /\ s[Bindings!IndexOf(s, t)].token = t
    BY <1>2, Index
  <2>2. Bindings!Without(s, t) = Bindings!RemoveAt(s, Bindings!IndexOf(s, t))
    BY <1>2 DEF Bindings!Without
  <2> QED BY <1>1, <2>1, <2>2, Removed
<1>3. CASE ~Bindings!Holds(s, t)
  BY <1>1, <1>3, HoldsIs DEF Bindings!Without
<1> QED BY <1>2, <1>3

LEMMA Pushed ==
  ASSUME NEW s \in Bindings!Stores, OneEach(s), NEW e \in Entries,
         \A d \in Bindings!ToSet(s) : d.token # e.token
  PROVE  /\ <<e>> \o s \in Bindings!Stores /\ OneEach(<<e>> \o s)
         /\ Len(<<e>> \o s) = Len(s) + 1
         /\ \A i \in 1 .. Len(s) : (<<e>> \o s)[i + 1] = s[i]
         /\ (<<e>> \o s)[1] = e
         /\ Bindings!ToSet(<<e>> \o s) = Bindings!ToSet(s) \cup {e}
<1> DEFINE r == <<e>> \o s
<1>1. s \in Seq(Entries) /\ Len(s) \in Nat
  BY ListOf
<1>2. r \in Seq(Entries) /\ Len(r) = Len(s) + 1 /\ r[1] = e
  BY <1>1
<1>3. \A i \in 1 .. Len(s) : r[i + 1] = s[i]
  BY <1>1
<1>4. \A i \in 2 .. Len(r) : r[i] = s[i - 1]
  BY <1>1
<1> HIDE DEF r
<1>5. r \in Bindings!Stores
  BY <1>2 DEF Bindings!Stores, Entries
<1>6. ASSUME NEW d PROVE d \in Bindings!ToSet(r) <=> d \in Bindings!ToSet(s) \/ d = e
  <2>1. ASSUME d \in Bindings!ToSet(r) PROVE d \in Bindings!ToSet(s) \/ d = e
    <3>1. PICK i \in 1 .. Len(r) : r[i] = d
      BY <2>1, <1>5, Member
    <3>2. CASE i = 1
      BY <3>1, <3>2, <1>2
    <3>3. CASE i # 1
      <4>1. i \in 2 .. Len(r) /\ i - 1 \in 1 .. Len(s)
        BY <3>3, <1>1, <1>2
      <4> QED BY <4>1, <3>1, <1>4, Member
    <3> QED BY <3>2, <3>3
  <2>2. ASSUME d \in Bindings!ToSet(s) PROVE d \in Bindings!ToSet(r)
    <3>1. PICK i \in 1 .. Len(s) : s[i] = d
      BY <2>2, Member
    <3>2. i + 1 \in 1 .. Len(r) /\ r[i + 1] = d
      BY <3>1, <1>1, <1>2, <1>3
    <3> QED BY <3>2, <1>5, Member
  <2>3. e \in Bindings!ToSet(r)
    <3>1. 1 \in 1 .. Len(r)
      BY <1>1, <1>2
    <3> QED BY <3>1, <1>2, <1>5, Member
  <2> QED BY <2>1, <2>2, <2>3
<1>7. OneEach(r)
  <2> SUFFICES ASSUME NEW m \in 1 .. Len(r), NEW n \in 1 .. Len(r), r[m].token = r[n].token
               PROVE  m = n
    BY DEF OneEach
  <2>1. \A i \in 2 .. Len(r) : i - 1 \in 1 .. Len(s) /\ r[i] \in Bindings!ToSet(s)
    BY <1>1, <1>2, <1>4, Member, SMTT(60)
  <2>2. m = 1 => n = 1
    BY <1>1, <1>2, <2>1
  <2>3. n = 1 => m = 1
    BY <1>1, <1>2, <2>1
  <2>4. m # 1 /\ n # 1 => m - 1 = n - 1
    <3>1. ASSUME m # 1, n # 1 PROVE m - 1 = n - 1
      <4>1. m \in 2 .. Len(r) /\ n \in 2 .. Len(r)
        BY <3>1, <1>1, <1>2
      <4>2. s[m - 1].token = s[n - 1].token
        BY <4>1, <1>4
      <4> QED BY <4>1, <4>2, <2>1 DEF OneEach
    <3> QED BY <3>1
  <2> QED BY <1>1, <1>2, <2>2, <2>3, <2>4
<1> QED BY <1>2, <1>3, <1>5, <1>6, <1>7 DEF r

LEMMA Fronted ==
  ASSUME NEW s, Good(s), NEW e \in Entries, Bindings!Holds(s, e.token)
  PROVE  /\ Good(Bindings!ToFront(s, e))
         /\ Len(Bindings!ToFront(s, e)) = Len(s)
         /\ Bindings!ToSet(Bindings!ToFront(s,
            e)) = {d \in Bindings!ToSet(s) : d.token # e.token} \cup {e}
<1>1. s \in Bindings!Stores /\ OneEach(s) /\ Len(s) \in Nat /\ Len(s) <= MaxEntries
  BY ListOf DEF Good
<1>2. /\ Bindings!Without(s, e.token) \in Bindings!Stores
      /\ OneEach(Bindings!Without(s, e.token))
      /\ Len(Bindings!Without(s, e.token)) = Len(s) - 1
      /\ Bindings!ToSet(Bindings!Without(s,
         e.token)) = {d \in Bindings!ToSet(s) : d.token # e.token}
  BY <1>1, Left
<1> QED BY <1>1, <1>2, Pushed DEF Bindings!ToFront, Good

LEMMA Shortened ==
  ASSUME NEW s, Good(s)
  PROVE  /\ Good(Bindings!Evicted(s)) /\ Len(Bindings!Evicted(s)) < MaxEntries
         /\ Bindings!ToSet(Bindings!Evicted(s)) \subseteq Bindings!ToSet(s)
         /\ Len(Bindings!Evicted(s)) = IF Len(s) < MaxEntries THEN Len(s) ELSE MaxEntries - 1
         /\ \A i \in 1 .. Len(Bindings!Evicted(s)) : Bindings!Evicted(s)[i] = s[i]
<1> DEFINE r == Bindings!Evicted(s)
           m == IF Len(s) >= MaxEntries THEN MaxEntries - 1 ELSE Len(s)
<1>1. s \in Bindings!Stores /\ s \in Seq(Entries) /\ OneEach(s) /\ Len(s) \in Nat /\
        Len(s) <= MaxEntries
  BY ListOf DEF Good
<1>2. m \in Nat /\ m <= Len(s) /\ m < MaxEntries
  BY <1>1, BindingsAssumption
<1>3. m = IF Len(s) < MaxEntries THEN Len(s) ELSE MaxEntries - 1
  BY <1>1, BindingsAssumption
<1> HIDE DEF m
<1>4. r = SubSeq(s, 1, m)
  BY DEF Bindings!Evicted, m
<1>5. r \in Seq(Entries) /\ Len(r) = m /\ \A i \in 1 .. m : r[i] = s[i]
  BY <1>1, <1>2, <1>4
<1> HIDE DEF r
<1>6. r \in Bindings!Stores
  BY <1>5 DEF Bindings!Stores, Entries
<1>7. OneEach(r)
  BY <1>1, <1>2, <1>5 DEF OneEach
<1>8. ASSUME NEW e \in Bindings!ToSet(r) PROVE e \in Bindings!ToSet(s)
  <2>1. PICK i \in 1 .. m : r[i] = e
    BY <1>5, <1>6, Member
  <2>2. i \in 1 .. Len(s) /\ s[i] = e
    BY <1>1, <1>2, <1>5, <2>1
  <2> QED BY <2>2, <1>1, Member
<1>9. Len(r) <= MaxEntries
  BY <1>2, <1>5, BindingsAssumption
<1> QED BY <1>2, <1>3, <1>5, <1>6, <1>7, <1>8, <1>9 DEF r, Good

LEMMA Selected ==
  ASSUME NEW s \in Bindings!Stores, OneEach(s), NEW S
  PROVE  /\ Kept(s, S) \in Bindings!Stores /\ OneEach(Kept(s, S))
         /\ Len(Kept(s, S)) <= Len(s)
         /\ Bindings!ToSet(Kept(s, S)) = Bindings!ToSet(s) \cap S
<1> DEFINE r == Kept(s, S)
<1>1. s \in Seq(Entries) /\ Len(s) \in Nat
  BY ListOf
<1>2. r \in Seq(Entries) /\ \E p : Picks(s, S, r, p, Len(s))
  BY <1>1, KeptPicks
<1> HIDE DEF r
<1>3. PICK p : Picks(s, S, r, p, Len(s))
  BY <1>2
<1>4. r \in Bindings!Stores /\ Len(r) \in Nat
  BY <1>2 DEF Bindings!Stores, Entries
<1>5. \A i, j \in 1 .. Len(r) : p[i] = p[j] => i = j
  <2> SUFFICES ASSUME NEW i \in 1 .. Len(r), NEW j \in 1 .. Len(r), i # j PROVE p[i] # p[j]
    OBVIOUS
  <2>1. p[i] \in 1 .. Len(s) /\ p[j] \in 1 .. Len(s)
    BY <1>3, SMTT(60) DEF Picks
  <2>2. i < j \/ j < i
    BY <1>4
  <2>3. p[i] < p[j] \/ p[j] < p[i]
    BY <1>3, <2>2 DEF Picks
  <2> QED BY <2>1, <2>3
<1>6. OneEach(r)
  BY <1>3, <1>5, SMTT(60) DEF Picks, OneEach
<1>7. ASSUME NEW e PROVE e \in Bindings!ToSet(r) <=> e \in Bindings!ToSet(s) /\ e \in S
  <2>1. ASSUME e \in Bindings!ToSet(r) PROVE e \in Bindings!ToSet(s) /\ e \in S
    <3>1. PICK i \in 1 .. Len(r) : r[i] = e
      BY <2>1, <1>4, Member
    <3>2. p[i] \in 1 .. Len(s) /\ s[p[i]] = e /\ e \in S
      BY <3>1, <1>3 DEF Picks
    <3> QED BY <3>2, Member
  <2>2. ASSUME e \in Bindings!ToSet(s), e \in S PROVE e \in Bindings!ToSet(r)
    <3>1. PICK m \in 1 .. Len(s) : s[m] = e
      BY <2>2, Member
    <3>2. PICK i \in 1 .. Len(r) : p[i] = m
      BY <2>2, <3>1, <1>3 DEF Picks
    <3>3. r[i] = e
      BY <3>1, <3>2, <1>3 DEF Picks
    <3> QED BY <3>3, <1>4, Member
  <2> QED BY <2>1, <2>2
<1>8. Len(r) <= Len(s)
  <2>1. p \in [1 .. Len(r) -> 1 .. Len(s)]
    BY <1>3 DEF Picks
  <2>2. IsFiniteSet(1 .. Len(s)) /\ IsFiniteSet(1 .. Len(r))
        /\ Cardinality(1 .. Len(s)) = Len(s) /\ Cardinality(1 .. Len(r)) = Len(r)
    <3>1. IsFiniteSet(1 .. Len(s)) /\
            Cardinality(1 .. Len(s)) = IF 1 > Len(s) THEN 0 ELSE Len(s) - 1 + 1
      BY <1>1, FS_Interval, SMTT(60)
    <3>2. IsFiniteSet(1 .. Len(r)) /\
            Cardinality(1 .. Len(r)) = IF 1 > Len(r) THEN 0 ELSE Len(r) - 1 + 1
      BY <1>4, FS_Interval, SMTT(60)
    <3> QED BY <1>1, <1>4, <3>1, <3>2
  <2>3. p \in Injection(1 .. Len(r), 1 .. Len(s))
    BY <2>1, <1>5, Fun_IsInj
  <2> QED BY <2>2, <2>3, FS_Injection
<1> QED BY <1>4, <1>6, <1>7, <1>8 DEF r

-----------------------------------------------------------------------------
(* Lookups and batches.                                                    *)

LEMMA Living ==
  ASSUME NEW s \in Bindings!Stores, OneEach(s)
  PROVE  /\ Bindings!Live(s) \in Bindings!Stores /\ OneEach(Bindings!Live(s))
         /\ Len(Bindings!Live(s)) <= Len(s)
         /\ Bindings!ToSet(Bindings!Live(s)) = {e \in Bindings!ToSet(s) : e.left > 0}
<1> DEFINE S == {e \in Bindings!ToSet(s) : e.left > 0}
<1>1. Bindings!Live(s) = Kept(s, S)
  BY SameLists DEF Bindings!Live
<1>2. Bindings!ToSet(s) \cap S = S
  OBVIOUS
<1> HIDE DEF S
<1>3. /\ Bindings!Live(s) \in Bindings!Stores /\ OneEach(Bindings!Live(s))
      /\ Len(Bindings!Live(s)) <= Len(s)
      /\ Bindings!ToSet(Bindings!Live(s)) = S
  BY <1>1, <1>2, Selected
<1> QED BY <1>3 DEF S

\* What is found for t is the outcome of its live entry.
Told(s, t, o) == \E e \in Bindings!ToSet(s) : e.token = t /\ e.left > 0 /\ e.is = o

LEMMA FoundIs ==
  ASSUME NEW s \in Bindings!Stores, OneEach(s), NEW t
  PROVE  /\ \A o \in Bindings!Outcomes : Bindings!Found(s, t) = o <=> Told(s, t, o)
         /\ Bindings!Found(s, t) = Unknown <=> \A e \in Bindings!ToSet(s) :
            ~(e.token = t /\ e.left > 0)
         /\ Bindings!Found(s, t) \in Bindings!Outcomes \cup {Unknown}
<1>1. Bindings!Holds(Bindings!Live(s), t) <=> \E e \in Bindings!ToSet(s) : e.token = t /\
        e.left > 0
  BY Living, HoldsIs
<1>2. ASSUME NEW e \in Bindings!ToSet(s), e.token = t, e.left > 0
             PROVE Bindings!Found(s, t) = e.is
  BY <1>1, <1>2, IndexedIs DEF Bindings!Found
<1>3. ASSUME \A e \in Bindings!ToSet(s) : ~(e.token = t /\ e.left > 0)
             PROVE Bindings!Found(s, t) = Unknown
  BY <1>1, <1>3 DEF Bindings!Found
<1>4. \A e \in Bindings!ToSet(s) : e.is \in Bindings!Outcomes
  BY ListOf DEF Entries
<1>5. Unknown \notin Bindings!Outcomes
  BY BindingsAssumption DEF Bindings!Outcomes
<1> QED BY <1>2, <1>3, <1>4, <1>5 DEF Told

\* Nothing that lives goes, and nothing comes.
Same(s, r) ==
  /\ Good(r)
  /\ Bindings!ToSet(r) \subseteq Bindings!ToSet(s)
  /\ \A e \in Bindings!ToSet(s) : e.left > 0 => e \in Bindings!ToSet(r)

LEMMA SameFound ==
  ASSUME NEW s, NEW r, Good(s), Same(s, r), NEW t
  PROVE  Bindings!Found(r, t) = Bindings!Found(s, t)
<1>1. s \in Bindings!Stores /\ OneEach(s) /\ r \in Bindings!Stores /\ OneEach(r)
  BY DEF Good, Same
<1>2. CASE Bindings!Found(s, t) = Unknown
  <2>1. \A e \in Bindings!ToSet(r) : ~(e.token = t /\ e.left > 0)
    BY <1>1, <1>2, FoundIs DEF Same
  <2> QED BY <1>1, <1>2, <2>1, FoundIs
<1>3. CASE Bindings!Found(s, t) # Unknown
  <2>1. Bindings!Found(s, t) \in Bindings!Outcomes /\ Told(s, t, Bindings!Found(s, t))
    BY <1>1, <1>3, FoundIs
  <2>2. Told(r, t, Bindings!Found(s, t))
    BY <2>1 DEF Told, Same
  <2> QED BY <1>1, <2>1, <2>2, FoundIs
<1> QED BY <1>2, <1>3

LEMMA LookedSame ==
  ASSUME NEW s, Good(s), NEW t \in Tokens
  PROVE  Same(s, Bindings!Looked(s, t))
<1>1. s \in Bindings!Stores /\ OneEach(s) /\ Len(s) \in Nat
  BY ListOf DEF Good
<1>2. CASE ~Bindings!Holds(s, t)
  BY <1>2 DEF Bindings!Looked, Same
<1>3. CASE Bindings!Holds(s, t) /\ Bindings!Found(s, t) = Unknown
  <2>1. Bindings!Looked(s, t) = Bindings!Without(s, t)
    BY <1>3 DEF Bindings!Looked
  <2>2. Good(Bindings!Without(s, t))
    BY <1>1, <1>3, Left, BindingsAssumption DEF Good
  <2> QED BY <1>1, <1>3, <2>1, <2>2, Left, FoundIs DEF Same
<1>4. CASE Bindings!Holds(s, t) /\ Bindings!Found(s, t) # Unknown
  <2> DEFINE e == s[Bindings!IndexOf(s, t)]
  <2>1. e \in Bindings!ToSet(s) /\ e.token = t /\ e \in Entries
    BY <1>1, <1>4, Index, Member, ListOf
  <2>2. Bindings!Looked(s, t) = Bindings!ToFront(s, e)
    BY <1>4 DEF Bindings!Looked, Bindings!Touch
  <2> HIDE DEF e
  <2>3. \A d \in Bindings!ToSet(s) : d.token = t => d = e
    BY <1>1, <2>1, Unique
  <2> QED BY <1>4, <2>1, <2>2, <2>3, Fronted DEF Same
<1> QED BY <1>2, <1>3, <1>4

\* A batch is a list of different tokens.
IsBatch(ts) ==
  /\ ts \in Seq(Tokens)
  /\ \A i, j \in 1 .. Len(ts) : ts[i] = ts[j] => i = j

LEMMA BatchIs == ASSUME NEW ts \in Bindings!Batches PROVE IsBatch(ts)
<1>1. PICK S \in SUBSET Tokens : ts \in Bindings!SetToSeqs(S)
  BY DEF Bindings!Batches, Bindings!SetToAllKPermutations
<1>2. Cardinality(S) \in Nat
  BY BindingsAssumption, FS_Subset, FS_CardinalityType
<1>3. ts \in [1 .. Cardinality(S) -> S]
      /\ \A i, j \in 1 .. Cardinality(S) : i # j => ts[i] # ts[j]
  BY <1>1 DEF Bindings!SetToSeqs, Bindings!Cardinality, Cardinality
<1>4. ts \in Seq(Tokens) /\ Len(ts) = Cardinality(S)
  BY <1>2, <1>3
<1> QED BY <1>3, <1>4 DEF IsBatch

LEMMA ResolveSame ==
  ASSUME NEW ts, IsBatch(ts), NEW s, Good(s)
  PROVE  Same(s, After(Bindings!LookUp, s, ts))
<1> DEFINE J == {p \in Nat \X Bindings!Stores : Same(s, p[2])}
<1>1. ts \in Seq(Tokens) /\ Len(ts) \in Nat /\ DOMAIN ts = 1 .. Len(ts)
  BY DEF IsBatch
<1>2. <<0, s>> \in J
  <2>1. Same(s, s) /\ s \in Bindings!Stores
    BY DEF Same, Good
  <2> QED BY <2>1
<1>3. ASSUME NEW k \in 0 .. Len(ts) - 1, NEW r, <<k, r>> \in J
      PROVE  <<k + 1, Bindings!LookUp[ts[k + 1]][r]>> \in J
  <2>1. r \in Bindings!Stores /\ Same(s, r)
    BY <1>3
  <2>2. ts[k + 1] \in Tokens
    BY <1>1
  <2>3. Bindings!LookUp[ts[k + 1]][r] = Bindings!Looked(r, ts[k + 1])
    BY <2>1, <2>2 DEF Bindings!LookUp
  <2>4. Same(r, Bindings!Looked(r, ts[k + 1]))
    BY <2>1, <2>2, LookedSame DEF Same
  <2>5. Same(s, Bindings!Looked(r, ts[k + 1])) /\
          Bindings!Looked(r, ts[k + 1]) \in Bindings!Stores
    BY <2>1, <2>4 DEF Same, Good
  <2> QED BY <2>3, <2>5
<1> HIDE DEF J
<1>4. <<Len(ts), After(Bindings!LookUp, s, ts)>> \in J
  BY <1>1, <1>2, <1>3, AfterKeeps
<1> QED BY <1>4 DEF J

\* The first n tokens of a batch.
First(ts, n) == {ts[i] : i \in 1 .. n}

LEMMA Firsts ==
  ASSUME NEW ts, IsBatch(ts), NEW k \in 0 .. Len(ts) - 1
  PROVE  /\ First(ts, k + 1) = First(ts, k) \cup {ts[k + 1]}
         /\ ts[k + 1] \notin First(ts, k) /\ ts[k + 1] \in Tokens
<1>1. ts \in Seq(Tokens) /\ Len(ts) \in Nat
  BY DEF IsBatch
<1>2. k + 1 \in 1 .. Len(ts) /\ \A i \in 1 .. k : i \in 1 .. Len(ts) /\ i # k + 1
  BY <1>1
<1>3. \A i \in 1 .. k + 1 : i \in 1 .. k \/ i = k + 1
  BY <1>1
<1>4. First(ts, k + 1) = First(ts, k) \cup {ts[k + 1]}
  BY <1>1, <1>3 DEF First
<1>5. ts[k + 1] \notin First(ts, k)
  BY <1>2 DEF First, IsBatch
<1> QED BY <1>1, <1>2, <1>4, <1>5

\* Entry e is turned into a tombstone by a batch of o with the tokens of T.
Turns(e, T, o) == e.token \in T /\ e.is \notin {o, Conflict}

Turned(s, r, T, o) ==
  /\ Good(r)
  /\ \A e \in Bindings!ToSet(s) :
     IF Turns(e, T, o) THEN Bindings!Entry(e.token, Conflict) \in Bindings!ToSet(r)
                                                    ELSE e \in Bindings!ToSet(r)
  /\ \A e \in Bindings!ToSet(r) : \/ e \in Bindings!ToSet(s)
                                  \/ /\ e = Bindings!Entry(e.token, Conflict)
                                     /\ \E d \in Bindings!ToSet(s) :
                                          d.token = e.token /\ Turns(d, T, o)

LEMMA MarkedTurned ==
  ASSUME NEW s, Good(s), NEW r, NEW T \in SUBSET Tokens, NEW o \in Owners, Turned(s, r, T, o),
         NEW t \in Tokens \ T
  PROVE  Turned(s, Bindings!Marked(r, t, o), T \cup {t}, o)
<1>1. s \in Bindings!Stores /\ OneEach(s) /\ r \in Bindings!Stores /\ OneEach(r) /\ Good(r)
  BY DEF Good, Turned
<1>2. ASSUME NEW e \in Bindings!ToSet(s), e.token = t PROVE e \in Bindings!ToSet(r) /\
             Bindings!Holds(r, t)
  <2>1. ~Turns(e, T, o)
    BY <1>2 DEF Turns
  <2> QED BY <1>1, <1>2, <2>1, HoldsIs, SMTT(60) DEF Turned
<1>3. ASSUME NEW e \in Bindings!ToSet(r), e.token = t PROVE e \in Bindings!ToSet(s)
  BY <1>3 DEF Turned, Turns
<1>4. CASE ~Bindings!Holds(r, t)
  <2>1. Bindings!Marked(r, t, o) = r
    BY <1>4 DEF Bindings!Marked
  <2>2. \A e \in Bindings!ToSet(s) : Turns(e, T \cup {t}, o) <=> Turns(e, T, o)
    BY <1>2, <1>4 DEF Turns
  <2> QED BY <2>1, <2>2 DEF Turned
<1>5. CASE Bindings!Holds(r, t)
  <2> DEFINE e == r[Bindings!IndexOf(r, t)]
  <2>1. e \in Bindings!ToSet(r) /\ e.token = t /\ e \in Entries
    BY <1>1, <1>5, Index, Member, ListOf
  <2>2. Bindings!Marked(r, t, o) = IF e.is \in {o, Conflict} THEN Bindings!ToFront(r, e)
                                   ELSE Bindings!ToFront(r, Bindings!Entry(t, Conflict))
    BY <1>5 DEF Bindings!Marked, Bindings!Touch
  <2> HIDE DEF e
  <2>3. e \in Bindings!ToSet(s)
    BY <1>3, <2>1
  <2>4. /\ \A d \in Bindings!ToSet(s) : d.token = t => d = e
        /\ \A d \in Bindings!ToSet(r) : d.token = t => d = e
    BY <1>1, <2>1, <2>3, Unique
  <2>5. CASE e.is \in {o, Conflict}
    <3>1. Good(Bindings!ToFront(r, e)) /\
            Bindings!ToSet(Bindings!ToFront(r,
              e)) = {d \in Bindings!ToSet(r) : d.token # t} \cup {e}
      BY <1>1, <1>5, <2>1, Fronted
    <3>2. Bindings!ToSet(Bindings!ToFront(r, e)) = Bindings!ToSet(r)
      BY <2>1, <2>4, <3>1
    <3>3. \A d \in Bindings!ToSet(s) : Turns(d, T \cup {t}, o) <=> Turns(d, T, o)
      BY <2>4, <2>5 DEF Turns
    <3> QED BY <2>2, <2>5, <3>1, <3>2, <3>3 DEF Turned
  <2>6. CASE e.is \notin {o, Conflict}
    <3> DEFINE c == Bindings!Entry(t, Conflict)
               m == Bindings!ToFront(r, c)
    <3>1. c \in Entries /\ c.token = t /\ c = Bindings!Entry(c.token, Conflict)
      BY EntryIs DEF Bindings!Outcomes, Bindings!Entry
    <3>2. Good(m) /\ Bindings!ToSet(m) = {d \in Bindings!ToSet(r) : d.token # t} \cup {c}
      BY <1>1, <1>5, <3>1, Fronted
    <3>3. Bindings!Marked(r, t, o) = m
      BY <2>2, <2>6
    <3>4. Turns(e, T \cup {t}, o)
      BY <2>1, <2>6 DEF Turns
    <3>5. \A d \in Bindings!ToSet(s) : d.token # t
            => (Turns(d, T \cup {t}, o) <=> Turns(d, T, o))
      BY DEF Turns
    <3>6. c = Bindings!Entry(e.token, Conflict)
      BY <2>1
    <3> HIDE DEF c, m
    <3>7. ASSUME NEW d \in Bindings!ToSet(s)
          PROVE  IF Turns(d, T \cup {t}, o) THEN Bindings!Entry(d.token,
                 Conflict) \in Bindings!ToSet(m)
                 ELSE d \in Bindings!ToSet(m)
      <4>1. CASE d.token = t
        BY <2>4, <3>2, <3>4, <3>6, <4>1
      <4>2. CASE d.token # t
        <5>1. Bindings!Entry(d.token, Conflict).token = d.token
          BY DEF Bindings!Entry
        <5> QED BY <3>2, <3>5, <4>2, <5>1 DEF Turned
      <4> QED BY <4>1, <4>2
    <3>8. ASSUME NEW d \in Bindings!ToSet(m)
          PROVE  \/ d \in Bindings!ToSet(s)
                 \/ /\ d = Bindings!Entry(d.token, Conflict)
                    /\ \E x \in Bindings!ToSet(s) :
                         x.token = d.token /\ Turns(x, T \cup {t}, o)
      <4>1. CASE d = c
        BY <2>1, <2>3, <3>1, <3>4, <4>1
      <4>2. CASE d # c
        <5>1. d \in Bindings!ToSet(r) /\ d.token # t
          BY <3>2, <4>2
        <5> QED BY <3>5, <5>1 DEF Turned
      <4> QED BY <4>1, <4>2
    <3> QED BY <3>2, <3>3, <3>7, <3>8 DEF Turned
  <2> QED BY <2>5, <2>6
<1> QED BY <1>4, <1>5

LEMMA MarkTurns ==
  ASSUME NEW ts, IsBatch(ts), NEW s, Good(s), NEW o \in Owners
  PROVE  Turned(s, After(Bindings!Mark(o), s, ts), Bindings!ToSet(ts), o)
<1> DEFINE J == {p \in Nat \X Bindings!Stores : Turned(s, p[2], First(ts, p[1]), o)}
<1>1. ts \in Seq(Tokens) /\ Len(ts) \in Nat /\ DOMAIN ts = 1 .. Len(ts)
  BY DEF IsBatch
<1>2. <<0, s>> \in J
  <2>1. First(ts, 0) = {}
    BY DEF First
  <2>2. Turned(s, s, {}, o) /\ s \in Bindings!Stores
    BY DEF Turned, Turns, Good
  <2> QED BY <2>1, <2>2
<1>3. ASSUME NEW k \in 0 .. Len(ts) - 1, NEW r, <<k, r>> \in J
      PROVE  <<k + 1, Bindings!Mark(o)[ts[k + 1]][r]>> \in J
  <2> DEFINE m == Bindings!Marked(r, ts[k + 1], o)
  <2>1. r \in Bindings!Stores /\ Turned(s, r, First(ts, k), o)
    BY <1>3
  <2>2. /\ First(ts, k + 1) = First(ts, k) \cup {ts[k + 1]}
        /\ ts[k + 1] \in Tokens \ First(ts, k)
    BY Firsts
  <2>3. First(ts, k) \in SUBSET Tokens
    BY <1>1 DEF First
  <2>4. Turned(s, m, First(ts, k + 1), o)
    BY <2>1, <2>2, <2>3, MarkedTurned
  <2>5. m \in Bindings!Stores
    BY <2>4 DEF Turned, Good
  <2>6. Bindings!Mark(o)[ts[k + 1]][r] = m
    BY <2>1, <2>2 DEF Bindings!Mark
  <2> HIDE DEF m
  <2> QED BY <2>4, <2>5, <2>6
<1> HIDE DEF J
<1>4. <<Len(ts), After(Bindings!Mark(o), s, ts)>> \in J
  BY <1>1, <1>2, <1>3, AfterKeeps
<1>5. First(ts, Len(ts)) = Bindings!ToSet(ts)
  BY <1>1 DEF First, Bindings!ToSet
<1> QED BY <1>4, <1>5 DEF J

\* The first n tokens are at the front, the last one first; the rest was there.
Stacked(s, r, ts, n, o) ==
  /\ Good(r)
  /\ n <= Len(r)
  /\ \A i \in 1 .. n : r[i] = Bindings!Entry(ts[n + 1 - i], o)
  /\ \A e \in Bindings!ToSet(r) :
       e \in Bindings!ToSet(s) \/ (e = Bindings!Entry(e.token, o) /\ e.token \in First(ts, n))

LEMMA StoredOnTop ==
  ASSUME NEW ts, IsBatch(ts), Len(ts) <= MaxEntries, NEW k \in 0 .. Len(ts) - 1,
         NEW s, NEW r, NEW o \in Owners, Stacked(s, r, ts, k, o)
  PROVE  Stacked(s, Bindings!Stored(r, ts[k + 1], o), ts, k + 1, o)
<1> DEFINE t == ts[k + 1]
           e == Bindings!Entry(t, o)
           m == Bindings!Stored(r, t, o)
<1>1. ts \in Seq(Tokens) /\ Len(ts) \in Nat /\ k \in Nat /\ k + 1 <= Len(ts)
  BY DEF IsBatch
<1>2. /\ First(ts, k + 1) = First(ts, k) \cup {t}
      /\ t \notin First(ts, k) /\ t \in Tokens
  BY Firsts
<1>3. r \in Bindings!Stores /\ OneEach(r) /\ Len(r) \in Nat /\ k <= Len(r) /\
        Len(r) <= MaxEntries
  BY ListOf DEF Stacked, Good
<1>4. e \in Entries /\ e.token = t /\ e = Bindings!Entry(e.token, o)
  BY <1>2, EntryIs DEF Bindings!Outcomes, Bindings!Entry
<1>5. \A i \in 1 .. k : r[i].token # t
  <2> SUFFICES ASSUME NEW i \in 1 .. k PROVE r[i].token # t
    OBVIOUS
  <2>1. r[i] = Bindings!Entry(ts[k + 1 - i], o)
    BY DEF Stacked
  <2>2. k + 1 - i \in 1 .. Len(ts) /\ k + 1 - i # k + 1 /\ k + 1 \in 1 .. Len(ts)
    BY <1>1
  <2>3. ts[k + 1 - i] # t
    BY <2>2 DEF IsBatch
  <2> QED BY <2>1, <2>3 DEF Bindings!Entry
<1> HIDE DEF t, e, m
<1>6. PICK q \in Bindings!Stores : /\ m = <<e>> \o q /\ OneEach(q)
                                   /\ k <= Len(q) /\ Len(q) < MaxEntries
                                   /\ \A d \in Bindings!ToSet(q) : d.token # e.token
                                   /\ Bindings!ToSet(q) \subseteq Bindings!ToSet(r)
                                   /\ \A i \in 1 .. k : q[i] = r[i]
  <2>1. CASE Bindings!Holds(r, t)
    <3> DEFINE j == Bindings!IndexOf(r, t)
               q == Bindings!RemoveAt(r, j)
    <3>1. j \in 1 .. Len(r) /\ r[j].token = t
      BY <1>3, <2>1, Index
    <3>2. j > k
      BY <1>1, <1>3, <1>5, <3>1
    <3>3. m = <<e>> \o q
      BY <2>1, <1>4 DEF Bindings!Stored, Bindings!ToFront, Bindings!Without, m, e
    <3> HIDE DEF j
    <3>4. /\ q \in Bindings!Stores /\ OneEach(q) /\ Len(q) = Len(r) - 1
          /\ \A i \in 1 .. Len(r) - 1 : q[i] = IF i < j THEN r[i] ELSE r[i + 1]
          /\ Bindings!ToSet(q) = {d \in Bindings!ToSet(r) : d.token # t}
      BY <1>3, <3>1, Removed
    <3> HIDE DEF q
    <3>5. k <= Len(q) /\ Len(q) < MaxEntries
      BY <1>1, <1>3, <3>1, <3>2, <3>4, BindingsAssumption
    <3>6. \A i \in 1 .. k : q[i] = r[i]
      BY <1>1, <1>3, <3>1, <3>2, <3>4
    <3>7. (\A d \in Bindings!ToSet(q) : d.token # e.token) /\
            Bindings!ToSet(q) \subseteq Bindings!ToSet(r)
      BY <1>4, <3>4
    <3> QED BY <3>3, <3>4, <3>5, <3>6, <3>7, SMTT(60)
  <2>2. CASE ~Bindings!Holds(r, t)
    <3> DEFINE q == Bindings!Evicted(r)
    <3>1. Good(r)
      BY DEF Stacked
    <3>2. /\ Good(q) /\ Len(q) < MaxEntries /\ Bindings!ToSet(q) \subseteq Bindings!ToSet(r)
          /\ Len(q) = IF Len(r) < MaxEntries THEN Len(r) ELSE MaxEntries - 1
          /\ \A i \in 1 .. Len(q) : q[i] = r[i]
      BY <3>1, Shortened
    <3>3. m = <<e>> \o q
      BY <2>2 DEF Bindings!Stored, m, e
    <3> HIDE DEF q
    <3>4. k <= Len(q) /\ Len(q) \in Nat
      BY <1>1, <1>3, <3>2, BindingsAssumption
    <3>5. \A d \in Bindings!ToSet(q) : d.token # e.token
      BY <1>3, <1>4, <2>2, <3>2, HoldsIs
    <3>6. \A i \in 1 .. k : q[i] = r[i]
      BY <1>1, <3>2, <3>4
    <3>7. q \in Bindings!Stores /\ OneEach(q)
      BY <3>2 DEF Good
    <3> QED BY <3>2, <3>3, <3>4, <3>5, <3>6, <3>7
  <2> QED BY <2>1, <2>2
<1>7. /\ m \in Bindings!Stores /\ OneEach(m) /\ Len(m) = Len(q) + 1 /\ m[1] = e
      /\ \A i \in 1 .. Len(q) : m[i + 1] = q[i]
      /\ Bindings!ToSet(m) = Bindings!ToSet(q) \cup {e}
  BY <1>4, <1>6, Pushed
<1>8. Len(q) \in Nat
  BY <1>6, ListOf
<1>9. Good(m) /\ k + 1 <= Len(m)
  BY <1>1, <1>6, <1>7, <1>8, BindingsAssumption DEF Good
<1>10. ASSUME NEW i \in 1 .. k + 1 PROVE m[i] = Bindings!Entry(ts[(k + 1) + 1 - i], o)
  <2>1. CASE i = 1
    <3>1. (k + 1) + 1 - i = k + 1
      BY <1>1, <2>1
    <3> QED BY <1>7, <2>1, <3>1 DEF e, t
  <2>2. CASE i # 1
    <3>1. i - 1 \in 1 .. k /\ (i - 1) + 1 = i /\ i - 1 \in 1 .. Len(q)
      BY <1>1, <1>6, <1>8, <2>2
    <3>2. m[i] = r[i - 1]
      BY <1>6, <1>7, <3>1
    <3>3. r[i - 1] = Bindings!Entry(ts[k + 1 - (i - 1)], o)
      BY <3>1 DEF Stacked
    <3>4. k + 1 - (i - 1) = (k + 1) + 1 - i
      BY <1>1
    <3> QED BY <3>2, <3>3, <3>4
  <2> QED BY <2>1, <2>2
<1>11. ASSUME NEW d \in Bindings!ToSet(m)
       PROVE  d \in Bindings!ToSet(s) \/
              (d = Bindings!Entry(d.token, o) /\ d.token \in First(ts, k + 1))
  BY <1>2, <1>4, <1>6, <1>7 DEF Stacked
<1>12. Stacked(s, m, ts, k + 1, o)
  BY <1>9, <1>10, <1>11 DEF Stacked
<1> QED BY <1>12 DEF m, t

LEMMA StoreStacks ==
  ASSUME NEW ts, IsBatch(ts), Len(ts) <= MaxEntries, NEW s, Good(s), NEW o \in Owners
  PROVE  Stacked(s, After(Bindings!Store(o), s, ts), ts, Len(ts), o)
<1> DEFINE J == {p \in Nat \X Bindings!Stores : Stacked(s, p[2], ts, p[1], o)}
<1>1. ts \in Seq(Tokens) /\ Len(ts) \in Nat /\ DOMAIN ts = 1 .. Len(ts)
  BY DEF IsBatch
<1>2. <<0, s>> \in J
  <2>1. s \in Bindings!Stores /\ Len(s) \in Nat
    BY ListOf DEF Good
  <2>2. Stacked(s, s, ts, 0, o)
    BY <2>1 DEF Stacked
  <2> QED BY <2>1, <2>2
<1>3. ASSUME NEW k \in 0 .. Len(ts) - 1, NEW r, <<k, r>> \in J
      PROVE  <<k + 1, Bindings!Store(o)[ts[k + 1]][r]>> \in J
  <2> DEFINE m == Bindings!Stored(r, ts[k + 1], o)
  <2>1. r \in Bindings!Stores /\ Stacked(s, r, ts, k, o)
    BY <1>3
  <2>2. Stacked(s, m, ts, k + 1, o)
    BY <2>1, StoredOnTop
  <2>3. m \in Bindings!Stores
    BY <2>2 DEF Stacked, Good
  <2>4. ts[k + 1] \in Tokens
    BY Firsts
  <2>5. Bindings!Store(o)[ts[k + 1]][r] = m
    BY <2>1, <2>4 DEF Bindings!Store
  <2> HIDE DEF m
  <2> QED BY <2>2, <2>3, <2>5
<1> HIDE DEF J
<1>4. <<Len(ts), After(Bindings!Store(o), s, ts)>> \in J
  BY <1>1, <1>2, <1>3, AfterKeeps
<1> QED BY <1>4 DEF J

\* What a batch finds when it has bound all its tokens.
LEMMA StackedIs ==
  ASSUME NEW ts, IsBatch(ts), NEW s, NEW r, NEW o \in Owners, Stacked(s, r, ts, Len(ts), o)
  PROVE  /\ \A t \in Bindings!ToSet(ts) : Bindings!Entry(t, o) \in Bindings!ToSet(r)
         /\ \A e \in Bindings!ToSet(r) :
            IF e.token \in Bindings!ToSet(ts) THEN e = Bindings!Entry(e.token, o)
                                         ELSE e \in Bindings!ToSet(s)
<1>1. ts \in Seq(Tokens) /\ Len(ts) \in Nat /\ DOMAIN ts = 1 .. Len(ts)
  BY DEF IsBatch
<1>2. r \in Bindings!Stores /\ OneEach(r) /\ Len(r) \in Nat /\ Len(ts) <= Len(r)
  BY ListOf DEF Stacked, Good
<1>3. First(ts, Len(ts)) = Bindings!ToSet(ts)
  BY <1>1 DEF First, Bindings!ToSet
<1>4. ASSUME NEW t \in Bindings!ToSet(ts) PROVE Bindings!Entry(t, o) \in Bindings!ToSet(r)
  <2>1. PICK i \in 1 .. Len(ts) : ts[i] = t
    BY <1>4, <1>1 DEF Bindings!ToSet
  <2> DEFINE n == Len(ts) + 1 - i
  <2>2. n \in 1 .. Len(ts) /\ n \in 1 .. Len(r) /\ Len(ts) + 1 - n = i
    BY <1>1, <1>2
  <2> HIDE DEF n
  <2>4. r[n] = Bindings!Entry(ts[Len(ts) + 1 - n], o)
    BY <2>2 DEF Stacked
  <2>3. r[n] = Bindings!Entry(t, o)
    BY <2>1, <2>2, <2>4
  <2> QED BY <1>2, <2>2, <2>3, Member
<1>5. ASSUME NEW e \in Bindings!ToSet(r), e.token \in Bindings!ToSet(ts)
             PROVE e = Bindings!Entry(e.token, o)
  <2>1. Bindings!Entry(e.token, o).token = e.token
    BY DEF Bindings!Entry
  <2> QED BY <1>2, <1>4, <1>5, <2>1, Unique
<1> QED BY <1>3, <1>4, <1>5 DEF Stacked

-----------------------------------------------------------------------------
(* The steps.                                                              *)

\* The entries live for what is left of TTL.
Lived(s, a) == \A e \in Bindings!ToSet(s) : e.left + a[e.token] = BindingTTL

\* The three ways in which a step changes what is found.
Forgets(s, r) == \A t \in Tokens : Bindings!Found(r, t) \in {Unknown, Bindings!Found(s, t)}
Clashes(s, r) ==
  \A t \in Tokens : \/ Bindings!Found(r, t) = Bindings!Found(s, t)
                    \/ Bindings!Found(s, t) \in Owners /\ Bindings!Found(r, t) = Conflict
Grants(s, r, o) ==
  \A t \in Tokens : \/ Bindings!Found(s, t) = Unknown /\ Bindings!Found(r, t) = o
                    \/ Bindings!Found(r, t) \in {Unknown, Bindings!Found(s, t)}
Fair(s, r) == Forgets(s, r) \/ Clashes(s, r) \/ \E o \in Owners : Grants(s, r, o)

\* What every step keeps.
BindingsKept ==
  /\ Good(recency') /\ age' \in [Tokens -> 0 .. BindingTTL] /\ Lived(recency', age')
  /\ bound' \in SUBSET (Tokens \X Owners)
  /\ \A b \in bound' : Bindings!Found(recency', b[1]) = b[2]
  /\ Fair(recency, recency')
Held == Good(recency) /\ age \in [Tokens -> 0 .. BindingTTL] /\ Lived(recency, age)

LEMMA SameKeeps ==
  ASSUME Held, Same(recency, recency'), age' = age, bound' = {}
  PROVE  BindingsKept
<1>1. \A t \in Tokens : Bindings!Found(recency', t) = Bindings!Found(recency, t)
  BY SameFound DEF Held
<1> QED BY <1>1 DEF Held, BindingsKept, Same, Lived, Fair, Forgets

LEMMA ResolveKeeps == ASSUME Held, NEW ts \in Bindings!Batches, Bindings!Resolve(ts)
  PROVE BindingsKept
<1>1. Same(recency, recency')
  BY BatchIs, ResolveSame, SameLists DEF Bindings!Resolve, Held
<1> QED BY <1>1, SameKeeps DEF Bindings!Resolve

LEMMA StatsKeeps == ASSUME Held, Bindings!Stats PROVE BindingsKept
<1>1. recency \in Bindings!Stores /\ OneEach(recency) /\ Len(recency) \in Nat
  BY ListOf DEF Held, Good
<1>2. Same(recency, Bindings!Live(recency))
  <2>1. Len(Bindings!Live(recency)) \in Nat /\ Len(Bindings!Live(recency)) <= MaxEntries
    BY <1>1, Living, ListOf, BindingsAssumption DEF Held, Good
  <2> QED BY <1>1, <2>1, Living DEF Same, Good
<1> QED BY <1>2, SameKeeps DEF Bindings!Stats

\* A batch with tokens of others leaves tombstones for these.
LEMMA TurnedFound ==
  ASSUME NEW s, Good(s), \A e \in Bindings!ToSet(s) : e.left > 0,
         NEW r, NEW T \in SUBSET Tokens, NEW o \in Owners, Turned(s, r, T, o), NEW t
  PROVE  Bindings!Found(r, t) = IF t \in T /\
         Bindings!Found(s, t) \in Owners \ {o} THEN Conflict ELSE Bindings!Found(s, t)
<1>1. s \in Bindings!Stores /\ OneEach(s) /\ r \in Bindings!Stores /\ OneEach(r)
  BY DEF Good, Turned
<1>2. Unknown \notin Owners /\ Unknown \notin Bindings!Outcomes
  BY BindingsAssumption DEF Bindings!Outcomes
<1>3. CASE Bindings!Found(s, t) = Unknown
  <2>1. \A e \in Bindings!ToSet(s) : e.token # t
    BY <1>1, <1>3, FoundIs
  <2>2. \A e \in Bindings!ToSet(r) : e.token # t
    BY <2>1 DEF Turned
  <2> QED BY <1>1, <1>2, <1>3, <2>2, FoundIs
<1>4. CASE Bindings!Found(s, t) # Unknown
  <2> DEFINE x == Bindings!Found(s, t)
  <2>1. x \in Bindings!Outcomes /\ Told(s, t, x)
    BY <1>1, <1>4, FoundIs
  <2> HIDE DEF x
  <2>2. PICK e \in Bindings!ToSet(s) : e.token = t /\ e.left > 0 /\ e.is = x
    BY <2>1 DEF Told
  <2>3. Turns(e, T, o) <=> (t \in T /\ x \in Owners \ {o})
    <3>1. x \in Owners \ {o} <=> x \notin {o, Conflict}
      BY <2>1, BindingsAssumption DEF Bindings!Outcomes
    <3> QED BY <2>2, <3>1 DEF Turns
  <2>4. CASE Turns(e, T, o)
    <3>1. Bindings!Entry(t, Conflict) \in Bindings!ToSet(r)
      BY <2>2, <2>4 DEF Turned
    <3>2. Told(r, t, Conflict)
      BY <3>1, BindingsAssumption DEF Told, Bindings!Entry
    <3>3. Bindings!Found(r, t) = Conflict
      BY <1>1, <3>2, FoundIs DEF Bindings!Outcomes
    <3> QED BY <2>3, <2>4, <3>3 DEF x
  <2>5. CASE ~Turns(e, T, o)
    <3>1. Told(r, t, x)
      BY <2>2, <2>5 DEF Turned, Told
    <3>2. Bindings!Found(r, t) = x
      BY <1>1, <2>1, <3>1, FoundIs
    <3> QED BY <2>3, <2>5, <3>2 DEF x
  <2> QED BY <2>4, <2>5
<1> QED BY <1>3, <1>4

\* The tokens of keys have been heard of now.
Heard(a, S) == [t \in Tokens |-> IF t \in S THEN 0 ELSE a[t]]

LEMMA HeardIs ==
  ASSUME NEW a \in [Tokens -> 0 .. BindingTTL], NEW S
  PROVE  /\ Heard(a, S) \in [Tokens -> 0 .. BindingTTL]
         /\ \A t \in Tokens : Heard(a, S)[t] = IF t \in S THEN 0 ELSE a[t]
<1>1. 0 \in 0 .. BindingTTL
  BY BindingsAssumption
<1> QED BY <1>1 DEF Heard

LEMMA FreshLives ==
  ASSUME NEW t \in Tokens, NEW o \in Bindings!Outcomes
  PROVE  /\ Bindings!Entry(t, o).left = BindingTTL /\ Bindings!Entry(t, o).token = t
         /\ Bindings!Entry(t, o).is = o
         /\ BindingTTL > 0 /\ BindingTTL + 0 = BindingTTL
  BY BindingsAssumption DEF Bindings!Entry

\* What Live leaves of what is held.
LEMMA HeldLives ==
  ASSUME Held
  PROVE  /\ Good(Bindings!Live(recency)) /\ Same(recency, Bindings!Live(recency))
         /\ \A e \in Bindings!ToSet(Bindings!Live(recency)) :
              e.left > 0 /\ e.left + age[e.token] = BindingTTL /\ e.token \in Tokens
<1>1. recency \in Bindings!Stores /\ OneEach(recency) /\ Len(recency) \in Nat
  BY ListOf DEF Held, Good
<1>2. Len(Bindings!Live(recency)) \in Nat /\ Len(Bindings!Live(recency)) <= MaxEntries
  BY <1>1, Living, ListOf, BindingsAssumption DEF Held, Good
<1>3. Good(Bindings!Live(recency))
  BY <1>1, <1>2, Living DEF Good
<1>4. Same(recency, Bindings!Live(recency))
  BY <1>1, <1>3, Living DEF Same
<1>5. \A e \in Bindings!ToSet(recency) : e.token \in Tokens
  BY <1>1, ListOf DEF Entries
<1> QED BY <1>1, <1>3, <1>4, <1>5, Living DEF Held, Lived

LEMMA FailedBatch ==
  ASSUME Held, NEW ts, IsBatch(ts), NEW o \in Owners, NEW r,
         Turned(Bindings!Live(recency), r, Bindings!ToSet(ts), o)
  PROVE  /\ Good(r) /\ Clashes(recency, r)
         /\ Lived(r, Heard(age, {t \in Bindings!ToSet(ts) : Bindings!Found(recency,
            t) \in Owners \ {o}}))
<1> DEFINE L == Bindings!Live(recency)
           others == {t \in Bindings!ToSet(ts) : Bindings!Found(recency, t) \in Owners \ {o}}
<1>1. /\ Good(L) /\ Same(recency, L)
      /\ \A e \in Bindings!ToSet(L) :
           e.left > 0 /\ e.left + age[e.token] = BindingTTL /\ e.token \in Tokens
  BY HeldLives
<1>2. Turned(L, r, Bindings!ToSet(ts), o)
  OBVIOUS
<1> HIDE DEF L
<1>3. \A t : Bindings!Found(L, t) = Bindings!Found(recency, t)
  BY <1>1, SameFound DEF Held
<1>4. Bindings!ToSet(ts) \in SUBSET Tokens
  BY DEF IsBatch, Bindings!ToSet
<1>5. \A t : Bindings!Found(r,
        t) = IF t \in others THEN Conflict ELSE Bindings!Found(recency, t)
  <2> SUFFICES ASSUME NEW t
               PROVE  Bindings!Found(r,
                      t) = IF t \in others THEN Conflict ELSE Bindings!Found(recency, t)
    OBVIOUS
  <2>1. Bindings!Found(r, t) = IF t \in Bindings!ToSet(ts) /\
          Bindings!Found(L, t) \in Owners \ {o} THEN Conflict
                               ELSE Bindings!Found(L, t)
    BY <1>1, <1>2, <1>4, TurnedFound
  <2> QED BY <2>1, <1>3
<1>6. Clashes(recency, r)
  BY <1>5 DEF Clashes
<1>7. Good(r) /\ r \in Bindings!Stores /\ OneEach(r)
  BY <1>2 DEF Turned, Good
<1>8. ASSUME NEW e \in Bindings!ToSet(L)
      PROVE  Bindings!Found(recency, e.token) = e.is
  <2>1. Told(L, e.token, e.is) /\ e.is \in Bindings!Outcomes /\ L \in Bindings!Stores /\
          OneEach(L)
    <3>1. L \in Bindings!Stores /\ OneEach(L)
      BY <1>1 DEF Good
    <3> QED BY <1>1, <3>1, <1>8, ListOf DEF Told, Entries
  <2> QED BY <2>1, <1>3, FoundIs
<1>9. \A t \in Tokens : Heard(age, others)[t] = IF t \in others THEN 0 ELSE age[t]
  BY HeardIs DEF Held
<1>10. ASSUME NEW e \in Bindings!ToSet(r)
              PROVE e.left + Heard(age, others)[e.token] = BindingTTL
  <2>1. CASE e \in Bindings!ToSet(L) /\ e.token \notin others
    BY <1>1, <1>9, <2>1
  <2>2. CASE e \in Bindings!ToSet(L) /\ e.token \in others
    <3>1. Told(r, e.token, e.is) /\ e.is \in Bindings!Outcomes
      BY <1>1, <1>7, <2>2, ListOf DEF Told, Entries
    <3>2. Bindings!Found(r, e.token) = e.is /\ Bindings!Found(r, e.token) = Conflict
      BY <1>5, <1>7, <2>2, <3>1, FoundIs
    <3>3. e.is \in Owners
      BY <1>8, <2>2
    <3> QED BY <3>2, <3>3, BindingsAssumption
  <2>3. CASE e \notin Bindings!ToSet(L)
    <3>1. PICK d \in Bindings!ToSet(L) : /\ e = Bindings!Entry(e.token, Conflict)
                                         /\ d.token = e.token
                                         /\ Turns(d, Bindings!ToSet(ts), o)
      BY <1>2, <2>3 DEF Turned
    <3>2. Bindings!Found(recency, e.token) = d.is
      BY <1>8, <3>1
    <3>3. d.is \in Owners
      <4>1. d.is \in Bindings!Outcomes
        BY <1>1, ListOf DEF Good, Entries
      <4> QED BY <4>1, <3>1 DEF Turns, Bindings!Outcomes
    <3>4. e.token \in others /\ e.token \in Tokens
      BY <3>1, <3>2, <3>3, <1>1 DEF Turns
    <3>5. e.left = BindingTTL /\ BindingTTL + 0 = BindingTTL
      BY <3>1, <3>4, FreshLives DEF Bindings!Outcomes
    <3> QED BY <1>9, <3>4, <3>5
  <2> QED BY <2>1, <2>2, <2>3
<1> HIDE DEF others
<1>11. Lived(r, Heard(age, others))
  BY <1>10 DEF Lived
<1> QED BY <1>6, <1>7, <1>11 DEF others

LEMMA BoundBatch ==
  ASSUME Held, NEW ts, IsBatch(ts), NEW o \in Owners, NEW m, NEW r,
         Turned(Bindings!Live(recency), m, Bindings!ToSet(ts), o),
         \A t \in Bindings!ToSet(ts) : Bindings!Found(m, t) # Conflict,
         Stacked(m, r, ts, Len(ts), o)
  PROVE  /\ Good(r) /\ Grants(recency, r, o) /\ Lived(r, Heard(age, Bindings!ToSet(ts)))
         /\ \A t \in Bindings!ToSet(ts) : Bindings!Found(r, t) = o
<1> DEFINE L == Bindings!Live(recency)
           keys == Bindings!ToSet(ts)
<1>1. /\ Good(L) /\ Same(recency, L)
      /\ \A e \in Bindings!ToSet(L) :
           e.left > 0 /\ e.left + age[e.token] = BindingTTL /\ e.token \in Tokens
  BY HeldLives
<1>2. Turned(L, m, keys, o)
  OBVIOUS
<1> HIDE DEF L
<1>3. \A t : Bindings!Found(L, t) = Bindings!Found(recency, t)
  BY <1>1, SameFound DEF Held
<1>4. keys \in SUBSET Tokens
  BY DEF IsBatch, Bindings!ToSet
<1>5. /\ \A t \in keys : Bindings!Entry(t, o) \in Bindings!ToSet(r)
      /\ \A e \in Bindings!ToSet(r) : IF e.token \in keys THEN e = Bindings!Entry(e.token, o)
                                      ELSE e \in Bindings!ToSet(m)
  BY StackedIs
<1>6. \A t \in keys : Bindings!Found(m, t) # Conflict
  OBVIOUS
<1> HIDE DEF keys
<1>7. Good(r) /\ r \in Bindings!Stores /\ OneEach(r)
  BY DEF Stacked, Good
<1>8. \A e \in Bindings!ToSet(r) : e.token \notin keys => e \in Bindings!ToSet(L)
  BY <1>2, <1>5 DEF Turned, Turns
<1>9. \A t \in keys : Bindings!Found(r, t) = o
  <2> SUFFICES ASSUME NEW t \in keys PROVE Bindings!Found(r, t) = o
    OBVIOUS
  <2>1. t \in Tokens /\ o \in Bindings!Outcomes
    BY <1>4 DEF Bindings!Outcomes
  <2>2. Told(r, t, o)
    BY <1>5, <2>1, FreshLives DEF Told
  <2> QED BY <1>7, <2>1, <2>2, FoundIs
<1>10. Lived(r, Heard(age, keys))
  <2> SUFFICES ASSUME NEW e \in Bindings!ToSet(r)
    PROVE e.left + Heard(age, keys)[e.token] = BindingTTL
    BY DEF Lived
  <2>1. \A t \in Tokens : Heard(age, keys)[t] = IF t \in keys THEN 0 ELSE age[t]
    BY HeardIs DEF Held
  <2>2. CASE e.token \in keys
    <3>1. e.token \in Tokens /\ o \in Bindings!Outcomes
      BY <1>4, <2>2 DEF Bindings!Outcomes
    <3>2. e = Bindings!Entry(e.token, o)
      BY <1>5, <2>2
    <3>3. e.left = BindingTTL /\ BindingTTL + 0 = BindingTTL
      BY <3>1, <3>2, FreshLives
    <3> QED BY <2>1, <2>2, <3>1, <3>3
  <2>3. CASE e.token \notin keys
    BY <1>1, <1>8, <2>1, <2>3
  <2> QED BY <2>2, <2>3
<1>11. ASSUME NEW t \in keys PROVE Bindings!Found(recency, t) \in {Unknown, o}
  <2>1. Bindings!Found(m, t) = IF t \in keys /\
          Bindings!Found(L, t) \in Owners \ {o} THEN Conflict ELSE Bindings!Found(L, t)
    BY <1>1, <1>2, <1>4, TurnedFound
  <2>2. L \in Bindings!Stores /\ OneEach(L)
    BY <1>1 DEF Good
  <2>3. Bindings!Found(L, t) \in Bindings!Outcomes \cup {Unknown}
    BY <2>2, FoundIs
  <2> QED BY <1>3, <1>6, <2>1, <2>3 DEF Bindings!Outcomes
<1>12. ASSUME NEW t, t \notin keys, Bindings!Found(r, t) # Unknown
              PROVE Bindings!Found(r, t) = Bindings!Found(recency, t)
  <2>1. Bindings!Found(r, t) \in Bindings!Outcomes /\ Told(r, t, Bindings!Found(r, t))
    BY <1>7, <1>12, FoundIs
  <2>2. Told(L, t, Bindings!Found(r, t))
    BY <1>8, <1>12, <2>1 DEF Told
  <2>3. L \in Bindings!Stores /\ OneEach(L)
    BY <1>1 DEF Good
  <2>4. Bindings!Found(L, t) = Bindings!Found(r, t)
    BY <2>1, <2>2, <2>3, FoundIs
  <2> QED BY <1>3, <2>4
<1>13. Grants(recency, r, o)
  BY <1>9, <1>11, <1>12 DEF Grants
<1> QED BY <1>7, <1>9, <1>10, <1>13 DEF keys

LEMMA BindAllKeeps == ASSUME Held, NEW ts \in Bindings!Batches, NEW o \in Owners,
  Bindings!BindAll(ts, o) PROVE BindingsKept
<1> DEFINE keys   == Bindings!ToSet(ts)
           marked == After(Bindings!Mark(o), Bindings!Live(recency), ts)
           others  == {t \in keys : Bindings!Found(recency, t) \in Owners \ {o}}
           fails  == \E t \in keys : Bindings!Found(marked, t) = Conflict
           stored == After(Bindings!Store(o), marked, ts)
<1>1. IsBatch(ts) /\ Len(ts) \in Nat /\ Len(ts) <= MaxEntries
  <2>1. IsBatch(ts) /\ ~(Len(ts) > MaxEntries)
    BY BatchIs DEF Bindings!BindAll, Bindings!Oversized
  <2>2. Len(ts) \in Nat
    BY <2>1 DEF IsBatch
  <2> QED BY <2>1, <2>2, BindingsAssumption
<1>2. /\ recency' = IF fails THEN marked ELSE stored
      /\ age' = Heard(age, IF fails THEN others ELSE keys)
      /\ bound' = IF fails THEN {} ELSE {<<t, o>> : t \in keys}
  BY SameLists DEF Bindings!BindAll, Heard
<1>3. Turned(Bindings!Live(recency), marked, keys, o)
  BY <1>1, HeldLives, MarkTurns
<1>4. age' \in [Tokens -> 0 .. BindingTTL]
  BY <1>2, HeardIs DEF Held
<1>5. CASE fails
  <2>1. recency' = marked /\ age' = Heard(age, others) /\ bound' = {}
    BY <1>2, <1>5
  <2>2. Good(marked) /\ Clashes(recency, marked) /\ Lived(marked, Heard(age, others))
    BY <1>1, <1>3, FailedBatch
  <2> HIDE DEF marked, others
  <2> QED BY <1>4, <2>1, <2>2 DEF BindingsKept, Fair
<1>6. CASE ~fails
  <2>1. recency' = stored /\ age' = Heard(age, keys) /\ bound' = {<<t, o>> : t \in keys}
    BY <1>2, <1>6
  <2>2. \A t \in keys : Bindings!Found(marked, t) # Conflict
    BY <1>6
  <2>3. Good(marked)
    BY <1>3 DEF Turned
  <2> HIDE DEF marked
  <2>4. Stacked(marked, stored, ts, Len(ts), o)
    BY <1>1, <2>3, StoreStacks
  <2>5. /\ Good(stored) /\ Grants(recency, stored, o) /\ Lived(stored, Heard(age, keys))
        /\ \A t \in keys : Bindings!Found(stored, t) = o
    BY <1>1, <1>3, <2>2, <2>4, BoundBatch
  <2>6. keys \subseteq Tokens
    BY <1>1 DEF IsBatch, Bindings!ToSet
  <2> HIDE DEF stored, keys
  <2>7. /\ bound' \in SUBSET (Tokens \X Owners)
        /\ \A b \in bound' : Bindings!Found(recency', b[1]) = b[2]
    BY <2>1, <2>5, <2>6
  <2> QED BY <1>4, <2>1, <2>5, <2>7 DEF BindingsKept, Fair
<1> QED BY <1>5, <1>6

LEMMA ClaimKeeps == ASSUME Held, NEW t \in Tokens, NEW o \in Owners,
  Bindings!Claim(t, o) PROVE BindingsKept
<1>1. Good(recency) /\ recency \in Bindings!Stores /\ OneEach(recency)
  BY DEF Held, Good
<1>2. CASE Bindings!Found(recency, t) # Unknown
  <2>1. recency' = Bindings!Touch(recency, t) /\ age' = age /\ bound' = {}
    BY <1>2 DEF Bindings!Claim
  <2>2. Bindings!Holds(recency, t)
    <3>1. Told(recency, t, Bindings!Found(recency, t))
      BY <1>1, <1>2, FoundIs
    <3> QED BY <1>1, <3>1, HoldsIs DEF Told
  <2>3. recency' = Bindings!Looked(recency, t)
    BY <1>2, <2>1, <2>2 DEF Bindings!Looked
  <2>4. Same(recency, recency')
    BY <1>1, <2>3, LookedSame
  <2> QED BY <2>1, <2>4, SameKeeps
<1>3. CASE Bindings!Found(recency, t) = Unknown
  <2> DEFINE w == Bindings!Without(recency, t)
             l == IF Len(w) >= MaxEntries THEN Bindings!Live(w) ELSE w
             m == Bindings!MadeRoom(w)
             e == Bindings!Entry(t, o)
             r == <<e>> \o m
  <2>1. /\ recency' = r /\ age' = [age EXCEPT ![t] = 0] /\ bound' = {<<t, o>>}
    BY <1>3 DEF Bindings!Claim
  <2>2. Good(w) /\ Bindings!ToSet(w) = {d \in Bindings!ToSet(recency) : d.token # t} /\
          Len(w) \in Nat
    <3>1. /\ w \in Bindings!Stores /\ OneEach(w) /\ Len(w) <= Len(recency)
          /\ Bindings!ToSet(w) = {d \in Bindings!ToSet(recency) : d.token # t}
      BY <1>1, Left
    <3> HIDE DEF w
    <3>2. Len(w) \in Nat /\ Len(recency) \in Nat /\ Len(recency) <= MaxEntries
      BY <1>1, <3>1, ListOf DEF Good
    <3> QED BY <3>1, <3>2, BindingsAssumption DEF Good
  <2> HIDE DEF w
  <2>3. Good(l) /\ Bindings!ToSet(l) \subseteq Bindings!ToSet(w)
    <3>1. w \in Bindings!Stores /\ OneEach(w) /\ Len(w) <= MaxEntries
      BY <2>2 DEF Good
    <3>2. /\ Bindings!Live(w) \in Bindings!Stores /\ OneEach(Bindings!Live(w))
          /\ Len(Bindings!Live(w)) <= Len(w)
          /\ Bindings!ToSet(Bindings!Live(w)) \subseteq Bindings!ToSet(w)
      BY <3>1, Living
    <3>3. Len(Bindings!Live(w)) \in Nat
      BY <3>2, ListOf
    <3>4. Good(Bindings!Live(w))
      BY <2>2, <3>1, <3>2, <3>3, BindingsAssumption DEF Good
    <3> QED BY <2>2, <3>2, <3>4
  <2>4. m = Bindings!Evicted(l)
    BY DEF Bindings!MadeRoom
  <2> HIDE DEF l, m
  <2>5. Good(m) /\ Len(m) < MaxEntries /\ Bindings!ToSet(m) \subseteq Bindings!ToSet(w) /\
          Len(m) \in Nat
    <3>1. Good(m) /\ Len(m) < MaxEntries /\ Bindings!ToSet(m) \subseteq Bindings!ToSet(l)
      BY <2>3, <2>4, Shortened
    <3>2. m \in Bindings!Stores
      BY <3>1 DEF Good
    <3> QED BY <2>3, <3>1, <3>2, ListOf
  <2>6. /\ e \in Entries /\ e.token = t /\ e.is = o /\ e.left = BindingTTL
        /\ BindingTTL > 0 /\ BindingTTL + 0 = BindingTTL
        /\ o \in Bindings!Outcomes
    BY EntryIs, FreshLives DEF Bindings!Outcomes
  <2> HIDE DEF e
  <2>7. /\ r \in Bindings!Stores /\ OneEach(r) /\ Len(r) = Len(m) + 1
        /\ Bindings!ToSet(r) = Bindings!ToSet(m) \cup {e}
    <3>1. m \in Bindings!Stores /\ OneEach(m)
      BY <2>5 DEF Good
    <3>2. \A d \in Bindings!ToSet(m) : d.token # e.token
      BY <2>2, <2>5, <2>6
    <3> QED BY <2>6, <3>1, <3>2, Pushed
  <2> HIDE DEF r
  <2>8. Good(r)
    BY <2>5, <2>7, BindingsAssumption DEF Good
  <2>9. age' \in [Tokens -> 0 .. BindingTTL] /\ \A x \in Tokens :
          age'[x] = IF x = t THEN 0 ELSE age[x]
    BY <2>1, BindingsAssumption DEF Held
  <2>10. Lived(r, age')
    <3> SUFFICES ASSUME NEW d \in Bindings!ToSet(r) PROVE d.left + age'[d.token] = BindingTTL
      BY DEF Lived
    <3>1. CASE d = e
      BY <2>6, <2>9, <3>1
    <3>2. CASE d # e
      <4>1. d \in Bindings!ToSet(recency) /\ d.token # t
        BY <2>2, <2>5, <2>7, <3>2
      <4>2. d.token \in Tokens
        BY <1>1, <4>1, ListOf DEF Entries
      <4> QED BY <2>9, <4>1, <4>2 DEF Held, Lived
    <3> QED BY <3>1, <3>2
  <2>11. Bindings!Found(r, t) = o
    <3>1. Told(r, t, o)
      BY <2>6, <2>7 DEF Told
    <3> QED BY <2>6, <2>7, <3>1, FoundIs
  <2>12. ASSUME NEW x, x # t, Bindings!Found(r, x) # Unknown
                PROVE Bindings!Found(r, x) = Bindings!Found(recency, x)
    <3>1. Bindings!Found(r, x) \in Bindings!Outcomes /\ Told(r, x, Bindings!Found(r, x))
      BY <2>7, <2>12, FoundIs
    <3>2. \A d \in Bindings!ToSet(r) : d.token = x => d \in Bindings!ToSet(recency)
      BY <2>2, <2>5, <2>6, <2>7, <2>12
    <3>3. Told(recency, x, Bindings!Found(r, x))
      BY <3>1, <3>2 DEF Told
    <3> QED BY <1>1, <3>1, <3>3, FoundIs
  <2>13. Grants(recency, r, o)
    BY <1>3, <2>11, <2>12 DEF Grants
  <2> QED BY <2>1, <2>8, <2>9, <2>10, <2>11, <2>13 DEF BindingsKept, Fair
<1> QED BY <1>2, <1>3

\* An entry when time has passed.
Older(e) == [e EXCEPT !.left = IF @ = 0 THEN 0 ELSE @ - 1]

LEMMA OlderIs ==
  ASSUME NEW e \in Entries
  PROVE  /\ Older(e) \in Entries /\ Older(e).token = e.token /\ Older(e).is = e.is
         /\ e.left \in 0 .. BindingTTL
         /\ Older(e).left = IF e.left = 0 THEN 0 ELSE e.left - 1
  BY BindingsAssumption DEF Older, Entries

LEMMA TickKeeps == ASSUME Held, Bindings!Tick PROVE BindingsKept
<1> DEFINE r == recency'
<1>1. /\ recency \in Bindings!Stores /\ OneEach(recency) /\ Len(recency) \in Nat
      /\ Len(recency) <= MaxEntries /\ DOMAIN recency = 1 .. Len(recency)
      /\ \A n \in 1 .. Len(recency) : recency[n] \in Entries
  BY ListOf DEF Held, Good
<1>2. r = [n \in 1 .. Len(recency) |-> Older(recency[n])]
  BY <1>1 DEF Bindings!Tick, Older
<1>3. \A n \in 1 .. Len(recency) : r[n] = Older(recency[n]) /\ r[n] \in Entries
  BY <1>1, <1>2, OlderIs
<1>4. r \in Seq(Entries) /\ Len(r) = Len(recency)
  BY <1>1, <1>2, <1>3
<1> HIDE DEF r
<1>5. r \in Bindings!Stores
  BY <1>4 DEF Bindings!Stores, Entries
<1>6. OneEach(r)
  BY <1>1, <1>3, <1>4, OlderIs DEF OneEach
<1>7. Good(r)
  BY <1>1, <1>4, <1>5, <1>6 DEF Good
<1>8. ASSUME NEW e \in Bindings!ToSet(r) PROVE \E d \in Bindings!ToSet(recency) :
             e = Older(d) /\ d \in Entries
  <2>1. PICK n \in 1 .. Len(r) : r[n] = e
    BY <1>5, Member
  <2>2. recency[n] \in Bindings!ToSet(recency)
    BY <1>1, <1>4, Member
  <2> QED BY <1>1, <1>3, <1>4, <2>1, <2>2
<1>9. /\ age' \in [Tokens -> 0 .. BindingTTL]
      /\ \A t \in Tokens : age'[t] = IF age[t] = BindingTTL THEN BindingTTL ELSE age[t] + 1
  BY BindingsAssumption DEF Held, Bindings!Tick
<1>10. Lived(r, age')
  <2> SUFFICES ASSUME NEW e \in Bindings!ToSet(r) PROVE e.left + age'[e.token] = BindingTTL
    BY DEF Lived
  <2>1. PICK d \in Bindings!ToSet(recency) : e = Older(d) /\ d \in Entries
    BY <1>8
  <2>2. /\ e.token = d.token /\ d.token \in Tokens /\ d.left \in 0 .. BindingTTL
        /\ e.left = IF d.left = 0 THEN 0 ELSE d.left - 1
    BY <2>1, OlderIs DEF Entries
  <2>3. d.left + age[d.token] = BindingTTL /\ age[d.token] \in 0 .. BindingTTL
    BY <2>1, <2>2 DEF Held, Lived
  <2>4. age'[d.token] = IF age[d.token] = BindingTTL THEN BindingTTL ELSE age[d.token] + 1
    BY <1>9, <2>2
  <2> QED BY <2>2, <2>3, <2>4, BindingsAssumption
<1>11. ASSUME NEW t, Bindings!Found(r, t) # Unknown
              PROVE Bindings!Found(r, t) = Bindings!Found(recency, t)
  <2>1. Bindings!Found(r, t) \in Bindings!Outcomes /\ Told(r, t, Bindings!Found(r, t))
    BY <1>5, <1>6, <1>11, FoundIs
  <2>2. PICK e \in Bindings!ToSet(r) : e.token = t /\ e.left > 0 /\
             e.is = Bindings!Found(r, t)
    BY <2>1 DEF Told
  <2>3. PICK d \in Bindings!ToSet(recency) : e = Older(d) /\ d \in Entries
    BY <1>8
  <2>4. d.token = t /\ d.left > 0 /\ d.is = Bindings!Found(r, t)
    BY <2>2, <2>3, OlderIs
  <2>5. Told(recency, t, Bindings!Found(r, t))
    BY <2>4 DEF Told
  <2> QED BY <1>1, <2>1, <2>5, FoundIs
<1>12. Forgets(recency, r)
  BY <1>11 DEF Forgets
<1>13. bound' = {}
  BY DEF Bindings!Tick
<1> QED BY <1>7, <1>9, <1>10, <1>12, <1>13 DEF BindingsKept, Fair, r

BindingsInv == Held /\ Bindings!BatchComplete

LEMMA BindingsStep == ASSUME Held, Bindings!Next PROVE BindingsKept
<1>1. CASE \E ts \in Bindings!Batches : Bindings!Resolve(ts)
  BY <1>1, ResolveKeeps
<1>2. CASE \E ts \in Bindings!Batches, o \in Owners : Bindings!BindAll(ts, o)
  BY <1>2, BindAllKeeps
<1>3. CASE \E t \in Tokens, o \in Owners : Bindings!Claim(t, o)
  BY <1>3, ClaimKeeps
<1>4. CASE Bindings!Stats
  BY <1>4, StatsKeeps
<1>5. CASE Bindings!Tick
  BY <1>5, TickKeeps
<1> QED BY <1>1, <1>2, <1>3, <1>4, <1>5 DEF Bindings!Next

LEMMA BindingsInit == Bindings!Init => BindingsInv /\ bound = {}
<1> SUFFICES ASSUME Bindings!Init PROVE BindingsInv /\ bound = {}
  OBVIOUS
<1>1. recency = <<>> /\ bound = {} /\ age = [t \in Tokens |-> BindingTTL]
  BY DEF Bindings!Init
<1>2. recency \in Bindings!Stores /\ Len(recency) = 0 /\ Bindings!ToSet(recency) = {}
  BY <1>1 DEF Bindings!Stores, Bindings!ToSet
<1>3. Good(recency)
  BY <1>2, BindingsAssumption DEF Good, OneEach
<1>4. age \in [Tokens -> 0 .. BindingTTL]
  BY <1>1, BindingsAssumption
<1> QED BY <1>1, <1>2, <1>3, <1>4 DEF BindingsInv, Held, Lived, Bindings!BatchComplete

THEOREM BindingsInvariant == Bindings!Spec => []BindingsInv
<1>1. BindingsInv /\ [Bindings!Next]_(Bindings!vars) => BindingsInv'
  <2> SUFFICES ASSUME BindingsInv, [Bindings!Next]_(Bindings!vars) PROVE BindingsInv'
    OBVIOUS
  <2>1. CASE Bindings!Next
    <3>1. BindingsKept
      BY <2>1, BindingsStep DEF BindingsInv
    <3> QED BY <3>1 DEF BindingsKept, BindingsInv, Held, Bindings!BatchComplete
  <2>2. CASE UNCHANGED Bindings!vars
    BY <2>2, ZenonT(60) DEF Bindings!vars, BindingsInv, Held, Bindings!BatchComplete, Bindings!Found,
       Bindings!Live, Good, Lived, Bindings!Stores, OneEach, Bindings!Holds, Bindings!IndexOf
  <2> QED BY <2>1, <2>2
<1> QED BY <1>1, BindingsInit, PTL DEF Bindings!Spec

\* A step of the store is one of StateOwnership.
LEMMA OwnershipInit == Bindings!Init => Bindings!Ownership!Init
<1> SUFFICES ASSUME Bindings!Init PROVE Bindings!Ownership!Init
  OBVIOUS
<1>1. recency \in Bindings!Stores /\ OneEach(recency) /\ Bindings!ToSet(recency) = {}
  BY BindingsInit DEF Bindings!Init, BindingsInv, Held, Good, Bindings!ToSet
<1>2. \A t \in Tokens : Bindings!Found(recency, t) = Unknown
  BY <1>1, FoundIs
<1> QED BY <1>2 DEF Bindings!Ownership!Init

LEMMA OwnershipStep == BindingsInv /\ Bindings!Next => Bindings!Ownership!Next
<1> SUFFICES ASSUME BindingsInv, Bindings!Next PROVE Bindings!Ownership!Next
  OBVIOUS
<1>1. Good(recency) /\ Good(recency') /\ Fair(recency, recency')
  BY BindingsStep DEF BindingsInv, Held, BindingsKept
<1>2. \A t \in Tokens : Bindings!Found(recency', t) \in Bindings!Ownership!Authorities
  BY <1>1, FoundIs DEF Good, Bindings!Ownership!Authorities, Bindings!Outcomes
<1> QED BY <1>1, <1>2
        DEF Bindings!Ownership!Next, Bindings!Ownership!Collision, Bindings!Ownership!Forget,
            Bindings!Ownership!Grant, Bindings!Ownership!Gains, Bindings!Ownership!Collides,
            Bindings!Ownership!Forgotten, Bindings!Ownership!Same,
            Fair, Forgets, Clashes, Grants

\* The bindings of the process implement StateOwnership: what a lookup finds
\* for a token changes as its authority may.
THEOREM BindingsImplementOwnership == Bindings!Spec => Bindings!Ownership!Spec
<1>1. BindingsInv /\ [Bindings!Next]_(Bindings!vars)
        => [Bindings!Ownership!Next]_([t \in Tokens |-> Bindings!Found(recency, t)])
  BY OwnershipStep DEF Bindings!vars
<1> QED BY <1>1, OwnershipInit, BindingsInvariant, PTL DEF Bindings!Spec, Bindings!Ownership!Spec

LEMMA BindingsAlone == InProcessSpec => Bindings!Spec
<1>1. InProcessInit => Bindings!Init
  BY DEF InProcessInit
<1>2. [InProcessNext]_allVars => [Bindings!Next]_(Bindings!vars)
  BY DEF InProcessNext, allVars, bindingVars, Bindings!vars
<1> QED BY <1>1, <1>2, PTL DEF InProcessSpec, Bindings!Spec

\* An entry of the bindings is there as its batch was bound, and for the time
\* it was given.
THEOREM EntriesAlwaysKept == InProcessSpec => []EntriesKept
<1>1. BindingsInv => EntriesKept
  <2> SUFFICES ASSUME BindingsInv PROVE EntriesKept
    OBVIOUS
  <2>1. recency \in Bindings!Stores
    BY DEF BindingsInv, Held, Good
  <2>2. \A n \in DOMAIN recency : recency[n] \in Bindings!ToSet(recency)
    BY <2>1, ListOf, Member
  <2>3. Bindings!AbsoluteLifetime
    BY <2>2 DEF BindingsInv, Held, Lived, Bindings!AbsoluteLifetime
  <2> QED BY <2>3 DEF BindingsInv, EntriesKept
<1> QED BY <1>1, BindingsAlone, BindingsInvariant, PTL

\* The bindings of the process keep the promise of StateOwnership.
THEOREM MemoryOwnershipAlwaysKept == InProcessSpec => MemoryOwnershipKept
<1>1. BindingsInv /\ [Bindings!Next]_(Bindings!vars)
        => [recency' # recency => Bindings!Ownership!Next]_recency
  BY OwnershipStep DEF Bindings!vars
<1> QED BY <1>1, BindingsAlone, OwnershipInit, BindingsInvariant, PTL
        DEF Bindings!Spec, MemoryOwnershipKept, Bindings!OwnershipKept

-----------------------------------------------------------------------------
(* ReplayStore                                                             *)

(* Sums of sizes.                                                          *)

AnyOf(S) == CHOOSE x \in S : TRUE
Sums(gs, f, D) ==
  f = [S \in SUBSET D |-> IF S = {} THEN 0 ELSE gs[AnyOf(S)].size + f[S \ {AnyOf(S)}]]
SumOf(gs, D) == CHOOSE f : Sums(gs, f, D)
Sized(gs, S) == \A g \in S : gs[g].size \in Nat

LEMMA SizeUnfolds == ASSUME NEW gs, NEW S PROVE Replay!Size(gs, S) = SumOf(gs, S)[S]
  BY DEF Replay!Size, Replay!MapThenSumSet, Replay!MapThenFoldSet, SumOf, Sums, AnyOf

LEMMA AnyIs == ASSUME NEW S, S # {} PROVE AnyOf(S) \in S
  BY DEF AnyOf

LEMMA OneLess ==
  ASSUME NEW S, IsFiniteSet(S), NEW x \in S, NEW n \in Nat, Cardinality(S) = n + 1
  PROVE  Cardinality(S \ {x}) = n
<1>1. Cardinality(S \ {x}) = Cardinality(S) - 1
  BY FS_RemoveElement
<1> QED BY <1>1

\* The sums of the subsets of at most n elements.
SumsUpTo(gs, f, D, n) ==
  \A S \in SUBSET D :
    Cardinality(S) <= n =>
      f[S] = IF S = {} THEN 0 ELSE gs[AnyOf(S)].size + f[S \ {AnyOf(S)}]

LEMMA SumsExist == ASSUME NEW gs, NEW D, IsFiniteSet(D) PROVE Sums(gs, SumOf(gs, D), D)
<1> DEFINE T == {n \in Nat : \E f : SumsUpTo(gs, f, D, n)}
<1>0. \A S \in SUBSET D : IsFiniteSet(S) /\ Cardinality(S) \in Nat
  BY FS_Subset, FS_CardinalityType
<1>1. 0 \in T
  <2> DEFINE f == [S \in SUBSET D |-> 0]
  <2>1. ASSUME NEW S \in SUBSET D, Cardinality(S) <= 0
        PROVE  f[S] = IF S = {} THEN 0 ELSE gs[AnyOf(S)].size + f[S \ {AnyOf(S)}]
    <3>1. S = {}
      BY <1>0, <2>1, FS_EmptySet
    <3> QED BY <3>1
  <2> HIDE DEF f
  <2>2. SumsUpTo(gs, f, D, 0)
    BY <2>1 DEF SumsUpTo
  <2> QED BY <2>2
<1>2. ASSUME NEW n \in Nat, n \in T PROVE n + 1 \in T
  <2>1. PICK f : SumsUpTo(gs, f, D, n)
    BY <1>2
  <2> DEFINE g == [S \in SUBSET D |-> IF S = {} THEN 0 ELSE gs[AnyOf(S)].size + f[S \ {AnyOf(S)}]]
  <2>2. ASSUME NEW S \in SUBSET D, Cardinality(S) <= n PROVE g[S] = f[S]
    BY <2>1, <2>2 DEF SumsUpTo
  <2>3. ASSUME NEW S \in SUBSET D, Cardinality(S) <= n + 1
        PROVE  g[S] = IF S = {} THEN 0 ELSE gs[AnyOf(S)].size + g[S \ {AnyOf(S)}]
    <3>1. CASE S = {}
      BY <3>1
    <3>2. CASE S # {}
      <4>1. AnyOf(S) \in S /\ S \ {AnyOf(S)} \in SUBSET D
        BY <3>2, AnyIs
      <4>2. Cardinality(S \ {AnyOf(S)}) = Cardinality(S) - 1
        BY <1>0, <4>1, FS_RemoveElement
      <4>5. Cardinality(S \ {AnyOf(S)}) <= n
        BY <1>0, <2>3, <4>2
      <4>3. g[S \ {AnyOf(S)}] = f[S \ {AnyOf(S)}]
        BY <2>2, <4>1, <4>5
      <4>4. g[S] = gs[AnyOf(S)].size + f[S \ {AnyOf(S)}]
        BY <3>2
      <4> HIDE DEF g
      <4> QED BY <3>2, <4>3, <4>4
    <3> QED BY <3>1, <3>2
  <2> HIDE DEF g
  <2>4. SumsUpTo(gs, g, D, n + 1)
    BY <2>3 DEF SumsUpTo
  <2> QED BY <2>4
<1> HIDE DEF T
<1>3. Cardinality(D) \in T
  BY <1>0, <1>1, <1>2, Induction
<1>4. PICK f : SumsUpTo(gs, f, D, Cardinality(D))
  BY <1>3 DEF T
<1> DEFINE g == [S \in SUBSET D |-> f[S]]
<1>5. ASSUME NEW S \in SUBSET D
      PROVE  g[S] = IF S = {} THEN 0 ELSE gs[AnyOf(S)].size + g[S \ {AnyOf(S)}]
  <2>1. Cardinality(S) <= Cardinality(D)
    BY FS_Subset
  <2>2. f[S] = IF S = {} THEN 0 ELSE gs[AnyOf(S)].size + f[S \ {AnyOf(S)}]
    BY <1>4, <2>1 DEF SumsUpTo
  <2>3. g[S] = f[S] /\ g[S \ {AnyOf(S)}] = f[S \ {AnyOf(S)}]
    OBVIOUS
  <2> HIDE DEF g
  <2> QED BY <2>2, <2>3
<1>6. g = [S \in SUBSET D |-> g[S]]
  OBVIOUS
<1> HIDE DEF g
<1>7. Sums(gs, g, D)
  BY <1>5, <1>6 DEF Sums
<1> QED BY <1>7 DEF SumOf

\* The sum of a set does not depend on the set it is a subset of.
LEMMA OneSum ==
  ASSUME NEW gs, NEW D, IsFiniteSet(D), NEW S \in SUBSET D
  PROVE  SumOf(gs, D)[S] = Replay!Size(gs, S)
<1> DEFINE T == {n \in Nat : \A R \in SUBSET S :
                   Cardinality(R) = n => SumOf(gs, D)[R] = SumOf(gs, S)[R]}
<1>0. /\ IsFiniteSet(S)
      /\ \A R \in SUBSET S : IsFiniteSet(R) /\ Cardinality(R) \in Nat
  BY FS_Subset, FS_CardinalityType
<1>1. Sums(gs, SumOf(gs, D), D) /\ Sums(gs, SumOf(gs, S), S)
  BY <1>0, SumsExist
<1>2. \A R \in SUBSET S :
        /\ SumOf(gs, D)[R] = IF R = {} THEN 0 ELSE gs[AnyOf(R)].size + SumOf(gs,
           D)[R \ {AnyOf(R)}]
        /\ SumOf(gs, S)[R] = IF R = {} THEN 0 ELSE gs[AnyOf(R)].size + SumOf(gs,
           S)[R \ {AnyOf(R)}]
  <2> SUFFICES ASSUME NEW R \in SUBSET S
               PROVE  /\ SumOf(gs, D)[R] = IF R = {} THEN 0
                                           ELSE gs[AnyOf(R)].size + SumOf(gs,
                                             D)[R \ {AnyOf(R)}]
                      /\ SumOf(gs, S)[R] = IF R = {} THEN 0
                                           ELSE gs[AnyOf(R)].size + SumOf(gs,
                                             S)[R \ {AnyOf(R)}]
    OBVIOUS
  <2>1. R \in SUBSET D
    OBVIOUS
  <2> QED BY <1>1, <2>1 DEF Sums
<1>3. 0 \in T
  <2>1. \A R \in SUBSET S : Cardinality(R) = 0 => R = {}
    BY <1>0, FS_EmptySet
  <2> QED BY <1>2, <2>1
<1>4. ASSUME NEW n \in Nat, n \in T PROVE n + 1 \in T
  <2> SUFFICES ASSUME NEW R \in SUBSET S, Cardinality(R) = n + 1
               PROVE  SumOf(gs, D)[R] = SumOf(gs, S)[R]
    OBVIOUS
  <2>1. R # {}
    BY FS_EmptySet
  <2>2. R \ {AnyOf(R)} \in SUBSET S /\ Cardinality(R \ {AnyOf(R)}) = n
    BY <1>0, <2>1, AnyIs, OneLess
  <2>3. SumOf(gs, D)[R \ {AnyOf(R)}] = SumOf(gs, S)[R \ {AnyOf(R)}]
    BY <1>4, <2>2
  <2> QED BY <1>2, <2>1, <2>3
<1> HIDE DEF T
<1>5. Cardinality(S) \in T
  BY <1>0, <1>3, <1>4, Induction
<1>6. SumOf(gs, D)[S] = SumOf(gs, S)[S]
  BY <1>5 DEF T
<1> QED BY <1>6, SizeUnfolds

LEMMA SizeIs ==
  ASSUME NEW gs, NEW S, IsFiniteSet(S)
  PROVE  Replay!Size(gs, S) = IF S = {} THEN 0 ELSE gs[AnyOf(S)].size + Replay!Size(gs,
         S \ {AnyOf(S)})
<1>1. Sums(gs, SumOf(gs, S), S)
  BY SumsExist
<1>2. SumOf(gs, S)[S] = IF S = {} THEN 0 ELSE gs[AnyOf(S)].size + SumOf(gs, S)[S \ {AnyOf(S)}]
  BY <1>1 DEF Sums
<1>3. SumOf(gs, S)[S] = Replay!Size(gs, S) /\
        SumOf(gs, S)[S \ {AnyOf(S)}] = Replay!Size(gs, S \ {AnyOf(S)})
  BY OneSum
<1> QED BY <1>2, <1>3

LEMMA SizeIsNat ==
  ASSUME NEW gs, NEW S, IsFiniteSet(S), Sized(gs, S)
  PROVE  Replay!Size(gs, S) \in Nat
<1> DEFINE T == {n \in Nat : \A R \in SUBSET S : Cardinality(R) = n => Replay!Size(gs,
  R) \in Nat}
<1>0. \A R \in SUBSET S : IsFiniteSet(R) /\ Cardinality(R) \in Nat
  BY FS_Subset, FS_CardinalityType
<1>1. 0 \in T
  <2> SUFFICES ASSUME NEW R \in SUBSET S, Cardinality(R) = 0 PROVE Replay!Size(gs, R) \in Nat
    OBVIOUS
  <2>1. R = {}
    BY <1>0, FS_EmptySet
  <2> QED BY <1>0, <2>1, SizeIs
<1>2. ASSUME NEW n \in Nat, n \in T PROVE n + 1 \in T
  <2> SUFFICES ASSUME NEW R \in SUBSET S, Cardinality(R) = n + 1
    PROVE Replay!Size(gs, R) \in Nat
    OBVIOUS
  <2>1. R # {}
    BY FS_EmptySet
  <2>2. R \ {AnyOf(R)} \in SUBSET S /\ Cardinality(R \ {AnyOf(R)}) = n /\ AnyOf(R) \in S
    BY <1>0, <2>1, AnyIs, OneLess
  <2>3. Replay!Size(gs, R \ {AnyOf(R)}) \in Nat /\ gs[AnyOf(R)].size \in Nat
    BY <1>2, <2>2 DEF Sized
  <2>4. Replay!Size(gs, R) = gs[AnyOf(R)].size + Replay!Size(gs, R \ {AnyOf(R)})
    BY <1>0, <2>1, SizeIs
  <2> QED BY <2>3, <2>4
<1> HIDE DEF T
<1>3. Cardinality(S) \in T
  BY <1>0, <1>1, <1>2, Induction
<1> QED BY <1>3 DEF T

\* Whichever element is taken first.
LEMMA SizeWithout ==
  ASSUME NEW gs, NEW S, IsFiniteSet(S), Sized(gs, S), NEW x \in S
  PROVE  Replay!Size(gs, S) = gs[x].size + Replay!Size(gs, S \ {x})
<1> DEFINE T == {n \in Nat : \A R \in SUBSET S : \A y \in R :
                   Cardinality(R) = n
                     => Replay!Size(gs, R) = gs[y].size + Replay!Size(gs, R \ {y})}
<1>0. \A R \in SUBSET S : IsFiniteSet(R) /\ Cardinality(R) \in Nat /\
        Replay!Size(gs, R) \in Nat
  <2> SUFFICES ASSUME NEW R \in SUBSET S
               PROVE  IsFiniteSet(R) /\ Cardinality(R) \in Nat /\ Replay!Size(gs, R) \in Nat
    OBVIOUS
  <2>1. Sized(gs, R)
    BY DEF Sized
  <2> QED BY <2>1, FS_Subset, FS_CardinalityType, SizeIsNat
<1>1. 0 \in T
  <2> SUFFICES ASSUME NEW R \in SUBSET S, NEW y \in R, Cardinality(R) = 0 PROVE FALSE
    OBVIOUS
  <2> QED BY <1>0, FS_EmptySet
<1>2. ASSUME NEW n \in Nat, n \in T PROVE n + 1 \in T
  <2> SUFFICES ASSUME NEW R \in SUBSET S, NEW y \in R, Cardinality(R) = n + 1
               PROVE  Replay!Size(gs, R) = gs[y].size + Replay!Size(gs, R \ {y})
    OBVIOUS
  <2> DEFINE z == AnyOf(R)
  <2>1. R # {} /\ z \in R
    BY AnyIs
  <2>2. Replay!Size(gs, R) = gs[z].size + Replay!Size(gs, R \ {z})
    BY <1>0, <2>1, SizeIs
  <2> HIDE DEF z
  <2>3. CASE y = z
    BY <2>2, <2>3
  <2>4. CASE y # z
    <3>1. /\ R \ {z} \in SUBSET S /\ y \in R \ {z} /\ Cardinality(R \ {z}) = n
          /\ R \ {y} \in SUBSET S /\ z \in R \ {y} /\ Cardinality(R \ {y}) = n
      BY <1>0, <2>1, <2>4, OneLess
    <3>2. Replay!Size(gs, R \ {z}) = gs[y].size + Replay!Size(gs, (R \ {z}) \ {y})
      BY <1>2, <3>1
    <3>3. Replay!Size(gs, R \ {y}) = gs[z].size + Replay!Size(gs, (R \ {y}) \ {z})
      BY <1>2, <3>1
    <3>4. (R \ {z}) \ {y} = (R \ {y}) \ {z} /\ (R \ {y}) \ {z} \in SUBSET S
      OBVIOUS
    <3>5. Replay!Size(gs, (R \ {y}) \ {z}) \in Nat /\ gs[y].size \in Nat /\ gs[z].size \in Nat
      BY <1>0, <2>1, <3>4 DEF Sized
    <3> DEFINE Q == (R \ {y}) \ {z}
    <3>6. /\ Replay!Size(gs, R \ {z}) = gs[y].size + Replay!Size(gs, Q)
          /\ Replay!Size(gs, R \ {y}) = gs[z].size + Replay!Size(gs, Q)
          /\ Replay!Size(gs, Q) \in Nat
      BY <3>2, <3>3, <3>4, <3>5
    <3> HIDE DEF Q
    <3> QED BY <2>2, <3>5, <3>6
  <2> QED BY <2>3, <2>4
<1> HIDE DEF T
<1>3. Cardinality(S) \in T
  BY <1>0, <1>1, <1>2, Induction
<1> QED BY <1>3 DEF T

\* Only the sizes matter.
LEMMA SameSize ==
  ASSUME NEW gs, NEW hs, NEW S, IsFiniteSet(S), \A g \in S : gs[g].size = hs[g].size
  PROVE  Replay!Size(gs, S) = Replay!Size(hs, S)
<1> DEFINE T == {n \in Nat : \A R \in SUBSET S : Cardinality(R) = n => Replay!Size(gs,
  R) = Replay!Size(hs, R)}
<1>0. \A R \in SUBSET S : IsFiniteSet(R) /\ Cardinality(R) \in Nat
  BY FS_Subset, FS_CardinalityType
<1>1. 0 \in T
  <2> SUFFICES ASSUME NEW R \in SUBSET S, Cardinality(R) = 0
    PROVE Replay!Size(gs, R) = Replay!Size(hs, R)
    OBVIOUS
  <2>1. R = {}
    BY <1>0, FS_EmptySet
  <2> QED BY <1>0, <2>1, SizeIs
<1>2. ASSUME NEW n \in Nat, n \in T PROVE n + 1 \in T
  <2> SUFFICES ASSUME NEW R \in SUBSET S, Cardinality(R) = n + 1
    PROVE Replay!Size(gs, R) = Replay!Size(hs, R)
    OBVIOUS
  <2>1. R # {}
    BY FS_EmptySet
  <2>2. R \ {AnyOf(R)} \in SUBSET S /\ Cardinality(R \ {AnyOf(R)}) = n /\ AnyOf(R) \in S
    BY <1>0, <2>1, AnyIs, OneLess
  <2>3. Replay!Size(gs, R \ {AnyOf(R)}) = Replay!Size(hs, R \ {AnyOf(R)})
    BY <1>2, <2>2
  <2>4. /\ Replay!Size(gs, R) = gs[AnyOf(R)].size + Replay!Size(gs, R \ {AnyOf(R)})
        /\ Replay!Size(hs, R) = hs[AnyOf(R)].size + Replay!Size(hs, R \ {AnyOf(R)})
    BY <1>0, <2>1, SizeIs
  <2> QED BY <2>2, <2>3, <2>4
<1> HIDE DEF T
<1>3. Cardinality(S) \in T
  BY <1>0, <1>1, <1>2, Induction
<1> QED BY <1>3 DEF T

LEMMA SizeSplits ==
  ASSUME NEW gs, NEW S, IsFiniteSet(S), Sized(gs, S), NEW R \in SUBSET S
  PROVE  Replay!Size(gs, S) = Replay!Size(gs, R) + Replay!Size(gs, S \ R)
<1> DEFINE T == {n \in Nat : \A Q \in SUBSET S :
                   Cardinality(Q) = n
                     => Replay!Size(gs, S) = Replay!Size(gs, Q) + Replay!Size(gs, S \ Q)}
<1>0. /\ \A Q \in SUBSET S : /\ IsFiniteSet(Q) /\ Cardinality(Q) \in Nat
                             /\ Replay!Size(gs, Q) \in Nat /\ Sized(gs, Q)
  <2> SUFFICES ASSUME NEW Q \in SUBSET S
               PROVE  /\ IsFiniteSet(Q) /\ Cardinality(Q) \in Nat
                      /\ Replay!Size(gs, Q) \in Nat /\ Sized(gs, Q)
    OBVIOUS
  <2>1. Sized(gs, Q)
    BY DEF Sized
  <2> QED BY <2>1, FS_Subset, FS_CardinalityType, SizeIsNat
<1>1. 0 \in T
  <2> SUFFICES ASSUME NEW Q \in SUBSET S, Cardinality(Q) = 0
               PROVE  Replay!Size(gs, S) = Replay!Size(gs, Q) + Replay!Size(gs, S \ Q)
    OBVIOUS
  <2>1. Q = {} /\ S \ Q = S
    BY <1>0, FS_EmptySet
  <2>2. Replay!Size(gs, {}) = 0 /\ Replay!Size(gs, S) \in Nat
    BY <1>0, FS_EmptySet, SizeIs
  <2> QED BY <2>1, <2>2
<1>2. ASSUME NEW n \in Nat, n \in T PROVE n + 1 \in T
  <2> SUFFICES ASSUME NEW Q \in SUBSET S, Cardinality(Q) = n + 1
               PROVE  Replay!Size(gs, S) = Replay!Size(gs, Q) + Replay!Size(gs, S \ Q)
    OBVIOUS
  <2>1. PICK x \in Q : TRUE
    BY FS_EmptySet
  <2>7. Cardinality(Q \ {x}) = n
    BY <1>0, <2>1, OneLess
  <2>2. /\ Q \ {x} \in SUBSET S /\ Cardinality(Q \ {x}) = n
        /\ x \in S \ (Q \ {x}) /\ (S \ (Q \ {x})) \ {x} = S \ Q
        /\ S \ (Q \ {x}) \in SUBSET S /\ S \ Q \in SUBSET S
    BY <2>1, <2>7
  <2>3. Replay!Size(gs, S) = Replay!Size(gs, Q \ {x}) + Replay!Size(gs, S \ (Q \ {x}))
    BY <1>2, <2>2
  <2>4. Replay!Size(gs, Q) = gs[x].size + Replay!Size(gs, Q \ {x})
    BY <1>0, <2>1, SizeWithout
  <2>5. Replay!Size(gs, S \ (Q \ {x})) = gs[x].size + Replay!Size(gs, (S \ (Q \ {x})) \ {x})
    BY <1>0, <2>2, SizeWithout
  <2>6. /\ gs[x].size \in Nat /\ Replay!Size(gs, Q \ {x}) \in Nat
        /\ Replay!Size(gs, S \ Q) \in Nat
    BY <1>0, <2>1, <2>2 DEF Sized
  <2> QED BY <2>2, <2>3, <2>4, <2>5, <2>6, SMTT(60)
<1> HIDE DEF T
<1>3. Cardinality(R) \in T
  BY <1>0, <1>1, <1>2, Induction
<1> QED BY <1>3 DEF T

-----------------------------------------------------------------------------
(* What is kept of a list.                                                 *)

KeptBy(s, S) == CHOOSE f : KeptSteps(s, S, f, Len(s))

LEMMA KeptUnfolds ==
  ASSUME NEW X, NEW s \in Seq(X), NEW S
  PROVE  /\ Kept(s, S) = KeptBy(s, S)[Len(s)] /\ Len(s) \in Nat
         /\ KeptBy(s, S)[0] = <<>>
         /\ \A n \in 1 .. Len(s) :
              KeptBy(s, S)[n] = IF s[n] \in S THEN Append(KeptBy(s, S)[n - 1], s[n])
                                ELSE KeptBy(s, S)[n - 1]
<1> DEFINE f == KeptBy(s, S)
<1>1. KeptSteps(s, S, f, Len(s)) /\ Len(s) \in Nat
  BY KeptStepsExist DEF KeptBy
<1>2. Kept(s, S) = f[Len(s)]
  BY DEF Kept, KeptSteps, KeptBy
<1> HIDE DEF f
<1>3. f[0] = <<>>
  BY <1>1 DEF KeptSteps
<1>4. ASSUME NEW n \in 1 .. Len(s)
      PROVE  f[n] = IF s[n] \in S THEN Append(f[n - 1], s[n]) ELSE f[n - 1]
  <2>1. n \in 0 .. Len(s) /\ n # 0
    BY <1>1
  <2> QED BY <1>1, <2>1 DEF KeptSteps
<1> QED BY <1>1, <1>2, <1>3, <1>4 DEF f

\* Prefixes that agree are kept alike.
LEMMA KeptAgrees ==
  ASSUME NEW X, NEW s \in Seq(X), NEW t \in Seq(X), NEW S, NEW T, Len(s) <= Len(t),
         \A n \in 1 .. Len(s) : s[n] = t[n] /\ (s[n] \in S <=> s[n] \in T)
  PROVE  Kept(s, S) = KeptBy(t, T)[Len(s)]
<1> DEFINE f == KeptBy(s, S)
           g == KeptBy(t, T)
           U == {n \in Nat : n <= Len(s) => f[n] = g[n]}
<1>1. /\ Kept(s, S) = f[Len(s)] /\ Len(s) \in Nat /\ f[0] = <<>>
      /\ \A n \in 1 .. Len(s) :
           f[n] = IF s[n] \in S THEN Append(f[n - 1], s[n]) ELSE f[n - 1]
  BY KeptUnfolds
<1>2. /\ Len(t) \in Nat /\ g[0] = <<>>
      /\ \A n \in 1 .. Len(t) :
           g[n] = IF t[n] \in T THEN Append(g[n - 1], t[n]) ELSE g[n - 1]
  BY KeptUnfolds
<1> HIDE DEF f, g
<1>3. 0 \in U
  BY <1>1, <1>2
<1>4. ASSUME NEW n \in Nat, n \in U PROVE n + 1 \in U
  <2> SUFFICES ASSUME n + 1 <= Len(s) PROVE f[n + 1] = g[n + 1]
    OBVIOUS
  <2>1. n + 1 \in 1 .. Len(s) /\ n + 1 \in 1 .. Len(t) /\ (n + 1) - 1 = n /\ n <= Len(s)
    BY <1>1, <1>2
  <2>2. f[n] = g[n]
    BY <1>4, <2>1
  <2>3. f[n + 1] = IF s[n + 1] \in S THEN Append(f[n], s[n + 1]) ELSE f[n]
    BY <1>1, <2>1
  <2>4. g[n + 1] = IF t[n + 1] \in T THEN Append(g[n], t[n + 1]) ELSE g[n]
    BY <1>2, <2>1
  <2> QED BY <2>1, <2>2, <2>3, <2>4
<1> HIDE DEF U
<1>5. Len(s) \in U
  BY <1>1, <1>3, <1>4, Induction
<1> QED BY <1>1, <1>5 DEF U, g

LEMMA KeptAlike ==
  ASSUME NEW X, NEW s \in Seq(X), NEW S, NEW T,
         \A n \in 1 .. Len(s) : s[n] \in S <=> s[n] \in T
  PROVE  Kept(s, S) = Kept(s, T)
<1>1. Kept(s, S) = KeptBy(s, T)[Len(s)] /\ Kept(s, T) = KeptBy(s, T)[Len(s)]
  BY KeptAgrees
<1> QED BY <1>1

LEMMA KeptAppend ==
  ASSUME NEW X, NEW s \in Seq(X), NEW x \in X, NEW S
  PROVE  Kept(Append(s, x), S) = IF x \in S THEN Append(Kept(s, S), x) ELSE Kept(s, S)
<1> DEFINE t == Append(s, x)
<1>1. /\ t \in Seq(X) /\ Len(t) = Len(s) + 1 /\ Len(s) \in Nat /\ t[Len(s) + 1] = x
      /\ \A n \in 1 .. Len(s) : s[n] = t[n]
  OBVIOUS
<1> HIDE DEF t
<1>2. Kept(s, S) = KeptBy(t, S)[Len(s)]
  BY <1>1, KeptAgrees
<1>3. Len(t) \in 1 .. Len(t) /\ Len(t) - 1 = Len(s)
  BY <1>1
<1>4. Kept(t, S) = KeptBy(t, S)[Len(t)]
  BY <1>1, KeptUnfolds
<1>5. KeptBy(t, S)[Len(t)] = IF t[Len(t)] \in S
                             THEN Append(KeptBy(t, S)[Len(t) - 1], t[Len(t)])
                             ELSE KeptBy(t, S)[Len(t) - 1]
  BY <1>1, <1>3, KeptUnfolds
<1> QED BY <1>1, <1>2, <1>3, <1>4, <1>5 DEF t

LEMMA KeptEmpty == ASSUME NEW S PROVE Kept(<<>>, S) = <<>>
<1>1. <<>> \in Seq(Nat) /\ Len(<<>>) = 0
  OBVIOUS
<1>2. Kept(<<>>, S) = KeptBy(<<>>, S)[Len(<<>>)] /\ KeptBy(<<>>, S)[0] = <<>>
  BY <1>1, KeptUnfolds, ZenonT(60)
<1> QED BY <1>1, <1>2

\* A list of n + 1 is one of n and a last element.
LEMMA Lasts ==
  ASSUME NEW X, NEW n \in Nat, NEW s \in Seq(X), Len(s) = n + 1
  PROVE  \E r \in Seq(X), x \in X : s = Append(r, x) /\ Len(r) = n
<1> DEFINE r == SubSeq(s, 1, n)
<1>1. r \in Seq(X) /\ Len(r) = n /\ \A i \in 1 .. n : r[i] = s[i]
  OBVIOUS
<1> HIDE DEF r
<1>2. s[n + 1] \in X
  OBVIOUS
<1>3. s = Append(r, s[n + 1])
  <2>1. /\ Append(r, s[n + 1]) \in Seq(X) /\ Len(Append(r, s[n + 1])) = n + 1
        /\ \A i \in 1 .. n + 1 : Append(r, s[n + 1])[i] = s[i]
    BY <1>1, <1>2
  <2> QED BY <2>1
<1> QED BY <1>1, <1>2, <1>3

Twice(r, A, B) == Kept(Kept(r, A), B) = Kept(r, A \cap B)

LEMMA TwiceAppend ==
  ASSUME NEW X, NEW q \in Seq(X), NEW x \in X, NEW A, NEW B, Twice(q, A, B)
  PROVE  Twice(Append(q, x), A, B)
<1> DEFINE r == Append(q, x)
<1>1. Kept(q, A) \in Seq(X)
  BY KeptPicks
<1>2. Kept(r, A) = IF x \in A THEN Append(Kept(q, A), x) ELSE Kept(q, A)
  BY KeptAppend
<1>3. Kept(r, A \cap B) = IF x \in A \cap B THEN Append(Kept(q, A \cap B), x)
                          ELSE Kept(q, A \cap B)
  BY KeptAppend
<1>4. Kept(Append(Kept(q, A), x), B) = IF x \in B THEN Append(Kept(Kept(q, A), B), x)
                                       ELSE Kept(Kept(q, A), B)
  BY <1>1, KeptAppend
<1> HIDE DEF r
<1>5. CASE x \in A /\ x \in B
  BY <1>2, <1>3, <1>4, <1>5 DEF Twice, r
<1>6. CASE x \in A /\ x \notin B
  BY <1>2, <1>3, <1>4, <1>6 DEF Twice, r
<1>7. CASE x \notin A
  BY <1>2, <1>3, <1>7 DEF Twice, r
<1> QED BY <1>5, <1>6, <1>7

LEMMA KeptTwice ==
  ASSUME NEW X, NEW s \in Seq(X), NEW A, NEW B
  PROVE  Kept(Kept(s, A), B) = Kept(s, A \cap B)
<1> DEFINE T == {n \in Nat : \A r \in Seq(X) : Len(r) = n => Twice(r, A, B)}
<1>1. 0 \in T
  <2>1. ASSUME NEW r \in Seq(X), Len(r) = 0 PROVE Twice(r, A, B)
    <3>1. r = <<>>
      BY <2>1, EmptySeq
    <3> QED BY <3>1, KeptEmpty DEF Twice
  <2>2. 0 \in Nat
    OBVIOUS
  <2> QED BY <2>1, <2>2, Zenon
<1>2. ASSUME NEW n \in Nat, n \in T PROVE n + 1 \in T
  <2>1. ASSUME NEW r \in Seq(X), Len(r) = n + 1 PROVE Twice(r, A, B)
    <3>1. PICK q \in Seq(X), x \in X : r = Append(q, x) /\ Len(q) = n
      BY <2>1, Lasts
    <3>2. Twice(q, A, B)
      BY <1>2, <3>1
    <3> QED BY <3>1, <3>2, TwiceAppend
  <2>2. n + 1 \in Nat
    OBVIOUS
  <2> QED BY <2>1, <2>2, Zenon
<1> HIDE DEF T
<1>3. Len(s) \in T
  BY <1>1, <1>2, Induction
<1> QED BY <1>3 DEF T, Twice

\* Lists without repetition.
Once(s) == \A i, j \in 1 .. Len(s) : s[i] = s[j] => i = j

LEMMA KeptOnce ==
  ASSUME NEW X, NEW s \in Seq(X), Once(s), NEW S
  PROVE  /\ Kept(s, S) \in Seq(X) /\ Once(Kept(s, S))
         /\ Range(Kept(s, S)) = Range(s) \cap S
<1> DEFINE r == Kept(s, S)
<1>1. r \in Seq(X) /\ \E p : Picks(s, S, r, p, Len(s))
  BY KeptPicks
<1> HIDE DEF r
<1>2. PICK p : Picks(s, S, r, p, Len(s))
  BY <1>1
<1>3. Len(r) \in Nat /\ Len(s) \in Nat /\ DOMAIN r = 1 .. Len(r) /\ DOMAIN s = 1 .. Len(s)
  BY <1>1
<1>4. Once(r)
  <2> SUFFICES ASSUME NEW i \in 1 .. Len(r), NEW j \in 1 .. Len(r), i # j PROVE r[i] # r[j]
    BY DEF Once
  <2>1. p[i] \in 1 .. Len(s) /\ p[j] \in 1 .. Len(s) /\ r[i] = s[p[i]] /\ r[j] = s[p[j]]
    BY <1>2 DEF Picks
  <2>2. i < j \/ j < i
    BY <1>3
  <2>3. p[i] < p[j] \/ p[j] < p[i]
    BY <1>2, <2>2 DEF Picks
  <2> QED BY <2>1, <2>3 DEF Once
<1>5. ASSUME NEW x \in Range(r) PROVE x \in Range(s) \cap S
  <2>1. PICK i \in 1 .. Len(r) : r[i] = x
    BY <1>3, <1>5 DEF Range
  <2>2. p[i] \in 1 .. Len(s) /\ s[p[i]] = x /\ x \in S
    BY <1>2, <2>1 DEF Picks
  <2> QED BY <1>3, <2>2 DEF Range
<1>6. ASSUME NEW x \in Range(s) \cap S PROVE x \in Range(r)
  <2>1. PICK m \in 1 .. Len(s) : s[m] = x
    BY <1>3, <1>6 DEF Range
  <2>2. PICK i \in 1 .. Len(r) : p[i] = m
    BY <1>2, <1>6, <2>1 DEF Picks
  <2>3. r[i] = x
    BY <1>2, <2>1, <2>2 DEF Picks
  <2> QED BY <1>3, <2>3 DEF Range
<1> QED BY <1>1, <1>4, <1>5, <1>6 DEF r

LEMMA OnceAppend ==
  ASSUME NEW X, NEW s \in Seq(X), Once(s), NEW x \in X, x \notin Range(s)
  PROVE  /\ Append(s, x) \in Seq(X) /\ Once(Append(s, x))
         /\ Range(Append(s, x)) = Range(s) \cup {x}
<1> DEFINE r == Append(s, x)
<1>1. /\ r \in Seq(X) /\ Len(r) = Len(s) + 1 /\ Len(s) \in Nat
      /\ r[Len(s) + 1] = x
      /\ \A i \in 1 .. Len(s) : r[i] = s[i]
  OBVIOUS
<1> HIDE DEF r
<1>2. DOMAIN r = 1 .. Len(s) + 1 /\ DOMAIN s = 1 .. Len(s)
  BY <1>1
<1>3. \A i \in 1 .. Len(s) : s[i] # x
  BY <1>2 DEF Range
<1>4. \A k : k \in 1 .. Len(s) + 1 <=> (k \in 1 .. Len(s) \/ k = Len(s) + 1)
  BY <1>1
<1>5. Once(r)
  <2> SUFFICES ASSUME NEW i \in 1 .. Len(r), NEW j \in 1 .. Len(r), r[i] = r[j]
               PROVE  i = j
    BY DEF Once
  <2> QED BY <1>1, <1>3, <1>4 DEF Once
<1>6. ASSUME NEW y \in Range(r) PROVE y \in Range(s) \cup {x}
  <2>1. PICK i \in 1 .. Len(s) + 1 : r[i] = y
    BY <1>2, <1>6 DEF Range
  <2> QED BY <1>1, <1>2, <1>4, <2>1 DEF Range
<1>7. x \in Range(r)
  BY <1>1, <1>2, <1>4 DEF Range
<1>8. ASSUME NEW y \in Range(s) PROVE y \in Range(r)
  <2>1. PICK i \in 1 .. Len(s) : s[i] = y
    BY <1>2, <1>8 DEF Range
  <2> QED BY <1>1, <1>2, <1>4, <2>1 DEF Range
<1> QED BY <1>1, <1>5, <1>6, <1>7, <1>8 DEF r

LEMMA OnceCounts ==
  ASSUME NEW X, NEW s \in Seq(X), Once(s)
  PROVE  Cardinality(Range(s)) = Len(s)
<1> DEFINE n == Len(s)
           S == Range(s)
<1>1. n \in Nat /\ s \in [1 .. n -> S] /\ \A y \in S : \E i \in 1 .. n : s[i] = y
  BY DEF Range
<1>2. s \in Bijection(1 .. n, S)
  <2>1. \A i, j \in 1 .. n : s[i] = s[j] => i = j
    BY DEF Once
  <2> HIDE DEF n, S
  <2> QED BY <1>1, <2>1, Fun_IsBij
<1>3. ExistsBijection(1 .. n, S)
  BY <1>2, Fun_ExistsBij
<1> QED BY <1>1, <1>3, FS_CountingElements

\* ReplayStore has a copy of the operators it extends.
LEMMA SameOperators ==
  /\ \A s, S : Replay!Kept(s, S) = Kept(s, S)
  /\ \A s : Replay!Range(s) = Range(s)
  /\ \A S : Replay!Min(S) = Min(S)
  /\ \A S : Replay!Cardinality(S) = Cardinality(S)
<1>1. \A s, S : Replay!Kept(s, S) = Kept(s, S)
  BY DEF Replay!Kept, Kept
<1>2. \A s : Replay!Range(s) = Range(s)
  BY DEF Replay!Range, Range
<1>3. \A S : Replay!Min(S) = Min(S)
  BY DEF Replay!Min, Min
<1>4. \A S : Replay!Cardinality(S) = Cardinality(S)
  BY DEF Replay!Cardinality, Cardinality
<1> QED BY <1>1, <1>2, <1>3, <1>4

-----------------------------------------------------------------------------
(* Stores.                                                                 *)

IndexInv(s) ==
  /\ \A g \in DOMAIN s.groups : \A c \in s.groups[g].calls :
       c \in DOMAIN s.index /\ s.index[c] = g
  /\ \A c \in DOMAIN s.index :
       s.index[c] \in DOMAIN s.groups /\ c \in s.groups[s.index[c]].calls
ListInv(s) ==
  /\ s.lru \in Seq(Nat) /\ Once(s.lru) /\ Range(s.lru) = DOMAIN s.groups
  /\ IsFiniteSet(DOMAIN s.groups)
BytesInv(s) ==
  Sized(s.groups, DOMAIN s.groups) /\ s.bytes = Replay!Size(s.groups, DOMAIN s.groups)
Consistent(s) == IndexInv(s) /\ ListInv(s) /\ BytesInv(s)

LEMMA DroppedIs ==
  ASSUME NEW s, ListInv(s), NEW gone
  PROVE  Replay!Dropped(s.lru, gone) = Kept(s.lru, DOMAIN s.groups \ gone)
<1>1. s.lru \in Seq(Nat) /\ Replay!ToSet(s.lru) = Range(s.lru) /\ Range(s.lru) = DOMAIN s.groups
  BY DEF ListInv, Replay!ToSet, Range
<1> QED BY <1>1, SameOperators DEF Replay!Dropped

\* What is left when groups go.
LEMMA RemovedIs ==
  ASSUME NEW s, Consistent(s), NEW gone, gone \subseteq DOMAIN s.groups
  PROVE  LET r == Replay!RemoveGroups(s, gone)
             left == DOMAIN s.groups \ gone
         IN  /\ Consistent(r)
             /\ DOMAIN r.groups = left
             /\ \A g \in left : r.groups[g] = s.groups[g]
             /\ r.lru = Kept(s.lru, left)
             /\ DOMAIN r.index \subseteq DOMAIN s.index
<1> DEFINE r == Replay!RemoveGroups(s, gone)
           left == DOMAIN s.groups \ gone
           kept == {c \in DOMAIN s.index :
                      ~(s.index[c] \in gone /\ c \in s.groups[s.index[c]].calls)}
<1>1. /\ r.groups = [g \in left |-> s.groups[g]]
      /\ r.index = [c \in kept |-> s.index[c]]
      /\ r.lru = Replay!Dropped(s.lru, gone)
      /\ r.bytes = LET b == s.bytes - Replay!Size(s.groups, gone) IN IF b < 0 THEN 0 ELSE b
  BY SMTT(60) DEF Replay!RemoveGroups, Replay!Restricted
<1> HIDE DEF r
<1>2. DOMAIN r.groups = left /\ \A g \in left : r.groups[g] = s.groups[g]
  BY <1>1, SMTT(60)
<1>3. DOMAIN r.index = kept /\ \A c \in kept : r.index[c] = s.index[c]
  BY <1>1
<1>4. /\ IsFiniteSet(DOMAIN s.groups) /\ IsFiniteSet(left) /\ IsFiniteSet(gone)
      /\ Sized(s.groups, DOMAIN s.groups) /\ Sized(s.groups, left) /\ Sized(s.groups, gone)
  <2>1. IsFiniteSet(DOMAIN s.groups) /\ Sized(s.groups, DOMAIN s.groups)
    BY DEF Consistent, ListInv, BytesInv
  <2>2. left \subseteq DOMAIN s.groups
    OBVIOUS
  <2> QED BY <2>1, <2>2, FS_Subset DEF Sized
<1>5. r.lru = Kept(s.lru, left)
  BY <1>1, DroppedIs DEF Consistent
<1>6. ListInv(r)
  <2>1. r.lru \in Seq(Nat) /\ Once(r.lru) /\ Range(r.lru) = DOMAIN s.groups \cap left
    BY <1>5, KeptOnce DEF Consistent, ListInv
  <2> QED BY <1>2, <1>4, <2>1 DEF ListInv
<1>7. IndexInv(r)
  <2>1. ASSUME NEW g \in left, NEW c \in s.groups[g].calls
        PROVE  c \in kept /\ s.index[c] = g
    BY DEF Consistent, IndexInv
  <2>2. ASSUME NEW c \in kept
        PROVE  s.index[c] \in left /\ c \in s.groups[s.index[c]].calls
    BY DEF Consistent, IndexInv
  <2> HIDE DEF left, kept
  <2> QED BY <1>2, <1>3, <2>1, <2>2 DEF IndexInv
<1>8. BytesInv(r)
  <2>1. s.bytes = Replay!Size(s.groups, DOMAIN s.groups)
    BY DEF Consistent, BytesInv
  <2>2. Replay!Size(s.groups, DOMAIN s.groups) = Replay!Size(s.groups,
          gone) + Replay!Size(s.groups, left)
    BY <1>4, SizeSplits
  <2>3. Replay!Size(s.groups, gone) \in Nat /\ Replay!Size(s.groups, left) \in Nat
    BY <1>4, SizeIsNat, SMTT(60)
  <2>4. Replay!Size(r.groups, left) = Replay!Size(s.groups, left)
    BY <1>2, <1>4, SameSize
  <2>5. r.bytes = Replay!Size(s.groups, left)
    BY <1>1, <2>1, <2>2, <2>3
  <2>6. Sized(r.groups, left)
    BY <1>2, <1>4 DEF Sized
  <2> QED BY <1>2, <2>4, <2>5, <2>6 DEF BytesInv
<1>9. Consistent(r)
  BY <1>6, <1>7, <1>8 DEF Consistent
<1> QED BY <1>2, <1>3, <1>5, <1>9 DEF r

LEMMA InsertedIs ==
  ASSUME NEW s, Consistent(s), NEW id \in Nat \ DOMAIN s.groups, NEW group,
         group.size \in Nat, group.calls \cap DOMAIN s.index = {}
  PROVE  LET r == Replay!Inserted(s, id, group)
         IN  /\ Consistent(r)
             /\ DOMAIN r.groups = DOMAIN s.groups \cup {id}
             /\ r.groups[id] = group
             /\ \A g \in DOMAIN s.groups : r.groups[g] = s.groups[g]
             /\ r.lru = Append(s.lru, id)
<1> DEFINE r == Replay!Inserted(s, id, group)
           D == DOMAIN s.groups
           C == DOMAIN s.index \cup group.calls
<1>1. /\ r.groups = [g \in D \cup {id} |-> IF g = id THEN group ELSE s.groups[g]]
      /\ r.index = [c \in C |-> IF c \in group.calls THEN id ELSE s.index[c]]
      /\ r.lru = Append(s.lru, id)
      /\ r.bytes = s.bytes + group.size
  BY DEF Replay!Inserted
<1> HIDE DEF r
<1>2. /\ DOMAIN r.groups = D \cup {id} /\ r.groups[id] = group
      /\ \A g \in D : r.groups[g] = s.groups[g]
  BY <1>1
<1>3. /\ DOMAIN r.index = C
      /\ \A c \in C : r.index[c] = IF c \in group.calls THEN id ELSE s.index[c]
  BY <1>1
<1>4. ListInv(r)
  <2>1. /\ s.lru \in Seq(Nat) /\ Once(s.lru) /\ Range(s.lru) = D /\ IsFiniteSet(D)
    BY DEF Consistent, ListInv
  <2>2. r.lru \in Seq(Nat) /\ Once(r.lru) /\ Range(r.lru) = D \cup {id}
    BY <1>1, <2>1, OnceAppend
  <2>3. IsFiniteSet(D \cup {id})
    BY <2>1, FS_AddElement
  <2> QED BY <1>2, <2>2, <2>3 DEF ListInv
<1>5. IndexInv(r)
  <2>1. /\ \A g \in D : \A c \in s.groups[g].calls : c \in DOMAIN s.index /\ s.index[c] = g
        /\ \A c \in DOMAIN s.index : s.index[c] \in D /\ c \in s.groups[s.index[c]].calls
    BY DEF Consistent, IndexInv
  <2>2. ASSUME NEW g \in D \cup {id}, NEW c \in r.groups[g].calls
        PROVE  c \in C /\ r.index[c] = g
    <3>1. CASE g = id
      BY <1>2, <1>3, <2>2, <3>1
    <3>2. CASE g # id
      <4>1. g \in D /\ c \in s.groups[g].calls
        BY <1>2, <2>2, <3>2
      <4>2. c \in DOMAIN s.index /\ s.index[c] = g
        BY <2>1, <4>1
      <4>3. c \notin group.calls
        BY <4>2
      <4> QED BY <1>3, <4>2, <4>3
    <3> QED BY <3>1, <3>2
  <2>3. ASSUME NEW c \in C
        PROVE  r.index[c] \in D \cup {id} /\ c \in r.groups[r.index[c]].calls
    BY <1>2, <1>3, <2>1
  <2> HIDE DEF C, D
  <2> QED BY <1>2, <1>3, <2>2, <2>3 DEF IndexInv
<1>6. BytesInv(r)
  <2>1. s.bytes = Replay!Size(s.groups, D) /\ Sized(s.groups, D) /\ IsFiniteSet(D)
    BY DEF Consistent, BytesInv, ListInv
  <2>2. IsFiniteSet(D \cup {id}) /\ (D \cup {id}) \ {id} = D
    BY <2>1, FS_AddElement
  <2> HIDE DEF D
  <2>3. Sized(r.groups, D \cup {id})
    BY <1>2, <2>1 DEF Sized
  <2>4. Replay!Size(r.groups, D \cup {id}) = r.groups[id].size + Replay!Size(r.groups, D)
    BY <2>2, <2>3, SizeWithout
  <2>5. Replay!Size(r.groups, D) = Replay!Size(s.groups, D) /\
          Replay!Size(s.groups, D) \in Nat
    BY <1>2, <2>1, SameSize, SizeIsNat
  <2> QED BY <1>1, <1>2, <2>1, <2>3, <2>4, <2>5 DEF BytesInv
<1>7. Consistent(r)
  BY <1>4, <1>5, <1>6 DEF Consistent
<1> QED BY <1>1, <1>2, <1>7 DEF r

-----------------------------------------------------------------------------
(* The limits.                                                             *)

LEMMA MinIs ==
  ASSUME NEW S \in SUBSET Nat, S # {}
  PROVE  Min(S) \in S /\ \A y \in S : Min(S) <= y
<1> DEFINE Less == {p \in Nat \X Nat : p[1] < p[2]}
<1>1. IsWellFoundedOn(Less, Nat)
  BY Numbers
<1> HIDE DEF Less
<1>2. PICK x \in S : \A y \in S : <<y, x>> \notin Less
  BY <1>1, WFMin
<1>3. ASSUME NEW y \in S PROVE x <= y
  <2>1. <<y, x>> \notin Less /\ x \in Nat /\ y \in Nat
    BY <1>2
  <2>2. ~(y < x)
    BY <2>1 DEF Less
  <2> QED BY <2>1, <2>2
<1> QED BY <1>3 DEF Min

\* The list after its first n elements.
Rest(l, n) == {l[i] : i \in n + 1 .. Len(l)}
RestFits(s, n) ==
  /\ Cardinality(Rest(s.lru, n)) <= MaxGroups
  /\ Replay!Size(s.groups, Rest(s.lru, n)) <= MaxTotalBytes

LEMMA FrontIs ==
  ASSUME NEW s, Consistent(s), NEW n \in 0 .. Len(s.lru)
  PROVE  LET r == Replay!WithoutFront(s, n)
         IN  /\ Consistent(r)
             /\ DOMAIN r.groups = Rest(s.lru, n)
             /\ Rest(s.lru, n) \subseteq DOMAIN s.groups
             /\ \A g \in Rest(s.lru, n) : r.groups[g] = s.groups[g]
             /\ r.lru = Kept(s.lru, Rest(s.lru, n))
<1> DEFINE gone == Range(SubSeq(s.lru, 1, n))
           D == DOMAIN s.groups
<1>1. /\ s.lru \in Seq(Nat) /\ Len(s.lru) \in Nat /\ DOMAIN s.lru = 1 .. Len(s.lru)
      /\ Once(s.lru) /\ D = {s.lru[i] : i \in 1 .. Len(s.lru)}
  BY DEF Consistent, ListInv, Range
<1>2. gone = {s.lru[i] : i \in 1 .. n}
  <2> DEFINE q == SubSeq(s.lru, 1, n)
  <2>1. q \in Seq(Nat) /\ DOMAIN q = 1 .. n /\ \A i \in 1 .. n : q[i] = s.lru[i]
    BY <1>1, SMTT(60)
  <2>2. gone = Range(q)
    BY DEF gone
  <2> HIDE DEF q
  <2>3. Range(q) = {q[i] : i \in 1 .. n}
    BY <2>1 DEF Range
  <2> QED BY <2>1, <2>2, <2>3
<1> HIDE DEF gone, D
<1>3. gone \subseteq D
  BY <1>1, <1>2
<1>4. D \ gone = Rest(s.lru, n)
  <2>1. ASSUME NEW g \in D \ gone PROVE g \in Rest(s.lru, n)
    <3>1. PICK i \in 1 .. Len(s.lru) : s.lru[i] = g
      BY <1>1, <2>1
    <3>2. i \notin 1 .. n
      BY <1>2, <2>1, <3>1
    <3>3. i \in n + 1 .. Len(s.lru)
      BY <1>1, <3>2
    <3> QED BY <3>1, <3>3 DEF Rest
  <2>2. ASSUME NEW g \in Rest(s.lru, n) PROVE g \in D /\ g \notin gone
    <3>1. PICK i \in n + 1 .. Len(s.lru) : s.lru[i] = g
      BY <2>2 DEF Rest
    <3>2. i \in 1 .. Len(s.lru) /\ \A j \in 1 .. n : j \in 1 .. Len(s.lru) /\ j # i
      BY <1>1, <3>1
    <3> QED BY <1>1, <1>2, <3>1, <3>2 DEF Once
  <2> QED BY <2>1, <2>2
<1>5. Replay!WithoutFront(s, n) = Replay!RemoveGroups(s, gone)
  BY SameOperators DEF Replay!WithoutFront, gone
<1>6. Rest(s.lru, n) \subseteq D
  BY <1>4
<1>7. gone \subseteq DOMAIN s.groups /\ DOMAIN s.groups \ gone = Rest(s.lru, n)
  BY <1>3, <1>4 DEF D
<1> DEFINE r == Replay!RemoveGroups(s, gone)
           left == DOMAIN s.groups \ gone
<1>8. /\ Consistent(r) /\ DOMAIN r.groups = left
      /\ \A g \in left : r.groups[g] = s.groups[g]
      /\ r.lru = Kept(s.lru, left)
  BY <1>7, RemovedIs
<1> HIDE DEF r, left
<1>9. left = Rest(s.lru, n) /\ Replay!WithoutFront(s, n) = r
  BY <1>5, <1>7 DEF left, r
<1> QED BY <1>6, <1>8, <1>9 DEF D

LEMMA LimitsAre ==
  ASSUME NEW s, Consistent(s), NEW n \in 0 .. Len(s.lru)
  PROVE  Replay!WithinLimits(Replay!WithoutFront(s, n)) <=> RestFits(s, n)
<1> DEFINE r == Replay!WithoutFront(s, n)
           R == Rest(s.lru, n)
<1>1. /\ Consistent(r) /\ DOMAIN r.groups = R /\ R \subseteq DOMAIN s.groups
      /\ \A g \in R : r.groups[g] = s.groups[g]
  BY FrontIs
<1> HIDE DEF r, R
<1>2. IsFiniteSet(R) /\ r.bytes = Replay!Size(r.groups, R)
  BY <1>1 DEF Consistent, ListInv, BytesInv
<1>3. r.bytes = Replay!Size(s.groups, R)
  BY <1>1, <1>2, SameSize
<1> QED BY <1>1, <1>3, SameOperators DEF Replay!WithinLimits, RestFits, r, R

\* What fits after n elements fits after more.
LEMMA MoreFits ==
  ASSUME NEW s, Consistent(s), NEW n \in 0 .. Len(s.lru), NEW m \in n .. Len(s.lru),
         RestFits(s, n)
  PROVE  RestFits(s, m)
<1> DEFINE A == Rest(s.lru, n)
           B == Rest(s.lru, m)
<1>0. m \in 0 .. Len(s.lru) /\ Len(s.lru) \in Nat
  BY DEF Consistent, ListInv
<1>1. B \subseteq A
  BY <1>0 DEF Rest
<1>2. A \subseteq DOMAIN s.groups
  BY FrontIs
<1> HIDE DEF A, B
<1>3. IsFiniteSet(DOMAIN s.groups) /\ Sized(s.groups, DOMAIN s.groups)
  BY DEF Consistent, ListInv, BytesInv
<1>4. IsFiniteSet(A) /\ IsFiniteSet(B) /\ IsFiniteSet(A \ B)
  BY <1>1, <1>2, <1>3, FS_Subset
<1>5. Sized(s.groups, A) /\ Sized(s.groups, B) /\ Sized(s.groups, A \ B)
  BY <1>1, <1>2, <1>3 DEF Sized
<1>6. Replay!Size(s.groups, A) = Replay!Size(s.groups, B) + Replay!Size(s.groups, A \ B)
  BY <1>1, <1>4, <1>5, SizeSplits
<1>7. /\ Replay!Size(s.groups, A) \in Nat /\ Replay!Size(s.groups, B) \in Nat
      /\ Replay!Size(s.groups, A \ B) \in Nat
  BY <1>4, <1>5, SizeIsNat
<1>8. /\ Cardinality(B) <= Cardinality(A) /\ Cardinality(A) \in Nat /\ Cardinality(B) \in Nat
  BY <1>1, <1>4, FS_Subset, FS_CardinalityType
<1>9. Cardinality(A) <= MaxGroups /\ Replay!Size(s.groups, A) <= MaxTotalBytes
  BY DEF RestFits, A
<1>10. Cardinality(B) <= MaxGroups /\ Replay!Size(s.groups, B) <= MaxTotalBytes
  BY <1>6, <1>7, <1>8, <1>9, ReplayAssumption
<1> QED BY <1>10 DEF RestFits, B

LEMMA EnforcedIs ==
  ASSUME NEW s, Consistent(s)
  PROVE  \E n \in 0 .. Len(s.lru) :
           /\ Replay!EnforceLimits(s) = Replay!WithoutFront(s, n)
           /\ n = Len(s.lru) \/ RestFits(s, n)
           /\ \A m \in 0 .. Len(s.lru) : RestFits(s, m) => n <= m
<1> DEFINE S == {n \in 0 .. Len(s.lru) : Replay!WithinLimits(Replay!WithoutFront(s,
  n)) \/ n = Len(s.lru)}
           n == Min(S)
<1>1. Len(s.lru) \in Nat
  BY DEF Consistent, ListInv
<1>2. S \in SUBSET Nat /\ Len(s.lru) \in S
  BY <1>1
<1>3. n \in S /\ \A y \in S : n <= y
  BY <1>2, MinIs
<1>4. Replay!EnforceLimits(s) = Replay!WithoutFront(s, n)
  BY SameOperators DEF Replay!EnforceLimits
<1> HIDE DEF n
<1>5. n \in 0 .. Len(s.lru) /\ (n = Len(s.lru) \/ RestFits(s, n))
  BY <1>3, LimitsAre
<1>6. \A m \in 0 .. Len(s.lru) : RestFits(s, m) => m \in S
  BY LimitsAre
<1> HIDE DEF S
<1> QED BY <1>3, <1>4, <1>5, <1>6

\* A group that is added and the groups that go for it.
FitsWith(s, n, size) ==
  /\ Cardinality(Rest(s.lru, n)) + 1 <= MaxGroups
  /\ Replay!Size(s.groups, Rest(s.lru, n)) + size <= MaxTotalBytes

LEMMA AddedFits ==
  ASSUME NEW k, Consistent(k), NEW id \in Nat \ DOMAIN k.groups, NEW group,
         group.size \in 0 .. MaxTotalBytes, group.calls \cap DOMAIN k.index = {},
         NEW n \in 0 .. Len(k.lru)
  PROVE  /\ RestFits(Replay!Inserted(k, id, group), n) <=> FitsWith(k, n, group.size)
         /\ Rest(Replay!Inserted(k, id, group).lru, n) = Rest(k.lru, n) \cup {id}
<1> DEFINE s == Replay!Inserted(k, id, group)
           R == Rest(k.lru, n)
<1>1. group.size \in Nat
  BY ReplayAssumption
<1>2. /\ Consistent(s) /\ DOMAIN s.groups = DOMAIN k.groups \cup {id} /\ s.groups[id] = group
      /\ \A g \in DOMAIN k.groups : s.groups[g] = k.groups[g]
      /\ s.lru = Append(k.lru, id)
  BY <1>1, InsertedIs
<1>3. k.lru \in Seq(Nat) /\ Len(k.lru) \in Nat
  BY DEF Consistent, ListInv
<1> HIDE DEF s
<1>4. R \subseteq DOMAIN k.groups
  BY FrontIs
<1>5. Rest(s.lru, n) = R \cup {id}
  <2>1. /\ Len(s.lru) = Len(k.lru) + 1 /\ s.lru[Len(k.lru) + 1] = id
        /\ \A i \in n + 1 .. Len(k.lru) : s.lru[i] = k.lru[i]
    BY <1>2, <1>3
  <2>2. \A i : i \in n + 1 .. Len(s.lru) <=> (i \in n + 1 .. Len(k.lru) \/ i = Len(k.lru) + 1)
    BY <1>3, <2>1
  <2> QED BY <2>1, <2>2 DEF Rest
<1> HIDE DEF R
<1>6. /\ IsFiniteSet(R) /\ IsFiniteSet(R \cup {id}) /\ id \notin R /\ Cardinality(R) \in Nat
      /\ Cardinality(R \cup {id}) = Cardinality(R) + 1
  <2>1. IsFiniteSet(DOMAIN k.groups)
    BY DEF Consistent, ListInv
  <2>2. IsFiniteSet(R) /\ id \notin R
    BY <1>4, <2>1, FS_Subset
  <2> QED BY <2>2, FS_AddElement, FS_CardinalityType
<1>7. Replay!Size(s.groups, R \cup {id}) = Replay!Size(k.groups, R) + group.size
  <2>1. Sized(s.groups, R \cup {id}) /\ Sized(s.groups, R) /\ Sized(k.groups, R)
    <3>1. Sized(s.groups, DOMAIN s.groups)
      BY <1>2 DEF Consistent, BytesInv
    <3> QED BY <1>2, <1>4, <3>1 DEF Sized
  <2>2. (R \cup {id}) \ {id} = R
    BY <1>6
  <2>3. Replay!Size(s.groups, R \cup {id}) = s.groups[id].size + Replay!Size(s.groups, R)
    BY <1>6, <2>1, <2>2, SizeWithout
  <2>4. Replay!Size(s.groups, R) = Replay!Size(k.groups, R)
    BY <1>2, <1>4, <1>6, SameSize
  <2>5. Replay!Size(k.groups, R) \in Nat
    BY <1>6, <2>1, SizeIsNat
  <2> QED BY <1>1, <1>2, <2>3, <2>4, <2>5
<1> QED BY <1>5, <1>6, <1>7 DEF RestFits, FitsWith, s, R

\* What fits with the new group after n elements fits with it after more.
LEMMA MoreFitsWith ==
  ASSUME NEW k, Consistent(k), NEW id \in Nat \ DOMAIN k.groups, NEW group,
         group.size \in 0 .. MaxTotalBytes, group.calls \cap DOMAIN k.index = {},
         NEW n \in 0 .. Len(k.lru), NEW m \in n .. Len(k.lru), FitsWith(k, n, group.size)
  PROVE  FitsWith(k, m, group.size)
<1> DEFINE s == Replay!Inserted(k, id, group)
<1>1. group.size \in Nat
  BY ReplayAssumption
<1>2. Consistent(s) /\ s.lru = Append(k.lru, id)
  BY <1>1, InsertedIs
<1>3. k.lru \in Seq(Nat) /\ Len(k.lru) \in Nat
  BY DEF Consistent, ListInv
<1>4. Len(s.lru) = Len(k.lru) + 1
  BY <1>2, <1>3
<1>5. n \in 0 .. Len(s.lru) /\ m \in n .. Len(s.lru) /\ m \in 0 .. Len(k.lru)
  BY <1>3, <1>4
<1>6. RestFits(s, n)
  BY AddedFits
<1>7. RestFits(s, m)
  BY <1>2, <1>5, <1>6, MoreFits
<1> QED BY <1>5, <1>7, AddedFits

\* A group that is published: what stays, and why.
Published(k, id, group) == Replay!EnforceLimits(Replay!Inserted(k, id, group))

LEMMA PublishedIs ==
  ASSUME NEW k, Consistent(k), NEW id \in Nat \ DOMAIN k.groups, NEW group,
         group.size \in 0 .. MaxTotalBytes, group.calls \cap DOMAIN k.index = {}
  PROVE  LET e == Published(k, id, group)
         IN  /\ Consistent(e)
             /\ id \in DOMAIN e.groups /\ e.groups[id] = group
             /\ \A g \in DOMAIN e.groups \ {id} :
                  g \in DOMAIN k.groups /\ e.groups[g] = k.groups[g]
             /\ e.lru = Kept(Append(k.lru, id), DOMAIN e.groups)
             /\ \A j \in 1 .. Len(k.lru) :
                  k.lru[j] \in DOMAIN e.groups <=> FitsWith(k, j - 1, group.size)
<1> DEFINE s == Replay!Inserted(k, id, group)
           e == Published(k, id, group)
<1>1. group.size \in Nat
  BY ReplayAssumption
<1>2. /\ Consistent(s) /\ DOMAIN s.groups = DOMAIN k.groups \cup {id} /\ s.groups[id] = group
      /\ \A g \in DOMAIN k.groups : s.groups[g] = k.groups[g]
      /\ s.lru = Append(k.lru, id)
  BY <1>1, InsertedIs
<1>3. /\ k.lru \in Seq(Nat) /\ Len(k.lru) \in Nat /\ Once(k.lru)
      /\ DOMAIN k.groups = Range(k.lru) /\ DOMAIN k.lru = 1 .. Len(k.lru)
  BY DEF Consistent, ListInv
<1>4. Len(s.lru) = Len(k.lru) + 1
  BY <1>2, <1>3
<1>5. \A m \in 0 .. Len(k.lru) : /\ RestFits(s, m) <=> FitsWith(k, m, group.size)
                                 /\ Rest(s.lru, m) = Rest(k.lru, m) \cup {id}
  BY AddedFits, ZenonT(60)
<1>6. FitsWith(k, Len(k.lru), group.size)
  <2>1. Rest(k.lru, Len(k.lru)) = {}
    BY <1>3 DEF Rest
  <2>2. Replay!Size(k.groups, {}) = 0 /\ Cardinality({}) = 0
    BY SizeIs, FS_EmptySet
  <2> QED BY <1>1, <2>1, <2>2, ReplayAssumption DEF FitsWith
<1>7. PICK n \in 0 .. Len(s.lru) :
           /\ Replay!EnforceLimits(s) = Replay!WithoutFront(s, n)
           /\ n = Len(s.lru) \/ RestFits(s, n)
           /\ \A m \in 0 .. Len(s.lru) : RestFits(s, m) => n <= m
  BY <1>2, EnforcedIs
<1>8. e = Replay!WithoutFront(s, n)
  BY <1>7 DEF Published
<1> HIDE DEF s, e
<1>9. /\ Consistent(e) /\ DOMAIN e.groups = Rest(s.lru, n)
      /\ Rest(s.lru, n) \subseteq DOMAIN s.groups
      /\ \A g \in Rest(s.lru, n) : e.groups[g] = s.groups[g]
      /\ e.lru = Kept(s.lru, Rest(s.lru, n))
  <2> DEFINE w == Replay!WithoutFront(s, n)
  <2>1. /\ Consistent(w) /\ DOMAIN w.groups = Rest(s.lru, n)
        /\ Rest(s.lru, n) \subseteq DOMAIN s.groups
        /\ \A g \in Rest(s.lru, n) : w.groups[g] = s.groups[g]
        /\ w.lru = Kept(s.lru, Rest(s.lru, n))
    BY <1>2, FrontIs, ZenonT(60)
  <2>2. w = e
    BY <1>8
  <2> HIDE DEF w
  <2> QED BY <2>1, <2>2
<1>10. n \in 0 .. Len(k.lru) /\ FitsWith(k, n, group.size)
  <2>1. Len(k.lru) \in 0 .. Len(k.lru) /\ Len(k.lru) \in 0 .. Len(s.lru)
    BY <1>3, <1>4
  <2>2. n <= Len(k.lru)
    BY <1>5, <1>6, <1>7, <2>1
  <2>3. n \in 0 .. Len(k.lru) /\ n # Len(s.lru)
    BY <1>3, <1>4, <2>2
  <2> QED BY <1>5, <1>7, <2>3
<1>11. DOMAIN e.groups = Rest(k.lru, n) \cup {id}
  BY <1>5, <1>9, <1>10
<1>12. \A m \in 0 .. Len(k.lru) : FitsWith(k, m, group.size) => n <= m
  BY <1>3, <1>4, <1>5, <1>7, SMTT(60)
<1>13. ASSUME NEW j \in 1 .. Len(k.lru)
       PROVE  k.lru[j] \in DOMAIN e.groups <=> FitsWith(k, j - 1, group.size)
  <2>0. j - 1 \in 0 .. Len(k.lru) /\ k.lru[j] # id
    BY <1>3, SMTT(60) DEF Range
  <2>1. ASSUME k.lru[j] \in DOMAIN e.groups PROVE FitsWith(k, j - 1, group.size)
    <3>1. PICK i \in n + 1 .. Len(k.lru) : k.lru[i] = k.lru[j]
      BY <1>11, <2>0, <2>1, SMTT(60) DEF Rest
    <3>2. i \in 1 .. Len(k.lru)
      BY <1>3, <1>10
    <3>3. i = j
      BY <1>3, <3>1, <3>2 DEF Once
    <3>4. j - 1 \in n .. Len(k.lru)
      BY <1>3, <1>10, <3>3, SMTT(60)
    <3> QED BY <1>10, <3>4, MoreFitsWith, SMTT(60)
  <2>2. ASSUME FitsWith(k, j - 1, group.size) PROVE k.lru[j] \in DOMAIN e.groups
    <3>1. n <= j - 1
      BY <1>12, <2>0, <2>2
    <3>2. j \in n + 1 .. Len(k.lru)
      BY <1>3, <1>10, <3>1
    <3>3. k.lru[j] \in Rest(k.lru, n)
      BY <3>2 DEF Rest
    <3> QED BY <1>11, <3>3
  <2> QED BY <2>1, <2>2
<1>14. e.lru = Kept(Append(k.lru, id), DOMAIN e.groups)
  BY <1>2, <1>9
<1>15. ASSUME NEW g \in DOMAIN e.groups \ {id}
       PROVE  g \in DOMAIN k.groups /\ e.groups[g] = k.groups[g]
  BY <1>2, <1>9, <1>11, <1>15
<1>16. id \in DOMAIN e.groups /\ e.groups[id] = group
  BY <1>2, <1>9, <1>11
<1> QED BY <1>9, <1>13, <1>14, <1>15, <1>16 DEF e

LEMMA KeptTypes ==
  ASSUME NEW s, Consistent(s)
  PROVE  s.lru \in Seq(Nat) /\ DOMAIN s.groups \subseteq Nat
<1>1. s.lru \in Seq(Nat) /\ Range(s.lru) = DOMAIN s.groups
  BY DEF Consistent, ListInv
<1> QED BY <1>1 DEF Range

WholeStore(s) == DOMAIN s = {"groups", "index", "lru", "bytes"}

\* What a lookup leaves.
LEMMA TouchedIs ==
  ASSUME NEW s, Consistent(s), WholeStore(s), NEW id \in DOMAIN s.groups
  PROVE  LET r == Replay!Touched(s, id)
         IN  /\ Consistent(r) /\ r.groups = s.groups
             /\ r.lru = Append(Kept(s.lru, DOMAIN s.groups \ {id}), id)
<1> DEFINE r == Replay!Touched(s, id)
           D == DOMAIN s.groups
           l == Kept(s.lru, D \ {id})
<1>1. Replay!Dropped(s.lru, {id}) = l
  BY DroppedIs DEF Consistent
<1>2. /\ r.groups = s.groups /\ r.index = s.index /\ r.bytes = s.bytes
      /\ r.lru = Append(l, id)
  BY <1>1 DEF Replay!Touched, WholeStore
<1>3. s.lru \in Seq(Nat) /\ Once(s.lru) /\ Range(s.lru) = D /\ IsFiniteSet(D)
  BY DEF Consistent, ListInv
<1>4. l \in Seq(Nat) /\ Once(l) /\ Range(l) = D \cap (D \ {id})
  BY <1>3, KeptOnce
<1>5. id \in Nat /\ id \notin Range(l)
  BY <1>4, KeptTypes
<1> HIDE DEF r, l
<1>6. r.lru \in Seq(Nat) /\ Once(r.lru) /\ Range(r.lru) = D
  <2>1. r.lru \in Seq(Nat) /\ Once(r.lru) /\ Range(r.lru) = Range(l) \cup {id}
    BY <1>2, <1>4, <1>5, OnceAppend
  <2> QED BY <1>4, <2>1
<1>7. ListInv(r)
  BY <1>2, <1>3, <1>6 DEF ListInv
<1>8. IndexInv(r)
  BY <1>2 DEF Consistent, IndexInv
<1>9. BytesInv(r)
  BY <1>2 DEF Consistent, BytesInv
<1> QED BY <1>2, <1>7, <1>8, <1>9 DEF Consistent, r, l

-----------------------------------------------------------------------------
(* The invariant of the store.                                             *)

ReplayInv ==
  /\ Consistent(Replay!Store)
  /\ used = lru
  /\ nextGroupID \in Nat /\ DOMAIN groups \subseteq 1 .. nextGroupID
  /\ now \in Nat
  /\ \A g \in DOMAIN groups : groups[g].expiresAt \in Nat

LEMMA StoreIs ==
  /\ Replay!Store.groups = groups /\ Replay!Store.index = callsByID /\ Replay!Store.lru = lru
  /\ Replay!Store.bytes = totalBytes
  BY DEF Replay!Store

LEMMA BecomesIs ==
  ASSUME NEW e, Consistent(e), Replay!Becomes(e)
  PROVE  Consistent(Replay!Store)' /\ groups' = e.groups /\ lru' = e.lru
<1>1. /\ Replay!Store'.groups = e.groups /\ Replay!Store'.index = e.index
      /\ Replay!Store'.lru = e.lru
      /\ Replay!Store'.bytes = e.bytes
  BY DEF Replay!Store, Replay!Becomes
<1>2. groups' = e.groups /\ lru' = e.lru
  BY DEF Replay!Becomes
<1> HIDE DEF Replay!Store
<1>3. Consistent(Replay!Store')
  BY <1>1 DEF Consistent, IndexInv, ListInv, BytesInv
<1>4. Consistent(Replay!Store)' <=> Consistent(Replay!Store')
  BY DEF Consistent, IndexInv, ListInv, BytesInv
<1> QED BY <1>2, <1>3, <1>4

\* What the expiry leaves.
LEMMA ExpiredIs ==
  ASSUME ReplayInv
  PROVE  LET k == Replay!Expire(Replay!Store)
         IN  /\ Consistent(k) /\ WholeStore(k)
             /\ DOMAIN k.groups = {g \in DOMAIN groups : now < groups[g].expiresAt}
             /\ \A g \in DOMAIN k.groups : k.groups[g] = groups[g]
             /\ k.lru = Kept(lru, DOMAIN k.groups)
<1> DEFINE s == Replay!Store
           gone == {g \in DOMAIN s.groups : now >= s.groups[g].expiresAt}
           left == DOMAIN s.groups \ gone
           r == Replay!RemoveGroups(s, gone)
<1>1. Consistent(s) /\ s.groups = groups /\ s.lru = lru
  BY StoreIs DEF ReplayInv
<1>2. Replay!Expire(Replay!Store) = r
  BY DEF Replay!Expire
<1>3. left = {g \in DOMAIN groups : now < groups[g].expiresAt}
  <2>1. \A g \in DOMAIN groups : now >= groups[g].expiresAt <=> ~(now < groups[g].expiresAt)
    BY DEF ReplayInv
  <2> HIDE DEF s
  <2> QED BY <1>1, <2>1
<1>4. gone \subseteq DOMAIN s.groups
  OBVIOUS
<1> HIDE DEF s, gone
<1>5. /\ Consistent(r) /\ DOMAIN r.groups = left
      /\ \A g \in left : r.groups[g] = s.groups[g]
      /\ r.lru = Kept(s.lru, left)
  BY <1>1, <1>4, RemovedIs
<1>6. WholeStore(r)
  BY DEF Replay!RemoveGroups, WholeStore
<1> HIDE DEF r, left
<1> QED BY <1>1, <1>2, <1>3, <1>5, <1>6

\* A list of which a part is kept, and of that a part that leaves x out.
LEMMA KeptThenAppended ==
  ASSUME NEW X, NEW l \in Seq(X), NEW D, NEW E, NEW x \in X, x \in E, E \ {x} \subseteq D,
         x \notin D
  PROVE  Kept(Append(Kept(l, D), x), E) = Append(Kept(l, E \ {x}), x)
<1> DEFINE q == Kept(l, D)
<1>1. q \in Seq(X)
  BY KeptPicks
<1> HIDE DEF q
<1>2. Kept(Append(q, x), E) = Append(Kept(q, E), x)
  <2>1. Kept(Append(q, x), E) = IF x \in E THEN Append(Kept(q, E), x) ELSE Kept(q, E)
    BY <1>1, KeptAppend
  <2> QED BY <2>1
<1>3. Kept(q, E) = Kept(l, D \cap E)
  BY KeptTwice DEF q
<1>4. D \cap E = E \ {x}
  OBVIOUS
<1> QED BY <1>2, <1>3, <1>4 DEF q

LEMMA PublishKeeps ==
  ASSUME ReplayInv, NEW route, NEW size \in Sizes, NEW calls,
         Replay!Publish(route, size, calls)
  PROVE  ReplayInv'
<1> DEFINE k == Replay!Expire(Replay!Store)
           id == nextGroupID + 1
           group == [route |-> route, size |-> size, calls |-> calls,
             expiresAt |-> now + ReplayTTL]
           e == Published(k, id, group)
<1>1. /\ Consistent(k)
      /\ DOMAIN k.groups \subseteq DOMAIN groups
      /\ \A g \in DOMAIN k.groups : k.groups[g] = groups[g]
      /\ k.lru = Kept(lru, DOMAIN k.groups)
  BY ExpiredIs
<1>2. /\ calls \cap DOMAIN k.index = {} /\ nextGroupID' = id /\ Replay!Becomes(e)
      /\ Replay!Used(id) /\ now' = now
  BY DEF Replay!Publish, Published
<1>3. /\ id \in Nat /\ nextGroupID \in Nat /\ id \notin DOMAIN k.groups
      /\ DOMAIN groups \subseteq 1 .. nextGroupID
  BY <1>1 DEF ReplayInv
<1>4. /\ group.size \in 0 .. MaxTotalBytes /\ group.calls = calls
      /\ group.expiresAt = now + ReplayTTL
  BY ReplayAssumption
<1>5. lru \in Seq(Nat)
  BY StoreIs, KeptTypes DEF ReplayInv
<1> HIDE DEF k, id, group
<1>6. /\ Consistent(e)
      /\ id \in DOMAIN e.groups /\ e.groups[id] = group
      /\ \A g \in DOMAIN e.groups \ {id} : g \in DOMAIN k.groups /\ e.groups[g] = k.groups[g]
      /\ e.lru = Kept(Append(k.lru, id), DOMAIN e.groups)
  BY <1>1, <1>2, <1>3, <1>4, PublishedIs
<1> HIDE DEF e
<1>7. Consistent(Replay!Store)' /\ groups' = e.groups /\ lru' = e.lru
  BY <1>2, <1>6, BecomesIs
<1>8. e.lru = Append(Kept(lru, DOMAIN e.groups \ {id}), id)
  <2> DEFINE D == DOMAIN k.groups
             E == DOMAIN e.groups
  <2>1. id \in E /\ E \ {id} \subseteq D /\ id \notin D
    BY <1>3, <1>6
  <2>2. e.lru = Kept(Append(Kept(lru, D), id), E)
    BY <1>1, <1>6
  <2> HIDE DEF D, E
  <2>3. Kept(Append(Kept(lru, D), id), E) = Append(Kept(lru, E \ {id}), id)
    <3>1. id \in Nat /\ lru \in Seq(Nat)
      BY <1>3, <1>5
    <3>2. \A X : lru \in Seq(X) /\ id \in X
                => Kept(Append(Kept(lru, D), id), E) = Append(Kept(lru, E \ {id}), id)
      BY <2>1, KeptThenAppended, SMTT(60)
    <3> QED BY <3>1, <3>2
  <2> QED BY <2>2, <2>3 DEF E
<1>9. used' = lru'
  BY <1>2, <1>7, <1>8, SameOperators DEF ReplayInv, Replay!Used
<1>10. nextGroupID' \in Nat /\ DOMAIN groups' \subseteq 1 .. nextGroupID'
  <2>1. \A g \in DOMAIN e.groups : g = id \/ g \in 1 .. nextGroupID
    BY <1>1, <1>3, <1>6
  <2> QED BY <1>2, <1>3, <1>7, <2>1 DEF id
<1>11. now' \in Nat
  BY <1>2 DEF ReplayInv
<1>12. \A g \in DOMAIN groups' : groups'[g].expiresAt \in Nat
  <2>1. now + ReplayTTL \in Nat
    BY ReplayAssumption DEF ReplayInv
  <2>2. \A g \in DOMAIN k.groups : k.groups[g].expiresAt \in Nat
    BY <1>1 DEF ReplayInv
  <2> QED BY <1>4, <1>6, <1>7, <2>1, <2>2
<1> QED BY <1>7, <1>9, <1>10, <1>11, <1>12 DEF ReplayInv

\* Steps that leave no more than the expiry did.
LEMMA NoMoreKeeps ==
  ASSUME ReplayInv, NEW e, Consistent(e), Replay!Becomes(e), used' = e.lru,
         e.groups = Replay!Expire(Replay!Store).groups, nextGroupID' = nextGroupID, now' = now
  PROVE  ReplayInv'
<1>1. Consistent(Replay!Store)' /\ groups' = e.groups /\ lru' = e.lru
  BY BecomesIs
<1>2. /\ DOMAIN e.groups \subseteq DOMAIN groups
      /\ \A g \in DOMAIN e.groups : e.groups[g] = groups[g]
  BY ExpiredIs
<1> QED BY <1>1, <1>2 DEF ReplayInv

LEMMA PublishFailsKeeps == ASSUME ReplayInv, Replay!PublishFails PROVE ReplayInv'
<1> DEFINE k == Replay!Expire(Replay!Store)
<1>1. Consistent(k) /\ k.lru = Kept(lru, DOMAIN k.groups)
  BY ExpiredIs
<1>2. /\ Replay!Becomes(k) /\ used' = Kept(lru, DOMAIN groups')
      /\ nextGroupID' = nextGroupID /\ now' = now
  BY SameOperators DEF Replay!PublishFails, Replay!NothingUsed, ReplayInv
<1>3. groups' = k.groups
  BY <1>2 DEF Replay!Becomes
<1> QED BY <1>1, <1>2, <1>3, NoMoreKeeps

LEMMA LookupKeeps ==
  ASSUME ReplayInv, NEW route, NEW calls, Replay!Resolve(route, calls)
  PROVE  ReplayInv'
<1> DEFINE k == Replay!Expire(Replay!Store)
<1>1. Consistent(k) /\ WholeStore(k) /\ k.lru = Kept(lru, DOMAIN k.groups)
  BY ExpiredIs
<1>2. nextGroupID' = nextGroupID /\ now' = now /\ used = lru
  BY DEF Replay!Resolve, ReplayInv
<1>3. lru \in Seq(Nat)
  BY StoreIs, KeptTypes DEF ReplayInv
<1>4. CASE Replay!Becomes(k) /\ Replay!NothingUsed
  <2>1. groups' = k.groups /\ used' = k.lru
    BY <1>1, <1>2, <1>4, SameOperators DEF Replay!Becomes, Replay!NothingUsed
  <2> QED BY <1>1, <1>2, <1>4, <2>1, NoMoreKeeps
<1>5. ASSUME NEW id \in DOMAIN k.groups, Replay!Becomes(Replay!Touched(k, id)),
             Replay!Used(id)
      PROVE  ReplayInv'
  <2> DEFINE t == Replay!Touched(k, id)
  <2> HIDE DEF k
  <2>1. /\ Consistent(t) /\ t.groups = k.groups
        /\ t.lru = Append(Kept(k.lru, DOMAIN k.groups \ {id}), id)
    BY <1>1, <1>5, TouchedIs
  <2>2. Replay!Becomes(t)
    BY <1>5
  <2> HIDE DEF t
  <2>3. groups' = k.groups
    BY <2>1, <2>2 DEF Replay!Becomes
  <2>4. Kept(k.lru, DOMAIN k.groups \ {id}) = Kept(lru, DOMAIN k.groups \ {id})
    <3>1. Kept(k.lru, DOMAIN k.groups \ {id})
            = Kept(lru, DOMAIN k.groups \cap (DOMAIN k.groups \ {id}))
      BY <1>1, <1>3, KeptTwice
    <3>2. DOMAIN k.groups \cap (DOMAIN k.groups \ {id}) = DOMAIN k.groups \ {id}
      OBVIOUS
    <3> QED BY <3>1, <3>2
  <2>5. used' = t.lru
    BY <1>2, <1>5, <2>1, <2>3, <2>4, SameOperators DEF Replay!Used
  <2>6. t.groups = Replay!Expire(Replay!Store).groups
    BY <2>1 DEF k
  <2> QED BY <1>2, <2>1, <2>2, <2>5, <2>6, NoMoreKeeps
<1> QED BY <1>4, <1>5 DEF Replay!Resolve

\* The empty store.
LEMMA EmptyIs ==
  ASSUME NEW s, s.groups = Replay!Empty, s.index = Replay!Empty, s.lru = <<>>, s.bytes = 0
  PROVE  Consistent(s)
<1>1. DOMAIN s.groups = {} /\ DOMAIN s.index = {}
  BY DEF Replay!Empty
<1>2. Replay!Size(s.groups, {}) = 0
  BY FS_EmptySet, SizeIs
<1>3. ListInv(s)
  <2>1. <<>> \in Seq(Nat) /\ Len(<<>>) = 0 /\ DOMAIN <<>> = {}
    OBVIOUS
  <2>2. Once(<<>>) /\ Range(<<>>) = {}
    BY <2>1 DEF Once, Range
  <2> QED BY <1>1, <2>1, <2>2, FS_EmptySet DEF ListInv
<1>4. IndexInv(s)
  BY <1>1 DEF IndexInv
<1>5. BytesInv(s)
  BY <1>1, <1>2 DEF BytesInv, Sized
<1> QED BY <1>3, <1>4, <1>5 DEF Consistent

LEMMA CloseKeeps == ASSUME ReplayInv, Replay!Close PROVE ReplayInv'
<1>1. /\ groups' = Replay!Empty /\ callsByID' = Replay!Empty /\ lru' = <<>> /\ totalBytes' = 0
      /\ used' = <<>> /\ nextGroupID' = nextGroupID /\ now' = now
  BY DEF Replay!Close
<1> DEFINE s == [groups |-> Replay!Empty, index |-> Replay!Empty, lru |-> <<>>, bytes |-> 0]
<1>2. s.groups = Replay!Empty /\ s.index = Replay!Empty /\ s.lru = <<>> /\ s.bytes = 0
  OBVIOUS
<1> HIDE DEF s
<1>3. Consistent(s) /\ Replay!Becomes(s)
  BY <1>1, <1>2, EmptyIs DEF Replay!Becomes
<1>4. Consistent(Replay!Store)'
  BY <1>3, BecomesIs
<1>5. DOMAIN groups' = {}
  BY <1>1 DEF Replay!Empty
<1> QED BY <1>1, <1>4, <1>5 DEF ReplayInv

LEMMA ClockKeeps == ASSUME ReplayInv, Replay!Tick PROVE ReplayInv'
<1>1. /\ Replay!Becomes(Replay!Store) /\ now' = now + 1 /\ nextGroupID' = nextGroupID
      /\ used' = used
  BY StoreIs DEF Replay!Tick, Replay!storeVars, Replay!Becomes
<1>2. Consistent(Replay!Store)' /\ groups' = groups /\ lru' = lru
  BY <1>1, BecomesIs, StoreIs DEF ReplayInv
<1> QED BY <1>1, <1>2 DEF ReplayInv

LEMMA UnusedKeeps == ASSUME ReplayInv, UNCHANGED Replay!vars PROVE ReplayInv'
<1>1. /\ Replay!Becomes(Replay!Store) /\ now' = now /\ nextGroupID' = nextGroupID
      /\ used' = used
  BY StoreIs DEF Replay!vars, Replay!Becomes
<1>2. Consistent(Replay!Store)' /\ groups' = groups /\ lru' = lru
  BY <1>1, BecomesIs, StoreIs DEF ReplayInv
<1> QED BY <1>1, <1>2 DEF ReplayInv

THEOREM ReplayInvariant == Replay!Spec => []ReplayInv
<1>1. Replay!Init => ReplayInv
  <2> SUFFICES ASSUME Replay!Init PROVE ReplayInv
    OBVIOUS
  <2>1. Consistent(Replay!Store)
    BY StoreIs, EmptyIs DEF Replay!Init
  <2>2. DOMAIN groups = {}
    BY DEF Replay!Init, Replay!Empty
  <2> QED BY <2>1, <2>2 DEF Replay!Init, ReplayInv
<1>2. ReplayInv /\ [Replay!Next]_(Replay!vars) => ReplayInv'
  <2> SUFFICES ASSUME ReplayInv, [Replay!Next]_(Replay!vars) PROVE ReplayInv'
    OBVIOUS
  <2>1. ASSUME NEW route, NEW size \in Sizes, NEW calls, Replay!Publish(route, size, calls)
        PROVE  ReplayInv'
    BY <2>1, PublishKeeps
  <2>2. CASE Replay!PublishFails
    BY <2>2, PublishFailsKeeps
  <2>3. ASSUME NEW route, NEW calls, Replay!Resolve(route, calls) PROVE ReplayInv'
    BY <2>3, LookupKeeps
  <2>4. CASE Replay!Close
    BY <2>4, CloseKeeps
  <2>5. CASE Replay!Tick
    BY <2>5, ClockKeeps
  <2>6. CASE UNCHANGED Replay!vars
    BY <2>6, UnusedKeeps
  <2> QED BY <2>1, <2>2, <2>3, <2>4, <2>5, <2>6 DEF Replay!Next
<1> QED BY <1>1, <1>2, PTL DEF Replay!Spec

LEMMA ReplayAlone == InProcessSpec => Replay!Spec
<1>1. InProcessInit => Replay!Init
  BY DEF InProcessInit
<1>2. [InProcessNext]_allVars => [Replay!Next]_(Replay!vars)
  BY DEF InProcessNext, allVars, replayVars, Replay!vars
<1> QED BY <1>1, <1>2, PTL DEF InProcessSpec, Replay!Spec

\* The four parts tell the same.
THEOREM StoreAlwaysConsistent == InProcessSpec => []StoreConsistent
<1>1. ReplayInv => StoreConsistent
  <2> SUFFICES ASSUME ReplayInv PROVE StoreConsistent
    OBVIOUS
  <2>1. IndexInv(Replay!Store) /\ ListInv(Replay!Store) /\ BytesInv(Replay!Store)
    BY DEF ReplayInv, Consistent
  <2>2. lru \in Seq(Nat) /\ Once(lru) /\ Range(lru) = DOMAIN groups
    BY <2>1, StoreIs DEF ListInv
  <2>3. Len(lru) = Cardinality(DOMAIN groups)
    BY <2>2, OnceCounts
  <2>4. totalBytes = Replay!Size(groups, DOMAIN groups)
    BY <2>1, StoreIs DEF BytesInv
  <2>5. /\ \A g \in DOMAIN groups : \A c \in groups[g].calls :
             c \in DOMAIN callsByID /\ callsByID[c] = g
        /\ \A c \in DOMAIN callsByID :
             callsByID[c] \in DOMAIN groups /\ c \in groups[callsByID[c]].calls
    BY <2>1, StoreIs DEF IndexInv
  <2>6. DOMAIN callsByID = UNION {groups[g].calls : g \in DOMAIN groups}
    BY <2>5
  <2> QED BY <2>2, <2>3, <2>4, <2>5, <2>6, SameOperators DEF StoreConsistent, Replay!StoreConsistent
<1> QED BY <1>1, ReplayAlone, ReplayInvariant, PTL

\* The groups used since the one at place j of what is kept.
LEMMA SinceIs ==
  ASSUME NEW X, NEW l \in Seq(X), Once(l), NEW live, NEW r, r = Kept(l, live),
         NEW j \in 1 .. Len(r)
  PROVE  {h \in live : \E a, b \in 1 .. Len(l) : l[a] = r[j] /\ l[b] = h /\ a <= b}
           = Rest(r, j - 1)
<1> DEFINE U == {h \in live : \E a, b \in 1 .. Len(l) : l[a] = r[j] /\ l[b] = h /\ a <= b}
<1>1. r \in Seq(X) /\ \E p : Picks(l, live, r, p, Len(l))
  BY KeptPicks
<1>2. PICK p : Picks(l, live, r, p, Len(l))
  BY <1>1
<1>3. Len(r) \in Nat /\ Len(l) \in Nat /\ j \in 1 .. Len(r)
  BY <1>1
<1>4. /\ \A i \in 1 .. Len(r) : p[i] \in 1 .. Len(l) /\ r[i] = l[p[i]] /\ r[i] \in live
      /\ \A i, m \in 1 .. Len(r) : i < m => p[i] < p[m]
      /\ \A m \in 1 .. Len(l) : l[m] \in live => \E i \in 1 .. Len(r) : p[i] = m
  BY <1>2 DEF Picks
<1>5. ASSUME NEW h \in U PROVE h \in Rest(r, j - 1)
  <2>1. PICK a \in 1 .. Len(l), b \in 1 .. Len(l) : l[a] = r[j] /\ l[b] = h /\ a <= b
    BY <1>5
  <2>2. a = p[j]
    <3>1. p[j] \in 1 .. Len(l) /\ r[j] = l[p[j]]
      BY <1>3, <1>4
    <3> QED BY <2>1, <3>1 DEF Once
  <2>3. PICK i \in 1 .. Len(r) : p[i] = b
    BY <1>4, <1>5, <2>1
  <2>4. ~(i < j)
    <3>1. i < j => p[i] < p[j]
      BY <1>3, <1>4
    <3>2. p[i] \in Nat /\ p[j] \in Nat
      BY <1>3, <1>4, SMTT(60)
    <3> QED BY <2>1, <2>2, <2>3, <3>1, <3>2
  <2>5. i \in (j - 1) + 1 .. Len(r) /\ r[i] = h
    BY <1>3, <1>4, <2>1, <2>3, <2>4, SMTT(60)
  <2> QED BY <2>5 DEF Rest
<1>6. ASSUME NEW h \in Rest(r, j - 1) PROVE h \in U
  <2>1. PICK i \in (j - 1) + 1 .. Len(r) : r[i] = h
    BY <1>6 DEF Rest
  <2>2. i \in 1 .. Len(r) /\ (i = j \/ j < i)
    BY <1>3, <2>1
  <2>3. p[i] \in 1 .. Len(l) /\ p[j] \in 1 .. Len(l) /\ p[j] <= p[i]
    <3>1. p[i] \in 1 .. Len(l) /\ p[j] \in 1 .. Len(l)
      BY <1>3, <1>4, <2>2
    <3>2. i = j \/ p[j] < p[i]
      BY <1>3, <1>4, <2>2
    <3> QED BY <3>1, <3>2
  <2>4. l[p[j]] = r[j] /\ l[p[i]] = h /\ h \in live
    BY <1>3, <1>4, <2>1, <2>2
  <2> QED BY <2>3, <2>4
<1> QED BY <1>5, <1>6

LEMMA PublishEvicts ==
  ASSUME ReplayInv, NEW route, NEW size \in Sizes, NEW calls,
         Replay!Publish(route, size, calls)
  PROVE  LET live == {g \in DOMAIN groups : now < groups[g].expiresAt}
         IN  /\ nextGroupID' \in DOMAIN groups'
             /\ \A g \in live : g \in DOMAIN groups' <=>
                                  Replay!Fits(Replay!UsedSince(g, live),
                                    groups'[nextGroupID'])
<1> DEFINE k == Replay!Expire(Replay!Store)
           id == nextGroupID + 1
           group == [route |-> route, size |-> size, calls |-> calls,
             expiresAt |-> now + ReplayTTL]
           e == Published(k, id, group)
           live == {g \in DOMAIN groups : now < groups[g].expiresAt}
<1>1. /\ Consistent(k) /\ DOMAIN k.groups = live
      /\ \A g \in DOMAIN k.groups : k.groups[g] = groups[g]
      /\ k.lru = Kept(lru, DOMAIN k.groups)
  BY ExpiredIs
<1>2. calls \cap DOMAIN k.index = {} /\ nextGroupID' = id /\ Replay!Becomes(e)
  BY DEF Replay!Publish, Published
<1>3. /\ id \in Nat /\ id \notin DOMAIN k.groups
  BY <1>1 DEF ReplayInv
<1>4. group.size \in 0 .. MaxTotalBytes /\ group.calls = calls /\ group.size = size
  BY ReplayAssumption
<1>5. lru \in Seq(Nat) /\ Once(lru) /\ used = lru
  BY StoreIs DEF ReplayInv, Consistent, ListInv
<1>6. groups' = e.groups
  BY <1>2 DEF Replay!Becomes
<1> HIDE DEF k, id, group, live
<1>7. /\ id \in DOMAIN e.groups /\ e.groups[id] = group
      /\ \A j \in 1 .. Len(k.lru) :
           k.lru[j] \in DOMAIN e.groups <=> FitsWith(k, j - 1, group.size)
  BY <1>1, <1>2, <1>3, <1>4, PublishedIs
<1> HIDE DEF e
<1>8. Range(k.lru) = live /\ k.lru \in Seq(Nat) /\ Len(k.lru) \in Nat /\ IsFiniteSet(live)
  BY <1>1 DEF Consistent, ListInv
<1>9. ASSUME NEW g \in live
      PROVE  g \in DOMAIN groups' <=>
             Replay!Fits(Replay!UsedSince(g, live), groups'[nextGroupID'])
  <2>1. PICK j \in 1 .. Len(k.lru) : k.lru[j] = g
    BY <1>8, <1>9 DEF Range
  <2>2. Replay!UsedSince(g, live) = Rest(k.lru, j - 1)
    <3>1. k.lru = Kept(lru, live)
      BY <1>1
    <3>2. {h \in live : \E a, b \in 1 .. Len(lru) : lru[a] = k.lru[j] /\ lru[b] = h /\ a <= b}
            = Rest(k.lru, j - 1)
      <4> DEFINE r == k.lru
      <4>1. lru \in Seq(Nat) /\ Once(lru) /\ r = Kept(lru, live) /\ j \in 1 .. Len(r)
        BY <1>5, <3>1
      <4> HIDE DEF r
      <4>2. {h \in live : \E a, b \in 1 .. Len(lru) : lru[a] = r[j] /\ lru[b] = h /\ a <= b}
              = Rest(r, j - 1)
        BY <4>1, SinceIs, SMTT(60)
      <4> QED BY <4>2 DEF r
    <3> QED BY <1>5, <2>1, <3>2 DEF Replay!UsedSince
  <2> DEFINE R == Rest(k.lru, j - 1)
  <2>3. IsFiniteSet(R) /\ \A h \in R : k.groups[h] = groups[h]
    <3>1. \A i \in (j - 1) + 1 .. Len(k.lru) : i \in DOMAIN k.lru
      BY <1>8
    <3>2. R \subseteq live
      BY <1>8, <3>1 DEF Rest, Range
    <3> QED BY <1>1, <1>8, <3>2, FS_Subset
  <2> HIDE DEF R
  <2>4. Replay!Size(groups, R) = Replay!Size(k.groups, R)
    BY <2>3, SameSize
  <2>5. Replay!Fits(R, group) <=> FitsWith(k, j - 1, group.size)
    BY <2>4, SameOperators DEF Replay!Fits, FitsWith, R
  <2> QED BY <1>2, <1>6, <1>7, <2>1, <2>2, <2>5 DEF R
<1> QED BY <1>2, <1>6, <1>7, <1>9 DEF live

\* What a new group evicts.
THEOREM OldestAlwaysEvicted == InProcessSpec => EvictsOldest
<1> DEFINE live == {g \in DOMAIN groups : now < groups[g].expiresAt}
           Evicted == /\ nextGroupID' \in DOMAIN groups'
                      /\ \A g \in live : g \in DOMAIN groups' <=>
                                           Replay!Fits(Replay!UsedSince(g, live),
                                             groups'[nextGroupID'])
<1>1. ReplayInv /\ [Replay!Next]_(Replay!vars)
        => [nextGroupID' > nextGroupID => Evicted]_(Replay!vars)
  <2> SUFFICES ASSUME ReplayInv, Replay!Next, nextGroupID' > nextGroupID PROVE Evicted
    BY DEF Replay!vars
  <2>1. ASSUME NEW route, NEW size \in Sizes, NEW calls, Replay!Publish(route, size, calls)
        PROVE  Evicted
    BY <2>1, PublishEvicts
  <2>2. CASE nextGroupID' = nextGroupID
    BY <2>2 DEF ReplayInv
  <2>3. ASSUME ~(nextGroupID' = nextGroupID)
        PROVE  \E route \in ReplayRoutes, size \in Sizes, calls \in Replay!Turns :
               Replay!Publish(route, size, calls)
    BY <2>3 DEF Replay!Next, Replay!PublishFails, Replay!Resolve, Replay!Close, Replay!Tick,
       Replay!storeVars
  <2> QED BY <2>1, <2>2, <2>3
<1> QED BY <1>1, ReplayAlone, ReplayInvariant, PTL
        DEF EvictsOldest, Replay!EvictsOldest, Replay!Spec
=============================================================================
