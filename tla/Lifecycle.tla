----------------------------- MODULE Lifecycle -----------------------------
(***************************************************************************)
(* Start, run and stop of the server process: main and serve.rs, the       *)
(* signal task, the listener, the service Manager and the workers it       *)
(* joins.  A stop is a flag plus a broadcast; the broadcast fails, and the *)
(* flag is taken back, when nobody is subscribed.                          *)
(***************************************************************************)
EXTENDS Naturals, FiniteSets

CONSTANTS
    OneShots,       \* workers that do their work and return (storage, media ...)
    Watchers,       \* workers that return on until_shutdown (tasks, backups ...)
    Interruptibles, \* workers that return when interrupted (sending, sync ...)
    Reloaders,      \* the config service: waits for a signal, has no interrupt
    MaxFaults,      \* bound on worker errors and panics
    MaxSignals      \* bound on the signals the process receives

Workers == OneShots \cup Watchers \cup Interruptibles \cup Reloaders

ASSUME LifecycleAssumption ==
    /\ IsFiniteSet(Workers) /\ Workers # {}
    /\ Interruptibles \cap (OneShots \cup Watchers \cup Reloaders) = {}
    /\ MaxFaults \in Nat /\ MaxSignals \in Nat

VARIABLES
    main,       \* "starting", "running", "stopping", "leaving" or "exited"
    exit,       \* "none", "ok", "error", "panic" or "restart"
    stopping, restarting,   \* flags of core::Server
    sigTask,    \* signal::enable: "listening", "term", "refused", "usr1" or "done"
    listener,   \* serve: "none", "binding", "serving", "draining", "done", "failed"
    toStart,    \* workers Manager::start has still to spawn
    work,       \* state of each worker
    manager,    \* "joining", "sleeping", "ok" or "err"
    restartee,  \* the worker handle_error sleeps for
    consumed,   \* Manager::poll has taken the manager task's result
    interrupted,    \* Services::interrupt was called
    faulty,     \* history: workers that failed
    signals     \* signals delivered

flags == <<stopping, restarting>>
pool == <<toStart, work, manager, restartee, faulty>>
vars == <<main, exit, flags, sigTask, listener, pool, consumed, interrupted, signals>>

Init ==
    /\ main = "starting" /\ exit = "none"
    /\ stopping = FALSE /\ restarting = FALSE
    /\ sigTask = "listening" /\ listener = "none"
    /\ toStart = Workers /\ work = [w \in Workers |-> "off"]
    /\ manager = "joining" /\ restartee = {} /\ faulty = {}
    /\ consumed = FALSE /\ interrupted = FALSE
    /\ signals = 0

-----------------------------------------------------------------------------
(* The stop flag and its broadcast *)

\* Receivers subscribed to Server::signal: every until_shutdown being awaited,
\* and the config service while it waits.
Receivers ==
    (IF sigTask = "listening" THEN {"signals"} ELSE {})
        \cup (IF listener = "serving" THEN {"listener"} ELSE {})
        \cup {w \in Watchers : work[w] = "running"}
        \cup {w \in Reloaders : work[w] = "parked"}

\* Every broadcast ends the config service's wait.
Broadcast(ws) == [w \in Workers |-> IF ws[w] = "parked" THEN "running" ELSE ws[w]]

\* Server::shutdown, for all its callers.
Shutdown ==
    IF ~stopping /\ Receivers # {}
    THEN stopping' = TRUE /\ work' = Broadcast(work)
    ELSE UNCHANGED <<stopping, work>>

\* The process gets SIGTERM, SIGINT or SIGQUIT, or SIGUSR1: the select of
\* signal::enable drops its until_shutdown, and with it its subscription.
Signal(sig) ==
    /\ signals < MaxSignals /\ main # "exited"
    /\ sigTask = "listening" /\ ~stopping
    /\ signals' = signals + 1
    /\ sigTask' = sig
    /\ UNCHANGED <<main, exit, flags, listener, pool, consumed, interrupted>>

\* With nobody subscribed the flag is up while the send fails.
HandleTerm ==
    /\ main # "exited" /\ sigTask = "term"
    /\ IF Receivers = {} /\ ~stopping
       THEN stopping' = TRUE /\ sigTask' = "refused" /\ UNCHANGED work
       ELSE Shutdown /\ sigTask' = "listening"
    /\ UNCHANGED <<main, exit, restarting, listener, toStart, manager, restartee,
                   faulty, consumed, interrupted, signals>>

\* Server::shutdown takes the flag back after a send that failed.
TakeBack ==
    /\ main # "exited" /\ sigTask = "refused"
    /\ stopping' = FALSE
    /\ sigTask' = "listening"
    /\ UNCHANGED <<main, exit, restarting, listener, pool, consumed, interrupted, signals>>

HandleUsr1 ==
    /\ main # "exited" /\ sigTask = "usr1"
    /\ work' = Broadcast(work)
    /\ sigTask' = "listening"
    /\ UNCHANGED <<main, exit, flags, listener, toStart, manager, restartee,
                   faulty, consumed, interrupted, signals>>

SignalTaskEnds ==
    /\ main # "exited" /\ sigTask = "listening" /\ stopping
    /\ sigTask' = "done"
    /\ UNCHANGED <<main, exit, flags, listener, pool, consumed, interrupted, signals>>

\* Server::restart, from the admin API.
Restart ==
    /\ main = "running" /\ ~restarting /\ ~stopping
    /\ Receivers # {}
    /\ restarting' = TRUE
    /\ Shutdown
    /\ UNCHANGED <<main, exit, sigTask, listener, toStart, manager, restartee,
                   faulty, consumed, interrupted, signals>>

-----------------------------------------------------------------------------
(* Startup *)

Leave(how) == main' = "exited" /\ exit' = how

\* A migration step sees the flag: a cancelled startup waits for the signal
\* task and exits with success.
StartCancelled ==
    /\ main = "starting" /\ toStart = Workers /\ stopping
    /\ main' = "leaving"
    /\ UNCHANGED <<exit, flags, sigTask, listener, pool, consumed, interrupted, signals>>

StartFails ==
    /\ main = "starting" /\ toStart = Workers
    /\ Leave("error")
    /\ UNCHANGED <<flags, sigTask, listener, pool, consumed, interrupted,
                   signals>>

\* Manager::start holds the workers' lock: nothing is joined until it is done.
\* start_worker refuses once the server stops, which fails the startup.
StartWorker(w) ==
    /\ main = "starting" /\ w \in toStart
    /\ IF stopping
       THEN Leave("error") /\ UNCHANGED <<toStart, work>>
       ELSE /\ toStart' = toStart \ {w}
            /\ work' = [work EXCEPT ![w] = "running"]
            /\ UNCHANGED <<main, exit>>
    /\ UNCHANGED <<flags, sigTask, listener, manager, restartee, faulty, consumed,
                   interrupted, signals>>

Started ==
    /\ main = "starting" /\ toStart = {}
    /\ main' = "running" /\ listener' = "binding"
    /\ UNCHANGED <<exit, flags, sigTask, pool, consumed, interrupted, signals>>

-----------------------------------------------------------------------------
(* The listener: serve *)

ListenerStep(from, to) ==
    /\ main # "exited" /\ listener = from /\ listener' = to
    /\ UNCHANGED <<main, exit, flags, sigTask, pool, consumed, interrupted,
                   signals>>

Bind == ListenerStep("binding", "serving")
BindFails == ListenerStep("binding", "failed")
ListenerDrains == stopping /\ ListenerStep("serving", "draining")
\* All requests are done, or SHUTDOWN_TIMEOUT passed.
ListenerEnds == ListenerStep("draining", "done")

-----------------------------------------------------------------------------
(* The workers *)

WorkerStep(w, from, to) ==
    /\ main # "exited" /\ work[w] = from
    /\ work' = [work EXCEPT ![w] = to]
    /\ UNCHANGED <<main, exit, flags, sigTask, listener, toStart, manager, restartee,
                   consumed, interrupted, signals>>

\* Mutant of Returns: an interruptible worker returns on until_shutdown.
Returns_OnShutdown(w) ==
    \/ w \in OneShots
    \/ w \in Watchers \cup Reloaders /\ stopping
    \/ w \in Interruptibles /\ (interrupted \/ stopping)

\* What makes a worker return.
Returns(w) ==
    \/ w \in OneShots
    \/ w \in Watchers \cup Reloaders /\ stopping
    \/ w \in Interruptibles /\ interrupted

WorkerReturns(w) == Returns(w) /\ WorkerStep(w, "running", "returned") /\ UNCHANGED faulty

WorkerFails(w, how) ==
    /\ Cardinality(faulty) < MaxFaults
    /\ WorkerStep(w, "running", how)
    /\ faulty' = faulty \cup {w}

\* ops/config.rs: running() is read first, the subscription comes after it.
ReloaderChecks(w) ==
    w \in Reloaders /\ ~stopping /\ WorkerStep(w, "running", "checked") /\ UNCHANGED faulty

ReloaderSubscribes(w) ==
    w \in Reloaders /\ WorkerStep(w, "checked", "parked") /\ UNCHANGED faulty

-----------------------------------------------------------------------------
(* The manager *)

\* handle_finished, handle_error: on shutdown an error is ignored; otherwise a
\* panic is slept on and an error ends the manager.
Join(w) ==
    /\ manager = "joining" /\ main \notin {"starting", "exited"}
    /\ work[w] \in {"returned", "error", "panic"}
    /\ work' = [work EXCEPT ![w] = "joined"]
    /\ IF work[w] = "returned" \/ stopping
       THEN UNCHANGED <<manager, restartee>>
       ELSE IF work[w] = "panic"
       THEN manager' = "sleeping" /\ restartee' = {w}
       ELSE manager' = "err" /\ UNCHANGED restartee
    /\ UNCHANGED <<main, exit, flags, sigTask, listener, toStart, faulty, consumed,
                   interrupted, signals>>

\* The restart delay is over; start_worker refuses once the server stops.
RestartWorker ==
    /\ main # "exited" /\ manager = "sleeping"
    /\ IF stopping
       THEN manager' = "err" /\ UNCHANGED work
       ELSE /\ manager' = "joining"
            /\ work' = [w \in Workers |-> IF w \in restartee THEN "running" ELSE work[w]]
    /\ restartee' = {}
    /\ UNCHANGED <<main, exit, flags, sigTask, listener, toStart, faulty, consumed,
                   interrupted, signals>>

ManagerEnds ==
    /\ manager = "joining" /\ main \notin {"starting", "exited"}
    /\ \A w \in Workers : work[w] = "joined"
    /\ manager' = "ok"
    /\ UNCHANGED <<main, exit, flags, sigTask, listener, toStart, work, restartee,
                   faulty, consumed, interrupted, signals>>

-----------------------------------------------------------------------------
(* run and stop *)

\* serve::run: the listener ended first ...
ListenerWins ==
    /\ main = "running"
    /\ \/ listener = "done" /\ main' = "stopping" /\ UNCHANGED exit
       \/ listener = "failed" /\ Leave("error")
    /\ UNCHANGED <<flags, sigTask, listener, pool, consumed, interrupted,
                   signals>>

\* ... or the manager did, which shuts the server down; an error is returned
\* by run and ends exec before stop.
ManagerWins ==
    /\ main = "running" /\ manager \in {"ok", "err"}
    /\ consumed' = TRUE
    /\ Shutdown
    /\ IF manager = "ok"
       THEN main' = "stopping" /\ UNCHANGED exit
       ELSE Leave("error")
    /\ UNCHANGED <<restarting, sigTask, listener, toStart, manager, restartee, faulty,
                   interrupted, signals>>

\* Mutant of Interrupt: the manager is awaited before the services are
\* interrupted.
Interrupt_AfterManager ==
    /\ main = "stopping" /\ ~interrupted /\ manager \in {"ok", "err"}
    /\ interrupted' = TRUE
    /\ UNCHANGED <<main, exit, flags, sigTask, listener, pool, consumed, signals>>

\* Services::stop interrupts the services, then awaits the manager.
Interrupt ==
    /\ main = "stopping" /\ ~interrupted
    /\ interrupted' = TRUE
    /\ UNCHANGED <<main, exit, flags, sigTask, listener, pool, consumed, signals>>

\* Mutant of ManagerStops: the manager is not awaited.
ManagerStops_NoWait ==
    /\ main = "stopping" /\ interrupted
    /\ main' = "leaving"
    /\ UNCHANGED <<exit, flags, sigTask, listener, pool, consumed, interrupted,
                   signals>>

\* A task whose result was already taken cannot be awaited again.
ManagerStops ==
    /\ main = "stopping" /\ interrupted
    /\ IF consumed
       THEN Leave("panic")
       ELSE /\ manager \in {"ok", "err"}
            /\ main' = "leaving" /\ UNCHANGED exit
    /\ UNCHANGED <<flags, sigTask, listener, pool, consumed, interrupted,
                   signals>>

\* exec joins the signal task and main drops the runtime.
Exit ==
    /\ main = "leaving" /\ sigTask = "done"
    /\ Leave(IF restarting THEN "restart" ELSE "ok")
    /\ UNCHANGED <<flags, sigTask, listener, pool, consumed, interrupted,
                   signals>>

SignalSteps == HandleTerm \/ TakeBack \/ HandleUsr1 \/ SignalTaskEnds
StartSteps == StartCancelled \/ (\E w \in Workers : StartWorker(w)) \/ Started
ListenerSteps == Bind \/ ListenerDrains \/ ListenerEnds
ManagerSteps == (\E w \in Workers : Join(w)) \/ RestartWorker \/ ManagerEnds
MainSteps == ListenerWins \/ ManagerWins \/ Interrupt \/ ManagerStops \/ Exit
WorkerSteps(w) == WorkerReturns(w) \/ ReloaderChecks(w) \/ ReloaderSubscribes(w)

Done == main = "exited" /\ UNCHANGED vars

Next ==
    \/ \E sig \in {"term", "usr1"} : Signal(sig)
    \/ SignalSteps \/ Restart
    \/ StartSteps \/ StartFails
    \/ ListenerSteps \/ BindFails
    \/ \E w \in Workers : WorkerSteps(w)
    \/ \E w \in Workers, how \in {"error", "panic"} : WorkerFails(w, how)
    \/ ManagerSteps \/ MainSteps
    \/ Done

Spec == Init /\ [][Next]_vars

-----------------------------------------------------------------------------
(* Properties *)

\* Type invariant.
TypeOK ==
    /\ main \in {"starting", "running", "stopping", "leaving", "exited"}
    /\ exit \in {"none", "ok", "error", "panic", "restart"}
    /\ {stopping, restarting, consumed, interrupted} \subseteq BOOLEAN
    /\ sigTask \in {"listening", "term", "refused", "usr1", "done"}
    /\ listener \in {"none", "binding", "serving", "draining", "done", "failed"}
    /\ toStart \subseteq Workers /\ restartee \subseteq Workers /\ faulty \subseteq Workers
    /\ work \in [Workers -> {"off", "running", "checked", "parked", "returned", "error",
                             "panic", "joined"}]
    /\ manager \in {"joining", "sleeping", "ok", "err"}
    /\ signals \in 0 .. MaxSignals

\* A config service that subscribed only after the broadcast it waits for.
Deaf == \E w \in Reloaders : stopping /\ work[w] \in {"checked", "parked"}

\* A shutdown once broadcast ends the process, unless the config service read
\* running() before it and subscribed after it.
ShutdownCompletes == stopping /\ sigTask # "refused" ~> main = "exited" \/ Deaf

\* A success exit leaves no worker behind, unless the shutdown came while the
\* manager slept before a restart.
ExitJoinsWorkers ==
    exit \in {"ok", "restart"} =>
       \/ \A w \in Workers : work[w] = "joined"
       \/ manager = "err" /\ faulty # {}

\* Awaiting the manager twice needs every interruptible worker to have failed:
\* one that is sound keeps the manager from ending before Services::stop.
DoubleAwaitNeedsFaults == exit = "panic" => Interruptibles \subseteq faulty

(* The process ends as it says: a clean exit has joined every worker, and  *)
(* only services that fail at once make it panic.                          *)
ExitSound == ExitJoinsWorkers /\ DoubleAwaitNeedsFaults
=============================================================================
