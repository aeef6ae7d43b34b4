--------------------------- MODULE RuntimeLifecycle ---------------------------
(* One process of the server from its start to its end: migrations, Redis, the *)
(* queues with their workers, the HTTP server, the maintenance, and the way     *)
(* back, after a signal or when the start fails.                                *)
EXTENDS Integers

CONSTANT Queues   \* the queues of files, of evaluation runs and of cleanup jobs

ASSUME RuntimeAssumption == Queues \subseteq {"files", "evaluations", "cleanup"}

VARIABLES
    main,         \* bootstrap
    closing,      \* app.close
    runtime,      \* shutdownRuntime: its promise is made once
    failures,     \* what went wrong on the way down
    redis, pool,  \* the connections
    worker,       \* the BullMQ worker of each queue
    start,        \* how far queue.start is
    job,          \* what each worker is at
    dispatching,  \* isDispatching of each queue
    answering,     \* whether HTTP requests are under way
    maintenance,  \* whether it has been started, and whether a run is under way
    signals,      \* the signals that have arrived
    exit          \* how the process has ended

runtimeVars == <<main, closing, runtime, failures, redis, pool, worker, start, job,
                 dispatching, answering, maintenance, signals, exit>>

Signals == {"SIGINT", "SIGTERM"}

RuntimeTypeOK ==
    /\ main \in {"creating", "migrating", "connecting", "starting", "listening", "serving", "failed"}
    /\ closing \in {"no", "maintenance", "server", "runtime", "done"}
    /\ runtime \in {"up", "queues", "redis", "pool", "down"}
    /\ failures \subseteq (Queues \cup {"pool", "server"})
    /\ redis \in {"none", "open", "closed"} /\ pool \in {"open", "closed"}
    /\ worker \in [Queues -> {"none", "working", "closing", "closed", "broken"}]
    /\ start \in [Queues -> {"none", "waiting", "dispatching", "done", "failed"}]
    /\ job \in [Queues -> {"none", "claimed", "running", "aborted"}]
    /\ dispatching \in [Queues -> BOOLEAN] /\ answering \in BOOLEAN
    /\ maintenance \in [started : BOOLEAN, running : BOOLEAN]
    /\ signals \subseteq Signals
    /\ exit \in {"no", "0", "1", "killed"}

RuntimeInit ==
    /\ main = "creating" /\ closing = "no" /\ runtime = "up" /\ failures = {}
    /\ redis = "none" /\ pool = "open"
    /\ worker = [q \in Queues |-> "none"] /\ start = [q \in Queues |-> "none"]
    /\ job = [q \in Queues |-> "none"] /\ dispatching = [q \in Queues |-> FALSE]
    /\ answering = FALSE /\ maintenance = [started |-> FALSE, running |-> FALSE]
    /\ signals = {} /\ exit = "no"

Up == exit = "no"
Going(q) == worker[q] = "working"
\* The queues may run: queuesMayBeRunning.
Started == \E q \in Queues : worker[q] # "none"

-----------------------------------------------------------------------------
(* Start. *)

\* createApplication: without an application that is set up there is only the
\* pool to close; with one, the runtime starts.
Create ==
    /\ main = "creating"
    /\ \/ main' = "migrating" /\ UNCHANGED closing
       \/ main' = "failed" /\ closing' = "maintenance"
    /\ UNCHANGED <<runtime, failures, redis, pool, worker, start, job, dispatching,
                   answering, maintenance, signals, exit>>

\* A start that fails goes back at once (onApplicationBootstrap), and then
\* through app.close, which finds the same promise.
Fail == main' = "failed" /\ runtime' = (IF Started THEN "queues" ELSE "redis")

\* The migrations are one transaction under an advisory lock.
Migrate ==
    /\ main = "migrating"
    /\ \/ main' = "connecting" /\ UNCHANGED runtime
       \/ Fail
    /\ UNCHANGED <<closing, failures, redis, pool, worker, start, job, dispatching,
                   answering, maintenance, signals, exit>>

\* connectRedis, then the start of all queues. A worker takes jobs as soon as
\* it exists.
ConnectRedis ==
    /\ main = "connecting"
    /\ redis' = "open"
    /\ \/ /\ main' = "starting" /\ UNCHANGED runtime
          /\ worker' = [q \in Queues |-> "working"]
          /\ start' = [q \in Queues |-> "waiting"]
       \/ Fail /\ UNCHANGED <<worker, start>>
    /\ UNCHANGED <<closing, failures, pool, job, dispatching, answering, maintenance, signals, exit>>

\* waitUntilReady of the queue and of its worker.
QueueReady(q) ==
    /\ start[q] = "waiting" /\ main = "starting"
    /\ \/ /\ start' = [start EXCEPT ![q] = "dispatching"]
          /\ dispatching' = [dispatching EXCEPT ![q] = TRUE]
       \/ start' = [start EXCEPT ![q] = "failed"] /\ UNCHANGED dispatching
    /\ UNCHANGED <<main, closing, runtime, failures, redis, pool, worker, job, answering,
                   maintenance, signals, exit>>

\* Promise.allSettled of the starts.
AllStarted ==
    /\ main = "starting" /\ \A q \in Queues : start[q] \in {"done", "failed"}
    /\ IF \E q \in Queues : start[q] = "failed" THEN Fail ELSE main' = "listening" /\ UNCHANGED runtime
    /\ UNCHANGED <<closing, failures, redis, pool, worker, start, job, dispatching, answering,
                   maintenance, signals, exit>>

\* The server listens; from here on signals are handled, and the maintenance
\* makes its first run. Or the port is taken.
Listen ==
    /\ main = "listening"
    /\ \/ main' = "serving" /\ maintenance' = [started |-> TRUE, running |-> TRUE]
          /\ UNCHANGED closing
       \/ main' = "failed" /\ closing' = "maintenance" /\ UNCHANGED maintenance
    /\ UNCHANGED <<runtime, failures, redis, pool, worker, start, job, dispatching, answering,
                   signals, exit>>

-----------------------------------------------------------------------------
(* Work. *)

TakeJob(q) ==
    /\ Up /\ Going(q) /\ job[q] = "none" /\ job' = [job EXCEPT ![q] = "claimed"]
    /\ UNCHANGED <<main, closing, runtime, failures, redis, pool, worker, start, dispatching,
                   answering, maintenance, signals, exit>>

\* The controller of an evaluation is registered after its run is claimed.
Register(q) ==
    /\ Up /\ job[q] = "claimed" /\ job' = [job EXCEPT ![q] = "running"]
    /\ UNCHANGED <<main, closing, runtime, failures, redis, pool, worker, start, dispatching,
                   answering, maintenance, signals, exit>>

EndJob(q) ==
    /\ Up /\ job[q] # "none" /\ job' = [job EXCEPT ![q] = "none"]
    /\ UNCHANGED <<main, closing, runtime, failures, redis, pool, worker, start, dispatching,
                   answering, maintenance, signals, exit>>

\* dispatchPending of the interval or of a trigger: one at a time, while there
\* is a queue.
Dispatch(q) ==
    /\ Up /\ Going(q) /\ ~dispatching[q] /\ start[q] = "done"
    /\ dispatching' = [dispatching EXCEPT ![q] = TRUE]
    /\ UNCHANGED <<main, closing, runtime, failures, redis, pool, worker, start, job, answering,
                   maintenance, signals, exit>>

\* It ends well or with a logged error, also after the queue has been stopped.
EndDispatch(q) ==
    /\ Up /\ dispatching[q]
    /\ dispatching' = [dispatching EXCEPT ![q] = FALSE]
    /\ start' = IF start[q] = "dispatching" THEN [start EXCEPT ![q] = "done"] ELSE start
    /\ UNCHANGED <<main, closing, runtime, failures, redis, pool, worker, job, answering,
                   maintenance, signals, exit>>

\* Requests are answered until the server closes.
ServeRequest ==
    /\ Up
    /\ \/ main = "serving" /\ closing \in {"no", "maintenance"} /\ ~answering /\ answering' = TRUE
       \/ answering /\ answering' = FALSE
    /\ UNCHANGED <<main, closing, runtime, failures, redis, pool, worker, start, job, dispatching,
                   maintenance, signals, exit>>

\* runScheduledTasks of the interval, and the end of a run.
Maintain ==
    /\ Up
    /\ \/ maintenance.started /\ ~maintenance.running
          /\ maintenance' = [maintenance EXCEPT !.running = TRUE]
       \/ maintenance.running /\ maintenance' = [maintenance EXCEPT !.running = FALSE]
    /\ UNCHANGED <<main, closing, runtime, failures, redis, pool, worker, start, job, dispatching,
                   answering, signals, exit>>

-----------------------------------------------------------------------------
(* End. *)

\* The first signal closes the application, once; the handler of a signal is
\* then gone, so that the same one again, like one before the server listens,
\* ends the process.
Signal(s) ==
    /\ Up
    /\ IF main # "serving" \/ s \in signals
       THEN exit' = "killed" /\ UNCHANGED <<signals, closing>>
       ELSE /\ signals' = signals \cup {s} /\ UNCHANGED exit
            /\ closing' = IF signals = {} THEN "maintenance" ELSE closing
    /\ UNCHANGED <<main, runtime, failures, redis, pool, worker, start, job, dispatching, answering,
                   maintenance>>

\* beforeApplicationShutdown: no further run, and the one under way is awaited.
StopMaintenance ==
    /\ Up /\ closing = "maintenance"
    /\ IF maintenance.started THEN maintenance' = [maintenance EXCEPT !.started = FALSE]
       ELSE UNCHANGED maintenance
    /\ closing' = IF maintenance.running THEN closing ELSE "server"
    /\ maintenance.started \/ ~maintenance.running
    /\ UNCHANGED <<main, runtime, failures, redis, pool, worker, start, job, dispatching, answering,
                   signals, exit>>

\* The HTTP server closes when its answering are answered; should it fail, the
\* runtime is left as it is.
CloseServer ==
    /\ Up /\ closing = "server" /\ ~answering
    /\ \/ /\ closing' = "runtime" /\ UNCHANGED failures
          /\ runtime' = IF runtime # "up" THEN runtime ELSE IF Started THEN "queues" ELSE "redis"
       \/ /\ main = "serving" /\ closing' = "done" /\ failures' = failures \cup {"server"}
          /\ UNCHANGED runtime
    /\ UNCHANGED <<main, redis, pool, worker, start, job, dispatching, answering, maintenance,
                   signals, exit>>

\* queue.stop of all queues: no further dispatch, and the workers close. Those
\* evaluations that are registered are aborted.
StopQueues ==
    /\ Up /\ runtime = "queues" /\ \E q \in Queues : Going(q)
    /\ worker' = [q \in Queues |-> IF Going(q) THEN "closing" ELSE worker[q]]
    /\ job' = [q \in Queues |-> IF q = "evaluations" /\ job[q] = "running" THEN "aborted" ELSE job[q]]
    /\ UNCHANGED <<main, closing, runtime, failures, redis, pool, start, dispatching, answering,
                   maintenance, signals, exit>>

\* Mutant: the worker is closed by force.
JobLeft(q) == TRUE

\* A worker that closes waits for its jobs.
JobDone(q) == job[q] = "none"

CloseWorker(q) ==
    /\ Up /\ worker[q] = "closing"
    /\ \/ JobDone(q) /\ worker' = [worker EXCEPT ![q] = "closed"] /\ UNCHANGED failures
       \/ worker' = [worker EXCEPT ![q] = "broken"] /\ failures' = failures \cup {q}
    /\ UNCHANGED <<main, closing, runtime, redis, pool, start, job, dispatching, answering,
                   maintenance, signals, exit>>

\* Promise.allSettled of the stops.
AllStopped ==
    /\ Up /\ runtime = "queues" /\ \A q \in Queues : worker[q] \in {"closed", "broken"}
    /\ runtime' = "redis"
    /\ UNCHANGED <<main, closing, failures, redis, pool, worker, start, job, dispatching, answering,
                   maintenance, signals, exit>>

CloseRedis ==
    /\ Up /\ runtime = "redis" /\ runtime' = "pool"
    /\ redis' = IF redis = "open" THEN "closed" ELSE redis
    /\ UNCHANGED <<main, closing, failures, pool, worker, start, job, dispatching, answering,
                   maintenance, signals, exit>>

\* A failed start goes on to app.close; it has no maintenance and no server.
ClosePool ==
    /\ Up /\ runtime = "pool" /\ runtime' = "down" /\ pool' = "closed"
    /\ failures' \in {failures, failures \cup {"pool"}}
    /\ closing' = IF closing = "no" THEN "maintenance" ELSE closing
    /\ UNCHANGED <<main, redis, worker, start, job, dispatching, answering, maintenance, signals, exit>>

\* exitOnce.
Code == IF failures = {} THEN "0" ELSE "1"

\* The end of shutdown: app.close has ended or failed.
Exit ==
    /\ Up /\ main = "serving"
    /\ closing = "done" \/ (closing = "runtime" /\ runtime = "down")
    /\ exit' = Code
    /\ UNCHANGED <<main, closing, runtime, failures, redis, pool, worker, start, job, dispatching,
                   answering, maintenance, signals>>

\* SHUTDOWN_TIMEOUT_MS after the signal.
TimeOut ==
    /\ Up /\ signals # {} /\ exit' = "1"
    /\ UNCHANGED <<main, closing, runtime, failures, redis, pool, worker, start, job, dispatching,
                   answering, maintenance, signals>>

\* A failed start sets the exit code: the process ends when nothing holds it, so
\* that one with a worker that could not be closed stays.
EndOfFailedStart ==
    /\ Up /\ main = "failed" /\ closing = "runtime" /\ runtime = "down"
    /\ \A q \in Queues : worker[q] # "broken" /\ ~dispatching[q]
    /\ exit' = "1"
    /\ UNCHANGED <<main, closing, runtime, failures, redis, pool, worker, start, job, dispatching,
                   answering, maintenance, signals>>

RuntimeNext ==
    \/ Up /\ (Create \/ Migrate \/ ConnectRedis \/ AllStarted \/ Listen)
    \/ \E q \in Queues :
         \/ Up /\ QueueReady(q)
         \/ TakeJob(q) \/ Register(q) \/ EndJob(q) \/ Dispatch(q) \/ EndDispatch(q) \/ CloseWorker(q)
    \/ \E s \in Signals : Signal(s)
    \/ ServeRequest \/ Maintain
    \/ StopMaintenance \/ CloseServer \/ StopQueues \/ AllStopped \/ CloseRedis \/ ClosePool
    \/ Exit \/ TimeOut \/ EndOfFailedStart

RuntimeSpec == RuntimeInit /\ [][RuntimeNext]_runtimeVars

-----------------------------------------------------------------------------
\* Whether the server is told to stop or does not get up: while it lives, its
\* connections close only after the work that needs them, except for that of a
\* worker that could not be closed; and it exits with 0 only when it is served
\* to the end.
WorkEndsBeforeThePool ==
    /\ RuntimeTypeOK
    /\ "closed" \in {redis, pool} /\ Up =>
         /\ ~answering /\ ~maintenance.running
         /\ \A q \in Queues : job[q] # "none" => worker[q] = "broken"
    /\ exit = "0" => /\ pool = "closed" /\ redis = "closed"
                     /\ \A q \in Queues : worker[q] = "closed" /\ job[q] = "none"
=============================================================================
