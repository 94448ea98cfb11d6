-------------------------- MODULE ServerLifecycle ---------------------------
(***************************************************************************)
(* The process of cmd/server/main.go around the requests of                *)
(* RequestPipeline: run() loads the configuration, builds the subsystems   *)
(* one on another, starts the queue workers and (in the "server" role) the *)
(* HTTP server on goroutines of their own, waits for a signal or for one   *)
(* of them to fail, drains the requests in flight for a limited time, and  *)
(* closes what it built in reverse order.                                  *)
(***************************************************************************)
EXTENDS RequestPipeline, ConfigLoad

CONSTANTS
    File,      \* the YAML files the process may be given
    Env,       \* the environments it may be started in
    Engine     \* the engine's defaults

VARIABLES
    main,      \* where run() is
    role,      \* the -role flag; anything but "server" is a worker
    cfg,       \* the configuration
    deferred,  \* what run() has deferred the closing of, last one first out
    ctx,       \* "done" once a signal has come, or stop() was called
    catching,  \* signals go to ctx; otherwise they end the process
    workers,   \* the goroutine of queue.Start
    httpd,     \* the goroutine of ListenAndServe
    errs,      \* errors in the channel
    timedOut,  \* the drain timeout has passed
    status     \* how the process ended

processVars == <<main, role, cfg, deferred, ctx, catching, workers, httpd,
                 errs, timedOut, status>>
serverVars  == <<vars, processVars>>

----------------------------------------------------------------------------

Building == <<"tracing", "db", "migrate", "storage", "queue", "llm", "start">>
Main == {"load", "select", "shutdown", "drain", "close", "exited"}
            \cup {Building[i] : i \in DOMAIN Building}

\* The drivers the builders know.
StorageDriver == {"local", "s3", "gcs"}
QueueDriver   == {"qstash", "river", "asynq"}
LLMDriver     == {"anthropic", "openai", "gemini"}

Buildable(step) ==
    CASE step = "storage" -> cfg["storage_driver"] \in StorageDriver
      [] step = "queue"   -> cfg["queue_driver"] \in QueueDriver
      [] step = "llm"     -> cfg["llm_driver"] \in LLMDriver
      [] OTHER            -> TRUE

\* Slip: the pool is closed where it is opened and where it is migrated.
Defers_Twice(step) ==
    CASE step = "tracing" /\ cfg["tracing"] = "on" -> <<"tracing">>
      [] step \in {"db", "migrate"} -> <<"pool">>
      [] step = "queue" -> <<"queue">>
      [] OTHER -> <<>>

\* What a step defers.
Defers(step) ==
    CASE step = "tracing" /\ cfg["tracing"] = "on" -> <<"tracing">>
      [] step = "db"    -> <<"pool">>
      [] step = "queue" -> <<"queue">>
      [] OTHER          -> <<>>

\* The settings somebody reads after run() has built everything: Auth,
\* ListenAndServeTLS and, by the type of the queue, the webhook.
Live == {"auth_mode", "api_key", "cert_file", "key_file", "queue_driver"}

\* Slip: one of the two senders is forgotten.
Capacity_One == 1

\* make(chan error, 2)
Capacity == 2

ServerInit ==
    /\ Init
    /\ main = "load" /\ role \in {"server", "worker"}
    /\ cfg = Default(Engine) /\ deferred = <<>>
    /\ ctx = "live" /\ catching = FALSE
    /\ workers = "off" /\ httpd = "off" /\ errs = 0
    /\ timedOut = FALSE /\ status = "none"

\* run() goes on to the next step; or gives up and returns an error.
Proceed(to) == main' = to
GiveUp == main' = "close" /\ status' = "fatal"

----------------------------------------------------------------------------

\* config.Load, and signal.NotifyContext after it.
LoadConfig(file, env) ==
    LET l == Load(Engine, file, env)
    IN  /\ up /\ main = "load" /\ l.ok
        /\ cfg' = l.cfg
        /\ catching' = TRUE
        /\ Proceed("tracing")
        /\ UNCHANGED <<vars, role, deferred, ctx, workers, httpd, errs,
                       timedOut, status>>

\* The file cannot be read or parsed, or Validate (the engine's part of it
\* included) refuses the result.
LoadFails ==
    /\ up /\ main = "load"
    /\ GiveUp
    /\ UNCHANGED <<vars, role, cfg, deferred, ctx, catching, workers, httpd,
                   errs, timedOut>>

Build ==
    \E i \in 1 .. Len(Building) - 1 :
        /\ up /\ main = Building[i] /\ Buildable(main)
        /\ deferred' = deferred \o Defers(main)
        /\ Proceed(Building[i + 1])
        /\ UNCHANGED <<vars, role, cfg, ctx, catching, workers, httpd, errs,
                       timedOut, status>>

\* An unknown driver, or a builder's error; a signal while the database is
\* opened or migrated is one.
BuildFails ==
    \E i \in 1 .. Len(Building) - 1 :
        /\ up /\ main = Building[i]
        /\ main = "tracing" => cfg["tracing"] = "on"
        /\ GiveUp
        /\ UNCHANGED <<vars, role, cfg, deferred, ctx, catching, workers,
                       httpd, errs, timedOut>>

\* Both goroutines are started; a worker has no HTTP server.
Start ==
    /\ up /\ main = "start"
    /\ workers' = "running"
    /\ httpd' = IF role = "server" THEN "starting" ELSE "off"
    /\ cfg' = [s \in Live |-> cfg[s]]
    /\ Proceed("select")
    /\ UNCHANGED <<vars, role, deferred, ctx, catching, errs, timedOut, status>>

----------------------------------------------------------------------------

\* srv.Shutdown has been called.
ShuttingDown == main \in {"drain", "close", "exited"}

\* ListenAndServe, or ListenAndServeTLS.
Listen ==
    /\ up /\ httpd = "starting"
    /\ httpd' = IF ShuttingDown THEN "ended" ELSE "listening"
    /\ UNCHANGED <<vars, main, role, cfg, deferred, ctx, catching, workers,
                   errs, timedOut, status>>

\* Nothing but ErrServerClosed is an error; while the listener is being
\* opened, srv.Shutdown does not keep it from failing.
ListenFails ==
    /\ up /\ httpd \in {"starting", "listening"}
    /\ httpd' = "reporting"
    /\ UNCHANGED <<vars, main, role, cfg, deferred, ctx, catching, workers,
                   errs, timedOut, status>>

\* queue.Start returns: an error to report, or nil, or ctx's own.
WorkersEnd ==
    /\ up /\ workers = "running"
    /\ workers' \in {"reporting", "ended"}
    /\ UNCHANGED <<vars, main, role, cfg, deferred, ctx, catching, httpd,
                   errs, timedOut, status>>

\* errs <- err
Report ==
    /\ up /\ errs < Capacity
    /\ errs' = errs + 1
    /\ \/ workers = "reporting" /\ workers' = "ended" /\ UNCHANGED httpd
       \/ httpd = "reporting" /\ httpd' = "ended" /\ UNCHANGED workers
    /\ UNCHANGED <<vars, main, role, cfg, deferred, ctx, catching, timedOut,
                   status>>

\* The process ends: whoever was served is cut off.
CutOff == conn' = [r \in Request |-> IF conn[r] \in {"new", "finished"}
                                     THEN conn[r] ELSE "gone"]

\* SIGINT or SIGTERM.
Signal ==
    /\ up
    /\ IF catching
       THEN /\ ctx' = "done"
            /\ UNCHANGED <<vars, main, status>>
       ELSE /\ up' = FALSE /\ main' = "exited" /\ status' = "killed"
            /\ CutOff
            /\ UNCHANGED <<path, who, handler, sent, logged, ctx>>
    /\ UNCHANGED <<role, cfg, deferred, catching, workers, httpd, errs, timedOut>>

----------------------------------------------------------------------------

AfterSelect == Proceed(IF role = "server" THEN "shutdown" ELSE "close")

\* case <-ctx.Done()
SelectSignal ==
    /\ up /\ main = "select" /\ ctx = "done"
    /\ AfterSelect
    /\ UNCHANGED <<vars, role, cfg, deferred, ctx, catching, workers, httpd,
                   errs, timedOut, status>>

\* case err := <-errs: stop() ends ctx, and gives the signals back.
SelectError ==
    /\ up /\ main = "select" /\ errs > 0
    /\ errs' = errs - 1
    /\ ctx' = "done" /\ catching' = FALSE
    /\ AfterSelect
    /\ UNCHANGED <<vars, role, cfg, deferred, workers, httpd, timedOut, status>>

\* srv.Shutdown closes the listener, and then waits.
Shutdown ==
    /\ up /\ main = "shutdown"
    /\ httpd' = IF httpd = "listening" THEN "ended" ELSE httpd
    /\ Proceed("drain")
    /\ UNCHANGED <<vars, role, cfg, deferred, ctx, catching, workers, errs,
                   timedOut, status>>

\* Slip: a request past its deadline is not waited for.
Quiet_PastDeadline ==
    \A r \in Request : conn[r] \in {"new", "draining", "finished", "gone"}

\* No connection is active.
Quiet == \A r \in Request : conn[r] \in {"new", "finished", "gone"}

\* Slip: Shutdown gets a context without a deadline.
Overdue_Never == FALSE

\* The drain timeout may pass while somebody is waited for.
Overdue == ~Quiet

Drain ==
    /\ up /\ main = "drain"
    /\ \/ Quiet /\ UNCHANGED timedOut
       \/ Overdue /\ timedOut' = TRUE
    /\ Proceed("close")
    /\ UNCHANGED <<vars, role, cfg, deferred, ctx, catching, workers, httpd,
                   errs, status>>

\* Slip: in the order they were deferred.
Rest_Reversed == Tail(deferred)

\* What is left when the last deferred call has run.
Rest == SubSeq(deferred, 1, Len(deferred) - 1)

\* A handler or a worker may have a connection of the pool.
Borrowed == workers = "running" \/ \E r \in Request : handler[r] = "running"

\* The deferred call that is due.  pool.Close waits for the connections that
\* are out at that moment; if none can be, the call returns.
Due == deferred[Len(deferred)]
Returns == Due = "pool" => ~Borrowed

Close ==
    /\ up /\ main = "close" /\ deferred # <<>>
    /\ deferred' = Rest
    /\ UNCHANGED <<vars, main, role, cfg, ctx, catching, workers, httpd, errs,
                   timedOut, status>>

Exit ==
    /\ up /\ main = "close" /\ deferred = <<>>
    /\ up' = FALSE /\ main' = "exited"
    /\ status' = IF status = "fatal" THEN "fatal" ELSE "ok"
    /\ CutOff
    /\ UNCHANGED <<path, who, handler, sent, logged, role, cfg, deferred, ctx,
                   catching, workers, httpd, errs, timedOut>>

----------------------------------------------------------------------------

\* A request comes in while the listener is open; Auth is what the
\* configuration made it, NoAuth or StaticAPIKey.
Enter(r, p) ==
    /\ httpd = "listening"
    /\ IF cfg["auth_mode"] = "none" THEN p = Anonymous
       ELSE NeedsKey(path[r]) => p # Anonymous
    /\ Arrive(r, p)

\* The steps of a request that is in, as RequestPipeline has them.
Progress(r) ==
    \/ Gate(r)
    \/ \E code \in {"ok", "error"} : HandlerWrites(r, code)
    \/ HandlerReturns(r) \/ HandlerPanics(r)
    \/ Expire(r)
    \/ Unwind(r)

Startup == \/ \E file \in File, env \in Env : LoadConfig(file, env)
           \/ LoadFails \/ Build \/ BuildFails \/ Start

Stop == SelectSignal \/ SelectError \/ Shutdown \/ Drain \/ Close \/ Exit

Process == \/ Startup \/ Stop
           \/ Listen \/ ListenFails \/ WorkersEnd \/ Report \/ Signal

RequestStep(r) ==
    /\ (\E p \in Principal \cup {Nobody} : Enter(r, p)) \/ Progress(r)
    /\ UNCHANGED processVars

ServerNext == Process \/ \E r \in Request : RequestStep(r)

ServerSpec == ServerInit /\ [][ServerNext]_serverVars

\* The fairness of RequestPipeline, one goroutine's steps taken together.
\* run() goes on: what it calls to build or to close a subsystem returns,
\* unless it is pool.Close that waits, and the drain timeout passes.  And
\* queue.Start returns when its context is done.
Run == \/ Startup
       \/ SelectSignal \/ SelectError \/ Shutdown \/ Drain
       \/ Close /\ Returns
       \/ Exit
Quit == ctx = "done" /\ WorkersEnd
Turn(r) == Gate(r) \/ Expire(r) \/ (Cancelled(r) /\ HandlerReturns(r)) \/ Unwind(r)

ServerFairness ==
    /\ WF_serverVars(Run) /\ WF_serverVars(Quit)
    /\ \A r \in Request : WF_serverVars(Turn(r) /\ UNCHANGED processVars)

----------------------------------------------------------------------------

Subsystem == {"tracing", "pool", "queue"}
Open == {deferred[i] : i \in DOMAIN deferred}

\* Every variable holds a value of its type, and nothing is closed twice.
ServerTypeOK ==
    /\ main \in Main /\ role \in {"server", "worker"}
    /\ DOMAIN cfg \in {Setting, Live}
    /\ Open \subseteq Subsystem
    /\ \A i, j \in DOMAIN deferred : deferred[i] = deferred[j] => i = j
    /\ ctx \in {"live", "done"} /\ catching \in BOOLEAN
    /\ workers \in {"off", "running", "reporting", "ended"}
    /\ httpd \in {"off", "starting", "listening", "reporting", "ended"}
    /\ errs \in 0 .. Capacity
    /\ timedOut \in BOOLEAN
    /\ status \in {"none", "ok", "fatal", "killed"}

\* No handler runs without the database and the queue it was given: they are
\* open before the listener is, and are closed only when the last handler has
\* returned, or has had the whole of the drain timeout to.  And what is built
\* on the pool is closed before it.
StoresOutliveHandlers ==
    up => /\ \A r \in Request : handler[r] = "running" /\ ~timedOut =>
                 {"pool", "queue"} \subseteq Open
          /\ "queue" \in Open => "pool" \in Open

\* A request that was taken in is answered, and its connection ends as it
\* should, unless the drain timeout passed, a handler panicked, or somebody
\* killed the process: a SIGTERM alone loses none ("drain in-flight
\* requests").  After a subsystem failed, a second signal kills.
StopLosesNothing ==
    \A r \in Request : conn[r] = "gone" =>
        \/ timedOut
        \/ \E q \in Request : handler[q] = "panicked"
        \/ status = "killed" /\ ~catching

\* Whoever has an error to report can: nobody reads the channel any more
\* once run() has left its select.
NobodyBlocks ==
    up /\ "reporting" \in {workers, httpd} => errs < Capacity

\* Nothing is built from a configuration that Validate would refuse, and the
\* server never listens in api_key mode without a key, or with half a
\* certificate, whichever of the values came from the environment.
ServesWhatWasValidated ==
    /\ main \in {Building[i] : i \in DOMAIN Building} => Valid(cfg)
    /\ httpd = "listening" =>
         /\ cfg["auth_mode"] = "api_key" => cfg["api_key"] # ""
         /\ cfg["cert_file"] # "" <=> cfg["key_file"] # ""

\* The package comment's precedence is what Load computes.
PrecedenceHolds ==
    main = "load" /\ up =>
        \A file \in File, env \in Env, s \in Setting :
            Load(Engine, file, env).cfg[s] = ByPrecedence(Engine, file, env, s)

\* The process closes the pool and waits for a handler under /internal/,
\* which has no deadline and need never be cancelled.
HeldUp ==
    /\ main = "close" /\ deferred # <<>> /\ Due = "pool"
    /\ \E r \in Request : handler[r] = "running" /\ ~HasDeadline(path[r])

\* Once it has been signalled, or a subsystem has failed, the process ends,
\* whatever its handlers do: the drain timeout bounds the wait for them, and
\* those with a deadline give their connections back.  Only one without can
\* keep it for ever, if it never returns and pool.Close waits for it.
StopsWhenAsked ==
    <>[]HeldUp \/ ((ctx = "done" \/ errs > 0) ~> ~up)

=============================================================================
