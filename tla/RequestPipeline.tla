-------------------------- MODULE RequestPipeline --------------------------
(***************************************************************************)
(* One HTTP request's way through the middleware stack of                  *)
(* internal/handler/router.go.  Each request has the goroutine net/http    *)
(* gave its connection, and, below EndpointTimeout, a second goroutine     *)
(* that runs the handler; the two share the ResponseWriter, a context and  *)
(* the channel `done`.  Paths under /internal/ have no second goroutine.   *)
(* The handlers are external here: they write, return, or panic.           *)
(***************************************************************************)
EXTENDS Naturals, Sequences

CONSTANTS
    Request,
    Principal,    \* what Auth puts into the context
    Anonymous,    \* the one of NoAuth and of the excluded paths
    Nobody        \* no principal

ASSUME PipelineAssumption == Anonymous \in Principal /\ Nobody \notin Principal

VARIABLES
    up,          \* the process is alive
    path,        \* Request -> the kind of URL
    who,         \* Request -> the principal its credentials resolve to
    conn,        \* Request -> where the connection's goroutine is
    handler,     \* Request -> what the handler is doing
    sent,        \* Request -> the status on the wire
    logged       \* Request -> the principal in its access-log line

vars == <<up, path, who, conn, handler, sent, logged>>

----------------------------------------------------------------------------

\* router.go: the layers of the stack, outermost first.
Stack == <<"CORS", "RequestID", "RealIP", "Recovery", "AccessLog",
           "Metrics", "Tracing", "Auth", "RateLimit", "PrincipalRateLimit",
           "MaxBodySize", "EndpointTimeout", "Idempotency">>

Position(layer) == CHOOSE i \in DOMAIN Stack : Stack[i] = layer

\* Slip: the log line takes its value from the wrong field.
SeenBy_Path(layer, r) == path[r]

\* A layer that reads the context of the request it was handed sees only
\* what the layers outside it have put there.
SeenBy(layer, r) ==
    IF Position("Auth") < Position(layer) THEN who[r] ELSE Nobody

\* excludedPaths and excludedPrefixes: no API key is asked for.
NeedsKey(p) == p = "api"

\* isInternalPath: no deadline, and the handler runs on the connection's
\* own goroutine.
HasDeadline(p) == p # "internal"

Path == {"api", "public", "internal"}
Conn == {"new", "gates", "inline", "waiting", "draining", "unwind",
         "finished", "gone"}
Doing == {"none", "running", "returned", "panicked"}
Code == {"none", "ok", "error"}

Init ==
    /\ up = TRUE
    /\ path    \in [Request -> Path]
    /\ who     = [r \in Request |-> Nobody]
    /\ conn    = [r \in Request |-> "new"]
    /\ handler = [r \in Request |-> "none"]
    /\ sent    = [r \in Request |-> "none"]
    /\ logged  = [r \in Request |-> "none"]

Goto(r, at) == conn' = [conn EXCEPT ![r] = at]

\* WriteHeader: the first status goes out, later ones are ignored.
Send(r, code) ==
    sent' = IF sent[r] = "none" THEN [sent EXCEPT ![r] = code] ELSE sent

----------------------------------------------------------------------------

\* Auth: who[r] is the principal, Nobody if the key is missing or wrong.
Arrive(r, p) ==
    /\ up /\ conn[r] = "new"
    /\ NeedsKey(path[r]) \/ p = Anonymous
    /\ who' = [who EXCEPT ![r] = p]
    /\ Goto(r, "gates")
    /\ UNCHANGED <<up, path, handler, sent, logged>>

\* 401 from Auth, or 429 from a limiter, which guards every path alike.
Reject(r) ==
    /\ up /\ conn[r] = "gates"
    /\ Send(r, "error")
    /\ Goto(r, "unwind")
    /\ UNCHANGED <<up, path, who, handler, logged>>

\* EndpointTimeout: call the handler, or start it and wait.
Dispatch(r) ==
    /\ up /\ conn[r] = "gates"
    /\ who[r] # Nobody
    /\ handler' = [handler EXCEPT ![r] = "running"]
    /\ Goto(r, IF HasDeadline(path[r]) THEN "waiting" ELSE "inline")
    /\ UNCHANGED <<up, path, who, sent, logged>>

\* The handler's own steps.
HandlerWrites(r, code) ==
    /\ up /\ handler[r] = "running"
    /\ Send(r, code)
    /\ UNCHANGED <<up, path, who, conn, handler, logged>>

\* A handler that returns without writing has sent 200.
HandlerReturns(r) ==
    /\ up /\ handler[r] = "running"
    /\ handler' = [handler EXCEPT ![r] = "returned"]
    /\ Send(r, "ok")
    /\ UNCHANGED <<up, path, who, conn, logged>>

\* A panic unwinds the goroutine it happens on.  Recovery stands on the
\* connection's: it turns the panic into a 500, and the layers inside it
\* never finish.  Elsewhere nothing recovers, and the runtime ends the
\* process.
HandlerPanics(r) ==
    /\ up /\ handler[r] = "running"
    /\ handler' = [handler EXCEPT ![r] = "panicked"]
    /\ IF HasDeadline(path[r])
       THEN /\ up' = FALSE
            /\ conn' = [q \in Request |-> IF conn[q] \in {"new", "finished"}
                                          THEN conn[q] ELSE "gone"]
            /\ UNCHANGED sent
       ELSE /\ Send(r, "error")
            /\ Goto(r, "finished")
            /\ UNCHANGED up
    /\ UNCHANGED <<path, who, logged>>

\* ctx.Done(): the deadline passed or the client went away.  The select
\* leaves the wait for the handler to the `<-done` after it.
Expire(r) ==
    /\ up /\ conn[r] = "waiting"
    /\ Goto(r, "draining")
    /\ UNCHANGED <<up, path, who, handler, sent, logged>>

\* Slips: the deadline ends the wait, or the wait after it is forgotten.
HandlerDone_AtDeadline(r) ==
    \/ conn[r] = "draining"
    \/ conn[r] \in {"inline", "waiting"} /\ handler[r] = "returned"
HandlerDone_InTime(r) ==
    conn[r] \in {"inline", "waiting"} /\ handler[r] = "returned"

\* Whether the connection's goroutine may go on past EndpointTimeout.
HandlerDone(r) ==
    /\ conn[r] \in {"inline", "waiting", "draining"}
    /\ handler[r] = "returned"

Join(r) ==
    /\ up /\ HandlerDone(r)
    /\ Goto(r, "unwind")
    /\ UNCHANGED <<up, path, who, handler, sent, logged>>

\* AccessLog, on the way out; then net/http takes the ResponseWriter back.
Log(r) ==
    /\ up /\ conn[r] = "unwind"
    /\ logged' = [logged EXCEPT ![r] = SeenBy("AccessLog", r)]
    /\ Goto(r, "finished")
    /\ UNCHANGED <<up, path, who, handler, sent>>

Gate(r)   == Reject(r) \/ Dispatch(r)
Unwind(r) == Join(r) \/ Log(r)

Next ==
    \E r \in Request :
        \/ \E p \in Principal \cup {Nobody} : Arrive(r, p)
        \/ Gate(r)
        \/ \E code \in {"ok", "error"} : HandlerWrites(r, code)
        \/ HandlerReturns(r)
        \/ HandlerPanics(r)
        \/ Expire(r)
        \/ Unwind(r)

Spec == Init /\ [][Next]_vars

\* A handler whose context was cancelled gives up in the end: it passes the
\* context to every call it waits for.  One that was not need not return.
Cancelled(r) == conn[r] = "draining"

Fairness ==
    \A r \in Request :
        /\ WF_vars(Gate(r))
        /\ WF_vars(Expire(r))
        /\ WF_vars(Cancelled(r) /\ HandlerReturns(r))
        /\ WF_vars(Unwind(r))

FairSpec == Spec /\ Fairness

----------------------------------------------------------------------------

\* Every variable holds a value of its type.
TypeOK ==
    /\ up      \in BOOLEAN
    /\ path    \in [Request -> Path]
    /\ who     \in [Request -> Principal \cup {Nobody}]
    /\ conn    \in [Request -> Conn]
    /\ handler \in [Request -> Doing]
    /\ sent    \in [Request -> Code]
    /\ logged  \in [Request -> Principal \cup {Nobody, "none"}]

\* While a handler runs, the connection's goroutine has not given the
\* ResponseWriter back: EndpointTimeout waits for `done` even after the
\* deadline, so a handler that finds out late writes to a live response.
WriterIsAlive ==
    \A r \in Request : up /\ handler[r] = "running" =>
        conn[r] \in {"inline", "waiting", "draining"}

\* A request with a deadline ends, though its handler may never return of
\* its own accord, unless the process dies first.
DeadlineEndsRequest ==
    \A r \in Request :
        conn[r] = "waiting" ~> conn[r] \in {"finished", "gone"}

\* recovery.go: "It wraps the entire handler chain so no panic escapes".
NoPanicEscapes == up

=============================================================================
