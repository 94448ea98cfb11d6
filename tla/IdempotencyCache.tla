-------------------------- MODULE IdempotencyCache --------------------------
(***************************************************************************)
(* The Idempotency-Key middleware of internal/middleware/idempotency.go: a *)
(* map from keys to cached responses that lives in the server's memory,    *)
(* looked up before the handler runs and filled after it has returned, and *)
(* a background goroutine that sweeps expired entries.                     *)
(*                                                                         *)
(* The map is a sync.Map: a Load, a Store and a Delete are atomic, and     *)
(* nothing is held between them, so each is an action of its own.  A       *)
(* request stores at most one *cachedResponse, which is never changed      *)
(* after it was stored; it is identified with the request that made it.    *)
(* The wrapped handler is external here: it returns one of the codes.      *)
(***************************************************************************)
EXTENDS Naturals

CONSTANTS
    Request,      \* POST requests to a path the middleware covers
    Key,          \* values of the Idempotency-Key header
    NoKey,        \* the header is missing or empty
    NoEntry,      \* the map has no value for a key
    Code,         \* what a handler can answer
    NoCode,       \* no answer yet
    TTL,          \* cfg.TTL
    MaxTime,      \* bound: the clock stops here
    MaxRestarts   \* bound: how many times the process dies and comes back

ASSUME CacheAssumption ==
    /\ NoKey \notin Key
    /\ NoEntry \notin Request
    /\ NoCode \notin Code
    /\ TTL \in Nat \ {0}
    /\ MaxTime \in Nat
    /\ MaxRestarts \in Nat

VARIABLES
    now,         \* time.Now()
    pc,          \* Request -> where the middleware is
    key,         \* Request -> its Idempotency-Key
    answer,      \* Request -> the code written to its client
    held,        \* Request -> the cached response its lookup returned
    entries,     \* Key -> the cached response in the map
    savedCode,   \* Request -> statusCode of the response it cached
    expiresAt,   \* Request -> expiresAt of it, 0 if none in this process
    cutoff,      \* the reaper's clock reading for its last sweep
    todo,        \* keys the sweep has still to visit
    fresh,       \* observer: keys stored since the sweep began
    victim,      \* the key the sweep is about to delete
    restarts     \* how many times the process has died

requestVars == <<pc, key, answer, held>>
cacheVars   == <<entries, savedCode, expiresAt>>
reaperVars  == <<cutoff, todo, fresh, victim>>
vars        == <<now, pc, key, answer, held, entries, savedCode, expiresAt,
                 cutoff, todo, fresh, victim, restarts>>

Stage == {"new", "load", "check", "serve", "store", "publish",
          "done", "lost"}

Init ==
    /\ now       = 0
    /\ pc        = [r \in Request |-> "new"]
    /\ key       = [r \in Request |-> NoKey]
    /\ answer    = [r \in Request |-> NoCode]
    /\ held      = [r \in Request |-> NoEntry]
    /\ entries   = [k \in Key |-> NoEntry]
    /\ savedCode = [r \in Request |-> NoCode]
    /\ expiresAt = [r \in Request |-> 0]
    /\ cutoff    = 0
    /\ todo      = {}
    /\ fresh     = {}
    /\ victim    = NoKey
    /\ restarts  = 0

----------------------------------------------------------------------------

Goto(r, stage) == pc' = [pc EXCEPT ![r] = stage]

\* Slips: a response expires a tick early, or a TTL late.
Expired_Early(q, t) == t >= expiresAt[q]
Expired_Late(q, t)  == t > expiresAt[q] + TTL

\* Whether t is after the expiry of the response that q cached.
Expired(q, t) == t > expiresAt[q]

\* Slips: the recorder misses WriteHeader and keeps its default, or has none.
Recorded_Default(r) == CHOOSE c \in Code : TRUE
Recorded_Zero(r)    == 0

\* What the response recorder hands to the cache: the handler's own status.
Recorded(r) == answer[r]

\* A request without a key goes straight to the handler.
Arrive(r, k) ==
    /\ pc[r] = "new"
    /\ key' = [key EXCEPT ![r] = k]
    /\ Goto(r, IF k = NoKey THEN "serve" ELSE "load")
    /\ UNCHANGED <<now, answer, held, cacheVars, reaperVars, restarts>>

\* cache.get: Load; then look at the clock and return the response, or
\* Delete the key if the response has expired, whatever it maps to by then.
Load(r) ==
    /\ pc[r] = "load"
    /\ held' = [held EXCEPT ![r] = entries[key[r]]]
    /\ Goto(r, IF entries[key[r]] = NoEntry THEN "serve" ELSE "check")
    /\ UNCHANGED <<now, key, answer, cacheVars, reaperVars, restarts>>

Replay(r) ==
    /\ pc[r] = "check"
    /\ ~ Expired(held[r], now)
    /\ answer' = [answer EXCEPT ![r] = savedCode[held[r]]]
    /\ Goto(r, "done")
    /\ UNCHANGED <<now, key, held, cacheVars, reaperVars, restarts>>

DropExpired(r) ==
    /\ pc[r] = "check"
    /\ Expired(held[r], now)
    /\ entries' = [entries EXCEPT ![key[r]] = NoEntry]
    /\ held'    = [held EXCEPT ![r] = NoEntry]
    /\ Goto(r, "serve")
    /\ UNCHANGED <<now, key, answer, savedCode, expiresAt, reaperVars, restarts>>

\* next.ServeHTTP returns, with any code: failures are cached like the rest.
ServeHTTP(r, c) ==
    /\ pc[r] = "serve"
    /\ answer' = [answer EXCEPT ![r] = c]
    /\ Goto(r, IF key[r] = NoKey THEN "done" ELSE "store")
    /\ UNCHANGED <<now, key, held, cacheVars, reaperVars, restarts>>

\* The response to be cached is made, with the time at which it expires;
\* then cache.set, behind which the clock may have gone on.  The middleware
\* then returns, and the buffered answer goes out.
Record(r) ==
    /\ pc[r] = "store"
    /\ savedCode' = [savedCode EXCEPT ![r] = Recorded(r)]
    /\ expiresAt' = [expiresAt EXCEPT ![r] = now + TTL]
    /\ Goto(r, "publish")
    /\ UNCHANGED <<now, key, answer, held, entries, reaperVars, restarts>>

Publish(r) ==
    /\ pc[r] = "publish"
    /\ entries' = [entries EXCEPT ![key[r]] = r]
    /\ fresh'   = fresh \cup {key[r]}
    /\ Goto(r, "done")
    /\ UNCHANGED <<now, key, answer, held, savedCode, expiresAt,
                   cutoff, todo, victim, restarts>>

----------------------------------------------------------------------------

\* cache.reap: read the clock once, Range over the map, and Delete every key
\* whose value had expired when it was visited.  Value and Delete are two
\* steps, and a key may have been stored anew in between.
ReapBegin ==
    /\ todo = {} /\ victim = NoKey
    /\ cutoff' = now
    /\ todo'   = {k \in Key : entries[k] # NoEntry}
    /\ fresh'  = {}
    /\ UNCHANGED <<now, requestVars, cacheVars, victim, restarts>>

ReapVisit(k) ==
    /\ victim = NoKey
    /\ k \in todo
    /\ todo'   = todo \ {k}
    /\ victim' = IF entries[k] # NoEntry /\ Expired(entries[k], cutoff)
                 THEN k ELSE NoKey
    /\ UNCHANGED <<now, requestVars, cacheVars, cutoff, fresh, restarts>>

ReapDelete ==
    /\ victim # NoKey
    /\ entries' = [entries EXCEPT ![victim] = NoEntry]
    /\ victim'  = NoKey
    /\ UNCHANGED <<now, requestVars, savedCode, expiresAt, cutoff, todo, fresh,
                   restarts>>

----------------------------------------------------------------------------

Tick ==
    /\ now < MaxTime
    /\ now' = now + 1
    /\ UNCHANGED <<requestVars, cacheVars, reaperVars, restarts>>

\* The process dies (or is replaced by another replica): the map was memory.
Restart ==
    /\ restarts < MaxRestarts
    /\ restarts'  = restarts + 1
    /\ pc'        = [r \in Request |-> IF pc[r] \in {"new", "done"}
                                       THEN pc[r] ELSE "lost"]
    /\ entries'   = [k \in Key |-> NoEntry]
    /\ expiresAt' = [r \in Request |-> 0]
    /\ cutoff'    = 0
    /\ todo'      = {}
    /\ fresh'     = {}
    /\ victim'    = NoKey
    /\ UNCHANGED <<now, key, answer, held, savedCode>>

Lookup(r) == Load(r) \/ Replay(r) \/ DropExpired(r)
Run(r)    == (\E c \in Code : ServeHTTP(r, c)) \/ Record(r) \/ Publish(r)
Handle(r) == Lookup(r) \/ Run(r)
Reap      == ReapBegin \/ (\E k \in Key : ReapVisit(k)) \/ ReapDelete

Next ==
    \/ \E r \in Request, k \in Key \cup {NoKey} : Arrive(r, k)
    \/ \E r \in Request : Handle(r)
    \/ Reap
    \/ Tick
    \/ Restart

Spec == Init /\ [][Next]_vars

\* Handlers return, and the reaper's ticker keeps firing.
Fairness ==
    /\ \A r \in Request : WF_vars(Handle(r))
    /\ WF_vars(Reap)

FairSpec == Spec /\ Fairness

\* A client that sends a retry only after the attempt before has ended in
\* the server: no two requests with one key are under way.  It is more than
\* a client can see, for a handler goes on after its connection has broken.
InTurn(r, k) ==
    \A q \in Request : q # r /\ key[q] = k /\ k # NoKey =>
        pc[q] \in {"done", "lost"}

SerialNext ==
    \/ \E r \in Request, k \in Key \cup {NoKey} : InTurn(r, k) /\ Arrive(r, k)
    \/ \E r \in Request : Handle(r)
    \/ Reap
    \/ Tick
    \/ Restart

SerialSpec == Init /\ [][SerialNext]_vars

----------------------------------------------------------------------------

\* Every variable holds a value of its type.
TypeOK ==
    /\ now       \in 0 .. MaxTime
    /\ pc        \in [Request -> Stage]
    /\ key       \in [Request -> Key \cup {NoKey}]
    /\ answer    \in [Request -> Code \cup {NoCode}]
    /\ held      \in [Request -> Request \cup {NoEntry}]
    /\ entries   \in [Key -> Request \cup {NoEntry}]
    /\ savedCode \in [Request -> Code \cup {NoCode}]
    /\ expiresAt \in [Request -> Nat]
    /\ cutoff    \in 0 .. MaxTime
    /\ todo      \in SUBSET Key
    /\ fresh     \in SUBSET Key
    /\ victim    \in Key \cup {NoKey}
    /\ restarts  \in 0 .. MaxRestarts

\* A replayed answer is one that a request with the same key really got from
\* the handler, code and all, however lookups, stores, sweeps and restarts
\* interleave: the cache never crosses keys and never replays a response
\* whose handler had not finished.
ReplayIsFaithful ==
    \A r \in Request : pc[r] = "done" /\ held[r] # NoEntry =>
        LET q == held[r] IN
        /\ key[q] = key[r] /\ key[r] # NoKey
        /\ held[q] = NoEntry
        /\ answer[q] # NoCode /\ answer[r] = answer[q]

\* A response stored in this process is still found unless some response
\* stored for the same key has already expired: neither get's Delete nor the
\* reaper's, with the check and the Delete apart, can lose a first response
\* early.
NoLossBeforeExpiry ==
    \A q \in Request :
        pc[q] = "done" /\ expiresAt[q] # 0 /\ entries[key[q]] = NoEntry =>
            \E p \in Request :
                /\ pc[p] = "done" /\ key[p] = key[q]
                /\ expiresAt[p] # 0 /\ expiresAt[p] < now

\* What the sweep has passed is clean: every entry still in the map, but for
\* keys not visited yet and those stored behind its back (whose expiry may
\* have been reckoned long before), expires no earlier than the sweep's clock
\* reading.
SweptIsClean ==
    \A k \in Key \ (todo \cup fresh \cup {victim}) :
        entries[k] # NoEntry => expiresAt[entries[k]] >= cutoff

\* An expired entry does not stay: the sweep, a lookup, a new response or a
\* restart removes it, so the map does not grow without bound.
ExpiredIsRemoved ==
    \A k \in Key, q \in Request :
        (entries[k] = q /\ now > expiresAt[q]) ~> entries[k] # q

=============================================================================
