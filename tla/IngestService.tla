---------------------------- MODULE IngestService ----------------------------
(***************************************************************************)
(* POST /v1/documents as a client sees it: the idempotency middleware in   *)
(* front of the ingest handler, sharing one process (internal/handler/     *)
(* router.go mounts Idempotency around the document routes).  The handler  *)
(* runs while the middleware is in next.ServeHTTP, and ends it by writing  *)
(* its answer; the process dies under both at once, taking the cache but   *)
(* not the stores.                                                         *)
(***************************************************************************)
EXTENDS Naturals

CONSTANTS Request, Reader, Org, NoOrg, Store, NoStore,
          Key, NoKey, NoEntry, TTL, MaxTime, MaxRestarts

ASSUME ServiceAssumption ==
    /\ NoOrg \notin Org /\ NoStore \notin Store
    /\ NoKey \notin Key /\ NoEntry \notin Request
    /\ TTL \in Nat \ {0}
    /\ MaxTime \in Nat /\ MaxRestarts \in Nat

VARIABLES
    stage, owner, answer, blobs, rows, jobs,   \* IngestHandler, stage is pc
    reading, target, caller,
    now, at, key, sent, held,                  \* IdempotencyCache, at is pc,
    entries, savedCode, expiresAt,             \* sent is answer
    cutoff, todo, fresh, victim,
    restarts                                   \* of the one process

Handler == INSTANCE IngestHandler
    WITH pc <- stage, crashes <- restarts, MaxCrashes <- MaxRestarts

Codes == Handler!Answer \ {"none"}

Cache == INSTANCE IdempotencyCache
    WITH pc <- at, answer <- sent, Code <- Codes, NoCode <- "none"

handlerVars == <<stage, owner, answer, blobs, rows, jobs,
                 reading, target, caller>>
cacheVars   == <<now, at, key, sent, held, entries, savedCode, expiresAt,
                 cutoff, todo, fresh, victim>>
vars        == <<handlerVars, cacheVars, restarts>>

Init == Handler!Init /\ Cache!Init

----------------------------------------------------------------------------

\* The middleware on its own: arrival, lookup, replay, store.
Middleware(r) ==
    /\ Cache!Lookup(r) \/ Cache!Record(r) \/ Cache!Publish(r)
    /\ UNCHANGED handlerVars

Enter(r, k) == Cache!Arrive(r, k) /\ UNCHANGED handlerVars

\* The handler, inside next.ServeHTTP: a step that answers is the one with
\* which ServeHTTP returns.
HandlerStep(r) ==
    /\ at[r] = "serve"
    /\ Handler!Arrive(r) \/ Handler!Serve(r)
    /\ IF stage'[r] = "answered" THEN Cache!ServeHTTP(r, answer'[r])
                                 ELSE UNCHANGED cacheVars

\* Everything else that changes the stores.  A download only reads them, and
\* has no part in this composition (DocumentReads has the readers).
StoreStep ==
    /\ \/ \E r \in Request : Handler!Work(r)
       \/ \E r \in Request, scope \in Handler!Scope(Org) :
             Handler!DeleteDocument(r, scope)
    /\ UNCHANGED cacheVars

CacheUpkeep == (Cache!Reap \/ Cache!Tick) /\ UNCHANGED handlerVars

Restart == Handler!Crash /\ Cache!Restart

Steps ==
    \/ \E r \in Request : Middleware(r) \/ HandlerStep(r)
    \/ StoreStep
    \/ CacheUpkeep
    \/ Restart

Next == Steps \/ \E r \in Request, k \in Key \cup {NoKey} : Enter(r, k)

Spec == Init /\ [][Next]_vars

\* Clients that send a retry only when the attempt before has ended.
SerialNext ==
    \/ Steps
    \/ \E r \in Request, k \in Key \cup {NoKey} :
          Cache!InTurn(r, k) /\ Enter(r, k)

SerialSpec == Init /\ [][SerialNext]_vars

----------------------------------------------------------------------------

\* The document a client was told about: that of the execution whose answer
\* it got, its own or a replayed one.
Told(r) == IF held[r] = NoEntry THEN r ELSE held[r]

\* A 202 names a durable document even when it is replayed, after any number
\* of lookups, sweeps, deletes and worker steps, and to a client whose own
\* request never reached the handler.
AcceptedAnswerIsDurable ==
    \A r \in Request : at[r] = "done" /\ sent[r] = "accepted" =>
        /\ Told(r) \in blobs
        /\ rows[Told(r)] # "none"
        /\ jobs[Told(r)] # "none"

\* router.go: "cache POST /v1/documents responses by Idempotency-Key header
\* to prevent duplicate ingestion".  No two rows come from one key.  Requests
\* that overlap, and a crash in the middle of an attempt, break it.
NoDuplicateIngestion ==
    \A q, r \in Request :
        /\ q # r /\ key[q] = key[r] /\ key[r] # NoKey
        => rows[q] = "none" \/ rows[r] = "none"

\* What of it holds when retries wait for the attempt before them: within
\* one life of the process and one TTL a key is ingested once, although rows
\* are inserted long before the response is cached and attempts may fail
\* after their row was inserted.
RetriesIngestOnce == restarts = 0 /\ now <= TTL => NoDuplicateIngestion

=============================================================================
