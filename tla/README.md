# vectorless-server: specifications and proofs

TLA+ modules of the transport server in `src/`: the HTTP and Connect API over
the `vectorless-engine` library, its middleware stack and its process. The
engine is another repository; what this server relies on it for (storage,
database, queue, ingest pipeline, retrieval strategies) is modelled from how
`src/` uses it and marked external in `PROJECT.json`.

## Inventory

| Component | State it keeps | Operations | Interacts with | Hard behaviour | What makes it correct |
|---|---|---|---|---|---|
| Document ingestion (`handler/documents.go`, `connecthandler/documents.go`) | none of its own: bytes in blob storage, a row in the database, a job in the queue | ingest (multipart, JSON, Connect) | queue worker, deletes, downloads | three writes, no transaction; failure or crash after each | a 202 names a document that is stored, inserted and queued, and is processed in the end |
| Document reads and delete (same files) | none; a client keeps the cursor of its walk | list, get, tree, source, section, delete | ingestion, pipeline | reads of two steps and walks of many, racing deletes, the pipeline, redeliveries and restarts; a cursor that is a bare time | a row that was found can be read; a ready document has sections; a walk misses nothing it could know of and repeats nothing |
| Idempotency (`middleware/idempotency.go`) | a `sync.Map` of responses, in memory | lookup, store, sweep | wraps the ingest handler | lookup, handler and store are separate; a sweep decides on old values; restarts forget | replays are faithful; nothing is lost early; retries run once |
| Global limiter (`middleware/ratelimit.go`) | tokens, `last` | `allow` | every request; clients that retry | integer refill with a clock that always advances | a window admits a full bucket and its accrual; a bucket refills when time passes |
| Per-principal limiter (`ratelimit_principal.go`) | a map of buckets | get, allow, reap | the bucket above | the reaper removes a bucket that a request holds | each principal has the bucket it would have without a reaper |
| Middleware stack (`router.go`, `auth.go`, `governance.go`, `recovery.go`, `logging.go`) | per-request context, writer, goroutine | authenticate, limit, dispatch, deadline, recover, log | all handlers | the handler's own goroutine, panics, late writes | no handler outlives its response; deadlines end requests |
| Queries and streams (`handler/query*.go`, `connecthandler/query*.go`) | events channel, response buffer | query, stream, for one or many documents | retrieval goroutines | failures, disconnects, blocked sends, buffering | streams tell every end and cover the query's answer; a 200 tells of every document; no goroutine is left |
| Queue webhook (`webhook.go`) | none | verify, dispatch, acknowledge | QStash | redelivery, lost answers, a drain or a crash in a job | what QStash hears is what became of the job |
| Process (`cmd/server/main.go`) | subsystems, deferred calls, `errs` channel | build, listen, fail, signal, drain, close | everything | a failure at any step, signals at any time, drain timeout, error sends | nothing is closed under a request before the drain is over; a SIGTERM loses no request; the process ends, unless the pool waits for a handler that has no deadline |
| Configuration (`config/config.go`) | none | default, file, environment, validate | start-up | layering, ignored values, validation of the result | precedence env > file > default; what is used was validated |
| Metrics, tracing, CORS, RequestID, RealIP, health, helpers | counters, headers | observe, decorate | the stack | - | - |
| Generated code, benchmark client | - | - | - | - | - |

A request passes CORS, RequestID, RealIP, Recovery, AccessLog, Metrics,
Tracing, Auth, the limiters, MaxBodySize, EndpointTimeout and Idempotency, then
a handler. Handlers call storage, database, queue and retrieval. The queue's
workers run the ingest pipeline in the same process (or are driven through the
webhook), so a crash takes requests, cache, buckets and jobs in hand together,
and leaves the stores.

`PROJECT.json` lists the hazards of this code, each at its line.

## The modules

| Module | Models | Built on |
|---|---|---|
| `IngestHandler` | ingest, delete and source download, the worker, crashes | |
| `DocumentReads` | the other reads, and the walk through the list | `IngestHandler` |
| `IngestHandlerProofs` | theorems of the ingest handler | `IngestHandler`, `TLAPS` |
| `DocumentReadsProofs` | theorems of the other reads | `DocumentReads`, `IngestHandlerProofs` |
| `IdempotencyCache` | the middleware, its map, reaper and restarts | |
| `IdempotencyCacheProofs` | its theorems | `IdempotencyCache`, `TLAPS` |
| `OnceEndpoint` | abstract: a key runs once, all get its answer | |
| `IdempotentRetries` | the cache implements `OnceEndpoint` for retries in turn | `IdempotencyCache`, `OnceEndpoint` |
| `IdempotentRetriesProofs` | the proof of that | `IdempotentRetries`, `IdempotencyCacheProofs` |
| `IngestService` | cache and handler composed in one process | `IngestHandler`, `IdempotencyCache` |
| `IngestServiceProofs` | its theorem, from those of its parts | `IngestService`, `IngestHandlerProofs`, `IdempotencyCacheProofs` |
| `TokenBucket` | the bucket, and an observer that counts admissions in a window | |
| `RetryingClients` | clients that obey Retry-After | `TokenBucket` |
| `PrincipalLimiter` | the map of buckets, the reaper | `TokenBucket`, as the bucket and as the promise |
| `PrincipalLimiterProofs` | theorems of the bucket and of the map, the refinement among them | `PrincipalLimiter`, `TLAPS` |
| `RequestPipeline` | the way of a request through the stack | |
| `QueryApi` | queries, streams, the strategy's goroutines, the response buffer | |
| `QueryApiProofs` | its theorems | `QueryApi`, `TLAPS` |
| `ConfigLoad` | the configuration: layers, precedence, validation | |
| `ServerLifecycle` | the process around the requests | `RequestPipeline`, `ConfigLoad` |
| `WebhookDelivery` | the queue webhook and QStash in that process | `ServerLifecycle` |
| `WebhookDeliveryProofs` | theorems about stack, process, configuration and webhook | `WebhookDelivery`, `TLAPS` |

`MC*.tla` with `MC*.cfg` are the instances for TLC.

### IngestHandler

A request is identified with the document it creates, because
`ingest.NewDocumentID()` is fresh in every execution. `pc` is the position in
the handler: `put` before `storage.Put`, `insert` before `db.NewDocument`,
`enqueue` before `queue.Enqueue`, `respond` before the answer. `After` is the
order of the three writes. Each write has an action that succeeds and one that
fails; a failed call may still have had its effect, since a deadline can expire
after the store has committed. `Refusal` is the checks before the first write,
in their order, for the four ways a body can arrive. `DeleteDocument` removes
the row and leaves the bytes. A download is `FindRow` then `OpenSource`.
`StartJob`, `Summarize`, `FinishJob` are the external pipeline as far as the
status values of `openapi.yaml` show it. A job that has ended is not yet
acknowledged (`ended`): `AckJob` is the acknowledgement, `Unacknowledged` one
that is lost or says that the job failed, after which the queue delivers it
again, although the document may be ready by then. `Crash` ends everything in
the process, and `Redelivered` is what becomes of the jobs its worker had.

`owner` and `caller` are organisation and store. A document without a store is
in none; a reader without one sees the whole organisation (`Visible`).

When the enqueue fails the client is told 500, and a `pending` row without a job
stays behind, which nothing will process. `AcceptedIsDurable` says only that
nobody is told 202 for it.

### DocumentReads

`op` is what a reader asks for. `GetRow` and `CountSections` are
HandleGetDocument's two calls (`metadata`); Connect's GetDocument (`document`)
reads the row and never counts. `FindRow` and `OpenSource` (of `IngestHandler`)
are the download's, `GetSection` and `FetchContent` those for a section, where a
content that cannot be read is answered as an empty one. `ListPage` is one
request of a walk: `cursor` is all that the client brings back, and between two
pages nothing of the walk is in the server. `Matching` is what the list is of:
the caller's organisation, its store if it names one, and the status it asks for
(`wanted`), so that the pipeline moves documents into and out of a list while it
is walked. What the database does (newest first, created before the cursor,
`limit` rows) is external and kept as a contract: `Pages` is the set of answers
it may give. `born` is `created_at`; rows may share one, and a later row may have
an earlier one, as two replicas' clocks would give it. Which sections a count may
find follows the pipeline's status (`SectionsOf`).

`Printed` and `Parsed` are the two ends of `next_cursor`. RFC3339Nano loses
nothing. A cursor that does not parse (a `+` of its offset that was not escaped
in the URL becomes a blank) is ignored without an error and the walk starts over
(`documents.go:90`, `connecthandler/documents.go:178`); `turns` records the
cursors that were sent, and that one was garbled.

The cursor is a bare `created_at` and does not say which of the rows that share
it have been seen. Rows that tie with the last one of a page are therefore
skipped by the next. `WalkMissesNothing` names them as its one exception: a
document that matched from the first page to the last has been seen unless its
`created_at` is that of a cursor the client sent. `WalkGoesForward`, no document
twice and none newer than one before it, is about walks without a garbled cursor.

`steady` (what has matched ever since the walk's first page) and `left` (the row
read as ready has left that status since) are observers. `ReadyHasSections` needs
the second: between the read of the row and the count a delete or a redelivered
job can take the sections away, and the client is then told "ready" with none.

### IdempotencyCache, OnceEndpoint, IdempotentRetries, IngestService

`Load`, the clock comparison with `Replay` or `DropExpired`, `ServeHTTP`,
`Record` (the response is made, with the time at which it expires) and `Publish`
are the middleware's steps; nothing is locked between them, and `sync.Map` makes
each of them atomic. The time goes on between `Record` and `Publish` too, so
that a response may be stored that has expired already. `fresh` is an observer:
the keys stored since the sweep began. `SweptIsClean` says of all others that a
sweep leaves nothing behind that had expired when it began. `get` deletes the
*key* when the *value it loaded* has expired, whatever the key maps to by then,
and so does the reaper, whose visit and Delete are two steps. Failures are
cached like successes. `Recorded` is what the response recorder passes on.

`OnceEndpoint` is the promise. It does not hold of the middleware in general:
requests that overlap both run, a restart forgets, and so does expiry. Under
`SerialSpec` (a retry comes when the attempt before has ended in the server, which
is more than a client can see, for a handler goes on after its connection has
broken), with
`MaxTime <= TTL` and no restart, `IdempotentRetries` maps the cache to it: the
memo of a key is the status in its entry, and an answer counts when it has left
the middleware.

`IngestService` puts the ingest handler where `ServeHTTP` is. The step with
which the handler answers is the one with which `ServeHTTP` returns, and
`Restart` is the crash of the one with the loss of the other. Downloads only read
the stores and have no part in it.

### TokenBucket, RetryingClients

`allow()` holds the bucket's mutex and reads the clock inside, so it is one
action, `Admit` or `Deny`. Time is in ticks, `Minute` of them to a minute;
`idle` is the time since `last`, kept up to a minute, after which the bucket is
full whatever the exact value. `Refill` is `int(elapsed * rate)`. The observer
(`window`, `age`, `admitted`) is not in the code; it opens and closes windows
anywhere. `RetryingClients` adds clients that send a denied request again when
its Retry-After (always one second) is over. `SomebodyIsAdmitted` says that they
are not all denied for ever. It asks nothing for a single client, whom the others
may starve with any bucket, and it holds for a bucket that keeps the fraction of
a token.

### PrincipalLimiter

`Get` is `store.get` under the map's mutex, `Allow` is `bucket.allow` under the
bucket's; between them the goroutine holds a pointer. `Reap` is one turn of the
reaper's loop, which holds both mutexes. Every bucket object is a `TokenBucket`
(`Own(b)`, an INSTANCE), and the variables of the `TokenBucket` that the module
extends are those of an observer: the bucket that one principal, `Watched`,
would have if none were ever removed. `OwnBucket` says that the calls of this
principal through the map are a behaviour of it. The reason is that the interval
(ten minutes) is longer than a bucket takes to fill, so that a removed bucket
and the new one in its place are both full.

The race the interval does not cover is a *stray*: a goroutine that has fetched
a bucket, sees it removed, and calls it when the next request already has a new
one. It is counted apart, and `StraysAreFew` bounds it. It is the bucket that must have
been idle for an interval, not the goroutine that must have waited one: `get` may
come just before the reaper's turn and `allow` just after it. But the removals of
one principal's bucket are more than an interval apart, and each makes a stray of
a goroutine at most once, so a goroutine has at most two in a window and one more
per interval.

### RequestPipeline

`conn` is the goroutine net/http runs the connection on, `handler` the one that
EndpointTimeout starts (or, under `/internal/`, the same one). `Stack` is the
order of the layers, and `SeenBy` what a layer can read of the context: only
what layers outside it have put there. `HandlerPanics` unwinds the goroutine it
happens on: with Recovery on it, the request ends with a 500, without, the
process ends. `HandlerDone` is the `select` with the `<-done` after it.

The access log's fields are modelled with it. AccessLog stands outside of Auth,
so its `principal_id` is always empty although `logging.go:34` asks for the
opposite order, and it stands inside of Recovery and logs after the handler has
returned, so that a recovered panic leaves no line.

### QueryApi

Eight handlers are two shapes (query, stream), two forms (one document, many)
and two transports. `run` and `picks` are the external strategy on each
document; it names IDs, not always IDs of the tree. `chan` is the channel it
fills, `wire` what the handler has written, `visible` how much of that has left
the ResponseWriter. `Known` is the loop that skips the IDs `FindByID` does not
know, written as a recursive function (`Kept`), `Returned` has the two orders of
capping and skipping, `Shown` what each of the four streams puts into an event.
A query ends with a `code`. On one document, 200 with its sections, or 500 when
the strategy has failed or was stopped by the deadline. On many, 200 with the
sections of the documents that were answered and the others among the `errors`;
or 500 for the whole, whenever the engine's `MultiDoc.Query` returns an error.
`EveryEndIsTold` has a half for each shape: a stream whose client stays is told
the end of every run, and a 200 tells of every document that was asked about, in
its sections or among the errors and never in both.

Not distinguished: the budget and its defaults, token usage, slice events, the
reason for a refusal, and the content of a section, which is best effort
everywhere.

The order of capping and skipping differs: a query on one document caps first, so
that an ID the strategy made up takes a place of the answer, and one on many skips
first (`query.go:131`, `query_multi.go:121`). `Returned` follows the code in both,
so that no property is violated by the difference.

The streams do not look at `max_sections` although they take the same request
(`query.proto:83`), so they may send more than the query returns.

### ConfigLoad

A configuration is a function from settings to strings. `Load` is the defaults,
overwritten by the file (`Read`), overwritten by the environment (`Override`),
then validated. A setting is in one of six classes by the way `config.go` reads
it: forwarded to the engine (`VLS_` before `VLE_`), text, flag, number, list, or
from the file only. A flag is on for exactly `true` and `1`, so that `TRUE` turns
it off; a `VLS_RATE_LIMIT_RPM` that is no positive number is passed over in
silence. `ByPrecedence` is the package comment's order as a definition of its
own. The storage settings `docker-compose.yml` sets for S3 (`VLE_STORAGE_S3_*`)
are read by nothing in `src/`.

### ServerLifecycle

`main` is where `run()` is: at `load`, at one of the builders (`Building`), in
its `select`, in `srv.Shutdown` (`shutdown` closes the listener, `drain` waits),
in the deferred calls (`close`), or gone. `deferred` is the stack of closers;
`Close` runs the last one. `workers` and `httpd` are the two goroutines, `errs`
the number of errors in the channel. `ctx` and `catching` are the context of
`signal.NotifyContext`: a signal ends it, until `stop()`, which run() calls when
a subsystem has failed, gives the signals back, so that one more kills. `Enter`
lets a request in while the listener is open, with the principal the configured
`auth_mode` gives it; from there on it is `RequestPipeline`'s.

A role other than `server`, misspelt ones included, runs workers only
(`main.go:177`). After a subsystem has failed the process drains, closes and
exits with status 0 (`status = "ok"`), as for a signal. The defaults of the drain
timeout (15 s) and of a query's (120 s) let a query outlive the drain; the
properties about drains end with the timeout.

`Close` runs the deferred call that is due. `pool.Close` waits for the connections
that are out at that moment: a handler that still runs or the queue's workers may
have one (`Borrowed`), or not, so the call may return at any time, but it is only
bound to when none can be out (`Returns`). A handler with a deadline returns in the
end, the workers do when their context is done, and one under `/internal/` owes
nothing. After a drain timeout such a handler can keep the process for ever
(`HeldUp`), and `StopsWhenAsked` says that nothing else can.

### WebhookDelivery

Requests with an internal path are the deliveries of one job. QStash is
external: it makes one attempt at a time and stops at a 2xx. `RefuseDelivery`
stands for all checks before the dispatch, `DispatchJob` begins the pipeline's
handler on the request's own goroutine, `JobEnds` is its outcome with the answer
that goes with it (`Verdict`: 204, or 404 and 500). `HearNothing` is an answer
that does not arrive. It need not be the network's fault: there is no deadline
under `/internal/` because a job can take many minutes (`governance.go:67`), but
the server's `write_timeout`, two minutes by default, holds for these responses
too (`main.go:193`), so a long job is done and its 204 is lost; QStash then
delivers it again. `RunsAgainForAReason` says that nothing else makes it.

## What the runs check

| Run | Instance | Shows |
|---|---|---|
| `ingest` | `DocumentReads`: 2 requests, 1 reader of any kind, 2 organisations, 1 store or none, any status asked for or `ready`, pages of 1, 2 values of `created_at`, 1 crash | `AcceptedIsDurable`, `JobHasDocument`, `FoundIsReadable`, `WalkMissesNothing`, `WalkGoesForward`, `ReadyHasSections`, and with fairness `AcceptedIsProcessed` |
| `cache` | 3 requests, 1 key, TTL 1, time to 2, 1 restart | `ReplayIsFaithful`, `NoLossBeforeExpiry`, `SweptIsClean`, and with fairness `ExpiredIsRemoved` |
| `retries` | 3 requests, 2 keys, one TTL | `ImplementsOnce` |
| `service` | 2 requests in turn, 1 key, time to 2, 1 restart | `AcceptedAnswerIsDurable` through replays, `RetriesIngestOnce` |
| `service_overlap` | the same, not in turn | violates `NoDuplicateIngestion` |
| `bucket` | `PrincipalLimiter`: 2 principals, 2 goroutines, 5 bucket objects, 3 tokens, 4 ticks to the minute, an interval of 5, windows of up to 6 | `WindowBound`, `StraysAreFew`, and `OwnBucket` |
| `retry_two` | 60 requests per minute, ticks of half a second, 2 clients | violates `SomebodyIsAdmitted` |
| `pipeline` | `WebhookDelivery`: 2 requests (a delivery and one with a key and a deadline, or two deliveries), 3 files, 4 environments, both roles | `WriterIsAlive`, `StoresOutliveHandlers`, `StopLosesNothing`, `NobodyBlocks`, `ServesWhatWasValidated`, `PrecedenceHolds`, `HeardIsTrue`, `RunsAgainForAReason`, and with fairness `DeadlineEndsRequest`, `StopsWhenAsked` |
| `pipeline_panic` | `RequestPipeline` alone: 2 requests, 3 kinds of path | violates `NoPanicEscapes` |
| `query` | 2 documents, 1 real and 1 made-up ID, cap 1, channel of 1 | `EveryEndIsTold`, `StreamCoversQuery`, and with fairness `EverythingEnds` |
| `query_visible` | the same | violates `EventsAreVisible` |
| `query_named` | the same, no cap | violates `SelectedSectionIsNamed` |

The runs `ingest`, `cache`, `bucket`, `pipeline` and `query` also check the
types (`TypeOK`, and with it `ReadsTypeOK`, `LimiterTypeOK`, `ServerTypeOK`,
`WebhookTypeOK`, where the larger module adds its own variables). Where deadlock
checking is off the system may stop: all requests answered, the clock at its
bound, or the process gone.

### Why the bounds are enough

- Two ingests are enough for `ingest`: documents share nothing but the crash.
  One crash separates any two writes; a second one would find the state the
  first one left.
- Three requests on a key are what the cache's races take: one whose response
  expires, one that found it, and one that stores anew in between. Time 2 with
  TTL 1 has a moment before, at and after the expiry. Different keys do not
  meet; `retries` has two, and the theorems any number.
- In `bucket`, 4 ticks and 3 tokens do not divide, so calls fall between two
  refills; the reaper's interval is a tick longer than the minute, the least the
  code's ten minutes could shrink to, and a window is a tick longer than that,
  so that a goroutine can stray in it twice. One goroutine more than strays, and
  one principal more than is watched. Goroutines are interchangeable, and so are
  blank buckets (`SYMMETRY Alike`; nothing temporal is checked but a safety
  formula).
- In `ingest`, two documents are enough for an insertion, a deletion or a change
  of status on either side of a cursor, with pages of one. Two values of
  `created_at` make a tie, a row newer than the cursor and one inserted later with
  an earlier time. A walk has at most one garbled cursor, which may be any of its
  own. `MCInit` and `MCNext` leave out what repeats itself: the reader's document
  and organisation are fixed; a list is narrowed by store or by status but not by
  both, and the status is `ready`, which a document enters, leaves and enters
  again; a reader of one document is alone with it; under a walk no write fails,
  since that only keeps documents out; a walk narrowed by status is through
  documents of its caller, and one narrowed by store through documents that wait
  for the worker. The theorems have none of these restrictions.
- In `pipeline`, two requests meet only in the process they share, so one pair
  of each kind will do. The files and environments have each a value for every
  class of setting, and together an invalid file the environment completes, a
  valid one it spoils, an unknown driver, and both prefixes at once.
- Half a second is the coarsest tick in which two clients can be out of phase.
- A channel of one event blocks as any full channel does; a response buffer of
  one event is the smallest that keeps something back. With `MaxPicks` 2 and a
  cap of 1, the made-up ID comes before, after and without the real one.

### Fairness

- `ingest`: a handler that has begun goes on, and the worker takes jobs and ends
  them (`q.Start` runs for the life of the process; the pipeline ends a job in
  `ready` or `failed`). Requests need not arrive, nobody need delete.
- `cache`: the middleware goes on and the reaper's ticker fires.
- `retry_two`: time passes and a client whose wait is over calls again. Time
  does not pass a due client.
- `pipeline`: `Turn(r)`, the stack's own code goes on and the deadline's timer
  fires. A handler need not return before its context is cancelled; after that
  it returns, as it passes the context to every call it waits for. `Run`, run()
  goes on: the calls that build and close return, `pool.Close` only when no
  connection can be out, and the drain timeout passes. `Quit`, `q.Start(ctx)`
  returns when its context is done (assumed of the engine: `main.go:171` expects
  `context.Canceled` of it). A handler without a deadline may run for ever,
  the queue's workers need not end before that and the listener owes nothing,
  nobody has to signal, and QStash has to do nothing.
- `query`: the range loop goes on, the deadline fires, and a run sees its
  cancelled context. A run nobody has cancelled may take for ever.

## Findings

1. `service_overlap`: two POSTs with one Idempotency-Key that overlap (a client
   timeout and its retry) ingest two documents. The lookup is before the
   handler and the store after it.
2. `retry_two`: with the bucket empty, each denied call moves `last` to now and
   throws the fraction of a token away. At 60 requests per minute two obedient
   clients half a second apart are both denied for ever, although a token accrues
   every second: time passes and the bucket is not refilled. With a bucket that
   keeps the fraction, `SomebodyIsAdmitted` holds.
3. `pipeline_panic`: a panic in a handler under EndpointTimeout is not on
   Recovery's goroutine and ends the process.
4. `query_visible`: a REST stream is never flushed, since AccessLog's
   `statusRecorder` hides `http.Flusher`.
5. `query_named`: Connect's QueryMultiStream never fills in the section.

## What is proved

TLAPS checks these for every value of the constants, under the modules' named
assumptions. Most only separate the special values (`NoKey`, `NoOrg`, ...) from
the sets they are no member of, or make a parameter a natural number, positive
where the code makes it so. `LimiterAssumption` says more. Its interval is at
least a minute, as the code's ten are. Goroutines, buckets and principals are
finitely many, with a bucket to spare: they stand for the objects alive at one
time, which memory bounds, and a name is used again when its object is gone.

**IngestHandler.** `TypeCorrect`, `Durability` (`AcceptedIsDurable`),
`JobsHaveDocuments`, `DownloadsAreReadable`. The inductive invariant adds to the
types that each write is there before the one that refers to it (`WriteOrder`:
a row has bytes, a job a row, deleted or not), what the handler's position says
of its writes (`StageWrites`), what the answer says (`AnswerWrites`), and that a
download that found a row is about one that was inserted (`FoundRow`).
`AcceptedIsDurable` alone is not inductive: it says nothing of a request that is
about to answer.

**IdempotencyCache.** `TypeCorrect`, `ReplaysAreFaithful`,
`FirstResponseIsKept` (`NoLossBeforeExpiry`), `SweepsAreComplete`
(`SweptIsClean`). The invariant says that entries and held responses are
complete responses of requests with the same key (`EntriesCached`, `HeldCached`)
and that the sweep's clock reading is in the past, with some response to its
victim's key expired before it (`SweepBehind`): that is what makes a Delete of a
key that was stored anew harmless for first responses.

**IdempotentRetries.** `Implementation`: `SerialSpec => ImplementsOnce`. Initial
states map to initial states and steps to steps or stutters. It needs, besides
the cache's invariant, that one request with a key is under way at a time, that
nothing has expired in the window, and that a key somebody has finished with is
in the map.

**TokenBucket** (in `PrincipalLimiterProofs`). `TypeCorrect`, `Limit`
(`WindowBound`). The invariant is a
ledger: what was admitted in the window and what is left in the bucket were paid
for by a full bucket and by the time up to the last call. It rests on a lemma on
integer division (`RefillBound`) and one on the refilled bucket.

**IngestService.** `AcceptedAnswersAreDurable` (`AcceptedAnswerIsDurable`). A step
of the service is a step or a stutter of the handler (`StepOfHandler`) and one of
the cache (`StepOfCache`), so that the invariants of both carry over from their
own proofs. `OwnAnswer` links them: a client that holds nobody else's response
was sent its own handler's answer. A replay then leads, by `HeldCached`, to a
request whose own handler answered 202, and `AnswerWrites` and `WriteOrder` do
the rest.
`RetriesAreOnce` (`RetriesIngestOnce`) is about clients that retry in turn. While
nothing has been restarted and no TTL is over (`Window`), at most one request of
a key is under way, the reaper has nothing to delete, a settled key's entry is
the response of the one whose handler ran (`KeyKnown`), and a row is only ever
written by such a request (`Runners`): two rows of one key would need two.

**RequestPipeline** (in `WebhookDeliveryProofs`). `TypeCorrect`,
`WritersAreAlive` (`WriterIsAlive`). The invariant adds that the handler starts
at Dispatch and is over before the stack unwinds (`Lockstep`) and that
connections go only with the process (`GoneIsDead`).

**PrincipalLimiter.** `ImplementsOwnBucket` (`OwnBucket`), `LimiterLimit`
(`WindowBound` through the map), `LimiterTypeCorrect`. The invariant adds to the
bucket's own that a bucket in the map is one key's and that a goroutine's is its
key's or nobody's (`Ownership`), and that the observer's bucket and the real one
agree: while the key has a bucket, level and time since the last call are the
same, and while it has none, enough time has passed for both to be full
(`Agreement`). `ImplementsOwnBucket` then maps each step to a step or a stutter
of `TokenBucket`. The assumption it rests on is `Interval >= Minute`.

`StraysAreBounded` (`StraysAreFew`) counts removals instead of strays. A bucket is
removed when it has not been called for more than an interval, so two removals of
one principal's bucket are a `Period` apart, and what has passed since the last
one is at least the time the present bucket has been left alone (`Quiet`). Each
removal makes a stray of a goroutine that holds the bucket just then (`Lost`),
once. `Removals` says that some number n of removals pays for the strays seen and
those still to come, and fits into the window and the period before it. The bound
alone says nothing of the goroutines that have yet to stray.

**QueryApi.** `TypeCorrect`, `EndsAreTold` (`EveryEndIsTold`),
`StreamsCoverQueries` (`StreamCoversQuery`), `OthersNameTheirSections`. The
invariant follows an event from the run to the wire: as long as the client is
there, the end of a run is written or in the channel (`EndsAreUnderway`); a run
that goes on has not told its end (`EndsAreLast`); a section that was selected
is written, or is in the channel ahead of the end of its run, or the client has
left and that end will never be written (`SectionsAreUnderway`). The order in
the channel is what a coverage property needs and does not say: without it a
stream could write the end first. The half of `EveryEndIsTold` about queries has
an invariant of its own, `AnswersTold`: a query that was answered has only runs
that have ended, and its errors are those that did not complete.
`ReturnsDrained` adds that a stream the client has not left returns with the
channel closed and empty. `OthersNameTheirSections` is `SelectedSectionIsNamed`
for seven of the eight handlers; the run `query_named` has the eighth.

That a query's answer holds only IDs that were chosen and are in the tree
(`KnownProperties`, `CapProperties`, `ReturnedProperties`), is a fact about
a loop. The library's induction theorems take an operator as a parameter, which no
installed prover can instantiate, so `LoopRuns` argues by a least counterexample
instead: a set of naturals that is not empty has a least one (`Least`), since the
sets `0 .. n` are finite and inclusion among finite sets is well founded.

**DocumentReads.** `StoresCarryOver` (the ingest handler's `TypeOK`,
`AcceptedIsDurable`, `JobHasDocument` and `FoundIsReadable` with all other reads
next to it), `ReadsTypeCorrect` (`ReadsTypeOK`), `WalksAreComplete`
(`WalkMissesNothing`), `WalksDescend` (`WalkGoesForward`), `ReadyIsTold`
(`ReadyHasSections`), `PagesAreThere`. Nothing is assumed of `created_at` but that
it is a number: rows may tie, and may be inserted in any order of their times. The
invariant joins four parts to the handler's. `Births`: the rows inserted are
finitely many, and have a `created_at`. `ClientReads`: a row read as ready still is
or has been seen to leave, and has left if its sections were gone when counted.
`Pile`: what a client has listed descends to its cursor, unless one was garbled.
`Walk`: between two pages nothing steady is missing from the cursor upwards but
what ties with a cursor that was sent, and at the end nothing at all but that. The
last two are what makes the walk inductive; `WalkMissesNothing` itself speaks of
walks that are over only. `PagesAreThere` shows that `Pages` asks for something the
database can give, from any cursor: without it the theorems about walks could hold
because no page exists. A finite set of rows has an oldest, ties or not; so a
smallest set without an order from the newest to the oldest would have one
(`OrderExists`, from `LeastSet`).

**WebhookDelivery**, and with it `ServerLifecycle` and `ConfigLoad`.
`ServerTypeCorrect`, `StoresLast` (`StoresOutliveHandlers`), `StopIsClean`
(`StopLosesNothing`), `NobodyIsStuck` (`NobodyBlocks`), `ServesValidated`
(`ServesWhatWasValidated`) are theorems of `ServerSpec`. The invariant takes over
the pipeline's and adds what the top of the deferred calls is at each stage of
run() and that the stack is in the order of construction (`Piled`), that a
goroutine sends one error and ends with it (`Errors`), that somebody is served
only between the select and the end of the drain, or after its timeout
(`Serving`), and what is left of `Validate`'s verdict when the server listens
(`Checked`). `PrecedenceIsKept` is pure: the values of `Load` are those of
`ByPrecedence`, by cases on the class of the setting.

`WebhookIsServer` shows that `WebhookSpec` implements `ServerSpec`, so that all
of this holds with deliveries too. On top of it, `AnswersAreTrue` (`HeardIsTrue`),
`RepeatsAreExcused` (`RunsAgainForAReason`) and `WebhookTypeCorrect` need to know
for each delivery what is on the wire at every point (`Told`): nothing before the
job has an outcome, and from then on the verdict on it; and that QStash has one
attempt open at a time (`OneAttempt`).

Only model-checked: liveness under fairness (`AcceptedIsProcessed`,
`ExpiredIsRemoved`, `DeadlineEndsRequest`, `EverythingEnds`, `StopsWhenAsked`),
which the prover does not reach. Every invariant and the refinements that a
passing run checks have a theorem.

## Plan

1. Done: ingest, cache, their composition, bucket, pipeline and queries; then the
   per-principal limiter, the process with its configuration, the webhook in it,
   and the document reads; the proofs listed above.
2. Done: theorems for `StraysAreFew`, for the queries and streams, and for the
   reads and the walk.
3. `IngestHandler` under `WebhookDelivery`'s redeliveries: the pipeline behind
   the webhook instead of behind the worker.

Behaviours met on the way and not pinned by a run yet: the access log's missing
principal and its missing line after a panic; a stale lookup that deletes a fresh
response, which `idempotency.go:15` says is retained for the TTL; a minute that
admits up to twice `requests_per_minute` (a full bucket and its refill); strays
of the per-principal limiter, which `ratelimit_principal.go` does not mention
where it promises a bucket to each principal; a failed subsystem that leaves exit
status 0; `normalizePath`, whose comment says that it replaces IDs "to keep
metric cardinality bounded" (`metrics.go:59`) and which returns the raw path; rows
with one `created_at` that the list skips at the end of a page; a row left `pending`
for ever by a failed enqueue; a long webhook job whose answer `write_timeout` cuts
off.

## Not modelled

What metrics and tracing count and export, and health and version, which keep no
state. CORS and header handling are stateless. Of the builders of `main.go`
(storage, queue, LLM, TLS) only success and failure are kept. `gen/` is generated
from the `.proto` files, about a third of the repository's lines, and
`cmd/benchmark` is a client. Contents, wording and token accounting are data that
no property tells apart.
