--------------------------- MODULE IngestHandler ---------------------------
(***************************************************************************)
(* Document ingestion, deletion and source download, as served by REST     *)
(* (internal/handler/documents.go) and by Connect                          *)
(* (internal/connecthandler/documents.go).  Both transports run the same   *)
(* three writes against three independent stores, with no transaction      *)
(* around them: the bytes go to blob storage, then a "pending" row goes to *)
(* the database, then a job goes to the queue, and only then is the client *)
(* told 202.  Any of the calls may fail, a failed call may still have had  *)
(* its effect (the request's deadline can expire after the store has       *)
(* committed), and the process may die between any two of them.            *)
(*                                                                         *)
(* A request is identified with the document it would create:              *)
(* ingest.NewDocumentID() is fresh in every execution of the handler.      *)
(* The ingest pipeline behind the queue is external; it is modelled by     *)
(* what this server tells its clients of it (the status values).           *)
(***************************************************************************)
EXTENDS Naturals

CONSTANTS
    Request,     \* executions of the ingest handler, hence documents
    Reader,      \* executions of the source-download handler
    Org,         \* values of the X-Vectorless-Org header
    NoOrg,       \* the header is missing
    Store,       \* values of the X-Vectorless-Store header
    NoStore,     \* that header, which is optional, is missing
    MaxCrashes   \* bound: how many times the server process dies

ASSUME IngestAssumption ==
    /\ NoOrg \notin Org
    /\ NoStore \notin Store
    /\ MaxCrashes \in Nat

VARIABLES
    pc,        \* Request -> where the handler is
    owner,     \* Request -> the organisation and store the request came from
    answer,    \* Request -> what the client has been told
    blobs,     \* documents whose bytes are in blob storage
    rows,      \* Request -> the document's row, by its status
    jobs,      \* Request -> the document's ingest job
    reading,   \* Reader -> where the download is
    target,    \* Reader -> the document id in the URL
    caller,    \* Reader -> the organisation and store asking
    crashes    \* how many times the process has died

requestVars == <<pc, owner, answer>>
readerVars  == <<reading, target, caller>>
storeVars   == <<blobs, rows, jobs>>
vars        == <<pc, owner, answer, blobs, rows, jobs,
                 reading, target, caller, crashes>>

----------------------------------------------------------------------------

\* What a client can see of a document's life, and the two ways to have none.
Status   == {"pending", "parsing", "summarizing", "ready", "failed"}
RowState == Status \cup {"none", "deleted"}
JobState == {"none", "queued", "running", "ended", "finished"}
Stage    == {"new", "put", "insert", "enqueue", "respond", "answered", "lost"}
Answer   == {"none", "accepted", "invalid", "unsupported", "failed"}
Download == {"idle", "found", "served", "missing", "failed", "lost"}

\* What the headers say of who is asking.  The store is optional: without
\* one a document belongs to none, and a read is not narrowed to one.
Scope(orgs) == [org : orgs, store : Store \cup {NoStore}]
Nobody      == [org |-> NoOrg, store |-> NoStore]

\* How the document arrives, and the state of its body.  A multipart form
\* without the "file" field and JSON that does not decode are "malformed".
Transport == {"multipart", "json", "connect", "other"}
Body      == {"malformed", "empty", "full"}

\* The checks before the first write, in the order the handlers make them.
\* An empty file in a multipart form is accepted; empty content is not.
Unusable(transport, body) ==
    body = "malformed" \/ (body = "empty" /\ transport # "multipart")

Refusal(org, transport, body) ==
    CASE org = NoOrg -> "invalid"
      [] org # NoOrg /\ transport = "other" -> "unsupported"
      [] org # NoOrg /\ transport # "other" ->
            IF Unusable(transport, body) THEN "invalid" ELSE "none"

\* Slip: the client is told 202 without waiting for the enqueue.
After_NoEnqueue(stage) ==
    CASE stage = "new"    -> "put"
      [] stage = "put"    -> "insert"
      [] stage = "insert" -> "respond"

\* Slip: the job is queued before the row it is about exists.
After_JobFirst(stage) ==
    CASE stage = "new"     -> "put"
      [] stage = "put"     -> "enqueue"
      [] stage = "enqueue" -> "insert"
      [] stage = "insert"  -> "respond"

\* Which write follows which.  The order is what keeps a row from ever
\* pointing at bytes that are not there, and a job at a row that is not.
After(stage) ==
    CASE stage = "new"     -> "put"
      [] stage = "put"     -> "insert"
      [] stage = "insert"  -> "enqueue"
      [] stage = "enqueue" -> "respond"

\* The stages in which the handler is running.
Active == {"put", "insert", "enqueue", "respond"}

----------------------------------------------------------------------------

Init ==
    /\ pc      = [r \in Request |-> "new"]
    /\ owner   = [r \in Request |-> Nobody]
    /\ answer  = [r \in Request |-> "none"]
    /\ blobs   = {}
    /\ rows    = [r \in Request |-> "none"]
    /\ jobs    = [r \in Request |-> "none"]
    /\ reading = [x \in Reader |-> "idle"]
    /\ target  \in [Reader -> Request]
    /\ caller  \in [Reader -> Scope(Org)]
    /\ crashes = 0

\* Moves r's handler to its next stage; ends it with an answer.
Advance(r)   == pc' = [pc EXCEPT ![r] = After(pc[r])]
Reply(r, a)  == /\ pc'     = [pc EXCEPT ![r] = "answered"]
                /\ answer' = [answer EXCEPT ![r] = a]

\* The request is read and fails a check: nothing has been written.
Refuse(r, scope, transport, body) ==
    /\ pc[r] = "new"
    /\ Refusal(scope.org, transport, body) # "none"
    /\ Reply(r, Refusal(scope.org, transport, body))
    /\ UNCHANGED <<owner, storeVars, readerVars, crashes>>

Admit(r, scope, transport, body) ==
    /\ pc[r] = "new"
    /\ Refusal(scope.org, transport, body) = "none"
    /\ Advance(r)
    /\ owner' = [owner EXCEPT ![r] = scope]
    /\ UNCHANGED <<answer, storeVars, readerVars, crashes>>

\* storage.Put of the source bytes.
PutSource(r) ==
    /\ pc[r] = "put"
    /\ blobs' = blobs \cup {r}
    /\ Advance(r)
    /\ UNCHANGED <<owner, answer, rows, jobs, readerVars, crashes>>

PutSourceFails(r) ==
    /\ pc[r] = "put"
    /\ blobs' \in {blobs, blobs \cup {r}}
    /\ Reply(r, "failed")
    /\ UNCHANGED <<owner, rows, jobs, readerVars, crashes>>

\* db.NewDocument with status pending.
InsertRow(r) ==
    /\ pc[r] = "insert"
    /\ rows' = [rows EXCEPT ![r] = "pending"]
    /\ Advance(r)
    /\ UNCHANGED <<owner, answer, blobs, jobs, readerVars, crashes>>

InsertRowFails(r) ==
    /\ pc[r] = "insert"
    /\ rows' \in {rows, [rows EXCEPT ![r] = "pending"]}
    /\ Reply(r, "failed")
    /\ UNCHANGED <<owner, blobs, jobs, readerVars, crashes>>

\* queue.Enqueue, deduplicated by the document id.
EnqueueJob(r) ==
    /\ pc[r] = "enqueue"
    /\ jobs' = [jobs EXCEPT ![r] = "queued"]
    /\ Advance(r)
    /\ UNCHANGED <<owner, answer, blobs, rows, readerVars, crashes>>

EnqueueFails(r) ==
    /\ pc[r] = "enqueue"
    /\ jobs' \in {jobs, [jobs EXCEPT ![r] = "queued"]}
    /\ Reply(r, "failed")
    /\ UNCHANGED <<owner, blobs, rows, readerVars, crashes>>

Respond(r) ==
    /\ pc[r] = "respond"
    /\ Reply(r, "accepted")
    /\ UNCHANGED <<owner, storeVars, readerVars, crashes>>

----------------------------------------------------------------------------

\* A row is visible to the organisation that wrote it, and if the request
\* names a store, only if the row is in that store.
Visible(r, scope) ==
    /\ rows[r] \in Status
    /\ owner[r].org = scope.org
    /\ scope.store \in {NoStore, owner[r].store}

\* Slip: deletion takes the bytes along.
SourceAfterDelete_Removed(r) == blobs \ {r}

\* Deletion removes the row.  The blob and the job stay as they are.
SourceAfterDelete(r) == blobs

DeleteDocument(r, scope) ==
    /\ Visible(r, scope)
    /\ rows'  = [rows EXCEPT ![r] = "deleted"]
    /\ blobs' = SourceAfterDelete(r)
    /\ UNCHANGED <<requestVars, jobs, readerVars, crashes>>

\* The download looks the row up, then opens the blob the row points to.
\* Nothing is held in between.  Either call may fail.
FindRow(x) ==
    /\ reading[x] = "idle"
    /\ reading' = [reading EXCEPT ![x] =
                     IF Visible(target[x], caller[x]) THEN "found" ELSE "missing"]
    /\ UNCHANGED <<requestVars, storeVars, target, caller, crashes>>

OpenSource(x) ==
    /\ reading[x] = "found"
    /\ target[x] \in blobs
    /\ reading' = [reading EXCEPT ![x] = "served"]
    /\ UNCHANGED <<requestVars, storeVars, target, caller, crashes>>

DownloadFails(x) ==
    /\ reading[x] \in {"idle", "found"}
    /\ reading' = [reading EXCEPT ![x] = "failed"]
    /\ UNCHANGED <<requestVars, storeVars, target, caller, crashes>>

----------------------------------------------------------------------------

\* The pipeline updates a row that exists; a deleted one stays deleted.
SetStatus(r, s) ==
    rows' = IF rows[r] \in Status THEN [rows EXCEPT ![r] = s] ELSE rows

\* The worker takes a job, works through it, and ends it either way.
StartJob(r) ==
    /\ jobs[r] = "queued"
    /\ jobs' = [jobs EXCEPT ![r] = "running"]
    /\ SetStatus(r, "parsing")
    /\ UNCHANGED <<requestVars, blobs, readerVars, crashes>>

Summarize(r) ==
    /\ jobs[r] = "running"
    /\ rows[r] = "parsing"
    /\ SetStatus(r, "summarizing")
    /\ UNCHANGED <<requestVars, blobs, jobs, readerVars, crashes>>

FinishJob(r) ==
    /\ jobs[r] = "running"
    /\ jobs' = [jobs EXCEPT ![r] = "ended"]
    /\ \E s \in {"ready", "failed"} : SetStatus(r, s)
    /\ UNCHANGED <<requestVars, blobs, readerVars, crashes>>

\* The queue is told that the job is done; or it is told of an error, or of
\* nothing because the acknowledgement was lost, and delivers the job again,
\* though the document may be "ready" by then.
AckJob(r) ==
    /\ jobs[r] = "ended"
    /\ jobs' = [jobs EXCEPT ![r] = "finished"]
    /\ UNCHANGED <<requestVars, blobs, rows, readerVars, crashes>>

Unacknowledged(r) ==
    /\ jobs[r] = "ended"
    /\ jobs' = [jobs EXCEPT ![r] = "queued"]
    /\ UNCHANGED <<requestVars, blobs, rows, readerVars, crashes>>

\* A job that the queue has handed out and has no acknowledgement of.
Unsettled == {"running", "ended"}

\* Slips: the queue has no way back for a job, or took it as done.
Redelivered_Lost(job)    == IF job \in Unsettled THEN "lost" ELSE job
Redelivered_Dropped(job) == IF job \in Unsettled THEN "finished" ELSE job

\* The process dies: requests in flight never answer, and the jobs its
\* worker had taken are handed out again by the queue.
Redelivered(job) == IF job \in Unsettled THEN "queued" ELSE job

Crash ==
    /\ crashes < MaxCrashes
    /\ crashes' = crashes + 1
    /\ pc'      = [r \in Request |-> IF pc[r] \in Active THEN "lost" ELSE pc[r]]
    /\ jobs'    = [r \in Request |-> Redelivered(jobs[r])]
    /\ reading' = [x \in Reader |-> IF reading[x] = "found" THEN "lost"
                                    ELSE reading[x]]
    /\ UNCHANGED <<owner, answer, blobs, rows, target, caller>>

----------------------------------------------------------------------------

Arrive(r) ==
    \E scope \in Scope(Org \cup {NoOrg}), t \in Transport, b \in Body :
        Refuse(r, scope, t, b) \/ Admit(r, scope, t, b)

Serve(r)  == \/ PutSource(r) \/ PutSourceFails(r)
             \/ InsertRow(r) \/ InsertRowFails(r)
             \/ EnqueueJob(r) \/ EnqueueFails(r)
             \/ Respond(r)

Work(r)   == \/ StartJob(r) \/ Summarize(r) \/ FinishJob(r)
             \/ AckJob(r) \/ Unacknowledged(r)

Read(x)   == FindRow(x) \/ OpenSource(x) \/ DownloadFails(x)

Next ==
    \/ \E r \in Request : Arrive(r) \/ Serve(r) \/ Work(r)
    \/ \E r \in Request, scope \in Scope(Org) : DeleteDocument(r, scope)
    \/ \E x \in Reader : Read(x)
    \/ Crash

Spec == Init /\ [][Next]_vars

\* Handlers run, the worker keeps taking jobs and every job it takes ends.
Fairness == \A r \in Request :
                /\ WF_vars(Serve(r))
                /\ WF_vars(StartJob(r))
                /\ WF_vars(FinishJob(r))

FairSpec == Spec /\ Fairness

----------------------------------------------------------------------------

\* Every variable holds a value of its type.
TypeOK ==
    /\ pc      \in [Request -> Stage]
    /\ owner   \in [Request -> Scope(Org \cup {NoOrg})]
    /\ answer  \in [Request -> Answer]
    /\ blobs   \in SUBSET Request
    /\ rows    \in [Request -> RowState]
    /\ jobs    \in [Request -> JobState]
    /\ reading \in [Reader -> Download]
    /\ target  \in [Reader -> Request]
    /\ caller  \in [Reader -> Scope(Org)]
    /\ crashes \in 0 .. MaxCrashes

\* A client that was told 202 owns a document: whatever failed or died in
\* between, the bytes are stored, the row was inserted (and is gone only if
\* somebody deleted it) and a job for it was queued.  HandleIngestDocument
\* and CreateDocument answer last, after all three writes.
AcceptedIsDurable ==
    \A r \in Request : answer[r] = "accepted" =>
        /\ r \in blobs
        /\ rows[r] # "none"
        /\ jobs[r] # "none"

\* The pipeline never gets a job for a document it cannot load: the worker
\* may take the job before the handler has even answered, or after a delete,
\* and still finds the bytes and a row that was inserted once.
JobHasDocument ==
    \A r \in Request : jobs[r] # "none" => r \in blobs /\ rows[r] # "none"

\* A download that has found the row can open the source.  The row was
\* written after the bytes and a concurrent DeleteDocument leaves them, so
\* no interleaving turns a found document into "read source" errors.
FoundIsReadable ==
    \A x \in Reader : reading[x] = "found" => target[x] \in blobs

\* What a client was told 202 for reaches a final status or is deleted, in
\* spite of a crash while the worker holds the job.
AcceptedIsProcessed ==
    \A r \in Request :
        answer[r] = "accepted" ~> rows[r] \in {"ready", "failed", "deleted"}

=============================================================================
