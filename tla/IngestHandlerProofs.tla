------------------------ MODULE IngestHandlerProofs ------------------------
(***************************************************************************)
(* Theorems about IngestHandler, for any sets of requests, readers,        *)
(* organisations and stores and any number of crashes.                     *)
(***************************************************************************)
EXTENDS IngestHandler, TLAPS

\* Each write is there before the one that refers to it.
WriteOrder ==
    \A r \in Request :
        /\ rows[r] # "none" => r \in blobs
        /\ jobs[r] # "none" => rows[r] # "none"

\* What the handler's position says of the writes it has made.
StageWrites ==
    \A r \in Request :
        /\ pc[r] = "insert" => r \in blobs
        /\ pc[r] \in {"enqueue", "respond"} => rows[r] # "none"
        /\ pc[r] = "respond" => jobs[r] # "none"

\* What the answer says of them.
AnswerWrites ==
    \A r \in Request :
        /\ answer[r] # "none" => pc[r] = "answered"
        /\ answer[r] = "accepted" => jobs[r] # "none"

\* A download found a row that was inserted, whatever became of it since.
FoundRow ==
    \A x \in Reader : reading[x] = "found" => rows[target[x]] # "none"

\* The inductive invariant.
IInv == TypeOK /\ WriteOrder /\ StageWrites /\ AnswerWrites /\ FoundRow

----------------------------------------------------------------------------

\* The initial states satisfy the invariant.
LEMMA InitIInv == Init => IInv
  BY IngestAssumption
     DEF Init, IInv, TypeOK, WriteOrder, StageWrites, AnswerWrites, FoundRow,
         Scope, Nobody, Stage, Answer, RowState, Status, JobState, Download

\* The handler's own steps.
LEMMA ArrivePreserves ==
    ASSUME NEW r \in Request, IInv, Arrive(r)
    PROVE  IInv'
  <1>1. PICK scope \in Scope(Org \cup {NoOrg}), t \in Transport, b \in Body :
            Refuse(r, scope, t, b) \/ Admit(r, scope, t, b)
    BY DEF Arrive
  <1> USE DEF IInv, TypeOK, WriteOrder, StageWrites, AnswerWrites, FoundRow,
              Stage, Answer, RowState, Status, JobState, Download,
              storeVars, readerVars
  <1>2. CASE Refuse(r, scope, t, b)
    <2>1. Refusal(scope.org, t, b) \in {"none", "invalid", "unsupported"}
      BY DEF Refusal, Transport, Body
    <2> QED  BY <1>2, <2>1 DEF Refuse, Reply
  <1>3. CASE Admit(r, scope, t, b)
    BY <1>3 DEF Admit, Advance, After
  <1> QED  BY <1>1, <1>2, <1>3

\* The three writes and the answer, whether they succeed or fail.
LEMMA ServePreserves ==
    ASSUME NEW r \in Request, IInv, Serve(r)
    PROVE  IInv'
  <1> USE DEF IInv, TypeOK, WriteOrder, StageWrites, AnswerWrites, FoundRow,
              Stage, Answer, RowState, Status, JobState, Download,
              storeVars, readerVars, Advance, Reply, After
  <1>1. CASE PutSource(r)       BY <1>1 DEF PutSource
  <1>2. CASE PutSourceFails(r)
    <2>1. CASE blobs' = blobs
      BY <1>2, <2>1 DEF PutSourceFails
    <2>2. CASE blobs' = blobs \cup {r}
      BY <1>2, <2>2 DEF PutSourceFails
    <2> QED  BY <1>2, <2>1, <2>2 DEF PutSourceFails
  <1>3. CASE InsertRow(r)       BY <1>3 DEF InsertRow
  <1>4. CASE InsertRowFails(r)
    <2>1. CASE rows' = rows
      BY <1>4, <2>1 DEF InsertRowFails
    <2>2. CASE rows' = [rows EXCEPT ![r] = "pending"]
      BY <1>4, <2>2 DEF InsertRowFails
    <2> QED  BY <1>4, <2>1, <2>2 DEF InsertRowFails
  <1>5. CASE EnqueueJob(r)      BY <1>5 DEF EnqueueJob
  <1>6. CASE EnqueueFails(r)
    <2>1. CASE jobs' = jobs
      BY <1>6, <2>1 DEF EnqueueFails
    <2>2. CASE jobs' = [jobs EXCEPT ![r] = "queued"]
      BY <1>6, <2>2 DEF EnqueueFails
    <2> QED  BY <1>6, <2>1, <2>2 DEF EnqueueFails
  <1>7. CASE Respond(r)         BY <1>7 DEF Respond
  <1> QED
    BY <1>1, <1>2, <1>3, <1>4, <1>5, <1>6, <1>7 DEF Serve

\* The worker's steps, a delete and the downloads.
LEMMA WorkPreserves ==
    ASSUME NEW r \in Request, IInv, Work(r)
    PROVE  IInv'
  <1> USE DEF IInv, TypeOK, WriteOrder, StageWrites, AnswerWrites, FoundRow,
              Stage, Answer, RowState, Status, JobState, Download,
              requestVars, readerVars, SetStatus
  <1>1. CASE StartJob(r)   BY <1>1 DEF StartJob
  <1>2. CASE Summarize(r)  BY <1>2 DEF Summarize
  <1>3. CASE FinishJob(r)
    <2>1. PICK s \in {"ready", "failed"} : SetStatus(r, s)
      BY <1>3 DEF FinishJob
    <2> QED  BY <1>3, <2>1 DEF FinishJob
  <1>4. CASE AckJob(r)     BY <1>4 DEF AckJob
  <1>5. CASE Unacknowledged(r)
    BY <1>5 DEF Unacknowledged
  <1> QED  BY <1>1, <1>2, <1>3, <1>4, <1>5 DEF Work

\* A delete takes the row and nothing else.
LEMMA DeletePreserves ==
    ASSUME NEW r \in Request, NEW scope \in Scope(Org), IInv,
           DeleteDocument(r, scope)
    PROVE  IInv'
  BY DEF DeleteDocument, Visible, SourceAfterDelete, requestVars, readerVars,
         IInv, TypeOK, WriteOrder, StageWrites, AnswerWrites, FoundRow,
         RowState, Status

\* The two steps of a download.
LEMMA ReadPreserves ==
    ASSUME NEW x \in Reader, IInv, Read(x)
    PROVE  IInv'
  <1> USE DEF IInv, TypeOK, WriteOrder, StageWrites, AnswerWrites, FoundRow,
              Download, requestVars, storeVars
  <1>1. CASE FindRow(x)        BY <1>1 DEF FindRow, Visible, Status
  <1>2. CASE OpenSource(x)     BY <1>2 DEF OpenSource
  <1>3. CASE DownloadFails(x)  BY <1>3 DEF DownloadFails
  <1> QED  BY <1>1, <1>2, <1>3 DEF Read

\* A crash ends what is in flight and leaves the stores.
LEMMA CrashPreserves ==
    ASSUME IInv, Crash
    PROVE  IInv'
  <1> USE DEF Crash, Active, Unsettled, Redelivered
  <1>1. TypeOK'
    BY IngestAssumption DEF IInv, TypeOK, Stage, JobState, Download
  <1>2. WriteOrder'
    BY DEF IInv, TypeOK, WriteOrder
  <1>3. StageWrites'
    BY DEF IInv, TypeOK, StageWrites
  <1>4. AnswerWrites'
    BY DEF IInv, TypeOK, AnswerWrites
  <1>5. FoundRow'
    BY DEF IInv, TypeOK, FoundRow
  <1> QED  BY <1>1, <1>2, <1>3, <1>4, <1>5 DEF IInv

\* Every step preserves the invariant.
LEMMA StepIInv == IInv /\ [Next]_vars => IInv'
  <1> SUFFICES ASSUME IInv, [Next]_vars
               PROVE  IInv'
    OBVIOUS
  <1>1. ASSUME NEW r \in Request, Arrive(r) \/ Serve(r) \/ Work(r)
        PROVE  IInv'
    BY <1>1, ArrivePreserves, ServePreserves, WorkPreserves
  <1>2. ASSUME NEW r \in Request, NEW scope \in Scope(Org), DeleteDocument(r, scope)
        PROVE  IInv'
    BY <1>2, DeletePreserves
  <1>3. ASSUME NEW x \in Reader, Read(x)
        PROVE  IInv'
    BY <1>3, ReadPreserves
  <1>4. CASE Crash
    BY <1>4, CrashPreserves
  <1>5. CASE UNCHANGED vars
    BY <1>5 DEF vars, IInv, TypeOK, WriteOrder, StageWrites, AnswerWrites,
                FoundRow
  <1> QED  BY <1>1, <1>2, <1>3, <1>4, <1>5 DEF Next

\* The inductive invariant holds in every reachable state.
THEOREM Invariance == Spec => []IInv
  BY InitIInv, StepIInv, PTL DEF Spec

----------------------------------------------------------------------------

\* Every variable of the handler keeps to its type.
THEOREM TypeCorrect == Spec => []TypeOK
  <1>1. IInv => TypeOK
    BY DEF IInv
  <1> QED  BY <1>1, Invariance, PTL

\* A 202 is never sent for a document that is not stored, inserted and
\* queued, however the writes of the handlers, the worker, the deletes and
\* the crashes interleave (HandleIngestDocument, CreateDocument).
THEOREM Durability == Spec => []AcceptedIsDurable
  <1>1. IInv => AcceptedIsDurable
    BY DEF IInv, WriteOrder, AnswerWrites, AcceptedIsDurable
  <1> QED  BY <1>1, Invariance, PTL

\* The worker never holds a job for a document that was not stored first.
THEOREM JobsHaveDocuments == Spec => []JobHasDocument
  <1>1. IInv => JobHasDocument
    BY DEF IInv, WriteOrder, JobHasDocument
  <1> QED  BY <1>1, Invariance, PTL

\* A row a download has found never points at missing bytes, even if the
\* document is deleted between the lookup and the read.
THEOREM DownloadsAreReadable == Spec => []FoundIsReadable
  <1>1. IInv => FoundIsReadable
    BY DEF IInv, TypeOK, WriteOrder, FoundRow, FoundIsReadable
  <1> QED  BY <1>1, Invariance, PTL

=============================================================================
