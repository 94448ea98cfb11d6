------------------------ MODULE IngestServiceProofs ------------------------
(***************************************************************************)
(* The composition keeps what its parts keep, and ties a client's answer   *)
(* to the document it names.  A step of the service is a step (or a        *)
(* stutter) of the ingest handler and one of the cache, so that their      *)
(* inductive invariants carry over; what is proved anew is the link        *)
(* between the answer of the one and that of the other.                    *)
(***************************************************************************)
EXTENDS IngestService, TLAPS

HandlerThms == INSTANCE IngestHandlerProofs
    WITH pc <- stage, crashes <- restarts, MaxCrashes <- MaxRestarts

CacheThms == INSTANCE IdempotencyCacheProofs
    WITH pc <- at, answer <- sent, Code <- Codes, NoCode <- "none"

\* A request has no answer before its handler has returned or its key was
\* found, and then, unless it holds another's, it has its own handler's.
OwnAnswer ==
    \A r \in Request :
        /\ at[r] \in {"new", "load", "check", "serve"} => sent[r] = "none"
        /\ held[r] = NoEntry /\ sent[r] # "none" => sent[r] = answer[r]

\* The inductive invariant: those of the parts, and the link.
ServiceInv == HandlerThms!IInv /\ CacheThms!IInv /\ OwnAnswer

----------------------------------------------------------------------------

\* The assumptions of the parts follow from the service's.
LEMMA Assumptions == HandlerThms!IngestAssumption /\ CacheThms!CacheAssumption
  BY ServiceAssumption
     DEF HandlerThms!IngestAssumption, CacheThms!CacheAssumption, Codes

(***************************************************************************)
(* IngestService and the theorems name the same formulas through instances *)
(* of their own; the next four lemmas identify them.                       *)
(***************************************************************************)

\* The handler's initial states, under either name.
LEMMA HandlerInit == Handler!Init => HandlerThms!Init
  BY DEF Handler!Init, HandlerThms!Init, Handler!Scope, HandlerThms!Scope,
         Handler!Nobody, HandlerThms!Nobody

\* The handler's steps.
LEMMA HandlerNext == Handler!Next => HandlerThms!Next
  BY DEF Handler!Next, HandlerThms!Next, Handler!requestVars,
         HandlerThms!requestVars, Handler!readerVars, HandlerThms!readerVars,
         Handler!storeVars, HandlerThms!storeVars, Handler!Arrive,
         HandlerThms!Arrive, Handler!Serve, HandlerThms!Serve, Handler!Work,
         HandlerThms!Work, Handler!Read, HandlerThms!Read, Handler!Crash,
         HandlerThms!Crash, Handler!DeleteDocument,
         HandlerThms!DeleteDocument, Handler!Refuse, HandlerThms!Refuse,
         Handler!Admit, HandlerThms!Admit, Handler!Refusal,
         HandlerThms!Refusal, Handler!Unusable, HandlerThms!Unusable,
         Handler!Advance, HandlerThms!Advance, Handler!Reply,
         HandlerThms!Reply, Handler!After, HandlerThms!After,
         Handler!PutSource, HandlerThms!PutSource, Handler!PutSourceFails,
         HandlerThms!PutSourceFails, Handler!InsertRow,
         HandlerThms!InsertRow, Handler!InsertRowFails,
         HandlerThms!InsertRowFails, Handler!EnqueueJob,
         HandlerThms!EnqueueJob, Handler!EnqueueFails,
         HandlerThms!EnqueueFails, Handler!Respond, HandlerThms!Respond,
         Handler!Visible, HandlerThms!Visible, Handler!SourceAfterDelete,
         HandlerThms!SourceAfterDelete, Handler!FindRow, HandlerThms!FindRow,
         Handler!OpenSource, HandlerThms!OpenSource, Handler!DownloadFails,
         HandlerThms!DownloadFails, Handler!SetStatus, HandlerThms!SetStatus,
         Handler!StartJob, HandlerThms!StartJob, Handler!Summarize,
         HandlerThms!Summarize, Handler!FinishJob, HandlerThms!FinishJob,
         Handler!AckJob, HandlerThms!AckJob, Handler!Unacknowledged,
         HandlerThms!Unacknowledged, Handler!Unsettled,
         HandlerThms!Unsettled, Handler!Scope, HandlerThms!Scope,
         Handler!Redelivered, HandlerThms!Redelivered, Handler!Status,
         HandlerThms!Status, Handler!Active, HandlerThms!Active,
         Handler!Transport, HandlerThms!Transport, Handler!Body,
         HandlerThms!Body

\* The cache's initial states.
LEMMA CacheInit == Cache!Init => CacheThms!Init
  BY DEF Cache!Init, CacheThms!Init

\* The cache's steps.
LEMMA CacheNext == Cache!Next => CacheThms!Next
  BY DEF Cache!Next, CacheThms!Next, Cache!Arrive, CacheThms!Arrive,
         Cache!Handle, CacheThms!Handle, Cache!Lookup, CacheThms!Lookup,
         Cache!Run, CacheThms!Run, Cache!Load, CacheThms!Load, Cache!Replay,
         CacheThms!Replay, Cache!DropExpired, CacheThms!DropExpired,
         Cache!ServeHTTP, CacheThms!ServeHTTP, Cache!Publish, CacheThms!Publish,
         Cache!Record, CacheThms!Record,
         Cache!Recorded, CacheThms!Recorded, Cache!Expired,
         CacheThms!Expired, Cache!Reap, CacheThms!Reap, Cache!ReapBegin,
         CacheThms!ReapBegin, Cache!ReapVisit, CacheThms!ReapVisit,
         Cache!ReapDelete, CacheThms!ReapDelete, Cache!Tick, CacheThms!Tick,
         Cache!Restart, CacheThms!Restart, Cache!Goto, CacheThms!Goto,
         Cache!requestVars, CacheThms!requestVars, Cache!cacheVars,
         CacheThms!cacheVars, Cache!reaperVars, CacheThms!reaperVars

----------------------------------------------------------------------------

\* The initial states satisfy the invariant.
LEMMA InitServiceInv == Init => ServiceInv
  <1> SUFFICES ASSUME Init PROVE ServiceInv
    OBVIOUS
  <1>1. HandlerThms!IInv
    BY Assumptions, HandlerInit, HandlerThms!InitIInv DEF Init
  <1>2. CacheThms!IInv
    BY Assumptions, CacheInit, CacheThms!InitIInv DEF Init
  <1>3. OwnAnswer
    BY DEF Init, Cache!Init, OwnAnswer
  <1> QED  BY <1>1, <1>2, <1>3 DEF ServiceInv

\* A step of the service is a step of the handler, or leaves it alone.
LEMMA StepOfHandler ==
    ASSUME Next
    PROVE  [HandlerThms!Next]_(HandlerThms!vars)
  <1> DEFINE Idle == UNCHANGED handlerVars /\ UNCHANGED restarts
  <1>1. ASSUME NEW r \in Request, Middleware(r)
        PROVE  Idle
    BY <1>1 DEF Middleware, Cache!Lookup, Cache!Load, Cache!Replay,
                Cache!DropExpired, Cache!Record, Cache!Publish
  <1>2. ASSUME NEW r \in Request, NEW k \in Key \cup {NoKey}, Enter(r, k)
        PROVE  Idle
    BY <1>2 DEF Enter, Cache!Arrive
  <1>3. CASE CacheUpkeep
    <2> HIDE DEF Idle
    <2>1. Idle
      BY <1>3 DEF Idle, CacheUpkeep, Cache!Tick, Cache!Reap, Cache!ReapBegin,
                  Cache!ReapVisit, Cache!ReapDelete
    <2> QED  BY <2>1 DEF Idle, handlerVars, HandlerThms!vars
  <1>4. ASSUME NEW r \in Request, HandlerStep(r)
        PROVE  Handler!Next
    BY <1>4 DEF HandlerStep, Handler!Next
  <1>5. CASE StoreStep
    <2>1. Handler!Next
      BY <1>5 DEF StoreStep, Handler!Next
    <2> QED  BY <2>1, HandlerNext
  <1>6. CASE Restart
    <2>1. Handler!Next
      BY <1>6 DEF Restart, Handler!Next
    <2> QED  BY <2>1, HandlerNext
  <1>7. Idle => UNCHANGED HandlerThms!vars
    BY DEF handlerVars, HandlerThms!vars
  <1> HIDE DEF Idle
  <1> QED  BY <1>1, <1>2, <1>3, <1>4, <1>5, <1>6, <1>7, HandlerNext
           DEF Next, Steps

\* A step of r's handler that ends it gives r an answer.  No other changes
\* an answer, and none the answer of another request.
LEMMA HandlerAnswers ==
    ASSUME NEW r \in Request, HandlerThms!IInv,
           Handler!Arrive(r) \/ Handler!Serve(r)
    PROVE  /\ stage'[r] = "answered" => answer'[r] \in Codes
           /\ stage'[r] # "answered" => answer' = answer
           /\ \A q \in Request : q # r => answer'[q] = answer[q]
  <1>1. /\ stage \in [Request -> Handler!Stage]
        /\ answer \in [Request -> Handler!Answer]
    BY DEF HandlerThms!IInv, HandlerThms!TypeOK, HandlerThms!Stage,
           HandlerThms!Answer, Handler!Stage, Handler!Answer
  <1>2. CASE Handler!Arrive(r)
    <2>1. PICK scope \in Handler!Scope(Org \cup {NoOrg}),
               t \in Handler!Transport, b \in Handler!Body :
            Handler!Refuse(r, scope, t, b) \/ Handler!Admit(r, scope, t, b)
      BY <1>2 DEF Handler!Arrive
    <2>2. CASE Handler!Refuse(r, scope, t, b)
      <3>1. Handler!Refusal(scope.org, t, b) \in {"invalid", "unsupported"}
        BY <2>2 DEF Handler!Refuse, Handler!Refusal, Handler!Transport,
                    Handler!Body
      <3> QED  BY <1>1, <2>2, <3>1
               DEF Handler!Refuse, Handler!Reply, Codes, Handler!Answer
    <2>3. CASE Handler!Admit(r, scope, t, b)
      BY <1>1, <2>3 DEF Handler!Admit, Handler!Advance, Handler!After
    <2> QED  BY <2>1, <2>2, <2>3
  <1>3. CASE Handler!Serve(r)
    BY <1>1, <1>3
       DEF Handler!Serve, Handler!PutSource, Handler!PutSourceFails,
           Handler!InsertRow, Handler!InsertRowFails, Handler!EnqueueJob,
           Handler!EnqueueFails, Handler!Respond, Handler!Reply,
           Handler!Advance, Handler!After, Codes, Handler!Answer
  <1> QED  BY <1>2, <1>3

\* It is a step of the cache, or leaves the cache alone.
LEMMA StepOfCache ==
    ASSUME ServiceInv, Next
    PROVE  [CacheThms!Next]_(CacheThms!vars)
  <1> DEFINE Idle == UNCHANGED cacheVars /\ UNCHANGED restarts
  <1>1. ASSUME NEW r \in Request, Middleware(r)
        PROVE  Cache!Next
    BY <1>1 DEF Middleware, Cache!Next, Cache!Handle, Cache!Run
  <1>2. ASSUME NEW r \in Request, NEW k \in Key \cup {NoKey}, Enter(r, k)
        PROVE  Cache!Next
    BY <1>2 DEF Enter, Cache!Next
  <1>3. CASE CacheUpkeep
    BY <1>3, CacheNext DEF CacheUpkeep, Cache!Next
  <1>4. ASSUME NEW r \in Request, HandlerStep(r)
        PROVE  Cache!Next \/ Idle
    <2>1. CASE stage'[r] = "answered"
      <3>1. answer'[r] \in Codes
        BY <1>4, <2>1, HandlerAnswers DEF ServiceInv, HandlerStep
      <3> QED  BY <1>4, <2>1, <3>1
               DEF HandlerStep, Cache!Next, Cache!Handle, Cache!Run
    <2>2. CASE stage'[r] # "answered"
      <3>1. UNCHANGED restarts
        BY <1>4 DEF HandlerStep, Handler!Arrive, Handler!Refuse,
             Handler!Admit, Handler!Serve, Handler!PutSource,
             Handler!PutSourceFails, Handler!InsertRow,
             Handler!InsertRowFails, Handler!EnqueueJob,
             Handler!EnqueueFails, Handler!Respond
      <3> QED  BY <1>4, <2>2, <3>1 DEF HandlerStep
    <2> QED  BY <2>1, <2>2
  <1>5. CASE StoreStep
    <2>1. UNCHANGED restarts
      BY <1>5 DEF StoreStep, Handler!Work, Handler!StartJob,
           Handler!Summarize, Handler!FinishJob, Handler!AckJob,
           Handler!Unacknowledged, Handler!DeleteDocument
    <2> QED  BY <1>5, <2>1 DEF StoreStep, cacheVars, CacheThms!vars
  <1>6. CASE Restart
    BY <1>6, CacheNext DEF Restart, Cache!Next
  <1>7. Idle => UNCHANGED CacheThms!vars
    BY DEF cacheVars, CacheThms!vars
  <1> HIDE DEF Idle
  <1> QED  BY <1>1, <1>2, <1>3, <1>4, <1>5, <1>6, <1>7, CacheNext
           DEF Next, Steps

\* The link survives: a request gets its answer from the step that ends its
\* handler, or takes another's and then holds it.
LEMMA StepOwnAnswer ==
    ASSUME ServiceInv, Next
    PROVE  OwnAnswer'
  <1>1. /\ HandlerThms!IInv
        /\ at \in [Request -> Cache!Stage]
        /\ sent \in [Request -> Codes \cup {"none"}]
        /\ held \in [Request -> Request \cup {NoEntry}]
        /\ \A q \in Request : at[q] = "check" => held[q] # NoEntry
        /\ OwnAnswer
    BY DEF ServiceInv, CacheThms!IInv, CacheThms!TypeOK, CacheThms!Stages,
           CacheThms!Stage, Cache!Stage
  <1>2. ASSUME NEW r \in Request, Middleware(r)
        PROVE  OwnAnswer'
    BY <1>1, <1>2, ServiceAssumption
       DEF Middleware, handlerVars, OwnAnswer, Cache!Lookup, Cache!Load,
           Cache!Replay, Cache!DropExpired, Cache!Record, Cache!Publish,
           Cache!Goto
  <1>3. ASSUME NEW r \in Request, NEW k \in Key \cup {NoKey}, Enter(r, k)
        PROVE  OwnAnswer'
    BY <1>1, <1>3 DEF Enter, handlerVars, OwnAnswer, Cache!Arrive, Cache!Goto
  <1>4. ASSUME NEW r \in Request, HandlerStep(r)
        PROVE  OwnAnswer'
    <2>1. /\ stage'[r] = "answered" => answer'[r] \in Codes
          /\ stage'[r] # "answered" => answer' = answer
          /\ \A q \in Request : q # r => answer'[q] = answer[q]
      BY <1>1, <1>4, HandlerAnswers DEF HandlerStep
    <2> QED  BY <1>1, <1>4, <2>1
             DEF HandlerStep, cacheVars, OwnAnswer, Cache!ServeHTTP, Cache!Goto
  <1>5. CASE StoreStep
    <2>1. UNCHANGED answer
      BY <1>5 DEF StoreStep, Handler!Work, Handler!StartJob,
           Handler!Summarize, Handler!FinishJob, Handler!AckJob,
           Handler!Unacknowledged, Handler!DeleteDocument,
           Handler!requestVars
    <2> QED  BY <1>1, <1>5, <2>1 DEF StoreStep, cacheVars, OwnAnswer
  <1>6. CASE CacheUpkeep
    BY <1>1, <1>6
       DEF CacheUpkeep, handlerVars, OwnAnswer, Cache!requestVars,
           Cache!Tick, Cache!Reap, Cache!ReapBegin, Cache!ReapVisit,
           Cache!ReapDelete
  <1>7. CASE Restart
    BY <1>1, <1>7 DEF Restart, OwnAnswer, Handler!Crash, Cache!Restart
  <1> QED  BY <1>2, <1>3, <1>4, <1>5, <1>6, <1>7 DEF Next, Steps

\* Every step preserves the invariant.
LEMMA StepServiceInv == ServiceInv /\ [Next]_vars => ServiceInv'
  <1> SUFFICES ASSUME ServiceInv, [Next]_vars PROVE ServiceInv'
    OBVIOUS
  <1>1. /\ [HandlerThms!Next]_(HandlerThms!vars)
        /\ [CacheThms!Next]_(CacheThms!vars)
        /\ OwnAnswer'
    <2>1. CASE Next
      BY <2>1, StepOfHandler, StepOfCache, StepOwnAnswer
    <2>2. CASE UNCHANGED vars
      BY <2>2 DEF vars, handlerVars, cacheVars, HandlerThms!vars,
                  CacheThms!vars, ServiceInv, OwnAnswer
    <2> QED  BY <2>1, <2>2
  <1>2. HandlerThms!IInv'
    BY <1>1, Assumptions, HandlerThms!StepIInv DEF ServiceInv
  <1>3. CacheThms!IInv'
    BY <1>1, Assumptions, CacheThms!StepIInv DEF ServiceInv
  <1> QED  BY <1>1, <1>2, <1>3 DEF ServiceInv

\* The inductive invariant holds in every reachable state of the service.
THEOREM Invariance == Spec => []ServiceInv
  BY InitServiceInv, StepServiceInv, PTL DEF Spec

----------------------------------------------------------------------------

\* A client that is told 202, by the handler or by a replay, is told of a
\* document whose bytes, row and job were all written.
THEOREM AcceptedAnswersAreDurable == Spec => []AcceptedAnswerIsDurable
  <1>1. ServiceInv => AcceptedAnswerIsDurable
    <2> SUFFICES ASSUME ServiceInv, NEW r \in Request,
                        at[r] = "done", sent[r] = "accepted"
                 PROVE  /\ Told(r) \in blobs
                        /\ rows[Told(r)] # "none"
                        /\ jobs[Told(r)] # "none"
      BY DEF AcceptedAnswerIsDurable
    <2>1. Told(r) \in Request /\ answer[Told(r)] = "accepted"
      <3>1. CASE held[r] = NoEntry
        BY <3>1 DEF ServiceInv, OwnAnswer, Told
      <3>2. CASE held[r] # NoEntry
        <4>1. /\ held[r] \in Request
              /\ held[held[r]] = NoEntry
              /\ sent[held[r]] = "accepted"
          BY <3>2 DEF ServiceInv, CacheThms!IInv, CacheThms!TypeOK,
                      CacheThms!HeldCached, CacheThms!Cached,
                      CacheThms!Made
        <4> QED  BY <3>2, <4>1 DEF ServiceInv, OwnAnswer, Told
      <3> QED  BY <3>1, <3>2
    <2> QED  BY <2>1 DEF ServiceInv, HandlerThms!IInv,
                         HandlerThms!AnswerWrites, HandlerThms!WriteOrder
  <1> QED  BY <1>1, Invariance, PTL

----------------------------------------------------------------------------

\* One life of the process, and no longer than a response lives.
Window == restarts = 0 /\ now <= TTL

\* Of the requests with one key, at most one is under way.
OneUnderWay ==
    \A q, r \in Request :
        q # r /\ key[q] = key[r] /\ key[r] # NoKey => at[q] = "done" \/ at[r] = "done"

\* Nothing has expired yet, so nothing is dropped or swept.
NothingExpired ==
    /\ \A q \in Request : expiresAt[q] # 0 => expiresAt[q] >= TTL
    /\ victim = NoKey

\* What a request knows of its key, under way and when it has ended: the
\* entry of a settled key is the response of the one whose handler ran.
KeyKnown ==
    \A r \in Request :
        /\ at[r] # "lost"
        /\ key[r] # NoKey =>
             /\ at[r] \in {"serve", "store", "publish"} => entries[key[r]] = NoEntry
             /\ at[r] \in {"check", "done"} => entries[key[r]] # NoEntry
             /\ at[r] = "done" /\ held[r] = NoEntry => entries[key[r]] = r

\* A row is written by a request whose handler runs or ran.
Runners ==
    \A r \in Request : rows[r] # "none" =>
        at[r] \in {"serve", "store", "publish", "done"} /\ held[r] = NoEntry

\* The inductive invariant of clients that retry in turn.
InWindow == Window => OneUnderWay /\ NothingExpired /\ KeyKnown /\ Runners
SerialInv == ServiceInv /\ InWindow

\* The initial states satisfy it.
LEMMA InitSerialInv == Init => SerialInv
  <1> SUFFICES ASSUME Init PROVE SerialInv
    OBVIOUS
  <1>1. InWindow
    BY DEF Init, Handler!Init, Cache!Init, InWindow, OneUnderWay,
           NothingExpired, KeyKnown, Runners
  <1> QED  BY <1>1, InitServiceInv DEF SerialInv

\* The steps of the cache's lookup, which leave the rows alone.
LEMMA MiddlewareInWindow ==
    ASSUME SerialInv, Window, NEW r \in Request, Middleware(r)
    PROVE  InWindow'
  <1> USE ServiceAssumption
      DEF SerialInv, InWindow, ServiceInv, CacheThms!IInv, CacheThms!TypeOK,
          Cache!Goto, handlerVars, Cache!cacheVars, Cache!reaperVars,
          OneUnderWay, NothingExpired, KeyKnown, Runners, CacheThms!Stages
  <1>1. CASE Cache!Load(r)
    BY <1>1 DEF Cache!Load, Middleware
  <1>2. CASE Cache!Replay(r)
    <2>1. held[r] # NoEntry /\ key[r] \in Key /\ entries[key[r]] # NoEntry
      BY <1>2 DEF Cache!Replay
    <2> QED  BY <1>2, <2>1 DEF Cache!Replay, Middleware
  <1>3. CASE Cache!DropExpired(r)
    <2>1. held[r] \in Request /\ expiresAt[held[r]] # 0
      BY <1>3 DEF Cache!DropExpired, CacheThms!HeldCached
    <2>2. now > expiresAt[held[r]] /\ expiresAt[held[r]] >= TTL
      BY <1>3, <2>1 DEF Cache!DropExpired, Cache!Expired
    <2> QED  BY <2>1, <2>2 DEF Window
  <1>4. CASE Cache!Publish(r)
    <2>1. /\ key[r] \in Key /\ held[r] = NoEntry /\ entries[key[r]] = NoEntry
      BY <1>4 DEF Cache!Publish, CacheThms!HeldCached
    <2> QED  BY <1>4, <2>1 DEF Cache!Publish, Middleware
  <1>5. CASE Cache!Record(r)
    <2>1. key[r] \in Key /\ held[r] = NoEntry /\ now \in Nat /\ TTL \in Nat
      BY <1>5 DEF Cache!Record, CacheThms!HeldCached
    <2> QED  BY <1>5, <2>1 DEF Cache!Record, Middleware
  <1> QED  BY <1>1, <1>2, <1>3, <1>4, <1>5 DEF Middleware, Cache!Lookup

\* A request comes in when no other with its key is under way.
LEMMA EnterInWindow ==
    ASSUME SerialInv, Window, NEW r \in Request, NEW k \in Key \cup {NoKey},
           Cache!InTurn(r, k), Enter(r, k)
    PROVE  InWindow'
  <1>1. /\ at[r] = "new" /\ key' = [key EXCEPT ![r] = k]
        /\ at' = [at EXCEPT ![r] = IF k = NoKey THEN "serve" ELSE "load"]
        /\ UNCHANGED <<expiresAt, victim, entries, held, rows>>
    BY DEF Enter, Cache!Arrive, Cache!Goto, Cache!cacheVars, Cache!reaperVars,
           handlerVars
  <1>2. /\ at \in [Request -> CacheThms!Stage]
        /\ key \in [Request -> Key \cup {NoKey}]
        /\ \A q \in Request : held[q] # NoEntry => at[q] \in {"check", "done", "lost"}
        /\ \A q \in Request : at[q] = "new" => key[q] = NoKey
        /\ \A k2 \in Key : entries[k2] # NoEntry => at[entries[k2]] = "done"
    BY DEF SerialInv, ServiceInv, CacheThms!IInv, CacheThms!TypeOK,
           CacheThms!HeldCached, CacheThms!Stages, CacheThms!EntriesCached,
           CacheThms!Cached
  <1>3. OneUnderWay /\ NothingExpired /\ KeyKnown /\ Runners
    BY DEF SerialInv, InWindow
  <1>4. OneUnderWay'
    BY <1>1, <1>2, <1>3 DEF OneUnderWay, Cache!InTurn, KeyKnown
  <1>5. NothingExpired' /\ Runners'
    BY <1>1, <1>2, <1>3 DEF NothingExpired, Runners
  <1>6. KeyKnown'
    BY <1>1, <1>2, <1>3, ServiceAssumption DEF KeyKnown
  <1> QED  BY <1>4, <1>5, <1>6 DEF InWindow

\* The handler inserts a row while its request is in ServeHTTP.
LEMMA HandlerInWindow ==
    ASSUME SerialInv, Window, NEW r \in Request, HandlerStep(r)
    PROVE  InWindow'
  <1>1. \A q \in Request : q # r => rows'[q] = rows[q]
    <2> USE DEF SerialInv, ServiceInv, HandlerThms!IInv, HandlerThms!TypeOK
    <2>1. CASE Handler!Arrive(r)
      BY <2>1 DEF Handler!Arrive, Handler!Refuse, Handler!Admit, Handler!storeVars
    <2>2. CASE Handler!Serve(r)
      BY <2>2 DEF Handler!Serve, Handler!PutSource, Handler!PutSourceFails,
                  Handler!InsertRow, Handler!InsertRowFails, Handler!EnqueueJob,
                  Handler!EnqueueFails, Handler!Respond, Handler!storeVars
    <2> QED  BY <2>1, <2>2 DEF HandlerStep
  <1>2. /\ at[r] = "serve"
        /\ \/ at' = [at EXCEPT ![r] = IF key[r] = NoKey THEN "done" ELSE "store"]
           \/ at' = at
        /\ UNCHANGED <<key, expiresAt, victim, entries, held>>
    BY DEF HandlerStep, Cache!ServeHTTP, Cache!Goto, Cache!cacheVars,
           Cache!reaperVars, cacheVars
  <1>3. /\ at \in [Request -> CacheThms!Stage]
        /\ \A q \in Request : held[q] # NoEntry => at[q] \in {"check", "done", "lost"}
    BY DEF SerialInv, ServiceInv, CacheThms!IInv, CacheThms!TypeOK,
           CacheThms!HeldCached
  <1>4. OneUnderWay /\ NothingExpired /\ KeyKnown /\ Runners
    BY DEF SerialInv, InWindow
  <1>5. OneUnderWay' /\ NothingExpired'
    BY <1>2, <1>3, <1>4 DEF OneUnderWay, NothingExpired
  <1>6. KeyKnown'
    BY <1>2, <1>3, <1>4 DEF KeyKnown
  <1>7. Runners'
    BY <1>1, <1>2, <1>3, <1>4 DEF Runners
  <1> QED  BY <1>5, <1>6, <1>7 DEF InWindow

\* The pipeline and a delete make no row.
LEMMA StoresInWindow ==
    ASSUME SerialInv, Window, StoreStep
    PROVE  InWindow'
  <1>1. \A q \in Request : rows'[q] # "none" => rows[q] # "none"
    <2> USE DEF SerialInv, ServiceInv, HandlerThms!IInv, HandlerThms!TypeOK
    <2>1. ASSUME NEW r \in Request, Handler!Work(r)
          PROVE  \A q \in Request : rows'[q] # "none" => rows[q] # "none"
      BY <2>1 DEF Handler!Work, Handler!StartJob, Handler!Summarize,
                  Handler!FinishJob, Handler!AckJob, Handler!Unacknowledged,
                  Handler!SetStatus, Handler!Status
    <2>2. ASSUME NEW r \in Request, NEW scope \in Handler!Scope(Org),
                 Handler!DeleteDocument(r, scope)
          PROVE  \A q \in Request : rows'[q] # "none" => rows[q] # "none"
      BY <2>2 DEF Handler!DeleteDocument, Handler!Visible, Handler!Status
    <2> QED  BY <2>1, <2>2 DEF StoreStep
  <1>2. UNCHANGED <<at, key, expiresAt, victim, entries, held>>
    BY DEF StoreStep, cacheVars
  <1> QED
    BY <1>1, <1>2 DEF SerialInv, InWindow, OneUnderWay, NothingExpired, KeyKnown,
                      Runners, Window, StoreStep, cacheVars

\* The reaper finds nothing to delete.
LEMMA UpkeepInWindow ==
    ASSUME SerialInv, Window, CacheUpkeep
    PROVE  InWindow'
  <1>1. OneUnderWay /\ NothingExpired /\ KeyKnown /\ Runners
    BY DEF SerialInv, InWindow
  <1>2. UNCHANGED <<at, key, held, expiresAt, rows>>
    BY DEF CacheUpkeep, handlerVars, Cache!Reap, Cache!ReapBegin, Cache!ReapVisit,
           Cache!ReapDelete, Cache!Tick, Cache!requestVars, Cache!cacheVars
  <1>3. entries' = entries /\ victim' = NoKey
    <2>1. CASE Cache!Tick \/ Cache!ReapBegin
      BY <1>1, <2>1 DEF Cache!Tick, Cache!ReapBegin, Cache!cacheVars,
                        Cache!reaperVars, NothingExpired
    <2>2. ASSUME NEW k \in Key, Cache!ReapVisit(k)
          PROVE  entries' = entries /\ victim' = NoKey
      <3>1. entries[k] # NoEntry => ~ Cache!Expired(entries[k], cutoff)
        <4>1. CacheThms!IInv
          BY DEF SerialInv, ServiceInv
        <4>2. /\ TTL \in Nat /\ now \in Nat /\ cutoff \in Nat
              /\ entries[k] # NoEntry =>
                   entries[k] \in Request /\ expiresAt[entries[k]] \in Nat
          BY <4>1, Assumptions
             DEF CacheThms!CacheAssumption, CacheThms!IInv, CacheThms!TypeOK
        <4>3. entries[k] # NoEntry => expiresAt[entries[k]] # 0
          BY <4>1 DEF CacheThms!IInv, CacheThms!EntriesCached
        <4>4. entries[k] # NoEntry => expiresAt[entries[k]] >= TTL
          BY <1>1, <4>2, <4>3 DEF NothingExpired
        <4>5. cutoff <= now
          BY <4>1 DEF CacheThms!IInv, CacheThms!SweepBehind
        <4> QED  BY <4>2, <4>4, <4>5 DEF Window, Cache!Expired
      <3> QED  BY <2>2, <3>1 DEF Cache!ReapVisit, Cache!cacheVars
    <2>3. ~ Cache!ReapDelete
      BY <1>1 DEF Cache!ReapDelete, NothingExpired
    <2> QED  BY <2>1, <2>2, <2>3 DEF CacheUpkeep, Cache!Reap
  <1> QED
    BY <1>1, <1>2, <1>3 DEF InWindow, OneUnderWay, NothingExpired, KeyKnown, Runners

\* Every step of clients that retry in turn preserves the invariant.
LEMMA StepSerialInv == SerialInv /\ [SerialNext]_vars => SerialInv'
  <1> SUFFICES ASSUME SerialInv, [SerialNext]_vars PROVE SerialInv'
    OBVIOUS
  <1>1. ServiceInv'
    <2>1. [Next]_vars
      BY DEF SerialNext, Next
    <2> QED  BY <2>1, StepServiceInv DEF SerialInv
  <1>2. InWindow'
    <2>1. CASE UNCHANGED vars
      BY <2>1 DEF vars, handlerVars, cacheVars, SerialInv, InWindow, Window,
                  OneUnderWay, NothingExpired, KeyKnown, Runners
    <2>2. CASE Restart
      <3>1. restarts' # 0
        BY <2>2 DEF Restart, Handler!Crash, SerialInv, ServiceInv,
                    CacheThms!IInv, CacheThms!TypeOK
      <3> QED  BY <3>1 DEF InWindow, Window
    <2>3. CASE SerialNext /\ ~ Restart /\ Window
      BY <2>3, MiddlewareInWindow, EnterInWindow, HandlerInWindow,
         StoresInWindow, UpkeepInWindow DEF SerialNext, Steps
    <2>4. CASE SerialNext /\ ~ Window
      <3>1. [CacheThms!Next]_(CacheThms!vars)
        <4>1. Next
          BY <2>4 DEF SerialNext, Next
        <4> QED  BY <4>1, StepOfCache DEF SerialInv
      <3>2. now \in Nat /\ TTL \in Nat /\ restarts \in Nat
        BY ServiceAssumption DEF SerialInv, ServiceInv, CacheThms!IInv,
                                 CacheThms!TypeOK
      <3>3. /\ now' = now \/ now' = now + 1
            /\ restarts' = restarts \/ restarts' = restarts + 1
        BY <3>1 DEF CacheThms!Next, CacheThms!vars, CacheThms!Arrive,
             CacheThms!Handle, CacheThms!Lookup, CacheThms!Run, CacheThms!Record, CacheThms!Load,
             CacheThms!Replay, CacheThms!DropExpired, CacheThms!ServeHTTP,
             CacheThms!Publish, CacheThms!Reap, CacheThms!ReapBegin,
             CacheThms!ReapVisit, CacheThms!ReapDelete, CacheThms!Tick,
             CacheThms!Restart
      <3> QED  BY <2>4, <3>2, <3>3 DEF InWindow, Window
    <2> QED  BY <2>1, <2>2, <2>3, <2>4
  <1> QED  BY <1>1, <1>2 DEF SerialInv

\* Within one TTL and one life of the process, clients that retry in turn
\* have a key ingested once, for any number of requests and keys.
THEOREM RetriesAreOnce == SerialSpec => []RetriesIngestOnce
  <1>1. SerialInv => RetriesIngestOnce
    <2> SUFFICES ASSUME SerialInv, Window, NEW q \in Request, NEW r \in Request,
                        q # r, key[q] = key[r], key[r] # NoKey,
                        rows[q] # "none", rows[r] # "none"
                 PROVE  FALSE
      BY DEF RetriesIngestOnce, NoDuplicateIngestion, Window
    <2> QED  BY DEF SerialInv, InWindow, OneUnderWay, KeyKnown, Runners
  <1> QED  BY <1>1, InitSerialInv, StepSerialInv, PTL DEF SerialSpec

=============================================================================
