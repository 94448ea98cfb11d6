----------------------- MODULE IdempotencyCacheProofs -----------------------
(***************************************************************************)
(* Theorems about the idempotency cache, for any sets of requests, keys    *)
(* and codes, any TTL and any bounds on time and restarts.                 *)
(***************************************************************************)
EXTENDS IdempotencyCache, TLAPS

\* q ran the handler, and its response was made.
Made(q) ==
    /\ key[q] \in Key /\ held[q] = NoEntry
    /\ answer[q] \in Code /\ savedCode[q] = answer[q]

\* It was also stored and sent.
Cached(q) == pc[q] = "done" /\ Made(q)

\* A key maps to a stored response of a request with that key.
EntriesCached ==
    \A k \in Key : entries[k] # NoEntry =>
        /\ Cached(entries[k])
        /\ key[entries[k]] = k
        /\ expiresAt[entries[k]] # 0

\* A request holds only stored responses of its own key.
HeldCached ==
    \A r \in Request : held[r] # NoEntry =>
        /\ pc[r] \in {"check", "done", "lost"}
        /\ Cached(held[r]) /\ key[held[r]] = key[r]
        /\ pc[r] = "check" => expiresAt[held[r]] # 0
        /\ pc[r] = "done"  => answer[r] = savedCode[held[r]]

\* Where a request stands, and what it knows there.
Stages ==
    \A r \in Request :
        /\ pc[r] = "new" => key[r] = NoKey
        /\ pc[r] \in {"load", "check", "store", "publish"} => key[r] \in Key
        /\ pc[r] = "check" => held[r] # NoEntry
        /\ pc[r] = "store" => answer[r] \in Code
        /\ pc[r] = "publish" => Made(r) /\ expiresAt[r] # 0

\* Expiry times belong to responses that are stored or about to be.
ExpiryCached ==
    \A q \in Request : expiresAt[q] # 0 => pc[q] = "publish" \/ Cached(q)

\* The sweep's clock reading is in the past, and so is the expiry of some
\* response to the key it is about to delete.
SweepBehind ==
    /\ cutoff <= now
    /\ victim # NoKey =>
         \E p \in Request :
            /\ pc[p] = "done" /\ key[p] = victim
            /\ expiresAt[p] # 0 /\ expiresAt[p] < cutoff

\* The inductive invariant.
IInv == /\ TypeOK
        /\ EntriesCached /\ HeldCached /\ Stages /\ ExpiryCached
        /\ SweepBehind /\ SweptIsClean /\ NoLossBeforeExpiry

----------------------------------------------------------------------------

\* The initial states satisfy the invariant.
LEMMA InitIInv == Init => IInv
  BY CacheAssumption
     DEF Init, IInv, TypeOK, Stage, EntriesCached, HeldCached, Stages,
         ExpiryCached, SweepBehind, SweptIsClean, NoLossBeforeExpiry, Cached,
         Made

\* An arriving request has stored nothing yet.
LEMMA ArrivePreserves ==
    ASSUME NEW r \in Request, NEW k \in Key \cup {NoKey}, IInv, Arrive(r, k)
    PROVE  IInv'
  <1> USE CacheAssumption DEF IInv, Made, Arrive, Goto, cacheVars, reaperVars
  <1>1. TypeOK'
    BY DEF TypeOK, Stage
  <1>2. \A q \in Request : Cached(q) => q # r /\ Cached(q)'
    BY DEF TypeOK, Stages, Cached
  <1>3. EntriesCached'
    BY <1>2 DEF TypeOK, EntriesCached
  <1>4. HeldCached'
    BY <1>2 DEF TypeOK, HeldCached
  <1>5. Stages' /\ ExpiryCached'
    BY <1>2 DEF TypeOK, Stages, ExpiryCached, HeldCached
  <1>6. SweepBehind' /\ SweptIsClean' /\ NoLossBeforeExpiry'
    BY <1>2 DEF TypeOK, SweepBehind, SweptIsClean, NoLossBeforeExpiry,
               ExpiryCached
  <1> QED  BY <1>1, <1>3, <1>4, <1>5, <1>6

\* get: load, replay, or delete the key of an expired response.
LEMMA LookupPreserves ==
    ASSUME NEW r \in Request, IInv, Lookup(r)
    PROVE  IInv'
  <1> USE CacheAssumption DEF IInv, Made, Goto, cacheVars, reaperVars, Expired
  <1>1. CASE Load(r)
    <2> USE <1>1 DEF Load
    <2>1. TypeOK' /\ key[r] \in Key
      BY DEF TypeOK, Stage, Stages
    <2>2. \A q \in Request : Cached(q) => q # r /\ Cached(q)'
      BY DEF TypeOK, Cached
    <2>3. EntriesCached' /\ ExpiryCached'
      BY <2>2 DEF TypeOK, EntriesCached, ExpiryCached
    <2>4. HeldCached' /\ Stages'
      BY <2>1, <2>2 DEF TypeOK, HeldCached, Stages, EntriesCached
    <2>5. SweepBehind' /\ SweptIsClean' /\ NoLossBeforeExpiry'
      BY DEF TypeOK, SweepBehind, SweptIsClean, NoLossBeforeExpiry
    <2> QED  BY <2>1, <2>3, <2>4, <2>5
  <1>2. CASE Replay(r)
    <2> USE <1>2 DEF Replay
    <2>1. TypeOK' /\ held[r] \in Request /\ Cached(held[r])
      BY DEF TypeOK, Stage, Stages, HeldCached, Cached
    <2>2. \A q \in Request : Cached(q) => q # r /\ Cached(q)'
      BY DEF TypeOK, Cached
    <2>3. EntriesCached' /\ ExpiryCached'
      BY <2>2 DEF TypeOK, EntriesCached, ExpiryCached
    <2>4. HeldCached' /\ Stages'
      BY <2>1, <2>2 DEF TypeOK, HeldCached, Stages
    <2>5. expiresAt[r] = 0
      BY DEF ExpiryCached, Cached
    <2>6. SweepBehind' /\ SweptIsClean'
      BY DEF TypeOK, SweepBehind, SweptIsClean
    <2>7. NoLossBeforeExpiry'
      BY <2>5 DEF TypeOK, NoLossBeforeExpiry
    <2> QED  BY <2>1, <2>3, <2>4, <2>6, <2>7
  <1>3. CASE DropExpired(r)
    <2> USE <1>3 DEF DropExpired
    <2>1. TypeOK' /\ key[r] \in Key /\ held[r] \in Request
      BY DEF TypeOK, Stage, Stages
    <2>2. \A q \in Request : Cached(q) => q # r /\ Cached(q)'
      BY DEF TypeOK, Cached
    <2>3. EntriesCached' /\ ExpiryCached'
      BY <2>1, <2>2 DEF TypeOK, EntriesCached, ExpiryCached
    <2>4. HeldCached' /\ Stages'
      BY <2>2 DEF TypeOK, HeldCached, Stages
    <2>5. SweepBehind' /\ SweptIsClean'
      BY DEF TypeOK, SweepBehind, SweptIsClean
    <2>6. NoLossBeforeExpiry'
      <3>1. /\ pc[held[r]] = "done" /\ key[held[r]] = key[r]
            /\ expiresAt[held[r]] # 0 /\ expiresAt[held[r]] < now
        BY <2>1 DEF HeldCached, Cached, TypeOK
      <3> QED  BY <2>1, <3>1 DEF TypeOK, NoLossBeforeExpiry
    <2> QED  BY <2>1, <2>3, <2>4, <2>5, <2>6
  <1> QED  BY <1>1, <1>2, <1>3 DEF Lookup

\* The handler returns, and its response is stored.
LEMMA RunPreserves ==
    ASSUME NEW r \in Request, IInv, Run(r)
    PROVE  IInv'
  <1> USE CacheAssumption DEF IInv, Made, Goto, cacheVars, reaperVars
  <1>1. ASSUME NEW c \in Code, ServeHTTP(r, c)
        PROVE  IInv'
    <2> USE <1>1 DEF ServeHTTP
    <2>1. TypeOK' /\ held[r] = NoEntry
      BY DEF TypeOK, Stage, HeldCached
    <2>2. \A q \in Request : Cached(q) => q # r /\ Cached(q)'
      BY DEF TypeOK, Cached
    <2>3. EntriesCached' /\ ExpiryCached'
      BY <2>2 DEF TypeOK, EntriesCached, ExpiryCached
    <2>4. HeldCached' /\ Stages'
      BY <2>1, <2>2 DEF TypeOK, HeldCached, Stages
    <2>5. expiresAt[r] = 0
      BY DEF ExpiryCached, Cached
    <2>6. SweepBehind' /\ SweptIsClean'
      BY DEF TypeOK, SweepBehind, SweptIsClean
    <2>7. NoLossBeforeExpiry'
      BY <2>5 DEF TypeOK, NoLossBeforeExpiry
    <2> QED  BY <2>1, <2>3, <2>4, <2>6, <2>7
  <1>2. CASE Record(r)
    <2> USE <1>2 DEF Record, Recorded
    <2>1. TypeOK' /\ held[r] = NoEntry /\ key[r] \in Key
      BY DEF TypeOK, Stage, HeldCached, Stages
    <2>2. \A q \in Request : Cached(q) => q # r /\ Cached(q)'
      BY DEF TypeOK, Cached, Made
    <2>3. Made(r)' /\ expiresAt'[r] # 0
      BY <2>1 DEF TypeOK, Stages, Made
    <2>4. EntriesCached' /\ ExpiryCached'
      BY <2>1, <2>2, <2>3 DEF TypeOK, EntriesCached, ExpiryCached
    <2>5. HeldCached'
      BY <2>1, <2>2 DEF TypeOK, HeldCached
    <2>6. Stages'
      BY <2>1, <2>3 DEF TypeOK, Stages, Made
    <2>7. SweepBehind' /\ SweptIsClean' /\ NoLossBeforeExpiry'
      BY <2>1, <2>2 DEF TypeOK, SweepBehind, SweptIsClean, NoLossBeforeExpiry,
                        EntriesCached
    <2> QED  BY <2>1, <2>4, <2>5, <2>6, <2>7
  <1>3. CASE Publish(r)
    <2> USE <1>3 DEF Publish
    <2>1. TypeOK' /\ Made(r) /\ key[r] \in Key /\ expiresAt[r] # 0
      BY DEF TypeOK, Stage, Stages
    <2>2. \A q \in Request : Cached(q) => q # r /\ Cached(q)'
      BY DEF TypeOK, Cached, Made
    <2>3. Cached(r)'
      BY <2>1 DEF TypeOK, Cached, Made
    <2>4. EntriesCached'
      BY <2>1, <2>2, <2>3 DEF TypeOK, EntriesCached
    <2>5. ExpiryCached'
      BY <2>1, <2>2, <2>3 DEF TypeOK, ExpiryCached
    <2>6. HeldCached'
      BY <2>1, <2>2 DEF TypeOK, HeldCached, Made
    <2>7. Stages'
      BY <2>1 DEF TypeOK, Stages, Made
    <2>8. SweepBehind' /\ SweptIsClean'
      BY <2>1 DEF TypeOK, SweepBehind, SweptIsClean
    <2>9. NoLossBeforeExpiry'
      BY <2>1 DEF TypeOK, NoLossBeforeExpiry
    <2> QED  BY <2>1, <2>4, <2>5, <2>6, <2>7, <2>8, <2>9
  <1> QED  BY <1>1, <1>2, <1>3 DEF Run

\* The sweep's three steps.
LEMMA ReapPreserves ==
    ASSUME IInv, Reap
    PROVE  IInv'
  <1> USE CacheAssumption DEF IInv, Made, requestVars, cacheVars, Expired
  <1>1. CASE ReapBegin
    <2> USE <1>1 DEF ReapBegin
    <2>1. TypeOK'
      BY DEF TypeOK
    <2>2. EntriesCached' /\ HeldCached' /\ Stages' /\ ExpiryCached'
      BY DEF EntriesCached, HeldCached, Stages, ExpiryCached, Cached
    <2>3. SweepBehind' /\ SweptIsClean' /\ NoLossBeforeExpiry'
      BY DEF TypeOK, SweepBehind, SweptIsClean, NoLossBeforeExpiry
    <2> QED  BY <2>1, <2>2, <2>3
  <1>2. ASSUME NEW k \in Key, ReapVisit(k)
        PROVE  IInv'
    <2> USE <1>2 DEF ReapVisit
    <2>1. TypeOK'
      BY DEF TypeOK
    <2>2. EntriesCached' /\ HeldCached' /\ Stages' /\ ExpiryCached'
      BY DEF EntriesCached, HeldCached, Stages, ExpiryCached, Cached
    <2>3. SweepBehind' /\ SweptIsClean' /\ NoLossBeforeExpiry'
      BY DEF TypeOK, SweepBehind, SweptIsClean, NoLossBeforeExpiry,
             EntriesCached, Cached
    <2> QED  BY <2>1, <2>2, <2>3
  <1>3. CASE ReapDelete
    <2> USE <1>3 DEF ReapDelete
    <2>1. TypeOK'
      BY DEF TypeOK
    <2>2. EntriesCached' /\ HeldCached' /\ Stages' /\ ExpiryCached'
      BY DEF TypeOK, EntriesCached, HeldCached, Stages, ExpiryCached, Cached
    <2>3. SweepBehind' /\ SweptIsClean'
      BY DEF TypeOK, SweepBehind, SweptIsClean
    <2>4. NoLossBeforeExpiry'
      BY DEF TypeOK, SweepBehind, NoLossBeforeExpiry, ExpiryCached, Cached
    <2> QED  BY <2>1, <2>2, <2>3, <2>4
  <1> QED  BY <1>1, <1>2, <1>3 DEF Reap

\* Time passes.
LEMMA TickPreserves ==
    ASSUME IInv, Tick
    PROVE  IInv'
  BY CacheAssumption
     DEF Tick, IInv, requestVars, cacheVars, reaperVars, TypeOK,
         EntriesCached, HeldCached, Stages, ExpiryCached, SweepBehind,
         SweptIsClean, NoLossBeforeExpiry, Cached, Made

\* A restart empties the map and forgets all expiry times.
LEMMA RestartPreserves ==
    ASSUME IInv, Restart
    PROVE  IInv'
  <1> USE CacheAssumption DEF IInv, Made, Restart
  <1>1. TypeOK'
    BY DEF TypeOK, Stage
  <1>2. \A q \in Request : Cached(q) => Cached(q)'
    BY DEF TypeOK, Cached
  <1>3. EntriesCached' /\ HeldCached' /\ Stages' /\ ExpiryCached'
    BY <1>2 DEF TypeOK, EntriesCached, HeldCached, Stages, ExpiryCached
  <1>4. SweepBehind' /\ SweptIsClean' /\ NoLossBeforeExpiry'
    BY DEF TypeOK, SweepBehind, SweptIsClean, NoLossBeforeExpiry
  <1> QED  BY <1>1, <1>3, <1>4

\* Every step preserves the invariant.
LEMMA StepIInv == IInv /\ [Next]_vars => IInv'
  <1> SUFFICES ASSUME IInv, [Next]_vars
               PROVE  IInv'
    OBVIOUS
  <1>1. ASSUME NEW r \in Request, NEW k \in Key \cup {NoKey}, Arrive(r, k)
        PROVE  IInv'
    BY <1>1, ArrivePreserves
  <1>2. ASSUME NEW r \in Request, Handle(r)
        PROVE  IInv'
    BY <1>2, LookupPreserves, RunPreserves DEF Handle
  <1>3. CASE Reap
    BY <1>3, ReapPreserves
  <1>4. CASE Tick
    BY <1>4, TickPreserves
  <1>5. CASE Restart
    BY <1>5, RestartPreserves
  <1>6. CASE UNCHANGED vars
    BY <1>6 DEF vars, IInv, TypeOK, EntriesCached, HeldCached, Stages,
                ExpiryCached, SweepBehind, SweptIsClean, NoLossBeforeExpiry,
                Cached, Made
  <1> QED  BY <1>1, <1>2, <1>3, <1>4, <1>5, <1>6 DEF Next

\* The inductive invariant holds in every reachable state.
THEOREM Invariance == Spec => []IInv
  BY InitIInv, StepIInv, PTL DEF Spec

----------------------------------------------------------------------------

\* Every variable of the middleware keeps to its type.
THEOREM TypeCorrect == Spec => []TypeOK
  <1>1. IInv => TypeOK
    BY DEF IInv
  <1> QED  BY <1>1, Invariance, PTL

\* Whatever the interleaving of requests, sweeps and restarts, a replayed
\* response is the finished response of a request with the same key.
THEOREM ReplaysAreFaithful == Spec => []ReplayIsFaithful
  <1>1. IInv => ReplayIsFaithful
    BY CacheAssumption
       DEF IInv, TypeOK, HeldCached, Cached, Made, ReplayIsFaithful
  <1> QED  BY <1>1, Invariance, PTL

\* Until a first response to a key expires, no lookup and no sweep can make
\* the cache forget the key.
THEOREM FirstResponseIsKept == Spec => []NoLossBeforeExpiry
  <1>1. IInv => NoLossBeforeExpiry
    BY DEF IInv
  <1> QED  BY <1>1, Invariance, PTL

\* A sweep leaves nothing behind that had expired when it began.
THEOREM SweepsAreComplete == Spec => []SweptIsClean
  <1>1. IInv => SweptIsClean
    BY DEF IInv
  <1> QED  BY <1>1, Invariance, PTL

=============================================================================
