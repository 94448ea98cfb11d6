---------------------- MODULE IdempotentRetriesProofs ----------------------
(***************************************************************************)
(* The idempotency cache implements OnceEndpoint, for clients that retry   *)
(* in turn, within one TTL and one life of the process.                    *)
(***************************************************************************)
EXTENDS IdempotentRetries, IdempotencyCacheProofs

\* Clients retry in turn: at most one request of a key is under way.
OneUnderWay ==
    \A q, r \in Request :
        /\ q # r /\ key[q] = key[r] /\ key[r] # NoKey
        => pc[q] = "done" \/ pc[r] = "done"

\* Nothing has expired, so the reaper has nothing to delete.
NothingExpired ==
    /\ \A q \in Request : expiresAt[q] # 0 => expiresAt[q] >= TTL
    /\ victim = NoKey

\* What a request under way knows of its key.
KeyKnown ==
    \A r \in Request : key[r] # NoKey =>
        /\ pc[r] = "check" => entries[key[r]] = held[r]
        /\ pc[r] \in {"serve", "store", "publish"} => entries[key[r]] = NoEntry
        /\ pc[r] \notin {"new", "lost"}

SerialInv == IInv /\ OneUnderWay /\ NothingExpired /\ KeyKnown

----------------------------------------------------------------------------

\* The initial states satisfy the serial invariant.
LEMMA SerialInit == Init => SerialInv
  BY InitIInv, CacheAssumption
     DEF Init, SerialInv, OneUnderWay, NothingExpired, KeyKnown

\* A step of clients that retry in turn is a step of the cache.
LEMMA SerialIsNext == [SerialNext]_vars => [Next]_vars
  BY DEF SerialNext, Next

\* What the window rules out.
LEMMA InWindow ==
    ASSUME SerialInv
    PROVE  /\ ~ Restart /\ ~ ReapDelete
           /\ \A r \in Request : ~ DropExpired(r)
  <1> USE CacheAssumption, WindowAssumption
  <1>1. ~ Restart
    BY DEF Restart, SerialInv, IInv, TypeOK
  <1>2. ~ ReapDelete
    BY DEF ReapDelete, SerialInv, NothingExpired
  <1>3. ASSUME NEW r \in Request, DropExpired(r)
        PROVE  FALSE
    <2>1. held[r] \in Request /\ expiresAt[held[r]] # 0
      BY <1>3 DEF DropExpired, SerialInv, IInv, TypeOK, Stages, HeldCached
    <2> QED
      BY <1>3, <2>1 DEF DropExpired, Expired, SerialInv, NothingExpired,
                        IInv, TypeOK
  <1> QED  BY <1>1, <1>2, <1>3

\* Every serial step preserves the serial invariant.
LEMMA SerialStep == SerialInv /\ [SerialNext]_vars => SerialInv'
  <1> SUFFICES ASSUME SerialInv, [SerialNext]_vars
               PROVE  SerialInv'
    OBVIOUS
  <1>0. IInv'
    BY SerialIsNext, StepIInv DEF SerialInv
  <1> USE CacheAssumption, WindowAssumption, <1>0
      DEF SerialInv, IInv, TypeOK, OneUnderWay, NothingExpired, KeyKnown, Goto,
          requestVars, cacheVars, reaperVars
  <1>1. ASSUME NEW r \in Request, NEW k \in Key \cup {NoKey},
               InTurn(r, k), Arrive(r, k)
        PROVE  SerialInv'
    BY <1>1 DEF InTurn, Arrive, Stages
  <1>2. ASSUME NEW r \in Request, Load(r)
        PROVE  SerialInv'
    BY <1>2 DEF Load
  <1>3. ASSUME NEW r \in Request, Replay(r)
        PROVE  SerialInv'
    BY <1>3 DEF Replay
  <1>4. ASSUME NEW r \in Request, NEW c \in Code, ServeHTTP(r, c)
        PROVE  SerialInv'
    BY <1>4 DEF ServeHTTP
  <1>5. ASSUME NEW r \in Request, Record(r) \/ Publish(r)
        PROVE  SerialInv'
    <2>1. CASE Record(r)
      BY <2>1 DEF Record, Stages
    <2>2. CASE Publish(r)
      BY <2>2 DEF Publish, Stages
    <2> QED  BY <1>5, <2>1, <2>2
  <1>6. CASE ReapBegin
    BY <1>6 DEF ReapBegin
  <1>7. ASSUME NEW k \in Key, ReapVisit(k)
        PROVE  SerialInv'
    <2>1. victim' = NoKey
      BY <1>7 DEF ReapVisit, EntriesCached, Expired
    <2> QED  BY <1>7, <2>1 DEF ReapVisit
  <1>8. CASE Tick
    BY <1>8 DEF Tick
  <1>9. CASE UNCHANGED vars
    BY <1>9 DEF vars
  <1> QED
    BY <1>1, <1>2, <1>3, <1>4, <1>5, <1>6, <1>7, <1>8, <1>9, InWindow
       DEF SerialNext, Handle, Lookup, Run, Reap

----------------------------------------------------------------------------

\* Initial states map to initial states.
LEMMA InitMaps == Init => Once!Init
  BY CacheAssumption DEF Init, Once!Init, Memo, Reply, Ran

\* Every serial step maps to a step of OnceEndpoint or to a stutter.
LEMMA StepMaps ==
    ASSUME SerialInv, [SerialNext]_vars
    PROVE  [Once!Next]_(Once!vars)
  <1> USE CacheAssumption
      DEF SerialInv, IInv, TypeOK, Goto, cacheVars, reaperVars, requestVars,
          Memo, Reply, Ran
  <1>1. ASSUME NEW r \in Request, NEW k \in Key, Arrive(r, k)
        PROVE  Once!Ask(r, k)
    BY <1>1 DEF Arrive, Stages, Once!Ask
  <1>2. ASSUME NEW r \in Request, Arrive(r, NoKey)
        PROVE  UNCHANGED Once!vars
    BY <1>2 DEF Arrive, Stages, Once!vars
  <1>3. ASSUME NEW r \in Request, Load(r)
        PROVE  UNCHANGED Once!vars
    BY <1>3 DEF Load, Once!vars
  <1>4. ASSUME NEW r \in Request, Replay(r)
        PROVE  Once!Next
    <2>1. /\ held[r] \in Request /\ key[r] \in Key
          /\ entries[key[r]] = held[r] /\ savedCode[held[r]] \in Code
      BY <1>4 DEF Replay, Stages, HeldCached, Cached, Made, KeyKnown
    <2>2. Memo[key[r]] = savedCode[held[r]] /\ Memo' = Memo
      BY <1>4, <2>1 DEF Replay
    <2>3. Reply[r] = NoCode /\ Reply' = [Reply EXCEPT ![r] = savedCode[held[r]]]
      BY <1>4, <2>1 DEF Replay
    <2>4. Ran' = Ran /\ UNCHANGED key
      BY <1>4, <2>1 DEF Replay
    <2>5. Once!Again(r)
      <3> HIDE DEF Memo, Reply, Ran
      <3> QED  BY <2>1, <2>2, <2>3, <2>4 DEF Once!Again
    <2> QED  BY <2>5 DEF Once!Next
  <1>5. ASSUME NEW r \in Request, NEW c \in Code, ServeHTTP(r, c)
        PROVE  Once!Next \/ UNCHANGED Once!vars
    <2>1. CASE key[r] = NoKey
      <3>1. Once!Plain(r, c)
        BY <1>5, <2>1 DEF ServeHTTP, Once!Plain
      <3> QED  BY <3>1 DEF Once!Next
    <2>2. CASE key[r] # NoKey
      BY <1>5, <2>2 DEF ServeHTTP, Once!vars
    <2> QED  BY <2>1, <2>2
  <1>6. ASSUME NEW r \in Request, Publish(r)
        PROVE  Once!Next
    <2>1. /\ key[r] \in Key /\ held[r] = NoEntry
          /\ entries[key[r]] = NoEntry
          /\ pc[r] = "publish" /\ answer[r] \in Code
          /\ savedCode[r] = answer[r]
          /\ \A k \in Key : entries[k] # r
      BY <1>6 DEF Publish, Stages, HeldCached, KeyKnown, EntriesCached, Cached,
                    Made
    <2>2. PICK c \in Code : c = answer[r]
      BY <2>1
    <2>3. Memo' = [Memo EXCEPT ![key[r]] = c]
      BY <1>6, <2>1, <2>2 DEF Publish
    <2>4. Reply' = [Reply EXCEPT ![r] = c]
      BY <1>6, <2>1, <2>2 DEF Publish
    <2>5. Ran' = Ran \cup {r}
      BY <1>6, <2>1 DEF Publish
    <2>6. Once!First(r, c)
      BY <1>6, <2>1, <2>3, <2>4, <2>5 DEF Publish, Once!First
    <2> QED  BY <2>6 DEF Once!Next
  <1>6b. ASSUME NEW r \in Request, Record(r)
        PROVE  UNCHANGED Once!vars
    <2>1. \A k \in Key : entries[k] # NoEntry => entries[k] # r
      BY <1>6b DEF Record, EntriesCached, Cached
    <2>2. Memo' = Memo
      BY <1>6b, <2>1 DEF Record
    <2>3. Reply' = Reply /\ Ran' = Ran /\ key' = key
      BY <1>6b DEF Record
    <2> QED  BY <2>2, <2>3 DEF Once!vars
  <1>7. ASSUME ReapBegin \/ (\E k \in Key : ReapVisit(k)) \/ Tick
                 \/ UNCHANGED vars
        PROVE  UNCHANGED Once!vars
    BY <1>7 DEF ReapBegin, ReapVisit, Tick, vars, Once!vars
  <1>8. ASSUME NEW r \in Request, NEW k \in Key \cup {NoKey}, Arrive(r, k)
        PROVE  Once!Next \/ UNCHANGED Once!vars
    BY <1>1, <1>2, <1>8 DEF Once!Next
  <1>9. ASSUME NEW r \in Request, Handle(r)
        PROVE  Once!Next \/ UNCHANGED Once!vars
    BY <1>3, <1>4, <1>5, <1>6, <1>6b, <1>9, InWindow DEF Handle, Lookup, Run
  <1>10. Reap => UNCHANGED Once!vars
    BY <1>7, InWindow DEF Reap
  <1> QED
    BY <1>7, <1>8, <1>9, <1>10, InWindow DEF SerialNext

\* Clients that retry in turn see an endpoint that runs a keyed request once
\* and repeats its answer, sweeps of the reaper included, as long as the
\* first answer has not expired and the process has not been restarted.
THEOREM Implementation == SerialSpec => ImplementsOnce
  BY SerialInit, SerialStep, InitMaps, StepMaps, PTL
     DEF SerialSpec, ImplementsOnce, Once!Spec

=============================================================================
