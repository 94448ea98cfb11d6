----------------------- MODULE PrincipalLimiterProofs ------------------------
(***************************************************************************)
(* Theorems about the token bucket, for any rate, any length of the tick   *)
(* and windows of any length; and, resting on them, about the per-         *)
(* principal limiter, for any interval of the reaper that is no shorter    *)
(* than a minute, and any number of principals and of requests in flight.  *)
(***************************************************************************)
EXTENDS PrincipalLimiter, FiniteSetTheorems, TLAPS

\* The observer's books: once something was admitted in the window, what was
\* admitted and what is left in the bucket were paid for by a full bucket
\* and by the time up to the last call.
Ledger ==
    /\ window = "closed" => admitted = 0 /\ age = 0
    /\ admitted > 0 =>
         /\ idle <= age
         /\ Minute * (admitted + tokens) <= Minute * RPM + (age - idle) * RPM

\* The inductive invariant.
IInv == TypeOK /\ Ledger

----------------------------------------------------------------------------

\* A refill never gives out more than the time it consumes is worth.
LEMMA RefillBound ==
    ASSUME NEW e \in Nat
    PROVE  /\ Refill(e) \in Nat
           /\ Minute * Refill(e) <= e * RPM
  <1>1. e * RPM \in Nat
    BY BucketAssumption
  <1>2. \A x \in Nat : x \div Minute \in Nat /\ Minute * (x \div Minute) <= x
    BY BucketAssumption
  <1> QED  BY <1>1, <1>2 DEF Refill

\* A call's refill keeps the bucket within its capacity, and the books
\* balanced up to the moment of the call.
LEMMA RefilledBound ==
    ASSUME IInv
    PROVE  /\ Refilled \in 0 .. RPM
           /\ admitted > 0 =>
                Minute * (admitted + Refilled) <= Minute * RPM + age * RPM
  <1> DEFINE D == Refill(idle)
  <1>0. idle \in Nat
    BY BucketAssumption DEF IInv, TypeOK
  <1>1. D \in Nat /\ Minute * D <= idle * RPM
    BY <1>0, RefillBound
  <1>2. Refilled \in 0 .. RPM /\ Refilled <= tokens + D
    BY <1>1, BucketAssumption DEF IInv, TypeOK, Refilled, UpTo
  <1>3. ASSUME admitted > 0
        PROVE  Minute * (admitted + Refilled) <= Minute * RPM + age * RPM
    <2> HIDE DEF D
    <2>1. /\ Minute \in Nat /\ RPM \in Nat /\ age \in Nat /\ idle \in Nat
          /\ admitted \in Nat /\ tokens \in Nat /\ Refilled \in Nat
      BY <1>2, BucketAssumption DEF IInv, TypeOK
    <2>2. Minute * (admitted + Refilled) <= Minute * (admitted + tokens + D)
      BY <1>1, <1>2, <2>1
    <2>3. Minute * (admitted + tokens + D)
            = Minute * (admitted + tokens) + Minute * D
      BY <1>1, <2>1
    <2>4. Minute * (admitted + tokens) <= Minute * RPM + (age - idle) * RPM
      BY <1>3 DEF IInv, Ledger
    <2>5. (age - idle) * RPM + idle * RPM = age * RPM
      BY <2>1
    <2> QED  BY <1>1, <2>1, <2>2, <2>3, <2>4, <2>5
  <1> QED  BY <1>2, <1>3

\* Multiplication by a natural number is monotone.
LEMMA TimesMonotone ==
    ASSUME NEW a \in Int, NEW b \in Int, NEW n \in Nat, a <= b
    PROVE  a * n <= b * n
  <1> DEFINE d == b - a
  <1>1. d \in Nat /\ b = a + d
    OBVIOUS
  <1> HIDE DEF d
  <1>2. b * n = a * n + d * n
    BY <1>1
  <1>3. d * n \in Nat /\ a * n \in Int
    BY <1>1
  <1> QED  BY <1>2, <1>3

\* The initial states satisfy the invariant.
LEMMA InitIInv == Init => IInv
  <1>1. Init => TypeOK
    BY BucketAssumption DEF Init, TypeOK
  <1>2. Init => Ledger
    BY DEF Init, Ledger
  <1> QED  BY <1>1, <1>2 DEF IInv

\* Every step preserves the invariant.
LEMMA StepIInv == IInv /\ [Next]_vars => IInv'
  <1> SUFFICES ASSUME IInv, [Next]_vars
               PROVE  IInv'
    OBVIOUS
  <1> USE BucketAssumption
  <1>0. /\ age \in Nat /\ RPM \in Nat /\ Minute \in Nat /\ admitted \in Nat
        /\ Refilled \in 0 .. RPM
    BY RefilledBound DEF IInv, TypeOK
  <1>1. CASE Admit
    <2>1. TypeOK'
      BY <1>0, <1>1 DEF Admit, IInv, TypeOK
    <2>2. ASSUME window = "open"
          PROVE  Minute * (admitted + Refilled) <= Minute * RPM + age * RPM
      <3>1. CASE admitted > 0
        BY <3>1, RefilledBound
      <3>2. CASE admitted = 0
        <4>1. Minute * Refilled <= Minute * RPM
          BY <1>0
        <4>2. age * RPM >= 0
          BY <1>0
        <4> QED  BY <1>0, <3>2, <4>1, <4>2
      <3> QED  BY <1>0, <3>1, <3>2
    <2>3. CASE window = "open"
      <3>1. /\ admitted' + tokens' = admitted + Refilled
            /\ idle' = 0 /\ age' = age /\ window' = window
        BY <1>0, <1>1, <2>3 DEF Admit
      <3> QED  BY <1>0, <2>1, <2>2, <2>3, <3>1 DEF IInv, Ledger
    <2>4. CASE window # "open"
      <3>1. window' = "closed" /\ admitted' = 0 /\ age' = 0
        BY <1>1, <2>4 DEF Admit, IInv, TypeOK, Ledger
      <3> QED  BY <2>1, <3>1 DEF IInv, Ledger
    <2> QED  BY <2>3, <2>4
  <1>2. CASE Deny
    <2>1. TypeOK'
      BY <1>0, <1>2 DEF Deny, IInv, TypeOK, observerVars
    <2>2. Ledger'
      BY <1>0, <1>2, RefilledBound DEF Deny, IInv, Ledger, observerVars
    <2> QED  BY <2>1, <2>2 DEF IInv
  <1>3. CASE Tick
    <2>1. TypeOK'
      BY <1>3 DEF Tick, IInv, TypeOK, UpTo
    <2>2. window' = "closed" => admitted' = 0 /\ age' = 0
      BY <1>3 DEF Tick, IInv, Ledger
    <2>3. ASSUME admitted' > 0
          PROVE  /\ idle' <= age'
                 /\ Minute * (admitted' + tokens')
                      <= Minute * RPM + (age' - idle') * RPM
      <3>1. window = "open" /\ age' = age + 1 /\ idle' <= idle + 1
        BY <1>3, <2>3 DEF Tick, IInv, Ledger, TypeOK, UpTo
      <3>2. Minute * (admitted + tokens) <= Minute * RPM + (age - idle) * RPM
        BY <1>3, <2>3 DEF Tick, IInv, Ledger
      <3>0. idle <= age /\ idle \in Nat /\ idle' \in Nat /\ tokens \in Nat
        BY <1>3, <2>1, <2>3 DEF Tick, IInv, Ledger, TypeOK
      <3>3. (age - idle) * RPM <= (age' - idle') * RPM
        <4>1. \A i, j, a \in Nat : j <= i + 1 =>
                 /\ a - i \in Int /\ (a + 1) - j \in Int
                 /\ a - i <= (a + 1) - j
          OBVIOUS
        <4>2. /\ age - idle \in Int /\ (age + 1) - idle' \in Int
              /\ age - idle <= (age + 1) - idle'
          BY <1>0, <3>1, <3>0, <4>1
        <4>3. /\ age - idle \in Int /\ age' - idle' \in Int
              /\ age - idle <= age' - idle'
          BY <3>1, <4>2
        <4> HIDE DEF IInv
        <4> QED  BY <1>0, <4>3, TimesMonotone
      <3>4. admitted' = admitted /\ tokens' = tokens
        BY <1>3 DEF Tick
      <3>5. /\ Minute * RPM \in Int /\ Minute * (admitted + tokens) \in Int
            /\ (age - idle) * RPM \in Int /\ (age' - idle') * RPM \in Int
        BY <1>0, <3>0, <3>1
      <3>6. Minute * (admitted' + tokens') = Minute * (admitted + tokens)
        BY <3>4
      <3>7. Minute * (admitted + tokens)
              <= Minute * RPM + (age' - idle') * RPM
        BY <3>2, <3>3, <3>5
      <3>8. idle' <= age'
        BY <1>0, <3>0, <3>1
      <3> QED  BY <3>6, <3>7, <3>8
    <2> QED  BY <2>1, <2>2, <2>3 DEF IInv, Ledger
  <1>4. CASE Watch \/ Unwatch
    <2>1. TypeOK' /\ admitted' = 0
      BY <1>4 DEF Watch, Unwatch, IInv, TypeOK, bucketVars
    <2>2. window' = "closed" => age' = 0
      BY <1>4 DEF Watch, Unwatch
    <2>3. ~ (admitted' > 0)
      BY <2>1
    <2> QED  BY <2>1, <2>2, <2>3 DEF IInv, Ledger
  <1>5. CASE UNCHANGED vars
    BY <1>5 DEF vars, IInv, TypeOK, Ledger
  <1> QED  BY <1>1, <1>2, <1>3, <1>4, <1>5 DEF Next

\* The inductive invariant holds in every reachable state.
THEOREM Invariance == Spec => []IInv
  BY InitIInv, StepIInv, PTL DEF Spec

----------------------------------------------------------------------------

\* The bucket stays within its capacity, whatever the refills.
THEOREM TypeCorrect == Spec => []TypeOK
  <1>1. IInv => TypeOK
    BY DEF IInv
  <1> QED  BY <1>1, Invariance, PTL

\* However calls and quiet times alternate, a window of a ticks admits at
\* most a full bucket and the a * RPM / Minute tokens of that time.
THEOREM Limit == Spec => []WindowBound
  <1>1. IInv => WindowBound
    <2> SUFFICES ASSUME IInv
                 PROVE  WindowBound
      OBVIOUS
    <2>0. /\ age \in Nat /\ RPM \in Nat /\ Minute \in Nat /\ admitted \in Nat
          /\ tokens \in Nat /\ idle \in Nat
      BY BucketAssumption DEF IInv, TypeOK
    <2>1. age * RPM \in Nat /\ Minute * RPM \in Nat
      BY <2>0
    <2>2. CASE admitted = 0
      BY <2>0, <2>1, <2>2 DEF WindowBound
    <2>3. CASE admitted > 0
      <3>1. Minute * admitted <= Minute * (admitted + tokens)
        BY <2>0
      <3>2. (age - idle) * RPM <= age * RPM
        BY <2>0
      <3>3. Minute * (admitted + tokens) <= Minute * RPM + (age - idle) * RPM
        BY <2>3 DEF IInv, Ledger
      <3>4. /\ Minute * admitted \in Int /\ Minute * (admitted + tokens) \in Int
            /\ (age - idle) * RPM \in Int
        BY <2>0
      <3> QED  BY <2>1, <3>1, <3>2, <3>3, <3>4 DEF WindowBound
    <2> QED  BY <2>0, <2>2, <2>3
  <1> QED  BY <1>1, Invariance, PTL

----------------------------------------------------------------------------

\* The principal's bucket would be full at its next call.
Full == tokens = RPM \/ idle = Minute

\* The bucket in the map agrees with the one that is never removed: they hold
\* the same, or both would be full; and when the map has none, the one that
\* is never removed would be full.
Agree(b) ==
    \/ level[b] = tokens /\ UpTo(since[b], Minute) = idle
    \/ level[b] = RPM /\ Full

Agreement ==
    LET b == buckets[Watched]
    IN  IF b = None THEN Full ELSE Agree(b)

\* A bucket that is in the map belongs to one key, and whoever holds it asked
\* for that key.
Ownership ==
    /\ \A j, k \in Key : buckets[j] = buckets[k] => j = k \/ buckets[k] = None
    /\ \A t \in Thread, k \in Key :
         holds[t] = buckets[k] /\ holds[t] # None => asking[t] = k

LimiterTypes ==
    /\ buckets \in [Key -> Bucket \cup {None}]
    /\ level   \in [Bucket -> 0 .. RPM]
    /\ since   \in [Bucket -> 0 .. Interval + 1]
    /\ asking  \in [Thread -> Key \cup {None}]
    /\ holds   \in [Thread -> Bucket \cup {None}]
    /\ strays  \in Nat

\* The inductive invariant: the books of TokenBucket (IInv) are part of it.
LInv == IInv /\ LimiterTypes /\ Ownership /\ Agreement

----------------------------------------------------------------------------

\* More than a minute refills a bucket no further than a minute does.
LEMMA RefillSaturates ==
    ASSUME NEW l \in 0 .. RPM, NEW e \in Nat
    PROVE  UpTo(l + Refill(e), RPM) = UpTo(l + Refill(UpTo(e, Minute)), RPM)
  <1>1. CASE e <= Minute
    BY <1>1, BucketAssumption DEF UpTo
  <1>2. CASE e > Minute
    <2>1. Refill(Minute) = RPM
      BY BucketAssumption DEF Refill
    <2>2. UpTo(e, Minute) = Minute
      BY <1>2, BucketAssumption DEF UpTo
    <2>3. Refill(e) \in Nat /\ Refill(e) >= RPM
      <3>1. e * RPM \in Nat /\ RPM * Minute <= e * RPM
        <4>1. Minute * RPM <= e * RPM
          BY <1>2, BucketAssumption, TimesMonotone
        <4> QED  BY <4>1, BucketAssumption
      <3>2. \A x \in Nat : RPM * Minute <= x => x \div Minute \in Nat /\ x \div Minute >= RPM
        BY BucketAssumption
      <3> QED  BY <3>1, <3>2 DEF Refill
    <2> QED  BY <2>1, <2>2, <2>3, BucketAssumption DEF UpTo
  <1> QED  BY <1>1, <1>2, BucketAssumption

\* A bucket that would be full at its next call is refilled to the brim.
LEMMA FullRefills ==
    ASSUME TypeOK, Full
    PROVE  Refilled = RPM
  <1>1. idle \in Nat /\ Refill(idle) \in Nat /\ tokens \in 0 .. RPM
    BY RefillBound, BucketAssumption DEF TypeOK
  <1>2. CASE tokens = RPM
    BY <1>1, <1>2, BucketAssumption DEF Refilled, UpTo
  <1>3. CASE idle = Minute
    <2>1. Refill(idle) = RPM
      BY <1>3, BucketAssumption DEF Refill
    <2> QED  BY <1>1, <2>1, BucketAssumption DEF Refilled, UpTo
  <1> QED  BY <1>2, <1>3 DEF Full

\* A call refills the bucket of the map and the one that is never removed to
\* the same level.
LEMMA SameRefill ==
    ASSUME TypeOK, NEW b \in Bucket, level[b] \in 0 .. RPM,
           since[b] \in 0 .. Interval + 1, Agree(b)
    PROVE  Own(b)!Refilled = Refilled
  <1>1. Own(b)!Refilled = UpTo(level[b] + Refill(since[b]), RPM)
    BY DEF Own!Refilled, Own!UpTo, Own!Refill, UpTo, Refill
  <1>2. since[b] \in Nat
    BY LimiterAssumption
  <1>3. CASE level[b] = tokens /\ UpTo(since[b], Minute) = idle
    BY <1>1, <1>2, <1>3, RefillSaturates DEF Refilled
  <1>4. CASE level[b] = RPM /\ Full
    <2>1. Refill(since[b]) \in Nat
      BY <1>2, RefillBound
    <2>2. Own(b)!Refilled = RPM
      BY <1>1, <1>4, <2>1, BucketAssumption DEF UpTo
    <2> QED  BY <1>4, <2>2, FullRefills
  <1> QED  BY <1>3, <1>4 DEF Agree

\* What a call leaves in any bucket is within its capacity.
LEMMA OwnRefillBound ==
    ASSUME NEW b \in Bucket, level[b] \in 0 .. RPM, since[b] \in 0 .. Interval + 1
    PROVE  Own(b)!Refilled \in 0 .. RPM
  <1>1. since[b] \in Nat
    BY LimiterAssumption
  <1>2. Own(b)!Refilled = UpTo(level[b] + Refill(since[b]), RPM)
    BY DEF Own!Refilled, Own!UpTo, Own!Refill, UpTo, Refill
  <1>3. Refill(since[b]) \in Nat
    BY <1>1, RefillBound
  <1> QED  BY <1>2, <1>3, BucketAssumption DEF UpTo

----------------------------------------------------------------------------

\* The initial states satisfy the invariant.
LEMMA InitLInv == LimiterInit => LInv
  <1> SUFFICES ASSUME LimiterInit
               PROVE  LInv
    OBVIOUS
  <1>1. IInv
    BY InitIInv DEF LimiterInit
  <1>2. LimiterTypes
    BY BucketAssumption, LimiterAssumption DEF LimiterInit, LimiterTypes
  <1>3. Ownership
    BY DEF LimiterInit, Ownership
  <1>4. Agreement
    BY LimiterAssumption DEF LimiterInit, Init, Agreement, Full
  <1> QED  BY <1>1, <1>2, <1>3, <1>4 DEF LInv

\* Every step of the limiter is a step of the bucket that is never removed,
\* or leaves it as it is.
LEMMA StepMaps == LInv /\ [LimiterNext]_limiterVars => [Next]_vars
  <1> SUFFICES ASSUME LInv, [LimiterNext]_limiterVars
               PROVE  [Next]_vars
    OBVIOUS
  <1>1. ASSUME NEW t \in Thread, NEW k \in Key, Get(t, k)
        PROVE  UNCHANGED vars
    BY <1>1 DEF Get
  <1>2. ASSUME NEW t \in Thread, Allow(t)
        PROVE  [Next]_vars
    <2> DEFINE b == holds[t]
               granted == IF Own(b)!Refilled > 0 THEN 1 ELSE 0
    <2>1. CASE asking[t] = Watched /\ buckets[Watched] = b
      <3>1. b \in Bucket /\ b # None
        BY <1>2 DEF Allow, LInv, LimiterTypes
      <3>2. TypeOK /\ level[b] \in 0 .. RPM /\ since[b] \in 0 .. Interval + 1
        BY <3>1 DEF LInv, IInv, LimiterTypes
      <3>3. Agree(b)
        BY <2>1, <3>1 DEF LInv, Agreement
      <3>4. Own(b)!Refilled = Refilled
        BY <3>1, <3>2, <3>3, SameRefill
      <3>5. Charge(b, granted)
        BY <1>2, <2>1 DEF Allow
      <3>6. Refilled \in 0 .. RPM
        BY RefilledBound DEF LInv
      <3> HIDE DEF b
      <3>7. CASE Refilled > 0
        <4>1. Admit
          BY <2>1, <3>4, <3>5, <3>7, <3>6, BucketAssumption
             DEF Charge, Admit, LInv, IInv, TypeOK
        <4> QED  BY <4>1 DEF Next
      <3>8. CASE ~(Refilled > 0)
        <4>1. Deny
          BY <2>1, <3>4, <3>5, <3>8, <3>6, BucketAssumption
             DEF Charge, Deny, LInv, IInv, TypeOK, observerVars
        <4> QED  BY <4>1 DEF Next
      <3> QED  BY <3>7, <3>8
    <2>2. CASE asking[t] # Watched \/ buckets[Watched] # b
      BY <1>2, <2>2 DEF Allow, Charge
    <2> QED  BY <2>1, <2>2
  <1>3. ASSUME NEW k \in Key, Reap(k)
        PROVE  UNCHANGED vars
    BY <1>3 DEF Reap
  <1>4. CASE TimePasses
    BY <1>4 DEF TimePasses, Next
  <1>5. CASE Observe
    BY <1>5 DEF Observe, Next
  <1>6. CASE UNCHANGED limiterVars
    BY <1>6 DEF limiterVars
  <1> QED  BY <1>1, <1>2, <1>3, <1>4, <1>5, <1>6 DEF LimiterNext

\* Every step preserves the ranges of the variables.
LEMMA StepTypes == LInv /\ [LimiterNext]_limiterVars => LimiterTypes'
  <1> SUFFICES ASSUME LInv, [LimiterNext]_limiterVars
               PROVE  LimiterTypes'
    OBVIOUS
  <1> USE BucketAssumption, LimiterAssumption DEF LInv, LimiterTypes
  <1>1. ASSUME NEW t \in Thread, NEW k \in Key, Get(t, k)
        PROVE  LimiterTypes'
    BY <1>1 DEF Get, heapVars, Fresh
  <1>2. ASSUME NEW t \in Thread, Allow(t)
        PROVE  LimiterTypes'
    <2> DEFINE b == holds[t]
               granted == IF Own(b)!Refilled > 0 THEN 1 ELSE 0
    <2>1. b \in Bucket /\ level[b] \in 0 .. RPM /\ since[b] \in 0 .. Interval + 1
      BY <1>2 DEF Allow
    <2>2. Own(b)!Refilled \in 0 .. RPM
      BY <2>1, OwnRefillBound
    <2>3. granted \in Nat /\ Own(b)!Refilled - granted \in 0 .. RPM
      BY <2>2
    <2>4. /\ buckets' = buckets
          /\ holds'  = [holds EXCEPT ![t] = None]
          /\ asking' = [asking EXCEPT ![t] = None]
          /\ level'  = [level EXCEPT ![b] = IF b \in Referenced'
                                            THEN Own(b)!Refilled - granted ELSE 0]
          /\ since'  = [since EXCEPT ![b] = 0]
          /\ strays' = strays \/ strays' = strays + granted
      BY <1>2 DEF Allow, Charge
    <2> HIDE DEF b, granted
    <2> QED  BY <2>1, <2>3, <2>4
  <1>3. ASSUME NEW k \in Key, Reap(k)
        PROVE  LimiterTypes'
    BY <1>3 DEF Reap
  <1>4. CASE TimePasses
    BY <1>4 DEF TimePasses, UpTo
  <1>5. CASE Observe
    BY <1>5 DEF Observe, heapVars
  <1>6. CASE UNCHANGED limiterVars
    BY <1>6 DEF limiterVars, heapVars
  <1> QED  BY <1>1, <1>2, <1>3, <1>4, <1>5, <1>6 DEF LimiterNext

\* Every step preserves the ownership of the buckets.
LEMMA StepOwnership == LInv /\ [LimiterNext]_limiterVars => Ownership'
  <1> SUFFICES ASSUME LInv, [LimiterNext]_limiterVars
               PROVE  Ownership'
    OBVIOUS
  <1>0. LimiterTypes /\ Ownership
    BY DEF LInv
  <1> USE LimiterAssumption DEF LimiterTypes, Ownership
  <1>1. ASSUME NEW t \in Thread, NEW k \in Key, Get(t, k)
        PROVE  Ownership'
    <2>1. CASE buckets[k] # None
      BY <1>0, <1>1, <2>1 DEF Get
    <2>2. CASE buckets[k] = None
      <3>1. PICK b \in Bucket \ Referenced :
              /\ holds'   = [holds EXCEPT ![t] = b]
              /\ buckets' = [buckets EXCEPT ![k] = b]
              /\ asking'  = [asking EXCEPT ![t] = k]
        BY <1>1, <2>2 DEF Get
      <3>2. /\ \A j \in Key : buckets[j] # b
            /\ \A u \in Thread : holds[u] # b
            /\ b # None
        BY <3>1 DEF Referenced
      <3>3. ASSUME NEW j \in Key, NEW i \in Key, buckets'[j] = buckets'[i]
            PROVE  j = i \/ buckets'[i] = None
        BY <1>0, <3>1, <3>2, <3>3
      <3>4. ASSUME NEW u \in Thread, NEW i \in Key,
                   holds'[u] = buckets'[i], holds'[u] # None
            PROVE  asking'[u] = i
        BY <1>0, <3>1, <3>2, <3>4
      <3> QED  BY <3>3, <3>4
    <2> QED  BY <2>1, <2>2
  <1>2. ASSUME NEW t \in Thread, Allow(t)
        PROVE  Ownership'
    BY <1>0, <1>2 DEF Allow
  <1>3. ASSUME NEW k \in Key, Reap(k)
        PROVE  Ownership'
    BY <1>0, <1>3 DEF Reap
  <1>4. CASE TimePasses
    BY <1>0, <1>4 DEF TimePasses
  <1>5. CASE Observe
    BY <1>0, <1>5 DEF Observe
  <1>6. CASE UNCHANGED limiterVars
    BY <1>0, <1>6 DEF limiterVars
  <1> QED  BY <1>1, <1>2, <1>3, <1>4, <1>5, <1>6 DEF LimiterNext

\* Time passes for the two buckets alike.
LEMMA TickAgreement ==
    ASSUME LInv, TimePasses
    PROVE  Agreement'
  <1> DEFINE b == buckets[Watched]
  <1>0. idle \in 0 .. Minute /\ tokens \in 0 .. RPM
    BY DEF LInv, IInv, TypeOK
  <1>1. /\ buckets' = buckets /\ level' = level /\ tokens' = tokens
        /\ idle' = UpTo(idle + 1, Minute)
    BY DEF TimePasses, Tick
  <1>2. Full => Full'
    BY <1>0, <1>1, BucketAssumption DEF Full, UpTo
  <1>3. CASE b = None
    BY <1>1, <1>2, <1>3 DEF LInv, Agreement
  <1>4. CASE b # None
    <2>1. b \in Bucket /\ b \in Referenced /\ since[b] \in 0 .. Interval + 1
      BY <1>4, LimiterAssumption DEF LInv, LimiterTypes, Referenced
    <2>2. since'[b] = UpTo(since[b] + 1, Interval + 1)
      BY <2>1 DEF TimePasses
    <2>3. UpTo(since[b], Minute) = idle => UpTo(since'[b], Minute) = idle'
      BY <1>0, <1>1, <2>1, <2>2, BucketAssumption, LimiterAssumption DEF UpTo
    <2>4. Agree(b)
      BY <1>4 DEF LInv, Agreement
    <2>5. Agree(b)'
      BY <1>1, <1>2, <2>3, <2>4 DEF Agree
    <2> QED  BY <1>1, <1>4, <2>5 DEF Agreement
  <1> QED  BY <1>3, <1>4

\* Every step preserves the agreement with the bucket never removed.
LEMMA StepAgreement == LInv /\ [LimiterNext]_limiterVars => Agreement'
  <1> SUFFICES ASSUME LInv, [LimiterNext]_limiterVars
               PROVE  Agreement'
    OBVIOUS
  <1> DEFINE w == buckets[Watched]
  <1>0. /\ LimiterTypes /\ Ownership /\ Agreement /\ TypeOK
        /\ Watched \in Key /\ w \in Bucket \cup {None} /\ None \notin Bucket
    BY LimiterAssumption DEF LInv, IInv, LimiterTypes
  <1>1. ASSUME NEW t \in Thread, NEW k \in Key, Get(t, k)
        PROVE  Agreement'
    <2>0. tokens' = tokens /\ idle' = idle
      BY <1>1 DEF Get, vars
    <2>1. CASE buckets[k] # None
      BY <1>0, <1>1, <2>0, <2>1 DEF Get, heapVars, Agreement, Agree, Full
    <2>2. CASE buckets[k] = None
      <3>1. PICK b \in Bucket \ Referenced :
              /\ buckets' = [buckets EXCEPT ![k] = b]
              /\ level'   = [level EXCEPT ![b] = Fresh]
              /\ since'   = [since EXCEPT ![b] = 0]
        BY <1>1, <2>2 DEF Get
      <3>2. CASE k = Watched
        <4>1. Full
          BY <1>0, <2>2, <3>2 DEF Agreement
        <4>2. buckets'[Watched] = b /\ b # None /\ level'[b] = RPM
          BY <1>0, <3>1, <3>2 DEF LimiterTypes, Fresh
        <4> QED  BY <2>0, <4>1, <4>2 DEF Agreement, Agree, Full
      <3>3. CASE k # Watched
        <4>1. buckets'[Watched] = w /\ w # b
          BY <1>0, <3>1, <3>3 DEF LimiterTypes, Referenced
        <4>2. w # None => level'[w] = level[w] /\ since'[w] = since[w]
          BY <1>0, <3>1, <4>1 DEF LimiterTypes
        <4> QED  BY <1>0, <2>0, <4>1, <4>2 DEF Agreement, Agree, Full
      <3> QED  BY <3>2, <3>3
    <2> QED  BY <2>1, <2>2
  <1>2. ASSUME NEW t \in Thread, Allow(t)
        PROVE  Agreement'
    <2> DEFINE b == holds[t]
               granted == IF Own(b)!Refilled > 0 THEN 1 ELSE 0
    <2>1. /\ b \in Bucket /\ b # None
          /\ level[b] \in 0 .. RPM /\ since[b] \in 0 .. Interval + 1
      BY <1>0, <1>2 DEF Allow, LimiterTypes
    <2>2. /\ buckets' = buckets
          /\ level' = [level EXCEPT ![b] = IF b \in Referenced'
                                           THEN Own(b)!Refilled - granted ELSE 0]
          /\ since' = [since EXCEPT ![b] = 0]
      BY <1>2 DEF Allow
    <2>3. CASE w = b
      <3>1. asking[t] = Watched
        BY <1>0, <2>1, <2>3 DEF Ownership
      <3>2. Charge(b, granted)
        BY <1>2, <3>1 DEF Allow
      <3>3. Own(b)!Refilled = Refilled
        BY <1>0, <2>1, <2>3, SameRefill DEF Agreement
      <3>4. tokens' = Own(b)!Refilled - granted /\ idle' = 0
        BY <2>3, <3>2, <3>3 DEF Charge
      <3>5. b \in Referenced'
        BY <1>0, <2>2, <2>3 DEF Referenced
      <3>6. level'[b] = tokens' /\ since'[b] = 0
        BY <1>0, <2>1, <2>2, <3>4, <3>5 DEF LimiterTypes
      <3>7. UpTo(since'[b], Minute) = idle'
        BY <3>4, <3>6, BucketAssumption DEF UpTo
      <3> HIDE DEF b
      <3> QED  BY <2>1, <2>2, <2>3, <3>6, <3>7 DEF Agreement, Agree
    <2>4. CASE w # b
      <3>1. tokens' = tokens /\ idle' = idle
        BY <1>2, <2>4 DEF Allow, Charge, vars
      <3>2. w # None => level'[w] = level[w] /\ since'[w] = since[w]
        BY <1>0, <2>1, <2>2, <2>4 DEF LimiterTypes
      <3> QED  BY <1>0, <2>2, <3>1, <3>2 DEF Agreement, Agree, Full
    <2> QED  BY <2>3, <2>4
  <1>3. ASSUME NEW k \in Key, Reap(k)
        PROVE  Agreement'
    <2>0. tokens' = tokens /\ idle' = idle
      BY <1>3 DEF Reap, vars
    <2>1. CASE k = Watched
      <3>1. w \in Bucket /\ w # None /\ since[w] > Interval /\ since[w] \in Nat
        BY <1>0, <1>3, <2>1, LimiterAssumption DEF Reap, Stale, LimiterTypes
      <3>2. UpTo(since[w], Minute) = Minute
        BY <3>1, BucketAssumption, LimiterAssumption DEF UpTo
      <3>3. Full
        BY <1>0, <3>1, <3>2 DEF Agreement, Agree, Full
      <3>4. buckets'[Watched] = None
        BY <1>0, <1>3, <2>1 DEF Reap, LimiterTypes
      <3> QED  BY <2>0, <3>3, <3>4 DEF Agreement, Full
    <2>2. CASE k # Watched
      <3>1. buckets'[Watched] = w
        BY <1>0, <1>3, <2>2 DEF Reap, LimiterTypes
      <3>2. w # None => w \in Referenced'
        BY <1>0, <3>1 DEF Referenced
      <3>3. w # None => level'[w] = level[w] /\ since'[w] = since[w]
        BY <1>0, <1>3, <3>2 DEF Reap
      <3> QED  BY <1>0, <2>0, <3>1, <3>3 DEF Agreement, Agree, Full
    <2> QED  BY <2>1, <2>2
  <1>4. CASE TimePasses
    BY <1>4, TickAgreement
  <1>5. CASE Observe
    <2>1. UNCHANGED <<tokens, idle, buckets, level, since>>
      BY <1>5 DEF Observe, Watch, Unwatch, bucketVars, heapVars
    <2> QED  BY <1>0, <2>1 DEF Agreement, Agree, Full
  <1>6. CASE UNCHANGED limiterVars
    <2>1. UNCHANGED <<tokens, idle, buckets, level, since>>
      BY <1>6 DEF limiterVars, vars
    <2> QED  BY <1>0, <2>1 DEF Agreement, Agree, Full
  <1> QED  BY <1>1, <1>2, <1>3, <1>4, <1>5, <1>6 DEF LimiterNext

\* Every step preserves the invariant.
LEMMA StepLInv == LInv /\ [LimiterNext]_limiterVars => LInv'
  <1>1. LInv /\ [LimiterNext]_limiterVars => IInv'
    BY StepMaps, StepIInv DEF LInv
  <1> QED  BY <1>1, StepTypes, StepOwnership, StepAgreement DEF LInv

\* The inductive invariant holds in every reachable state.
THEOREM LimiterInvariance == LimiterSpec => []LInv
  BY InitLInv, StepLInv, PTL DEF LimiterSpec

----------------------------------------------------------------------------

\* The goroutines that are about to stray: the bucket they hold is no longer
\* the principal's.
Lost ==
    {t \in Thread : /\ holds[t] # None /\ asking[t] = Watched
                    /\ holds[t] # buckets[Watched]}

\* How long the principal's bucket in the map has not been called.
Quiet == IF buckets[Watched] = None THEN 0 ELSE since[buckets[Watched]]

\* The tick after which the reaper removes a bucket.
Period == Interval + 1

\* What a goroutine can lose to n removals, and to the one before the window.
Allowance(n) == Cardinality(Thread) * (1 + n)

\* In an open window the principal's bucket has been removed n times, a period
\* apart, and each removal made strays of some of the goroutines, once.
Removals ==
    /\ window = "closed" => strays = 0
    /\ \E n \in Nat : /\ n * Period + Quiet <= age + Period
                      /\ strays + Cardinality(Lost) <= Allowance(n)

\* Of all goroutines, at most all can be about to stray.
LEMMA LostBound ==
    ASSUME NEW T \in SUBSET Thread
    PROVE  /\ IsFiniteSet(T)
           /\ Cardinality(T) \in Nat /\ Cardinality(Thread) \in Nat
           /\ Cardinality(T) <= Cardinality(Thread)
  BY LimiterAssumption, FS_Subset, FS_CardinalityType

\* One removal more allows every goroutine to stray once more.
LEMMA OneMoreRemoval ==
    ASSUME NEW n \in Nat
    PROVE  /\ Allowance(n) \in Nat
           /\ Allowance(n + 1) = Allowance(n) + Cardinality(Thread)
           /\ Allowance(n) >= Cardinality(Thread)
  <1>1. Cardinality(Thread) \in Nat
    BY LostBound
  <1>2. \A c, m \in Nat : /\ c * (1 + m) \in Nat
                          /\ c * (1 + (m + 1)) = c * (1 + m) + c
                          /\ c * (1 + m) >= c
    <2>1. ASSUME NEW c \in Nat, NEW m \in Nat
          PROVE  /\ c * (1 + m) \in Nat /\ c * (1 + m) = c + c * m
                 /\ c * (1 + (m + 1)) = c * (1 + m) + c /\ c * m \in Nat
      OBVIOUS
    <2> QED  BY <2>1
  <1> QED  BY <1>1, <1>2 DEF Allowance

\* Before anything was asked, nobody strays.
LEMMA InitRemovals == LimiterInit => Removals
  <1> SUFFICES ASSUME LimiterInit
               PROVE  Removals
    OBVIOUS
  <1>1. Lost \in SUBSET Thread /\ age = 0 /\ strays = 0 /\ Quiet = 0
    BY LimiterAssumption DEF Lost, LimiterInit, Init, Quiet
  <1>2. 0 * Period + Quiet <= age + Period
    BY <1>1, LimiterAssumption DEF Period
  <1>3. strays + Cardinality(Lost) <= Allowance(0)
    BY <1>1, LostBound, OneMoreRemoval
  <1> QED  BY <1>1, <1>2, <1>3 DEF Removals

\* A request that gets a bucket, old or new, is not about to stray.
LEMMA GetRemovals ==
    ASSUME LInv, Removals, NEW t \in Thread, NEW k \in Key, Get(t, k)
    PROVE  Removals'
  <1>0. LimiterTypes /\ Watched \in Key /\ None \notin Bucket
    BY LimiterAssumption DEF LInv
  <1>1. UNCHANGED <<window, age, strays>>
    BY DEF Get, vars
  <1>2. Lost' = Lost
    <2>1. CASE buckets[k] # None
      BY <1>0, <2>1 DEF Get, Lost, LimiterTypes
    <2>2. CASE buckets[k] = None
      <3>1. PICK b \in Bucket \ Referenced :
              /\ holds'   = [holds EXCEPT ![t] = b]
              /\ buckets' = [buckets EXCEPT ![k] = b]
              /\ asking'  = [asking EXCEPT ![t] = k]
        BY <2>2 DEF Get
      <3>2. holds[t] = None /\ \A u \in Thread : holds[u] # b
        BY <3>1 DEF Get, Referenced
      <3> QED  BY <1>0, <2>2, <3>1, <3>2 DEF Lost, LimiterTypes
    <2> QED  BY <2>1, <2>2
  <1>3. Quiet' <= Quiet /\ Quiet \in Nat /\ Quiet' \in Nat
    <2>1. CASE buckets[k] # None
      BY <1>0, <2>1, LimiterAssumption DEF Get, Quiet, LimiterTypes, heapVars
    <2>2. CASE buckets[k] = None
      <3>1. PICK b \in Bucket \ Referenced :
              /\ buckets' = [buckets EXCEPT ![k] = b]
              /\ since'   = [since EXCEPT ![b] = 0]
        BY <2>2 DEF Get
      <3>2. buckets[Watched] # b
        BY <1>0, <3>1 DEF Referenced
      <3>3. CASE k = Watched
        BY <1>0, <2>2, <3>1, <3>3 DEF Quiet, LimiterTypes
      <3>4. CASE k # Watched
        BY <1>0, <3>1, <3>2, <3>4, LimiterAssumption DEF Quiet, LimiterTypes
      <3> QED  BY <3>3, <3>4
    <2> QED  BY <2>1, <2>2
  <1>4. PICK n \in Nat : /\ n * Period + Quiet <= age + Period
                         /\ strays + Cardinality(Lost) <= Allowance(n)
    BY DEF Removals
  <1>5. n * Period + Quiet' <= age + Period
    <2>1. n * Period \in Nat /\ age + Period \in Nat
      BY LimiterAssumption, BucketAssumption DEF Period, LInv, IInv, TypeOK
    <2>2. \A a, q, p, m \in Nat : a + q <= m /\ p <= q => a + p <= m
      OBVIOUS
    <2> QED  BY <1>3, <1>4, <2>1, <2>2
  <1> QED  BY <1>1, <1>2, <1>4, <1>5 DEF Removals, Period, Allowance

\* A stray that is granted was about to stray, and is no longer.
LEMMA AllowRemovals ==
    ASSUME LInv, Removals, NEW t \in Thread, Allow(t)
    PROVE  Removals'
  <1> DEFINE b == holds[t]
             granted == IF Own(b)!Refilled > 0 THEN 1 ELSE 0
  <1>0. /\ LimiterTypes /\ Watched \in Key /\ None \notin Bucket \cup Key
        /\ strays \in Nat /\ age \in Nat /\ buckets' = buckets
        /\ b \in Bucket /\ granted \in 0 .. 1
    BY LimiterAssumption DEF LInv, IInv, TypeOK, LimiterTypes, Allow
  <1>1. Lost' = Lost \ {t} /\ Lost \in SUBSET Thread
    BY <1>0 DEF Allow, Lost, LimiterTypes
  <1>2. Quiet' <= Quiet /\ Quiet \in Nat /\ Quiet' \in Nat
    <2>1. \A c \in Bucket : since'[c] <= since[c] /\ since[c] \in Nat /\ since'[c] \in Nat
      BY <1>0, LimiterAssumption DEF Allow, LimiterTypes
    <2> QED  BY <1>0, <2>1 DEF Quiet, LimiterTypes
  <1>3. window' = window /\ age' = age
    BY DEF Allow, Charge, vars
  <1>4. /\ strays' = strays \/ (t \in Lost /\ strays' = strays + granted)
        /\ window = "closed" => strays' = strays
    <2> HIDE DEF granted
    <2>1. CASE asking[t] = Watched /\ buckets[Watched] # b
      <3>1. t \in Lost
        BY <1>0, <2>1 DEF Lost
      <3>2. Charge(b, granted)
        BY <2>1 DEF Allow, granted
      <3> QED  BY <2>1, <3>1, <3>2 DEF Charge
    <2>2. CASE ~(asking[t] = Watched /\ buckets[Watched] # b)
      <3>1. strays' = strays
        BY <2>2 DEF Allow, Charge
      <3> QED  BY <3>1
    <2> QED  BY <2>1, <2>2
  <1>5. /\ strays' + Cardinality(Lost') <= strays + Cardinality(Lost)
        /\ strays' + Cardinality(Lost') \in Nat
        /\ strays + Cardinality(Lost) \in Nat
    <2>1. /\ Cardinality(Lost) \in Nat /\ Cardinality(Lost') \in Nat
          /\ Cardinality(Lost') = IF t \in Lost THEN Cardinality(Lost) - 1
                                  ELSE Cardinality(Lost)
      BY <1>1, LostBound, FS_RemoveElement
    <2> HIDE DEF granted, b
    <2> QED  BY <1>0, <1>4, <2>1
  <1>6. PICK n \in Nat : /\ n * Period + Quiet <= age + Period
                         /\ strays + Cardinality(Lost) <= Allowance(n)
    BY DEF Removals
  <1>7. n * Period + Quiet' <= age + Period
    <2>1. n * Period \in Nat /\ age + Period \in Nat
      BY <1>0, LimiterAssumption DEF Period
    <2>2. \A a, q, p, m \in Nat : a + q <= m /\ p <= q => a + p <= m
      OBVIOUS
    <2> QED  BY <1>2, <1>6, <2>1, <2>2
  <1>8. strays' + Cardinality(Lost') <= Allowance(n)
    BY <1>5, <1>6, OneMoreRemoval
  <1> QED  BY <1>3, <1>4, <1>6, <1>7, <1>8 DEF Removals, Period, Allowance

\* A removal of the principal's bucket ends a period.
LEMMA ReapRemovals ==
    ASSUME LInv, Removals, NEW k \in Key, Reap(k)
    PROVE  Removals'
  <1>0. /\ LimiterTypes /\ Watched \in Key /\ None \notin Bucket
        /\ strays \in Nat /\ age \in Nat
        /\ \A i, j \in Key : buckets[i] = buckets[j] => i = j \/ buckets[j] = None
    BY LimiterAssumption DEF LInv, IInv, TypeOK, LimiterTypes, Ownership
  <1>1. UNCHANGED <<window, age, strays>>
    BY DEF Reap, vars
  <1>2. PICK n \in Nat : /\ n * Period + Quiet <= age + Period
                         /\ strays + Cardinality(Lost) <= Allowance(n)
    BY DEF Removals
  <1>3. n * Period \in Nat /\ Period \in Nat /\ (n + 1) * Period = n * Period + Period
    <2>1. \A m, p \in Nat : m * p \in Nat /\ (m + 1) * p = m * p + p
      <3>1. ASSUME NEW m \in Nat, NEW p \in Nat
            PROVE  m * p \in Nat /\ (m + 1) * p = m * p + p
        OBVIOUS
      <3> QED  BY <3>1
    <2>2. Period \in Nat
      BY LimiterAssumption DEF Period
    <2> QED  BY <2>1, <2>2
  <1>4. CASE k = Watched
    <2>1. Quiet = Period /\ Quiet' = 0
      BY <1>0, <1>4, LimiterAssumption DEF Reap, Stale, Quiet, Period, LimiterTypes
    <2>2. (n + 1) * Period + Quiet' <= age + Period
      BY <1>0, <1>2, <1>3, <2>1
    <2>3. Lost \in SUBSET Thread /\ Lost' \in SUBSET Thread
      BY DEF Lost
    <2>4. strays + Cardinality(Lost') <= Allowance(n + 1)
      BY <1>0, <1>2, <2>3, LostBound, OneMoreRemoval
    <2>5. /\ n + 1 \in Nat
          /\ (n + 1) * Period + Quiet' <= age' + Period
          /\ strays' + Cardinality(Lost') <= Allowance(n + 1)
      BY <1>1, <2>2, <2>4
    <2> QED  BY <1>1, <2>5 DEF Removals, Period, Allowance
  <1>5. CASE k # Watched
    <2>1. buckets'[Watched] = buckets[Watched]
      BY <1>0, <1>5 DEF Reap, LimiterTypes
    <2>2. Lost' = Lost
      BY <2>1 DEF Reap, Lost
    <2>3. Quiet' = Quiet
      <3>1. CASE buckets[Watched] = None
        BY <2>1, <3>1 DEF Quiet
      <3>2. CASE buckets[Watched] # None
        <4>1. buckets[Watched] \in Referenced' /\ buckets[Watched] \in Bucket
          BY <1>0, <2>1, <3>2 DEF Referenced, LimiterTypes
        <4> QED  BY <2>1, <3>2, <4>1 DEF Reap, Quiet
      <3> QED  BY <3>1, <3>2
    <2> QED  BY <1>1, <1>2, <2>2, <2>3 DEF Removals, Period, Allowance
  <1> QED  BY <1>4, <1>5

\* In an open window time passes for the observer as for the bucket; in a
\* closed one nothing has been removed yet.
LEMMA TickRemovals ==
    ASSUME LInv, Removals, TimePasses
    PROVE  Removals'
  <1>0. /\ LimiterTypes /\ Watched \in Key /\ None \notin Bucket
        /\ strays \in Nat /\ age \in Nat /\ window \in {"open", "closed"}
    BY LimiterAssumption DEF LInv, IInv, TypeOK, LimiterTypes
  <1>1. UNCHANGED <<window, strays, buckets, holds, asking>>
    BY DEF TimePasses, Tick
  <1>2. Lost' = Lost /\ Lost \in SUBSET Thread
    BY <1>1 DEF Lost
  <1>3. Quiet \in Nat /\ Quiet' \in Nat /\ Quiet' <= Quiet + 1 /\ Quiet' <= Period
    <2>1. CASE buckets[Watched] = None
      BY <1>1, <2>1, LimiterAssumption DEF Quiet, Period
    <2>2. CASE buckets[Watched] # None
      <3>1. buckets[Watched] \in Referenced /\ buckets[Watched] \in Bucket
        BY <1>0, <2>2 DEF Referenced, LimiterTypes
      <3> QED  BY <1>0, <1>1, <2>2, <3>1, LimiterAssumption
                  DEF TimePasses, Quiet, Period, LimiterTypes, UpTo
    <2> QED  BY <2>1, <2>2
  <1>4. Period \in Nat
    BY LimiterAssumption DEF Period
  <1>5. CASE window = "open"
    <2>1. age' = age + 1
      BY <1>5 DEF TimePasses, Tick
    <2>2. PICK n \in Nat : /\ n * Period + Quiet <= age + Period
                           /\ strays + Cardinality(Lost) <= Allowance(n)
      BY DEF Removals
    <2>3. n * Period + Quiet' <= age' + Period
      <3>1. n * Period \in Nat
        BY <1>4
      <3>2. \A a, q, p, m \in Nat : a + q <= m /\ p <= q + 1 => a + p <= m + 1
        OBVIOUS
      <3>3. n * Period + Quiet' <= (age + Period) + 1
        <4>1. age + Period \in Nat
          BY <1>0, <1>4
        <4> QED  BY <1>3, <2>2, <3>1, <3>2, <4>1
      <3> QED  BY <1>0, <1>4, <2>1, <3>3
    <2> QED  BY <1>1, <1>2, <1>5, <2>2, <2>3 DEF Removals, Period, Allowance
  <1>6. CASE window = "closed"
    <2>1. age' = age /\ strays' = 0
      BY <1>1, <1>6 DEF TimePasses, Tick, Removals
    <2>2. 0 * Period + Quiet' <= age' + Period
      <3>1. \A p, q, a \in Nat : q <= p => 0 * p + q <= a + p
        OBVIOUS
      <3> QED  BY <1>0, <1>3, <1>4, <2>1, <3>1
    <2>3. strays' + Cardinality(Lost') <= Allowance(0)
      BY <1>2, <2>1, LostBound, OneMoreRemoval
    <2> QED  BY <2>1, <2>2, <2>3 DEF Removals, Period, Allowance
  <1> QED  BY <1>0, <1>5, <1>6

\* A window that opens or closes begins a new count.
LEMMA ObserveRemovals ==
    ASSUME LInv, Removals, Observe
    PROVE  Removals'
  <1>1. UNCHANGED <<buckets, since, holds, asking>> /\ age' = 0 /\ strays' = 0
    BY DEF Observe, Watch, Unwatch, heapVars
  <1>2. Lost' = Lost /\ Lost \in SUBSET Thread /\ Quiet' = Quiet
    BY <1>1 DEF Lost, Quiet
  <1>3. Quiet \in 0 .. Period
    BY LimiterAssumption DEF LInv, LimiterTypes, Quiet, Period
  <1>4. 0 * Period + Quiet' <= age' + Period
    BY <1>1, <1>2, <1>3, LimiterAssumption DEF Period
  <1>5. strays' + Cardinality(Lost') <= Allowance(0)
    BY <1>1, <1>2, LostBound, OneMoreRemoval
  <1> QED  BY <1>1, <1>4, <1>5 DEF Removals, Period, Allowance

\* Every step preserves the count of removals.
LEMMA StepRemovals == LInv /\ Removals /\ [LimiterNext]_limiterVars => Removals'
  <1> SUFFICES ASSUME LInv, Removals, [LimiterNext]_limiterVars
               PROVE  Removals'
    OBVIOUS
  <1>1. CASE UNCHANGED limiterVars
    BY <1>1 DEF limiterVars, vars, Removals, Lost, Quiet, Period, Allowance
  <1>2. CASE LimiterNext
    BY <1>2, GetRemovals, AllowRemovals, ReapRemovals, TickRemovals, ObserveRemovals
       DEF LimiterNext
  <1> QED  BY <1>1, <1>2

----------------------------------------------------------------------------

\* The types, and the ownership of the buckets, in every reachable state.
THEOREM LimiterTypeCorrect == LimiterSpec => []LimiterTypeOK
  <1>1. LInv => LimiterTypeOK
    BY DEF LInv, LimiterTypes, Ownership, LimiterTypeOK
  <1> QED  BY <1>1, LimiterInvariance, PTL

\* Removing idle buckets changes nothing for a principal: the limiter
\* implements, for each of them, the token bucket that is never removed.
THEOREM ImplementsOwnBucket == LimiterSpec => OwnBucket
  <1>1. LimiterInit => Init
    BY DEF LimiterInit
  <1> QED  BY <1>1, LimiterInvariance, StepMaps, PTL DEF LimiterSpec, OwnBucket, Spec

\* So what a principal gets through the map in any window is at most a full
\* bucket and what accrues while the window is open.
THEOREM LimiterLimit == LimiterSpec => []WindowBound
  BY ImplementsOwnBucket, Limit, PTL DEF OwnBucket

\* The calls that a principal gets on removed buckets are few: two for every
\* goroutine that holds one, and one more for each interval of the window.
THEOREM StraysAreBounded == LimiterSpec => []StraysAreFew
  <1>1. Removals /\ LInv => StraysAreFew
    <2> SUFFICES ASSUME Removals, LInv
                 PROVE  StraysAreFew
      OBVIOUS
    <2>1. PICK n \in Nat : /\ n * Period + Quiet <= age + Period
                           /\ strays + Cardinality(Lost) <= Allowance(n)
      BY DEF Removals
    <2>2. age \in Nat /\ strays \in Nat /\ Quiet \in Nat
      BY LimiterAssumption DEF LInv, IInv, TypeOK, LimiterTypes, Quiet
    <2>3. Lost \in SUBSET Thread
      BY DEF Lost
    <2>4. Cardinality(Lost) \in Nat /\ Cardinality(Thread) \in Nat
      BY <2>3, LostBound
    <2>5. n <= 1 + age \div Period /\ age \div Period \in Nat
      <3>1. Period \in Nat \ {0} /\ n * Period \in Nat /\ n * Period <= age + Period
        <4>1. Period \in Nat \ {0}
          BY LimiterAssumption DEF Period
        <4>2. n * Period \in Nat /\ age + Period \in Nat
          BY <2>2, <4>1
        <4>3. \A a, q, m \in Nat : a + q <= m => a <= m
          OBVIOUS
        <4> QED  BY <2>1, <2>2, <4>1, <4>2, <4>3
      <3>2. \A a, p, m \in Nat : p # 0 /\ m * p <= a + p =>
               m <= 1 + a \div p /\ a \div p \in Nat
        <4>1. ASSUME NEW a \in Nat, NEW p \in Nat, NEW m \in Nat, p # 0, m * p <= a + p
              PROVE  m <= 1 + a \div p /\ a \div p \in Nat
          <5> DEFINE d == a \div p
          <5>1. d \in Nat /\ a < (d + 1) * p
            BY <4>1
          <5> HIDE DEF d
          <5>2. (d + 1) * p + p = (d + 2) * p
            BY <5>1
          <5>3. m * p < (d + 2) * p
            BY <4>1, <5>1, <5>2
          <5>4. ~ (d + 2 <= m)
            BY <5>1, <5>3, TimesMonotone
          <5> QED  BY <5>1, <5>4 DEF d
        <4> QED  BY <4>1
      <3> QED  BY <2>2, <3>1, <3>2
    <2>6. strays <= Cardinality(Thread) * (1 + n)
      BY <2>1, <2>2, <2>4, OneMoreRemoval DEF Allowance
    <2>7. Cardinality(Thread) * (1 + n) <= Cardinality(Thread) * (2 + age \div Period)
      <3>1. \A c, m, d \in Nat : m <= 1 + d => c * (1 + m) <= c * (2 + d)
        <4>1. ASSUME NEW c \in Nat, NEW m \in Nat, NEW d \in Nat, m <= 1 + d
              PROVE  c * (1 + m) <= c * (2 + d)
          <5>1. (1 + m) * c <= (2 + d) * c
            BY <4>1, TimesMonotone
          <5> QED  BY <5>1
        <4> QED  BY <4>1
      <3> QED  BY <2>4, <2>5, <3>1
    <2>8. /\ Cardinality(Thread) * (1 + n) \in Nat
          /\ Cardinality(Thread) * (2 + age \div Period) \in Nat
      BY <2>4, <2>5
    <2> HIDE DEF Period
    <2>9. strays <= Cardinality(Thread) * (2 + age \div Period)
      BY <2>2, <2>6, <2>7, <2>8
    <2> QED  BY <2>9 DEF StraysAreFew, Period
  <1>2. LimiterSpec => []Removals
    BY InitRemovals, StepRemovals, LimiterInvariance, PTL DEF LimiterSpec
  <1> QED  BY <1>1, <1>2, LimiterInvariance, PTL

=============================================================================
