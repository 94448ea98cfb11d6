-------------------------- MODULE PrincipalLimiter --------------------------
(***************************************************************************)
(* The per-principal limiter of internal/middleware/ratelimit_principal.go *)
(* A map, under its own mutex, gives every key a bucket; a request fetches *)
(* its bucket there (get) and then calls allow() under the bucket's mutex, *)
(* and a reaper removes buckets nobody has called for an interval.         *)
(*                                                                         *)
(* The variables of TokenBucket are, here, the bucket the documentation    *)
(* promises to one principal, Watched: one that is never removed.  It is   *)
(* an observer's: it follows the calls made through the map and decides    *)
(* nothing.  A call on a bucket that was removed after it had been fetched *)
(* is a stray: it is not charged to it but counted apart.                  *)
(***************************************************************************)
EXTENDS TokenBucket, FiniteSets

CONSTANTS
    Thread,     \* goroutines of requests that have reached the limiter
    Key,        \* principal IDs, Watched among them
    Watched,
    Bucket,     \* identities of tokenBucket objects; one that nothing refers
                \* to is blank, and is used again
    None,
    Interval    \* ticks; the reaper's is ten minutes

ASSUME LimiterAssumption ==
    /\ Watched \in Key
    /\ None \notin Bucket \cup Key
    /\ Interval \in Nat /\ Interval >= Minute
    /\ IsFiniteSet(Bucket) /\ IsFiniteSet(Thread)
    /\ Cardinality(Bucket) > Cardinality(Thread) + Cardinality(Key)

VARIABLES
    buckets,    \* Key -> the bucket in the map, or None
    level,      \* Bucket -> b.tokens
    since,      \* Bucket -> ticks since b.last, at most Interval + 1
    asking,     \* Thread -> the key it asks for, None between two requests
    holds,      \* Thread -> the bucket get() returned, None otherwise
    strays      \* observer: strays of Watched granted while the window is open

heapVars    == <<level, since>>
limiterVars == <<vars, buckets, level, since, asking, holds, strays>>

\* A bucket object is a token bucket of the limiter's own rate.
Own(b) == INSTANCE TokenBucket WITH tokens <- level[b], idle <- since[b]

LimiterInit ==
    /\ Init
    /\ buckets = [k \in Key |-> None]
    /\ level   = [b \in Bucket |-> 0]
    /\ since   = [b \in Bucket |-> 0]
    /\ asking  = [t \in Thread |-> None]
    /\ holds   = [t \in Thread |-> None]
    /\ strays  = 0

----------------------------------------------------------------------------

Referenced == {buckets[k] : k \in Key} \cup {holds[t] : t \in Thread}

\* The tokens of a bucket that get() makes.
Fresh == RPM

\* store.get, under store.mu.
Get(t, k) ==
    /\ holds[t] = None
    /\ asking' = [asking EXCEPT ![t] = k]
    /\ IF buckets[k] # None
       THEN /\ holds' = [holds EXCEPT ![t] = buckets[k]]
            /\ UNCHANGED <<buckets, heapVars>>
       ELSE \E b \in Bucket \ Referenced :
                /\ holds'   = [holds EXCEPT ![t] = b]
                /\ buckets' = [buckets EXCEPT ![k] = b]
                /\ level'   = [level EXCEPT ![b] = Fresh]
                /\ since'   = [since EXCEPT ![b] = 0]
    /\ UNCHANGED <<vars, strays>>

\* The observer's bucket is charged for a call made through the map.
Charge(b, granted) ==
    IF buckets[Watched] = b
    THEN /\ tokens' = Refilled - granted
         /\ idle' = 0
         /\ admitted' = IF window = "open" THEN admitted + granted ELSE admitted
         /\ UNCHANGED <<window, age, strays>>
    ELSE /\ strays' = IF window = "open" THEN strays + granted ELSE strays
         /\ UNCHANGED vars

\* bucket.allow, under the bucket's mutex: next.ServeHTTP, or 429.
Allow(t) ==
    LET b == holds[t]
        granted == IF Own(b)!Refilled > 0 THEN 1 ELSE 0
    IN  /\ b # None
        /\ UNCHANGED buckets
        /\ holds'  = [holds EXCEPT ![t] = None]
        /\ asking' = [asking EXCEPT ![t] = None]
        /\ level'  = [level EXCEPT ![b] = IF b \in Referenced'
                                         THEN Own(b)!Refilled - granted ELSE 0]
        /\ since'  = [since EXCEPT ![b] = 0]
        /\ IF asking[t] = Watched THEN Charge(b, granted)
           ELSE UNCHANGED <<vars, strays>>

\* Slip: the reaper empties the map.
Stale_All(b) == TRUE

\* b.last.Before(cutoff)
Stale(b) == since[b] > Interval

\* One turn of the loop in reapLoop.  It holds both mutexes; what comes
\* between two turns touches another bucket or moves b.last to the present.
Reap(k) ==
    /\ buckets[k] # None /\ Stale(buckets[k])
    /\ buckets' = [buckets EXCEPT ![k] = None]
    /\ UNCHANGED <<vars, asking, holds, strays>>
    /\ level' = [b \in Bucket |-> IF b \in Referenced' THEN level[b] ELSE 0]
    /\ since' = [b \in Bucket |-> IF b \in Referenced' THEN since[b] ELSE 0]

TimePasses ==
    /\ Tick
    /\ since' = [b \in Bucket |-> IF b \in Referenced
                                  THEN UpTo(since[b] + 1, Interval + 1) ELSE 0]
    /\ UNCHANGED <<buckets, level, asking, holds, strays>>

Observe ==
    /\ Watch \/ Unwatch
    /\ strays' = 0
    /\ UNCHANGED <<buckets, heapVars, asking, holds>>

LimiterNext ==
    \/ \E t \in Thread, k \in Key : Get(t, k)
    \/ \E t \in Thread : Allow(t)
    \/ \E k \in Key : Reap(k)
    \/ TimePasses
    \/ Observe

LimiterSpec == LimiterInit /\ [][LimiterNext]_limiterVars

----------------------------------------------------------------------------

\* Every variable holds a value of its type; no two keys share a bucket.
LimiterTypeOK ==
    /\ buckets \in [Key -> Bucket \cup {None}]
    /\ level   \in [Bucket -> 0 .. RPM]
    /\ since   \in [Bucket -> 0 .. Interval + 1]
    /\ asking  \in [Thread -> Key \cup {None}]
    /\ holds   \in [Thread -> Bucket \cup {None}]
    /\ strays  \in Nat
    /\ \A j, k \in Key : buckets[j] = buckets[k] => j = k \/ buckets[k] = None

\* The limiter is, for one principal, the token bucket it would be if no
\* bucket were ever removed: a removed one was full, and so is the one made
\* in its place.  This is what reapLoop needs its long interval for.
OwnBucket == Spec

\* What the race between get and the reaper can give away: a removed bucket
\* has to have been idle for an interval, so a goroutine strays at most twice
\* in a window and once more for every interval the window is long.
StraysAreFew ==
    strays <= Cardinality(Thread) * (2 + age \div (Interval + 1))

=============================================================================
