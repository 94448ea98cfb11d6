---------------------------- MODULE TokenBucket ----------------------------
(***************************************************************************)
(* The token bucket of internal/middleware/ratelimit.go, which both the    *)
(* global and the per-principal limiter are made of.  allow() runs under   *)
(* the bucket's mutex and reads the clock there, so it is one action.      *)
(*                                                                         *)
(* Time is a count of ticks, Minute of them to a minute: any fraction of a *)
(* second can be the tick.  What matters of `last` is the time since it,   *)
(* kept in idle up to a minute, after which the bucket is full anyway.     *)
(* An observer, not part of the code, counts the requests admitted in a    *)
(* window it opens and closes at any time.                                 *)
(***************************************************************************)
EXTENDS Integers

CONSTANTS
    RPM,      \* requestsPerMinute; RateLimit is a no-op unless it is positive
    Minute,   \* ticks in a minute
    MaxAge    \* bound: how long the observer watches

ASSUME BucketAssumption ==
    /\ RPM \in Nat \ {0}
    /\ Minute \in Nat \ {0}
    /\ MaxAge \in Nat

VARIABLES
    tokens,     \* b.tokens
    idle,       \* ticks since b.last, at most Minute
    window,     \* "open" while the observer watches
    age,        \* ticks since it was opened
    admitted    \* requests admitted in it

bucketVars   == <<tokens, idle>>
observerVars == <<window, age, admitted>>
vars         == <<tokens, idle, window, age, admitted>>

\* min(x, bound), for counters that saturate.
UpTo(x, bound) == IF x > bound THEN bound ELSE x

\* Slips: fractions are rounded up, or only whole minutes count.
Refill_RoundedUp(elapsed)    == (elapsed * RPM + Minute - 1) \div Minute
Refill_WholeMinutes(elapsed) == (elapsed \div Minute) * RPM

\* int(elapsed * rate): whole tokens only.  The clock reading is consumed
\* even when the fraction is thrown away.
Refill(elapsed) == (elapsed * RPM) \div Minute

\* Slip: the bucket has no capacity.
Refilled_Uncapped == tokens + Refill(idle)

\* The tokens in the bucket when a call has refilled it.
Refilled == UpTo(tokens + Refill(idle), RPM)

Init ==
    /\ tokens = RPM
    /\ idle = 0
    /\ window = "closed" /\ age = 0 /\ admitted = 0

Admit ==
    /\ Refilled > 0
    /\ tokens' = Refilled - 1
    /\ idle' = 0
    /\ admitted' = IF window = "open" THEN admitted + 1 ELSE admitted
    /\ UNCHANGED <<window, age>>

Deny ==
    /\ Refilled <= 0
    /\ tokens' = Refilled
    /\ idle' = 0
    /\ UNCHANGED observerVars

Tick ==
    /\ window = "open" => age < MaxAge
    /\ idle' = UpTo(idle + 1, Minute)
    /\ age'  = IF window = "open" THEN age + 1 ELSE age
    /\ UNCHANGED <<tokens, window, admitted>>

\* The observer opens a window at any moment, and closes it at any moment.
Watch ==
    /\ window = "closed"
    /\ window' = "open" /\ age' = 0 /\ admitted' = 0
    /\ UNCHANGED bucketVars

Unwatch ==
    /\ window = "open"
    /\ window' = "closed" /\ age' = 0 /\ admitted' = 0
    /\ UNCHANGED bucketVars

Next == Admit \/ Deny \/ Tick \/ Watch \/ Unwatch

Spec == Init /\ [][Next]_vars

----------------------------------------------------------------------------

\* Every variable holds a value of its type.
TypeOK ==
    /\ tokens \in 0 .. RPM
    /\ idle \in 0 .. Minute
    /\ window \in {"open", "closed"}
    /\ age \in 0 .. MaxAge
    /\ admitted \in Nat

\* The limiter's contract: in no window, wherever it begins, does it admit
\* more than a full bucket and the tokens that accrue while the window is
\* open.  The refill arithmetic and the cap are both needed for it.
WindowBound ==
    Minute * admitted <= Minute * RPM + age * RPM

=============================================================================
