---------------------------- MODULE OnceEndpoint ----------------------------
(***************************************************************************)
(* What the Idempotency-Key header promises a client: of the requests that *)
(* carry one key, one runs the handler, and all get the answer it gave.    *)
(* Requests without a key are answered independently of each other.        *)
(***************************************************************************)
EXTENDS Naturals

CONSTANTS Request, Key, NoKey, Code, NoCode

VARIABLES
    asked,   \* Request -> the key it carries, once it has arrived
    memo,    \* Key -> the answer that settled the key
    reply,   \* Request -> its answer
    ran      \* requests with a key whose handler ran to the end

vars == <<asked, memo, reply, ran>>

Init ==
    /\ asked = [r \in Request |-> NoKey]
    /\ memo  = [k \in Key |-> NoCode]
    /\ reply = [r \in Request |-> NoCode]
    /\ ran   = {}

Ask(r, k) ==
    /\ asked[r] = NoKey /\ reply[r] = NoCode
    /\ asked' = [asked EXCEPT ![r] = k]
    /\ UNCHANGED <<memo, reply, ran>>

Plain(r, c) ==
    /\ asked[r] = NoKey /\ reply[r] = NoCode
    /\ reply' = [reply EXCEPT ![r] = c]
    /\ UNCHANGED <<asked, memo, ran>>

First(r, c) ==
    /\ asked[r] # NoKey /\ reply[r] = NoCode
    /\ memo[asked[r]] = NoCode
    /\ memo'  = [memo EXCEPT ![asked[r]] = c]
    /\ reply' = [reply EXCEPT ![r] = c]
    /\ ran'   = ran \cup {r}
    /\ UNCHANGED asked

Again(r) ==
    /\ asked[r] # NoKey /\ reply[r] = NoCode
    /\ memo[asked[r]] # NoCode
    /\ reply' = [reply EXCEPT ![r] = memo[asked[r]]]
    /\ UNCHANGED <<asked, memo, ran>>

Next ==
    \E r \in Request :
        \/ \E k \in Key  : Ask(r, k)
        \/ \E c \in Code : Plain(r, c) \/ First(r, c)
        \/ Again(r)

Spec == Init /\ [][Next]_vars

=============================================================================
