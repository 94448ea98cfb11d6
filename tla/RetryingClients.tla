-------------------------- MODULE RetryingClients --------------------------
(***************************************************************************)
(* Clients that obey the limiter: one that got 429 sends its request again *)
(* when the Retry-After of the answer is over (ratelimit.go always says 1  *)
(* second), not sooner and not later.  The tick is a fraction of a second, *)
(* so that clients can be out of phase.                                    *)
(***************************************************************************)
EXTENDS TokenBucket

CONSTANTS
    Client,
    RetryAfter   \* ticks in the Retry-After of a 429, at least one

VARIABLES
    verdict,   \* Client -> the last answer
    wait       \* Client -> ticks before a denied client tries again

clientVars == <<verdict, wait>>
allVars    == <<vars, clientVars>>

ClientInit ==
    /\ Init
    /\ verdict = [c \in Client |-> "none"]
    /\ wait    = [c \in Client |-> 0]

\* One call of the middleware: allow(), then the handler or a 429.
Call(c) ==
    /\ wait[c] = 0
    /\ \/ Admit /\ verdict' = [verdict EXCEPT ![c] = "admitted"]
                /\ UNCHANGED wait
       \/ Deny  /\ verdict' = [verdict EXCEPT ![c] = "denied"]
                /\ wait' = [wait EXCEPT ![c] = RetryAfter]

\* Time does not pass a client whose wait is over.
Due(c) == verdict[c] = "denied" /\ wait[c] = 0

TimePasses ==
    /\ \A c \in Client : ~ Due(c)
    /\ Tick
    /\ wait' = [c \in Client |-> IF wait[c] > 0 THEN wait[c] - 1 ELSE 0]
    /\ UNCHANGED verdict

ClientNext == TimePasses \/ \E c \in Client : Call(c)

\* Time passes, and a client that is due tries again.
ClientFairness ==
    /\ WF_allVars(TimePasses)
    /\ \A c \in Client : WF_allVars(Due(c) /\ Call(c))

ClientSpec == ClientInit /\ [][ClientNext]_allVars /\ ClientFairness

\* ratelimit.go: "Refill tokens based on elapsed time".  While time passes
\* and clients that obey Retry-After ask for tokens, not all of them are
\* denied for ever.  (That none of them is starved by the others is more than
\* a bucket promises.)
SomebodyIsAdmitted == ~ <>[](\A c \in Client : verdict[c] = "denied")

=============================================================================
