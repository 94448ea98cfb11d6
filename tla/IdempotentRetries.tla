-------------------------- MODULE IdempotentRetries -------------------------
(***************************************************************************)
(* The cache implements OnceEndpoint for clients that retry in turn, while *)
(* the process lives and the first answer has not expired.  Each of the    *)
(* three conditions is needed: IngestService shows what overlapping        *)
(* requests do to the promise.                                             *)
(***************************************************************************)
EXTENDS IdempotencyCache

\* The window: no response expires in it, and the process stays up.
ASSUME WindowAssumption ==
    /\ MaxTime <= TTL
    /\ MaxRestarts = 0

\* The abstract state.  An answer counts once it has left the middleware.
Reply == [r \in Request |-> IF pc[r] = "done" THEN answer[r] ELSE NoCode]
Memo  == [k \in Key |-> IF entries[k] = NoEntry THEN NoCode
                        ELSE savedCode[entries[k]]]
Ran   == {r \in Request : /\ pc[r] = "done" /\ key[r] # NoKey
                          /\ held[r] = NoEntry}

Once == INSTANCE OnceEndpoint
            WITH asked <- key, memo <- Memo, reply <- Reply, ran <- Ran

\* Every behaviour of the middleware under clients that retry in turn is one
\* of an endpoint that runs the handler once for a key and repeats its
\* answer (the retries a proxy or an SDK makes after a 5xx).
ImplementsOnce == Once!Spec

=============================================================================
