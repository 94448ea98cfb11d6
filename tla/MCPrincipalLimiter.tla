------------------------- MODULE MCPrincipalLimiter -------------------------
(* A small instance of PrincipalLimiter for TLC: the minute has more ticks *)
(* than the bucket has tokens, so that a call can fall between two         *)
(* refills; the reaper's interval is a tick longer, and a window can be    *)
(* longer than that, so that a goroutine can stray in it twice.            *)
EXTENDS PrincipalLimiter, TLC

\* Nothing tells one goroutine, or one blank bucket, from another.
Alike == Permutations(Thread) \cup Permutations(Bucket)

=============================================================================
