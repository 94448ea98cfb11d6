------------------------ MODULE MCIdempotentRetries ------------------------
(* A small instance of IdempotentRetries for TLC: the clock stops before   *)
(* the first answer can expire, and the process does not die.              *)
EXTENDS IdempotentRetries

=============================================================================
