------------------------- MODULE MCRetryingClients -------------------------
(* Small sets of retrying clients for TLC. *)
EXTENDS RetryingClients

=============================================================================
