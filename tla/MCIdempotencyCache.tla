------------------------- MODULE MCIdempotencyCache -------------------------
(* A small instance of IdempotencyCache for TLC. *)
EXTENDS IdempotencyCache, TLC

Symmetry == Permutations(Request) \cup Permutations(Key)

=============================================================================
