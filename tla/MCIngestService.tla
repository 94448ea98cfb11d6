--------------------------- MODULE MCIngestService ---------------------------
(* A small instance of IngestService for TLC. *)
EXTENDS IngestService, TLC

Symmetry == Permutations(Request)

=============================================================================
