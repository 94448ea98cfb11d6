------------------------- MODULE MCRequestPipeline -------------------------
(* A small instance of RequestPipeline for TLC. *)
EXTENDS RequestPipeline

=============================================================================
