----------------------------- MODULE MCQueryApi -----------------------------
(* A small instance of QueryApi for TLC. *)
EXTENDS QueryApi

=============================================================================
