------------------------------ MODULE MCRunner ------------------------------
(* Runner with the instances of a source. *)
EXTENDS Runner
=============================================================================
