----------------------------- MODULE MCService -----------------------------
(* Service with a few threads, each making a bounded number of calls. *)
EXTENDS Service
=============================================================================
