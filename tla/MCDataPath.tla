----------------------------- MODULE MCDataPath -----------------------------
(***************************************************************************)
(* DataPath for TLC: two partitions, a publisher on the first, and a       *)
(* subscriber on each.                                                     *)
(***************************************************************************)
EXTENDS DataPath, TLC

MCHome == (1 :> "a") @@ (2 :> "b")
=============================================================================
