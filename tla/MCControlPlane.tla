--------------------------- MODULE MCControlPlane ---------------------------
(* Two clients: one is there with a publisher, the other joins and brings a  *)
(* subscriber and a publisher.                                               *)
EXTENDS ControlPlane, SequencesExt

CONSTANTS a, b, p1, p2, s1

MCHome == p1 :> a @@ p2 :> b @@ s1 :> b
MCOrder == [T \in SUBSET Endpoint |-> SetToSeq(T)]
=============================================================================
