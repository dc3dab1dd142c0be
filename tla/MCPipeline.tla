----------------------------- MODULE MCPipeline -----------------------------
(* Three segments, of which 3 feeds 1, so that the order of addresses is not *)
(* the order of the data.                                                    *)
EXTENDS Pipeline

MCSegment == 1 .. 3
MCUpstream == [s \in MCSegment |-> IF s = 1 THEN {3} ELSE {}]
MCUpdates == {{2}, {1, 3}, {1, 2, 3}}
=============================================================================
