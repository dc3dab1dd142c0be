----------------------------- MODULE MCSegment -----------------------------
(* A chain of source, node and sink, and a source with its sink. *)
EXTENDS Segment, TLC

CONSTANTS source, node, sink

ChainUpstream == (node :> source) @@ (sink :> node)
PairUpstream == sink :> source

ChainLaunchOrder == <<source, node, sink>>
PairLaunchOrder == <<sink, source>>
=============================================================================
