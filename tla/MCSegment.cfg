SPECIFICATION FairSpec
CONSTANTS
  source = source
  node = node
  sink = sink
  Node = {source, node, sink}
  Upstream <- ChainUpstream
  LaunchOrder <- ChainLaunchOrder
  Capacity = 1
  MaxItems = 3
INVARIANTS TypeOK JoinReportsFailure
PROPERTIES JoinedMeansDelivered StoppedSegmentJoins KillEndsJoin
CHECK_DEADLOCK FALSE
