SPECIFICATION FairSpec
CONSTANTS
  source = source
  node = node
  sink = sink
  Node = {source, sink}
  Upstream <- PairUpstream
  LaunchOrder <- PairLaunchOrder
  Capacity = 1
  MaxItems = 3
PROPERTIES FailureEndsJoin
CHECK_DEADLOCK FALSE
