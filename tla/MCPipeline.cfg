SPECIFICATION FairSpec
CONSTANTS
  Segment <- MCSegment
  Upstream <- MCUpstream
  Updates <- MCUpdates
  MaxUpdates = 2
INVARIANTS
  JoinAfterSegments
  JoinReportsFailure
  KillReachesRunning
  RunningIsConnected
PROPERTIES
  HaltEndsJoin
CHECK_DEADLOCK FALSE
