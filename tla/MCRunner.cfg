SPECIFICATION FairSpec
CONSTANTS
  Size = 3
  StopUnsubscribes = TRUE
INVARIANTS TypeOK InstancesOutliveTasks CallbackAfterAll JoinReportsFailure
PROPERTIES FailureEndsJoin KillEndsInstances
CHECK_DEADLOCK FALSE
