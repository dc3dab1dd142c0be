SPECIFICATION Spec
CONSTANTS
  Size = 2
  StopUnsubscribes = TRUE
INVARIANTS CallbackTellsFailure
CHECK_DEADLOCK FALSE
