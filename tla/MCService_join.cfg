SPECIFICATION Spec
CONSTANTS
  Caller = {t1, t2}
  MaxCalls = 4

PROPERTY JoinedWhenCompleted
CHECK_DEADLOCK FALSE
