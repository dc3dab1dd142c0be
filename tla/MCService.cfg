SPECIFICATION FairSpec
CONSTANTS
  Caller = {t1, t2, t3}
  MaxCalls = 4
INVARIANTS HooksRunOnce OutcomesAgree DestroyedWhenCompleted
PROPERTIES StateOnlyAdvances CallsReturn
CHECK_DEADLOCK FALSE
