SPECIFICATION FairSpec
CONSTANTS
  None = None
  N = 1
  Writer = {w1}
  Reader = {r1}
  Completer = {c1}
  Closer = {k1}
  Notifier = {}
  MaxWrites = 1
PROPERTY
  CompletedEnds
CHECK_DEADLOCK FALSE
