SPECIFICATION FairSpec
CONSTANTS
  None = None
  N = 1
  Writer = {w1, w2}
  Reader = {r1, r2}
  Completer = {c1}
  Closer = {k1}
  Notifier = {n1}
  MaxWrites = 1
PROPERTIES
  StoppedReadsEnd
  OpenWritesEnd
CHECK_DEADLOCK FALSE
