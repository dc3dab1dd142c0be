SPECIFICATION Spec
CONSTANTS
  None = None
  N = 2
  Writer = {w1, w2}
  Reader = {r1, r2}
  Completer = {c1}
  Closer = {k1}
  Notifier = {n1}
  MaxWrites = 2
INVARIANTS
  TypeOK
  WaitersMatchOccupancy
  ContentsInOrder
  StoppedReadersReleased
  OutcomeMatchesEffect
PROPERTY
  ImplementsChannel
CHECK_DEADLOCK FALSE
