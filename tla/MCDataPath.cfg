SPECIFICATION FairSpec
CONSTANTS
  Instance = {"a", "b"}
  Pub = "a"
  Tag = {1, 2}
  home <- MCHome
  Owner = {"a"}
  Address = {1, 2}
  MaxPublished = 2
  MaxStored = 2
  Fiber = {1, 2}
  RdSize = 1
  DecrementSize = 1
  SinkSize = 1
  PrePosted = 2
  BlockCount = 2
  BlockSize = 3
INVARIANTS
  OneCarrier
  QuietAfterStop
  FailsOnlyThere
PROPERTIES
  MessagesArrive
  StarvedForGood
  StopEnds
CHECK_DEADLOCK FALSE
