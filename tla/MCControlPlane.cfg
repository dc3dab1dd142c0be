SPECIFICATION FairSpec
CONSTANTS
  a = a
  b = b
  p1 = p1
  p2 = p2
  s1 = s1
  Client = {a, b}
  Present = {a}
  Publisher = {p1, p2}
  Subscriber = {s1}
  Home <- MCHome
  Faulty = {b}
  Stopping = {s1}
  MaxStops = 2
  Leaving = {b}
  Order <- MCOrder
INVARIANTS
  TagsOfConnected
  ServerSurvives
PROPERTIES
  ImplementsRoleSync
  LatchesReleased
  DroppedInstanceEnds
CHECK_DEADLOCK FALSE
