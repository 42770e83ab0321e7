CONSTANTS
  p1 = p1
  p2 = p2
  c1 = c1
  c2 = c2
  Producers = {p1, p2}
  Consumers = {c1, c2}
  MaxPushes = 2
  MaxSpurious = 1
SPECIFICATION Spec
INVARIANTS FrontWhileAlone QueueInv
PROPERTIES QueueUntilUndefined EverythingTaken
CHECK_DEADLOCK FALSE
