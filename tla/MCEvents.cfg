SPECIFICATION EventsSpec
CONSTANTS
  Depth = 3
  Readers = {r1}
  Sources = {"APP", "LIMITS"}
  MaxEvents = 6
  Emitters = {t1, t2}
  Capacity = 2
  QueueDepth = 1
  MaxSubmits = 3
  MaxResets = 2
INVARIANTS
  RingIsOrdered
  CommittedIsKept
  NumbersAreUnambiguous
PROPERTIES
  QueuedIsRecorded
