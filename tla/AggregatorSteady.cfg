SPECIFICATION Spec
CONSTANTS
  Events = {e1, e2, e3}
  MaxClock = 3
  Facts = {1, 2}
  QueueCap = 2
  MaxRows = 2
  OutboxLimit = 2
  Crashes = FALSE
  Faults = {"write", "read"}
SYMMETRY Symmetry
INVARIANTS
  TypeOK
  NothingCountedTwice
  NothingVanishes
  WindowsArriveInOrder
