SPECIFICATION Spec
CONSTANTS
  Events = {e1, e2}
  MaxClock = 3
  Facts = {1}
  QueueCap = 1
  MaxRows = 2
  OutboxLimit = 2
  Crashes = TRUE
  Faults = {"write", "list", "state", "read"}
SYMMETRY Symmetry
INVARIANT WindowsApart
PROPERTY ImplementsEventFate
