SPECIFICATION Spec
CONSTANTS
  Events = {e1, e2}
  MaxClock = 3
  Facts = {1}
  QueueCap = 2
  MaxRows = 2
  OutboxLimit = 2
  Crashes = TRUE
  Faults = {}
SYMMETRY Symmetry
INVARIANT SavedIsNotLost
