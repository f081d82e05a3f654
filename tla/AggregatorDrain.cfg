SPECIFICATION FairSpec
CONSTANTS
  Events = {e1, e2}
  MaxClock = 3
  Facts = {1}
  QueueCap = 1
  MaxRows = 1
  OutboxLimit = 2
  Crashes = FALSE
  Faults = {"save"}

PROPERTY OutboxDrains
