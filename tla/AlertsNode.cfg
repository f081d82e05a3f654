SPECIFICATION FairSpec
CONSTANTS
  Requests = {r1, r2}
  MaxTime = 4
  MaxDrops = 2
  Rules = {"rule"}
  Answers = {"rule", "failed"}
  Window = 1
  RingMinutes = 3
  BaselineMinutes = 1
  BaselineNeeded = 1
  SiteMinRequests = 1
  SiteErrorPercent = 100
  SpikeFactor = 2
  SpikeMinRequests = 2
  SpikeMinBlocked = 2
  RuleMinMatches = 2
  QueueSize = 1
INVARIANT CountsAreSound
PROPERTIES
  ResolvedIsQuiet
  DropsAreTold
  MessagesSettle
