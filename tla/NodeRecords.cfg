SPECIFICATION NodeSpec
CONSTANTS
  MaxVersion = 5
  Small = {3}
  Fetchers = {f1}
  Commands = {}
  Node = node
  NoTask = none
  Crashes = TRUE
  Faults = {"write", "point"}
  Requests = {r1, r2, r3, r4}
  MaxDay = 2
  LogQueue = 2
  MaxSize = 2
  KeepDays = 1
  LogFaults = {"open", "line"}
  MaxLimit = 2
  Conditions <- Trees
  MaxKeys = 2
  Bounds <- OneEdge
  Buckets = 2
  MinuteLength = 1
  Served <- Site
  MaxRows = 2
  LiveLimit = 2
  SparseLimit = 1
  Hash <- OneRegister
  Workers = {w1, w2}
  Visits <- Visitors
  Trusted <- Proxies
  OwnNetworks <- Monitors
  Answers = {200, 502}
  Lists <- FourLists
  MaxEvents = 3
  MaxTime = 1
  MaxReloads = 1
SYMMETRY Symmetric
INVARIANTS
  CurrentIsOnDisk
  LogInOrder
  NothingLeftBehind
  ReplayAlwaysAgrees
  ShadowsForetell
  AllNumbersAgree
  SummariesAreWhole
  AggregatesAgree
  ChainsAreNotForged
  NoPageMisses
PROPERTIES
  FactsNeverGoBack
  NeverShrinks
