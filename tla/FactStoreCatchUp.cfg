SPECIFICATION FairSpec
CONSTANTS
  MaxVersion = 3
  Small = {2}
  Fetchers = {f1}
  Commands = {c1}
  Node = node
  NoTask = none
  Crashes = TRUE
  Faults = {"write", "point", "back"}
PROPERTY CatchesUp
