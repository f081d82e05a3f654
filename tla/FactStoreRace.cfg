SPECIFICATION Spec
CONSTANTS
  MaxVersion = 2
  Small = {}
  Fetchers = {f1, f2}
  Commands = {}
  Node = node
  NoTask = none
  Crashes = FALSE
  Faults = {}
PROPERTY FactsNeverGoBack
