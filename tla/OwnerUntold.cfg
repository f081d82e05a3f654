SPECIFICATION FairSpec
CONSTANTS
  Rules = {1, 3}
  Proposed = {1}
  RuleOf <- ItsOwn
  Advised = {}
  About <- AboutThree
  Suggest <- SuggestShadow
  Handlers = {h1}
  Commands = {}
  MaxEdits = 3
  Changes <- ThereAndBack
  Lists <- AllOrNone
  Before <- ThreeActive
  MaxItems = 1
  Crashes = FALSE
  Faults = {}
PROPERTY CloudIsTold
