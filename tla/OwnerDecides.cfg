SPECIFICATION FairSpec
CONSTANTS
  Rules = {1, 3}
  Proposed = {1}
  RuleOf <- ItsOwn
  Advised = {2}
  About <- AboutThree
  Suggest <- SuggestShadow
  Handlers = {h1, h2}
  Commands = {c1}
  MaxEdits = 3
  Changes <- SomeChanges
  Lists <- AllOrNone
  Before <- ThreeActive
  MaxItems = 1
  Crashes = TRUE
  Faults = {"rules", "decisions", "sent"}
INVARIANTS
  AcceptedWasAdded
  ToldAsDecided
PROPERTIES
  DecisionsStand
  ImplementsRuleBook
  InForceFollows
  FeedbackSettles
