SPECIFICATION FairSpec
CONSTANTS
  edge = edge
  term = term
  editor = editor
  game = game
  none = none
  nowhere = nowhere
  Windows <- All
  NoWindow = nowhere
  NoApp = none
  Excluded = {term}
  Chromium = {edge}
  Stories <- AllStories
  MaxInputs = 3
  MaxRaises = 2
  QueueDepth = 1
CHECK_DEADLOCK FALSE
INVARIANTS
  FrontIsKnown
  WordIsAtHome
  GuardOnlyInTheBar
  LogAccountsForEveryLine
  RefusalIsToldOnce
PROPERTIES
  ForegroundSettles
  StaleGuardIsWithdrawn
