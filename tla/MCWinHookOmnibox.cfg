SPECIFICATION Spec
CONSTANTS
  edge = edge
  term = term
  editor = editor
  game = game
  none = none
  nowhere = nowhere
  Windows <- All
  NoWindow = nowhere
  NoApp = none
  Excluded = {term}
  Chromium = {edge}
  Stories <- OneWindow
  MaxInputs = 3
  MaxRaises = 2
  QueueDepth = 1
CHECK_DEADLOCK FALSE
INVARIANT
  StaleMeansNoGuard
