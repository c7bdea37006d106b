SPECIFICATION Spec
CONSTANTS
  term = term
  editor = editor
  none = none
  a = a
  A = A
  b = b
  e1 = e1
  w1 = w1
  Apps = {term, editor}
  NoApp = none
  Parent <- Alone
  Terminals = {term}
  Defaults = {term}
  Shortcuts = {a, A, b}
  AsciiFold <- Fold
  Expansions = {e1}
  WordOrder <- Sorted
  Languages = {"vi", "en"}
  Files <- Some
  Tables <- Pasted
  Subjects <- TheMode
  Places <- Fronts
  FirstApps = {none, editor}
  MaxInputs = 3
  MaxOpens = 1
  MaxRows = 3
PROPERTIES
  ModeSurvivesTheWindow
