CONSTANTS
  term = term
  code = code
  browser = browser
  webapp = webapp
  NoApp = NoApp
  Apps <- MCApps
  Parent <- MCParent
  Terminals = {term}
  Releases <- MCReleases
SPECIFICATION Spec
INVARIANTS
  TypeOK
  NextLaunchAgrees
PROPERTIES
  OnlyTheEditorDisarmsATerminal
  RestartKeepsDecisions
