CONSTANTS
  NoApp = NoApp
  NoWord = NoWord
  Apps = {user}
  Parent <- MCParent
  Terminals = {}
  DefaultTable = {}
  Keys = {"c", "C"}
  Chars <- MCChars
  Styles <- OnlyQuickTelex
  MaxKeys = 3
  Render <- MCRender
  CannotBecomeVietnamese <- MCCannotBecome
  IsInvalidVietnamese <- MCInvalid
  WithoutRejections <- MCTyped
  WordKeys <- MCWordKeys
  Upper <- MCUpper
  Lower <- MCLower
  Boundaries = {" ", "."}
  ControlKeys = {"TAB"}
  Tab = "TAB"
  SentenceEnders = {"."}
  EnglishWords <- Doubled
  Macros <- NoMacros
  CommittedHistory = 2
  InitialSettings <- CapitalSettings
  EditableSettings = {}
  MaxText = 4
  MaxDecisions = 1
  OtherTexts <- OtherText
  UnseenMoves = {}
SPECIFICATION Spec
INVARIANTS
  CaseIsAsTyped
PROPERTIES
  CorrectionIsRemembered
