CONSTANTS
  NoApp = NoApp
  NoWord = NoWord
  Apps = {user, other}
  Parent <- MCParent
  Terminals = {}
  DefaultTable = {}
  Keys = {"a", "6"}
  Chars <- MCChars
  Styles <- TelexAndVni
  MaxKeys = 3
  Render <- MCRender
  CannotBecomeVietnamese <- MCCannotBecome
  IsInvalidVietnamese <- MCInvalid
  WithoutRejections <- MCTyped
  WordKeys <- MCWordKeys
  Upper <- SameCase
  Lower <- SameCase
  Boundaries = {" "}
  ControlKeys = {"TAB"}
  Tab = "TAB"
  SentenceEnders = {"."}
  EnglishWords <- English
  Macros <- DigitMacro
  CommittedHistory = 2
  InitialSettings <- PlainSettings
  EditableSettings = {"style", "checks", "alwaysMacro"}
  MaxText = 3
  MaxDecisions = 0
  OtherTexts <- OtherText
  UnseenMoves = {}
SYMMETRY AppSymmetry
SPECIFICATION Spec
INVARIANTS
  KeysAndRenderingAgree
  EscapesAreTheSpellChecks
