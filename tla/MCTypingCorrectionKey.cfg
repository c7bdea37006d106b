CONSTANTS
  NoApp = NoApp
  NoWord = NoWord
  Apps = {user}
  Parent <- MCParent
  Terminals = {}
  DefaultTable = {}
  Keys = {"a", "f"}
  Chars <- MCChars
  Styles <- OnlyTelex
  MaxKeys = 3
  Render <- MCRender
  CannotBecomeVietnamese <- MCCannotBecome
  IsInvalidVietnamese <- MCInvalid
  WithoutRejections <- MCTyped
  WordKeys <- MCWordKeys
  Upper <- SameCase
  Lower <- SameCase
  Boundaries = {" "}
  ControlKeys = {"TAB"}
  Tab = "TAB"
  SentenceEnders = {"."}
  EnglishWords <- English
  Macros <- OneMacro
  CommittedHistory = 2
  InitialSettings <- MacroSettings
  EditableSettings = {}
  MaxText = 4
  MaxDecisions = 0
  OtherTexts <- OtherText
  UnseenMoves = {"correction hotkey"}
SPECIFICATION Spec
INVARIANTS
  ComposedWordIsTheTail
