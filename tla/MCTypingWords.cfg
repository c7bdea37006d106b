CONSTANTS
  NoApp = NoApp
  NoWord = NoWord
  Apps = {user}
  Parent <- MCParent
  Terminals = {}
  DefaultTable = {}
  Keys = {"a", "e"}
  Chars <- MCChars
  Styles <- OnlyTelex
  MaxKeys = 4
  Render <- MCRender
  CannotBecomeVietnamese <- MCCannotBecome
  IsInvalidVietnamese <- MCInvalid
  WithoutRejections <- MCTyped
  WordKeys <- MCWordKeys
  Upper <- SameCase
  Lower <- SameCase
  Boundaries = {" "}
  ControlKeys = {"TAB"}
  Tab = "TAB"
  SentenceEnders = {"."}
  EnglishWords <- English
  Macros <- VowelMacro
  CommittedHistory = 2
  InitialSettings <- WordAndMacroSettings
  EditableSettings = {}
  MaxText = 4
  MaxDecisions = 0
  OtherTexts <- OtherText
  UnseenMoves = {}
SPECIFICATION Spec
INVARIANTS
  TypeOK
  ComposedWordIsTheTail
  HistoryIsAsRecorded
  CorrectionTargetIsAtTheCaret
PROPERTIES
  OnlyOwnedTextIsEdited
