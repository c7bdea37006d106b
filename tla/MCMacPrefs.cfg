SPECIFICATION Spec
CONSTANTS
  a = a
  A = A
  d = d
  D = D
  blank = blank
  e1 = e1
  p = p
  r = r
  w1 = w1
  editor = editor
  own = own
  Shortcuts = {a, A, d, D, blank}
  Refused = {blank}
  Expansions = {e1}
  AsciiFold <- Ascii
  LowerFold <- Lower
  Words = {w1}
  Apps = {editor}
  Own = own
  Presets = {p}
  Recorded = {r}
  Languages = {"vi", "en"}
  Tables <- Files
  MaxMacros = 3
  Subjects <- OneThingAtATime
INVARIANTS
  CopiesAreCurrent
  OneRowPerShortcut
  EditedRowExists
  WindowsSpeakTheLanguage
  GlyphTellsTheState
PROPERTIES
  NothingIsOverwrittenUnasked
