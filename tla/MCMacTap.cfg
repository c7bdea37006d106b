SPECIFICATION FairSpec
CONSTANTS
  own = own
  other = other
  none = none
  h1 = h1
  h2 = h2
  Apps = {own, other}
  Own = own
  NoApp = none
  Hotkeys = {h1, h2}
  BeforeWarning = 2
  BeforeGivingUp = 4
  RunawayLimit = 1
  Worlds <- CalmAndTroubled
CHECK_DEADLOCK FALSE
INVARIANTS
  NoWordSurvivesAGap
  RecorderStaysAtHome
PROPERTIES
  DeadTapIsReported
  GrantedTapComesBack
  MissedSwitchIsNoticed
