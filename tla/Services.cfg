\* Two clients that begin two requests between them, one death.
CONSTANTS
  Threads = {t1}
  Apps = {a1}
  Modes = {balanced, saver}
  Balanced = balanced
  None = None
  Wished = {saver}
  MaxDeaths = 1
SPECIFICATION FairSpec
INVARIANTS
  AnswerIsReal
  SettingsShowsItsMode
PROPERTIES
  Answered
  BarFollows
