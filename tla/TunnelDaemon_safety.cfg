SPECIFICATION Spec
CONSTANTS
  MaxStarts = 3
  MaxPrints = 2
  MaxFails = 1
  StoreMayFail = FALSE
  DrainBeforeRestart = TRUE
  MaxLives = 2
INVARIANTS
  TypeOK
  OneOpenRow
  OpenRowIsLatest
  OneWatcher
  AnswersOnlyChecked
PROPERTIES
  ImplementsAdvert
CHECK_DEADLOCK FALSE
