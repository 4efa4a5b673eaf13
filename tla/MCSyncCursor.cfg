SPECIFICATION MCSpec
CONSTANTS
  Account <- MCAccount
  BatchSize = 2
CHECK_DEADLOCK FALSE
INVARIANTS CursorInList WaitBounded
PROPERTIES PredictionExact
