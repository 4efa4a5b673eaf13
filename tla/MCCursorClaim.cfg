SPECIFICATION ClaimSpec
CONSTANTS
  Account <- MCAccount
  BatchSize = 2
  Task = {t1, t2}
  NoTask = NoTask
SYMMETRY TaskSymmetry
CHECK_DEADLOCK FALSE
INVARIANTS CommittedInList NoCursorAfterDelete
PROPERTIES ChunksDiffer
