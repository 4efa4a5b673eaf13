SPECIFICATION Deployed
CONSTANTS
  Profile <- Profiles
  Account <- Accounts
  NoProfile = NoProfile
  BatchSize = 1
  Worker = {w1, w2}
  NoWorker = NoWorker
  MaxStack = 1
  MaxRetry = 1
INVARIANTS InFlightOnce
PROPERTIES RefinesClaim SyncedWhenUp TasksEnd
