SPECIFICATION InParts
CONSTANTS
  Profiles = 2
  Cadence = 12
  MaxLoop = 1
  MaxDuration = 3
  Backoff <- Backoffs
  MaxRetry = 1
  MaxStack = 3
  MaxReconnect = 1
INVARIANTS ChunkEveryWindow BlockedByFailure BlockedOnce
 
