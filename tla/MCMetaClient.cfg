SPECIFICATION Spec
CONSTANTS
  MaxAccounts = 3
  ChunkSize = 2
  Attempts = 3
  MaxRetry = 1
  GraphError <- MCErrors
INVARIANTS RefusedTaskStops QuietWhenThrottled
PROPERTIES RefinesCall StatusFromRefusal
