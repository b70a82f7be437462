SPECIFICATION FairSpec
CONSTANTS
  Messages = {m1, m2}
  EnqueuedTimes = {0, 2}
  ProcessingTimes = {0, 1}
  RetryCounts = {0, 1}
  FaultsHappen = TRUE
  AgeCap = 2
  Reports = {"SUCCESS", "RETRYABLE_ERROR"}
  MaxAttempts = 2
INVARIANT QueueSound
PROPERTIES QueueOrdered QueueDrains
CHECK_DEADLOCK FALSE
