CONSTANTS
  TelEvents = {1, 2, 3}
  MaxBatch = 2
  RetryLimit = 2
  MaxStarts = 2
  FreedIntact = TRUE
  TwinPatches = {1}
  MaxSendErrors = 1
  MaxSubscriptionErrors = 2
  MaxTwinStarts = 2
  MaxRequests = 2
  OutagesShort = TRUE
SPECIFICATION MessengersSpec
INVARIANTS EventsSound TwinSound
CHECK_DEADLOCK FALSE
