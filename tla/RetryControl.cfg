CONSTANTS
  Policies = {"NONE", "IMMEDIATE", "INTERVAL", "LINEAR", "EXPONENTIAL", "JITTER", "RANDOM"}
  RetryTimes = {0, 5}
  InitialWaits = {0, 2}
  Jitters = {50, 101}
  MaxDelays = {0, 3}
  DefaultDelay = 4
  FirstWait <- MCFirstWait
  ClockFails = TRUE
  AgeCap = 8
  CountCap = 4
SPECIFICATION FairSpec
INVARIANTS WaitsAreRespected StopIsFinal
PROPERTY RetriesProgress
