CONSTANTS
  m1 = m1
  m2 = m2
  m3 = m3
  r1 = r1
  r2 = r2
  Messages = {m1, m2}
  Reports = {r1, r2}
  Timeouts = {1}
  StartTick = 1
  MaxTick = 3
  TickModulus = 16
  MaxItemId = 4
  FaultsHappen = TRUE
  FaultyIds = {1}
SPECIFICATION FairSpec
INVARIANT ListsSound
PROPERTY TimeoutsWork
CHECK_DEADLOCK FALSE
