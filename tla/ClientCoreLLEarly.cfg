CONSTANTS
  m1 = m1
  m2 = m2
  m3 = m3
  r1 = r1
  r2 = r2
  Messages = {m1, m2, m3}
  Reports = {}
  Timeouts = {1}
  StartTick = 1
  MaxTick = 4
  TickModulus = 16
  MaxItemId = 4
  FaultsHappen = FALSE
  FaultyIds = {}
SPECIFICATION Spec
INVARIANTS NoEarlyTimeout
CHECK_DEADLOCK FALSE
