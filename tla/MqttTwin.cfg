CONSTANTS
  Gets = {g1}
  Reports = {r1}
  Initials = {i1}
  UserTopics = {"GET_STATE"}
  Disconnects = {}
  MaxSubscribes = 1
  Refusable = {"GET_STATE"}
SPECIFICATION TwinFairSpec
INVARIANT TwinTypeOK
PROPERTIES TwinHandled RequestsEnd
CHECK_DEADLOCK FALSE
