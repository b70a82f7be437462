CONSTANTS
  Messages = {m1, m2}
  PacketIds = 3
  UserTopics = {}
  Disconnects = {"telemetry"}
  MaxSubscribes = 1
  Refusable = {}
SPECIFICATION TelFairSpec
INVARIANT TelSound
PROPERTY MessagesSettle
CHECK_DEADLOCK FALSE
