CONSTANTS
  UserTopics = {"TELEMETRY","GET_STATE"}
  Disconnects = {"sas", "keepalive", "telemetry"}
  MaxSubscribes = 1
  Refusable = {"TELEMETRY","GET_STATE"}
SPECIFICATION ConnFairSpec
INVARIANTS ConnSound SubscriptionsRestored
PROPERTY Recovers
CHECK_DEADLOCK FALSE
