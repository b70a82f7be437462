CONSTANTS
  MaxFailures = 2
  MaxPuts = 1
SPECIFICATION AmqpTransportSpec
INVARIANT TransportSound
PROPERTY DeviceRecovers
CHECK_DEADLOCK FALSE
