CONSTANTS
  ProvTimeout = 1
  Throttle = 1
  LongRetry = 1
  MaxRegistrations = 2
  MaxReplies = 2
  MAX_FRAME_DATA_LEN = 4
  SEQUENCES = 2
  MaxKey = 7
  MaxSegments = 3
  MaxSends = 2
  MaxOpens = 2
  MaxFeedback = 1
  MaxCalls = 3
  MaxOthers = 1
  Individuals = {"e1", "e2"}
  Groups = {"g1"}
  Attestations <- MCAttestations
  Own = {"e1", "g1"}
  MaxEdits = 1
  MaxRequests = 2
  MaxForeign = 1
SPECIFICATION ServicesSpec
INVARIANTS ProvisioningHonest TpmAuthenticates MessagingSound RequestsSound EnrollmentsSound
PROPERTIES RegistrationEnds WrittenComesBack
CHECK_DEADLOCK FALSE
