CONSTANTS
  Inputs = {i1, default}
  DefaultInput = default
  MaxReceived = 1
  SharedClients = {k1, k2}
  MaxPairs = 4
  IoOptions = {"cert", "trace"}
  OptionDevices = {"d1", "d2"}
  Timeouts = {1, 2}
  Hundred = 6
  MaxMessageNumber = 50
  MaxSent = 3
  MaxArrived = 2
  MaxClock = 3
  MaxHub = 4
  BLOCK_SIZE = 2
  MAX_BLOCK_COUNT = 2
  MaxData = 5
  Reflected <- MCReflected
  Root = "Top"
  Structs <- MCStructs
  Devices = {"d1", "d2"}
  IncludePath = {"d2"}
  Entries <- MCEntries
  Unfit <- MCUnfit
  MaxListed = 2
  MaxNamed = 2
  Metadata <- MCMetadata
  Overrides = {"no name", "both"}
  ClientHandles = {"k1"}
  MaxSchemas = 2
  MaxModels = 2
  MaxMemory = 12
  Strings = {"a", "b", "empty string"}
  Scalars = {"17"}
  Templates <- MCTemplates
  MaxEdits = 2
  MaxLeaves = 4
SPECIFICATION PartsSpec
INVARIANTS SubscriptionsSound SharedSound TopicsFaithful ConfigurationWhole OptionsSound HttpSound UploadHonest RegistryConsistent DecodesJson
PROPERTY ExchangesTrue
CHECK_DEADLOCK FALSE
