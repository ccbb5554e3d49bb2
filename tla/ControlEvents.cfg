SPECIFICATION Spec
CONSTANTS
  LabelLife = 2
  LabelAhead = 1
  Recipient = "organization and model"
  Age = 2
  Ahead = 0
  Day = 1
  Session = 1
  Burst = 1
  Transfers = 2
  Failures = 1
  EvidenceLimit = 2
  Hash <- MCHash
  Slots = {r1}
  BusyLimit = 1
  RawEvents <- MCRawEvents
  Postures <- MCPostures
  Bundles <- MCNoBundles
  DeliveryEnabled = TRUE
  EventLimit = 4
  MaxTime = 2
  MaxRequests = 6
  MaxFaults = 2
INVARIANT ObservedOnce
PROPERTY NothingErased
CHECK_DEADLOCK FALSE
