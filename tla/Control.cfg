SPECIFICATION FairSpec
CONSTANTS
  LabelLife = 2
  LabelAhead = 1
  Recipient = "organization and model"
  Age = 2
  Ahead = 0
  Day = 1
  Session = 0
  Burst = 1
  Transfers = 2
  Failures = 1
  EvidenceLimit = 2
  Hash <- MCHash
  Slots = {r1, r2}
  BusyLimit = 2
  RawEvents <- MCOneEvent
  Postures <- MCPostures
  Bundles <- MCBundles
  DeliveryEnabled = TRUE
  EventLimit = 2
  MaxTime = 2
  MaxRequests = 3
  MaxFaults = 1
INVARIANTS TypeOK ReleaseIsClean
PROPERTY ServiceReturns
CHECK_DEADLOCK FALSE
