SPECIFICATION FairSpec
CONSTANTS
  Profiles <- MCProfiles
  CleanNames = {"e1", "e2", "vpn", "okta-idp", "demo"}
  Digest <- MCDigest
  Unencodable = {"half"}
  Mistyped = Mistyped
  LabelsAccepted = TRUE
  SourceBytes = 4
  SourceRows = 4
  MaxAssets = 2
  MaxEvents = 4
  Policy = "record"
  Skew = 1
  Lookback = 1
  Config <- MCConfig
  Rows <- MCRows
  Inventories <- MCInventories
  Documents <- MCDocuments
  Handlers = {h1}
  Nobody = Nobody
  MaxRows = 6
  MaxTime = 2
  MaxWrites = 1
  MaxFaults = 1
INVARIANTS TypeOK EvidenceKept SnapshotAccepted DetectionExact GateFollowsRequest
PROPERTY InputIsShown
CHECK_DEADLOCK FALSE
