SPECIFICATION FairSpec
CONSTANTS
  c1 = c1  c2 = c2
  Calls = {c1, c2}
  Requests <- MCRequests
  Rewrites = {"secret"}
  Limit = 1
  MaxFaults = 1
INVARIANTS TypeOK SentWasCleared SentWasRecorded
PROPERTIES SettledOnce EveryFetchSettles
CHECK_DEADLOCK FALSE
