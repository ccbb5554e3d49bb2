SPECIFICATION Spec
CONSTANTS
  c1 = c1  c2 = c2
  Calls = {c1}
  Requests <- MCRequests
  Rewrites = {"secret"}
  Limit = 1
  MaxFaults = 0
INVARIANT UnreadableIsConfirmed
CHECK_DEADLOCK FALSE
