SPECIFICATION Spec
CONSTANTS
  e1 = e1  e2 = e2  p1 = p1  p2 = p2  p3 = p3  content = content
  RequestIds = {p1, p2, p3}
  Fingerprints = {content}
  Executors = {e1}
  SingleWriter = TRUE
  Stoppable = TRUE
  Limit = 8
  MaxDay = 2
  MaxRevision = 3
  MaxFaults = 1
INVARIANTS StopHolds AppliedToApprovedState
SYMMETRY MCSymmetry
CHECK_DEADLOCK FALSE
