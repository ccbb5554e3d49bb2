SPECIFICATION Spec
CONSTANTS
  e1 = e1  e2 = e2  p1 = p1  p2 = p2  p3 = p3  content = content
  RequestIds = {p1, p2}
  Fingerprints = {content}
  Executors = {e1, e2}
  SingleWriter = FALSE
  Stoppable = FALSE
  Limit = 6
  MaxDay = 2
  MaxRevision = 2
  MaxFaults = 1
INVARIANTS TypeOK SentAtMostOnce RefusedMeansUntouched VerifiedMeansApplied
SYMMETRY MCSymmetry
CHECK_DEADLOCK FALSE
