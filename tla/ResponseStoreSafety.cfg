SPECIFICATION Spec
CONSTANTS
  A = A  B = B  f1 = f1  f2 = f2  p1 = p1  p2 = p2  c1 = c1  c2 = c2  t1 = t1  t2 = t2
  NoSnapshot = NoSnapshot
  Plans = {p1, p2}
  Snapshots = {A, B}
  Findings = {f1, f2}
  FindingsOf <- MCFindingsOf
  Targets = {t1, t2}
  Callers = {c1, c2}
  Ttl = 1
  MaxTime = 2
  MaxFaults = 1
INVARIANTS TypeOK ActsOnceAsApproved VerifiedMeansActed AuditTellsStatus OneOpenPlan StopHolds
PROPERTIES DecidedOnCurrentInput ImplementsLifecycle
SYMMETRY MCSymmetry
CHECK_DEADLOCK FALSE
