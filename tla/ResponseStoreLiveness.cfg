SPECIFICATION FairSpec
CONSTANTS
  A = A  B = B  f1 = f1  f2 = f2  p1 = p1  p2 = p2  c1 = c1  c2 = c2  t1 = t1  t2 = t2
  NoSnapshot = NoSnapshot
  Plans = {p1, p2}
  Snapshots = {A, B}
  Findings = {f1, f2}
  FindingsOf <- MCFindingsOf
  Targets = {t1}
  Callers = {c1, c2}
  Ttl = 1
  MaxTime = 1
  MaxFaults = 0
PROPERTY ExecutionConcludes
CHECK_DEADLOCK FALSE
