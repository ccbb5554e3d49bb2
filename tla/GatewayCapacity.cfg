SPECIFICATION Spec
CONSTANTS
  s1 = s1  s2 = s2  a1 = a1  a2 = a2  r1 = r1  r2 = r2  public = public  secret = secret
  RequestIds = {r1, r2}
  Fingerprints = {public, secret}
  Allowed = {public}
  Senders = {s1, s2}
  Admins = {}
  Inspecting = TRUE
  Stoppable = FALSE
  Limit = 4
  MaxDay = 0
  MaxSeq = 4
  MaxFaults = 0
INVARIANTS ResultNeverRefused
SYMMETRY MCSymmetry
CHECK_DEADLOCK FALSE
