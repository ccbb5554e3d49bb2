SPECIFICATION FairSpec
CONSTANTS
  s1 = s1  s2 = s2  a1 = a1  a2 = a2  r1 = r1  r2 = r2  public = public  secret = secret
  RequestIds = {r1, r2}
  Fingerprints = {public, secret}
  Allowed = {public}
  Senders = {s1, s2}
  Admins = {a1}
  Inspecting = FALSE
  Stoppable = TRUE
  Limit = 4
  MaxDay = 2
  MaxSeq = 4
  MaxFaults = 0
INVARIANTS ResultNeverRefused StopHolds
PROPERTY EveryIntentConcludes
CHECK_DEADLOCK FALSE
