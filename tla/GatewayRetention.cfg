SPECIFICATION Spec
CONSTANTS
  s1 = s1  s2 = s2  a1 = a1  a2 = a2  r1 = r1  r2 = r2  public = public  secret = secret
  RequestIds = {r1, r2}
  Fingerprints = {public, secret}
  Allowed = {public}
  Senders = {s1, s2}
  Admins = {a1, a2}
  Inspecting = TRUE
  Stoppable = FALSE
  Limit = 4
  MaxDay = 3
  MaxSeq = 4
  MaxFaults = 1
INVARIANTS TypeOK ReceiptsTellTheTruth AtMostOneDelivery ReceiptMatchesJournal JournalVerifies
PROPERTY ImplementsContract
SYMMETRY MCSymmetry
CHECK_DEADLOCK FALSE
