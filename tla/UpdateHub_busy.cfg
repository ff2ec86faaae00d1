SPECIFICATION Spec
CONSTANTS
  None = None
  m1 = m1
  m2 = m2
  Manifests = {m1, m2}
  Timestamp <- TwoTimestamps
  Cipher <- Plain
  MaxRetry = 2
  Scenarios <- BusyAndHeadless
CHECK_DEADLOCK FALSE
INVARIANTS ActivateOnlyVerified
