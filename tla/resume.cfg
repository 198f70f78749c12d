SPECIFICATION FairSpec
CONSTANTS
  Workers = {w1, w2}
  Sessions = {s1, s2}
  Nobody = Nobody
  MaxRetries = 1
  Cap = 1
  MaxSpent = 2
  MaxFaults = 1
CHECK_DEADLOCK FALSE
INVARIANTS
  ResumeInv
PROPERTIES
  SessionsSettle
