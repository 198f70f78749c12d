SPECIFICATION Spec
CONSTANTS
  Workers = {w1}
  Requests = {r1, r2}
  Questions = {q1}
  Keys = {k1}
  Nobody = Nobody
  MaxRetries = 0
  LongReasons = FALSE
  MaxBacklog = 1
  MaxFaults = 0
CHECK_DEADLOCK FALSE
INVARIANTS
  EveryAnswerIsGraded
