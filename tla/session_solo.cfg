SPECIFICATION FairSpec
CONSTANTS
  Workers = {w1}
  Requests = {r1}
  Questions = {q1, q2}
  Keys = {k1}
  Nobody = Nobody
  MaxRetries = 1
  LongReasons = FALSE
  MaxBacklog = 2
  MaxFaults = 1
CHECK_DEADLOCK FALSE
INVARIANTS
  EveryAnswerIsGraded
  VerdictMatchesGrades
  FailuresAreExplained
PROPERTIES
  KeepsPromise
  NeverStuck
