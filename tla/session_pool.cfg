SPECIFICATION Spec
CONSTANTS
  Workers = {w1, w2}
  Requests = {r1}
  Questions = {q1, q2}
  Keys = {k1}
  Nobody = Nobody
  MaxRetries = 0
  LongReasons = TRUE
  MaxBacklog = 1
  MaxFaults = 0
CHECK_DEADLOCK FALSE
SYMMETRY Symmetry
INVARIANTS
  TypeOK
  PreparationIsInvisible
  GradesComeWithReport
  QuestionsComeFirst
  GradingIsExclusive
PROPERTIES
  ReportIsWrittenOnce
  NoAnswerScoredTwice
