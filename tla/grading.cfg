SPECIFICATION Spec
CONSTANTS
  Names <- MCNames
  KeyOf <- MCKeyOf
  Questions <- MCQuestions
  Texts <- MCTexts
  Evidences <- MCEvidences
  Full = 2
  Scale = 16
  Near = 1
  Of = 4
  Reruns = 2
  MaxReply = 3
CHECK_DEADLOCK FALSE
INVARIANTS
  GradingInv
  TrustIsAnchored
  NoTrustAfterInjection
  NoNeedlessReview
  SweepKeepsTheGrade
