CONSTANTS
  Window = 1
  TTL = 3
  MaxWait = 1
  MaxWaiting = 2
  Horizon = 11
  None = None
SPECIFICATION Spec
INVARIANTS
  AdmissionInv
  AnswersCovered
  LockoutBounded
PROPERTIES
  AnswersAdvance
  KeepsLedger
