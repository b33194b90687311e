SPECIFICATION Spec
CONSTANTS
  Source = {"a", "s", "t", "f"}
  Refs <- Web
  Has <- WebHas
  Proof <- WebProof
  MaxSend = 2
  MaxRequests = 2
  MaxPendingDeps = 2
  MaxLosses = 1
INVARIANTS
    AnswersBounded
PROPERTIES
    SynchronizedEventually
CHECK_DEADLOCK FALSE
