SPECIFICATION FairSpec
CONSTANTS
  Maker <- MakerOf
  Built <- First
  Setups <- Sessions
  MaxRound = 1
  MaxPast = 20
INVARIANTS
    RecordIsRight
    ChecksHold
    
    OneSubmission
PROPERTIES
    SignedEventually
    
CHECK_DEADLOCK FALSE
