SPECIFICATION Spec
CONSTANTS
  Source = {"a", "b", "f"}
  Setups <- Groups
  MaxHeight = 3
INVARIANTS
    NothingStuck
    HonestNeverBlamed
    VectorTimeIsExact
    OwnBlocksAcceptable
    NothingForgotten
PROPERTIES
    ImplementsBroadcast
CHECK_DEADLOCK FALSE
