CONSTANTS
  MaxWrites = 5
  MaxFails = 1
SPECIFICATION FairSpec
INVARIANTS
    QueueInvariant
PROPERTIES
    ImplementsDurableLog
    EveryWriteAnswered
CHECK_DEADLOCK FALSE
