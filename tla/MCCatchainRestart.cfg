SPECIFICATION Spec
CONSTANTS
  Source = {"a", "b", "c", "f"}
  Me = "a"
  Setups <- Surroundings
  MaxHeight = 3
INVARIANTS
    NoInvoluntaryFork
    RestartSucceeds
    OwnChecks
CHECK_DEADLOCK FALSE
