SPECIFICATION Spec
CONSTANTS
  StartMargin = 6
  ReadyStable = 1
  EpochModulus = 7
  SeqModulus = 8
  MinDelay = 1
  MaxDelay = 2
  MinReset = 2
  MinRelock = 2
  DataEnd = {"child"}
  MaxFalls = 1
  None = None
INVARIANTS
  ReleaseTogether
  ChildFollows
  StaleReadyBounded
  NoOverlap
  RunsInStep
  FaultOnItsWay
PROPERTIES RootNotAlone
