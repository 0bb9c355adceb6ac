SPECIFICATION Spec
CONSTANTS
  HopCount = 4
  Frames = {5, 6}
  Latencies = {0, 1}
  None = None
  Models <- MCModels
INVARIANTS
  TypeOK
  EmittedLegal
  WaitJustified
  NeverLaterThanGiven
PROPERTIES
  NeverWorse
CHECK_DEADLOCK FALSE
