SPECIFICATION Spec
CONSTANTS
  Task = {"t"}
  Launcher = {"l"}
  Reconciler = {"r1", "r2"}
  MaxWorkers = 2
  Slots = 1
  MaxSshFailures = 1
INVARIANTS TypeOK AttemptDirOwned OneWorkerPerTask SlotsRespected NoSubmissionAfterRetirement
PROPERTIES WaitEnds
CHECK_DEADLOCK FALSE
