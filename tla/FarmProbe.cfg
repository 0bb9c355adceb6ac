SPECIFICATION Spec
CONSTANTS
  Task = {"t"}
  Launcher = {"l"}
  Reconciler = {"r"}
  MaxWorkers = 2
  Slots = 1
  MaxSshFailures = 1
PROPERTIES OnlyDeadRetryable
CHECK_DEADLOCK FALSE
