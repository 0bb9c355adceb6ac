SPECIFICATION Spec
CONSTANTS
  Task = {"t"}
  Launcher = {"l"}
  Reconciler = {"r"}
  MaxWorkers = 2
  Slots = 1
  MaxSshFailures = 0
INVARIANTS CommandsFitSlots
CHECK_DEADLOCK FALSE
