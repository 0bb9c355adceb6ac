SPECIFICATION Spec
CONSTANTS
  Fpga = {1, 2, 3, 4}
  LinkId = {1, 2, 3}
  LinkLatency = {0, 2}
INVARIANTS BuildsTopology DepthIsHopDistance
PROPERTIES Decides
CHECK_DEADLOCK FALSE
