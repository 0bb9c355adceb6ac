SPECIFICATION HSpec
CONSTANTS
  Node <- ChainNode
  Root = "r"
  Parent <- ChainParent
  Latency <- ChainLatency
  LatencyFromRoot <- ChainFromRoot
  Subtree <- ChainSubtree
  StartMargin = 7
  ReadyStable = 2
  EpochModulus = 8
INVARIANTS TypeOK SameCycleRelease StartOnItsWay FaultInFlight ReadyWasSeen
  StableBeforeRelease FaultBounded
PROPERTIES BarrierSpec
