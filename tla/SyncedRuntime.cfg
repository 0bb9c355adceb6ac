SPECIFICATION SyncedSpec
CONSTANTS
  Node <- PairNode
  Root = "r"
  Parent <- PairParent
  Latency <- PairLatency
  LatencyFromRoot <- PairFromRoot
  Subtree <- PairSubtree
  StartMargin = 5
  ReadyStable = 2
  EpochModulus = 16
  FrameSlots = 3
  CalendarTicks = 2
INVARIANTS LockstepUntilFault
PROPERTIES EmulationRuns StartsWhenReady
