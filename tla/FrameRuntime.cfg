SPECIFICATION Spec
CONSTANTS
  Fpga <- MCFpga
  Signal <- MCSignal
  Clock <- MCClock
  ClockOf <- MCClockOf
  Reads <- MCReads
  Value = {0, 1}
  Zero = 0
  DutNext <- MCDutNext
  Period <- MCPeriod
  Source <- MCSource
  Chan <- MCChan
  ChanFrom <- MCChanFrom
  ChanTo <- MCChanTo
  ChanLatency <- MCChanLatency
  FrameSlots = 7
  Schedules <- MCSchedules
INVARIANTS TypeOK ShadowsFresh
PROPERTIES DutSpec EveryClockTicks
