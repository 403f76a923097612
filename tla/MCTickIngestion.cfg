SPECIFICATION FairSpec
CONSTANTS
  Symbols = {eurusd, gbpusd}
  Spreads = {100, 300}
  MaxSize = 2
  ClockOffsets = {0, 1}
  MaxQuotes = 3
  MaxRestarts = 1
  MaxTime = 2
INVARIANTS
  TimesAscend
  AverageWithinSeen
  SpikeIsAbnormal
  StaleOnlyByLoss
PROPERTIES
  LatencyShowsDelay
  QuotedTimesArrive
CHECK_DEADLOCK FALSE
