SPECIFICATION FairSpec
CONSTANTS
  Symbols = {EURUSD}
  CooldownMs = 1
  EntryTimeoutMs = 1
  DailyLossPct = 100
  MaxParallel = 2
  MaxPerSymbol = 2
  MaxPositionLots = 50000
  LotPer1000 = 10
  MaxSpreadMultiplier <- MC180
  MaxSpreadPips <- MC2
  MaxLatencyMs <- MC100
  ReversalThreshold = 40
  StallTimeoutMs <- MC0
  PipMultiplier <- MC10000
  Metals = {}
  MaxTrades = 1
  Signals <- MCLong
  Quotes <- MCTwo
  Accounts = {}
  DefaultAccount <- MCAccount
  ExecCooldownMs = 1
  TimeSteps = {1}
  Tickets = {1, 2, 3}
  ReqIds = {1, 2, 3, 4}
  Replies = {"pending_bare"}
  OkShapes = {"fill"}
  OrderMayFail = TRUE
  CloseMayFail = FALSE
  PushMayFail = FALSE
PROPERTIES
  EntriesResolve
