SPECIFICATION Spec
CONSTANTS
  Symbols = {EURUSD, GBPUSD}
  CooldownMs = 1
  EntryTimeoutMs = 1
  DailyLossPct = 1
  MaxParallel = 1
  MaxPerSymbol = 2
  MaxPositionLots = 50000
  LotPer1000 = 10
  MaxSpreadMultiplier <- MC180
  MaxSpreadPips <- MC2
  MaxLatencyMs <- MC100
  ReversalThreshold = 40
  StallTimeoutMs <- MC0
  PipMultiplier <- MC10000
  Metals = {}
  MaxTrades = 3
  Signals <- MCShort
  Quotes <- MCTwo
  Accounts <- MCAccounts
  DefaultAccount <- MCRich
  ExecCooldownMs = 1
  TimeSteps = {1}
  Tickets = {1, 2, 3}
  ReqIds = {1, 2, 3, 4, 5, 6}
  Replies = {"pending_id"}
  OkShapes = {"fill"}
  OrderMayFail = TRUE
  CloseMayFail = FALSE
  PushMayFail = FALSE
INVARIANTS
  TypeOK
  BooksMatchBroker
  NoResend
  ParallelBound
PROPERTIES
  TradesFollowLifeCycle
  NoEntryPastLimit
SYMMETRY MCSymmetry
