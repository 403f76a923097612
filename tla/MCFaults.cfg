SPECIFICATION Spec
CONSTANTS
  Symbols = {EURUSD}
  CooldownMs = 1
  EntryTimeoutMs = 1
  DailyLossPct = 100
  MaxParallel = 2
  MaxPerSymbol = 2
  MaxPositionLots = 50000
  LotPer1000 = 10
  MaxSpreadMultiplier <- MC180
  MaxSpreadPips <- MC2
  MaxLatencyMs <- MC100
  ReversalThreshold = 40
  StallTimeoutMs <- MC0
  PipMultiplier <- MC10000
  Metals = {}
  MaxTrades = 2
  Signals <- MCReversion
  Quotes <- MCThree
  Accounts = {}
  DefaultAccount <- MCAccount
  ExecCooldownMs = 0
  TimeSteps = {1}
  Tickets = {1, 2, 3}
  ReqIds = {1, 2, 3, 4, 5, 6}
  Replies = {"pending_id", "ok_fill", "lost", "stale", "late"}
  OkShapes = {"fill", "bare"}
  OrderMayFail = TRUE
  CloseMayFail = TRUE
  PushMayFail = TRUE
INVARIANTS
  AnswersMatch
  OpenTradesArePositions
  ClosedTradesArePaid
  NoResendOnceTold
