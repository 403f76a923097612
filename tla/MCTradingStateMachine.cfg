SPECIFICATION Spec
CONSTANTS
  Symbols <- MCSymbols
  LotSizes <- MCLotSizes
  StopSizes <- MCStopSizes
  Prices <- MCPrices
  Tickets <- MCTickets
  TimeSteps <- MCTimeSteps
  MaxLots <- MCMaxLots
  CooldownMs <- MCCooldownMs
  EntryTimeoutMs <- MCEntryTimeoutMs
INVARIANTS TypeOK SizeIsWhatWasFilled
PROPERTIES ExposureEndsByClose PositionIdentity
