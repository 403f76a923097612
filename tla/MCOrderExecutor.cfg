SPECIFICATION Spec
CONSTANTS
  Symbols = {EURUSD, GBPUSD}
  LotSizes = {0, 1, 2}
  Reports = {"Rejected"}
  MaxOrders = 4
INVARIANTS PositionIsNet FilledOnce CloseAllFlattens
SYMMETRY Swap
