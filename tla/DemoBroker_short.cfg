CONSTANTS
  Symbols = {"AAPL"}
  Keys = {k1, k2, k3}
  Requests <- Competing
  Quotes <- MCQuotes
  Liquidity <- MCLiquidity
  StartingCash = 35000
  QtyScale = 2
  AckTicks = 1
  MaxSlices = 2
  ImpactBps = 3
  ImpactScale = 10000
  SecRate = 30
  TafPerShare = 20
  TafCap = 30
  Cent = 100
  AvgScale = 100
  DayTicks = 5
  ClosedTicks = 2
  ClosedDays = {}
  MaxOrders = 3
  Horizon = 4
SPECIFICATION Spec
INVARIANTS
  NoShortPosition
