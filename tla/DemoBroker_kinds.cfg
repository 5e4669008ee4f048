CONSTANTS
  Symbols = {"AAPL"}
  Keys = {k1}
  Requests <- EveryKind
  Quotes <- MCQuotes
  Liquidity <- MCLiquidity
  StartingCash = 35000
  QtyScale = 2
  AckTicks = 1
  MaxSlices = 2
  ImpactBps = 3
  ImpactScale = 10000
  SecRate = 30
  TafPerShare = 20
  TafCap = 30
  Cent = 100
  AvgScale = 100
  DayTicks = 5
  ClosedTicks = 2
  ClosedDays = {1}
  MaxOrders = 1
  Horizon = 13
SPECIFICATION Spec
INVARIANTS
  TypeOK
  StatusTellsFills
  FillOrKill
  ExecutionsInSession
  DayOrdersFillOnTheirDay
PROPERTIES
  ImplementsOrderContract
