CONSTANTS
  p1 = p1
  p2 = p2
  admin = admin
  manager = manager
  g1 = g1
  o1 = o1
  Portfolios = {p1, p2}
  Demo = {p1}
  Operators = {admin, manager}
  Scope <- MCScope
  Admins = {admin}
  Gates = {g1}
  Orders = {o1}
  PortfolioOf <- MCPortfolioOf
  RiskCap = 1
SPECIFICATION FairSpec
INVARIANTS
  TypeOK
  HaltLeavesTrace
PROPERTIES
  SweepComplete
  AllowedWasOpen
  RestingOrdersGo
