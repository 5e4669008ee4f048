CONSTANTS
  c1 = c1
  c2 = c2
  p1 = p1
  p2 = p2
  j1 = j1
  j2 = j2
  r1 = r1
  r2 = r2
  Calls = {c1, c2}
  Pages = {p1, p2}
  Jars = {j1, j2}
  Layouts <- MCLayouts
  MaxFailedLogins = 2
  MaxTokens = 3
  MaxSecrets = 1
  MaxRequests = 3
  Portfolios = {"p1", "p2"}
  PortfolioNames = {"n1", "n2"}
  References = {"e1"}
  Requests = {r1, r2}
  Patches <- MCPatches
  Horizon = 2
  MaxLog = 3
  Capital = 3
  Prices = {1, 2}
  MaxDailyLoss = 2
  MaxMoves = 5
  Users = {"u1"}
  Clients = {"k1", "k2"}
  Folios = {"p1", "p2"}
  Rows <- MCRows
  MaxRuns = 3
CHECK_DEADLOCK FALSE
SPECIFICATION PlatformSpec
INVARIANTS
  OneLiveToken
  AlarmsExplained
  RevocationFinal
  MandatoryVerified
  ChainLinear
  TamperEvident
  LastAuditIsCurrent
  DeadlockNeedsRename
  PnlIsMarketGain
  EquityNeverInvented
  ScopesAgree
  CompleteUnlessCut
PROPERTIES
  LockHolds
