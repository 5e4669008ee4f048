CONSTANTS
  MaxChanges = 2
  Sockets = {s1}
  DefaultEnvironment = "DEMO"
  MaxRetries = 1
  Calls = {c1, c2}
  FailureThreshold = 2
  ResetTimeout = 2
  SuccessThreshold = 2
  FailureCap = 3
SPECIFICATION MonitoringSpec
INVARIANTS
  TypeOK
  ClosedWhileTolerable
  HeardIsShown
  DeadSocketsGo
PROPERTIES
  DownIsFresh
  ReadyRecovers
  ShownEventually
  TripsAtThreshold
  ClosesAfterSuccesses
  StaysOpen
  Recovers
