CONSTANTS
  c1 = c1
  c2 = c2
  p1 = p1
  p2 = p2
  j1 = j1
  j2 = j2
  Calls = {c1}
  Pages = {p1}
  Jars = {j1}
  Layouts <- OneTab
  MaxFailedLogins = 2
  MaxTokens = 4
  MaxSecrets = 1
  MaxRequests = 4
CHECK_DEADLOCK FALSE
SPECIFICATION SessionsSpec
PROPERTIES
  PreEnrolmentSessionsEnd
