CONSTANTS
  Users = {"u1", "u2"}
  Clients = {"k1"}
  Folios = {"p1"}
SPECIFICATION AccessSpec
INVARIANT SocketScopeIsReadScope
