\* A careful application that only closes; no reconnection, a live loop.
SPECIFICATION FairSpec
CONSTANTS
  Sessions = {s1, s2}
  MaxUpdates = 1
  Calls = {"close"}
  Reconnects = FALSE
  SlowHandshake = TRUE
  KeepAlive = TRUE
  Undefined = Undefined
INVARIANT CloseNeverCrashes
PROPERTIES
  CloseCompletes
  ConnectAnswered
\* Every session may be closed.
CHECK_DEADLOCK FALSE
