\* A connection that is lost and made again in every round of the loop.
SPECIFICATION FairSpec
CONSTANTS
  Sessions = {s1}
  MaxUpdates = 1
  Calls = {"close"}
  Reconnects = TRUE
  SlowHandshake = TRUE
  KeepAlive = TRUE
  Undefined = Undefined
PROPERTY CloseCompletes
CHECK_DEADLOCK FALSE
