\* Any application: it calls at any moment, and may let the loop run dry.
SPECIFICATION Spec
CONSTANTS
  Sessions = {s1, s2}
  MaxUpdates = 1
  Calls = {"close", "input", "stray"}
  Reconnects = TRUE
  SlowHandshake = FALSE
  KeepAlive = FALSE
  Undefined = Undefined
SYMMETRY Symmetry
INVARIANTS
  TypeOK
  RegistrySound
  NoEventBeforeIndex
  StoppedOnlyIfClosed
  EmitsOnce
PROPERTIES
  CloseIsFinal
  CrashOnlyInDanger
  ImplementsLife
\* The process may exit or crash, or every session may be closed.
CHECK_DEADLOCK FALSE
