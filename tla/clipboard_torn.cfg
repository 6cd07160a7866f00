\* A request of the server meets a call of sendClipboard.
SPECIFICATION Spec
CONSTANTS
  MaxTexts = 2
  Chars <- ThreeTexts
  MaxRequests = 1
  MaxOpens = 1
  Patient = TRUE
INVARIANT ResponseIsWhole
CHECK_DEADLOCK FALSE
