\* The application calls sendClipboard when its timer fires.
SPECIFICATION Spec
CONSTANTS
  MaxTexts = 2
  Chars <- ThreeTexts
  MaxRequests = 1
  MaxOpens = 1
  Patient = FALSE
INVARIANT SendNeverCrashes
CHECK_DEADLOCK FALSE
