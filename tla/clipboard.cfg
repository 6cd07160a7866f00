\* Both channels may close and open again; the application waits for them.
SPECIFICATION ChannelsSpec
CONSTANTS
  MaxTexts = 2
  Chars <- ThreeTexts
  MaxRequests = 2
  MaxOpens = 2
  Patient = TRUE
  LanguageBar = TRUE
  MaxRailOpens = 2
  MaxHandshakes = 2
  MaxLost = 1
INVARIANTS
  TypeOK
  ResponseNotStale
  QuietResponseIsLatest
  EveryRequestAnswered
  RecordHeals
  PatientCrashOnlyClosed
  OrdersInSequence
\* The server stops asking and the channels may be closed for good.
CHECK_DEADLOCK FALSE
