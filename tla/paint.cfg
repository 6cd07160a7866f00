\* Events may overtake each other, requests meet every step of the painter.
SPECIFICATION FairSpec
CONSTANTS
  Width = 3
  MaxDraws = 3
  MaxRequests = 2
INVARIANTS
  TypeOK
  CanvasConverges
  KeyframeNotLost
PROPERTY
  KeyframeAnswered
