SPECIFICATION Spec
CONSTANTS
  Width = 3
  Height = 2
  Bpp = 4
  IntMax = 24
  Formats <- ColourFormats
  Colours <- TwoColours
  Index <- ByRed
  MaxDraws = 2
INVARIANTS
  CopyTypeOK
  CopyStaysInside
  BufferIsRegion
  AppSeesPicture
\* The server may stop drawing.
CHECK_DEADLOCK FALSE
