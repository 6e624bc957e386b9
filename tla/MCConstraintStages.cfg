SPECIFICATION Spec
CONSTANTS
  KeyBits = 2
  TrailCount = 2
  RoundStart = 5
  RoundCount = 3
  RoundConstant <- MCRoundConstant
  StateBits = 1
  LCMarkers <- MCLCMarkers
  LNCMarkers <- MCLNCMarkers
  LCRows = 3
  LNCRows = 4
CHECK_DEADLOCK FALSE
INVARIANT TypeOK
INVARIANT SpacesAreThePrintedRows
INVARIANT SameTrailsThroughout
INVARIANT PairedByPosition
INVARIANT ComparisonIsOfKeys
