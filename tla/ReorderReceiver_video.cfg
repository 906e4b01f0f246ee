SPECIFICATION Spec
CONSTANTS
  Start = 2
  MaxSent = 7
  Half = 4
  Video = TRUE
  ReorderLen = 2
  Displace = 0
  MaxDup = 1
  MaxNet = 3
INVARIANT ReturnsEarliest
