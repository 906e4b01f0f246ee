SPECIFICATION Spec
CONSTANTS
  Start = 0
  MaxSent = 7
  Half = 4
  Video = FALSE
  ReorderLen = 2
  Displace = 2
  MaxDup = 2
  MaxNet = 4
INVARIANTS ListSound ReturnsEarliest DeliversInOrder
