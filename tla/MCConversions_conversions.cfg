SPECIFICATION Spec
CONSTANTS
  AvcLen = 7
  NalLen = 7
  AacLen = 4
  Utf8Len = 4
  JsonLen = 5
  MaxArray = 12
INVARIANTS UnitsFound HeadersParsed Utf8Accepted JsonReadBack
