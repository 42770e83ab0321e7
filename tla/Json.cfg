CONSTANTS
  Byte <- MCByte
  Quad <- MCQuad
  maxLargestUInt = 127
  maxLargestInt = 63
  maxInt = 15
  maxDouble = 20000
  Examined <- Convertible
  stackLimit_g = 4
  rightMargin = 12
  Values = {nil, x, y}
  NullValue = nil
  Keys = {p, q}
  CString <- Aliased
  MaxSize = 4
SPECIFICATION MCSpec
INVARIANTS
  Conversions
  Ordered
PROPERTIES
  ReadersSound
  RoundTrips
  KeepsDense
  ImplementsList
CHECK_DEADLOCK FALSE
