SPECIFICATION Spec
CONSTANTS
  s1 = s1
  s2 = s2
  s3 = s3
  Subscribers = {s1, s2, s3}
  Nil = Nil
  MaxLines = 2
  ChanCap = 1
  MergedCap = 2
SYMMETRY Symmetry
CHECK_DEADLOCK FALSE
INVARIANTS
  FanoutIsExact
PROPERTIES
  OrderKept
