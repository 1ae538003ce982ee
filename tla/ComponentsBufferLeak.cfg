SPECIFICATION Spec
CONSTANTS
  Parts = {"shared"}
  d1 = d1
  d2 = d2
  unspecified = unspecified
  garbage = garbage
  k1 = k1
  k2 = k2
  nil = nil
  NaN = NaN
  void = void
INVARIANT FreesBuffers
CHECK_DEADLOCK FALSE
