SPECIFICATION Spec
CONSTANTS
  Parts = {"writer"}
  d1 = d1
  d2 = d2
  unspecified = unspecified
  garbage = garbage
  k1 = k1
  k2 = k2
  nil = nil
  NaN = NaN
  void = void
INVARIANT SortsKeys
CHECK_DEADLOCK FALSE
