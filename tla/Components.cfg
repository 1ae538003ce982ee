SPECIFICATION Spec
CONSTANTS
  Parts <- Every
  d1 = d1
  d2 = d2
  unspecified = unspecified
  garbage = garbage
  k1 = k1
  k2 = k2
  nil = nil
  NaN = NaN
  void = void
INVARIANTS
  TypeOK
  Decodes
  InBounds
  ReadsText
  WritesValue
  ReportsLosses
  BuildsValue
  KeepsWhatIsHeld
  ActsAsAsked
PROPERTY Refines
CHECK_DEADLOCK FALSE
