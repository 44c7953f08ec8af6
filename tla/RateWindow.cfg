SPECIFICATION RateSpec
CONSTANTS
  Task = {c1, c2, c3, c4}
  MaxCalls = 2
  Period = 2
  MaxClock = 6
INVARIANTS
  RateTypeOK
  Spaced
  WaitBounded
SYMMETRY TaskSymmetry
