SPECIFICATION Spec
CONSTANTS
  UsizeMax = 31
  DefaultAlign = 4
  Base = 3
  Cap = 14
  Pools = {p1, p2}
  ObjectSizes = {2, 30}
  Counts = {1, 2, 9}
  PlainSizes = {1}
INVARIANT UseAfterResetDetected
