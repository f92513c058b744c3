SPECIFICATION Spec
CONSTANTS
  k1 = k1
  k2 = k2
  k3 = k3
  k4 = k4
  Keys = {k1, k2, k3, k4}
  Vals = {v1, v2}
  Caps = {2, 4}
  HashValues = {0, 3, 4, 6}
  None = None
SYMMETRY Symmetric
INVARIANTS RobinHood LenIsCount BorrowFindsKey IterationComplete
PROPERTY Implements
