SPECIFICATION Spec
CONSTANTS
  UsizeMax = 15
  DefaultAlign = 2
  Base = 3
  Cap = 7
  Sizes = {1, 3}
  Aligns = {2}
  MaxMarks = 1
  LifetimeDebug = TRUE
INVARIANT ResetRefusesBorrows
