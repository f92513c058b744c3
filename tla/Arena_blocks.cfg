SPECIFICATION Spec
CONSTANTS
  UsizeMax = 15
  DefaultAlign = 2
  Base = 3
  Cap = 7
  Sizes = {1, 3, 15}
  Aligns = {2, 4}
  MaxMarks = 2
  LifetimeDebug = TRUE
INVARIANTS TypeOK MarkSeparates ZeroBlocksClean NoResidue BorrowsSurviveRollback
PROPERTY Implements
