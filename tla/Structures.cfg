SPECIFICATION StructuresSpec
CONSTANTS
  a = a
  b = b
  Deques = {a, b}
  Vals = {v1, v2}
  BufferOf <- MCBufferOf
  None = None
  e1 = e1
  e2 = e2
  Elems = {e1, e2}
  Rank <- MCRank
  Capacity = 6
  t0 = t0
  t1 = t1
  t2 = t2
  t3 = t3
  Texts = {t0, t1, t2, t3}
  SizeOf <- MCSizeOf
  EmptyText = t0
  ArenaRoom = 5
  PoolSize = 3
  NoText = NoText
  Nul = Nul
  Junk = Junk
  VecAddrs = {1, 2}
  VecInitial = 1
  ElemSize = 1
  UsizeMax = 3
  InlineCap = 1
  VecCapacities = {0, 3}
  StringAddrs = {1, 2}
  StringInitial = 2
  AllocMax = 5
  BufCapacities = {2, 5}
  Bitsets = {1, 2}
  CapacityOf <- MCCapacityOf
  OrPairs <- MCOrPairs
  Width = 2
  RangeMax = 3
  CheckedMax = 7
  Keys = {1, 2}
  MaxLen = 5
  Cutoff = 3
INVARIANTS
  TypesOK RingAgrees HeapOrdered InternedOnce BorrowsTellMoves OneBlockOut
  StringsTerminated CheckedExact SortsStably BoundsDelimit
PROPERTIES
  Implements Serves CallsReturn VectorsServe StringsServe BitsetsServe RangeCounts
