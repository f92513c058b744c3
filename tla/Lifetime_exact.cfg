SPECIFICATION Spec
CONSTANTS
  v1 = v1
  v2 = v2
  ar = ar
  tu1 = tu1
  tu2 = tu2
  t1 = t1
  t2 = t2
  None = None
  SwapTypes = {"vec"}
  TypeOf <- MCTypeOf
  XorId <- HardwareXor
  Owners = {v1, v2, ar}
  TUs = {tu1, tu2}
  Threads = {t1, t2}
  Borrows = {b1, b2}
  StampTU <- MCTwoTUs
  StampAddr <- MCApart
  PlainTUs = {tu2}
  Serialised = TRUE
  MaxDraws = 3
INVARIANTS TypeOK CheckIsExact
