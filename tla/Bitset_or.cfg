SPECIFICATION Spec
CONSTANTS
  Bitsets = {"small", "large"}
  CapacityOf <- MCCapacityOf
  OrPairs <- MCOrPairs
  Width = 3
INVARIANT PaddingZero
