SPECIFICATION FairSpec
CONSTANTS
  Node = {n1, n2}
  TIME_NEAR = 2
  TIME_LEVEL = 2
  MaxTicks = 2
INVARIANTS LinkedOnce OnTime
PROPERTIES FifoWhenTied Fires
