SPECIFICATION Spec
CONSTANTS
  Co = {a, b, c}
  Peer = {p}
  MaxSession = 3
  MaxWakeup = 2
  MaxDepth = 1
  None = None
  BREAK = BREAK
SYMMETRY Alike
INVARIANTS ResumesWaiter NothingLeftOver AnsweredOnce SectionHandedOver
CHECK_DEADLOCK FALSE
