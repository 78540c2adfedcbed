SPECIFICATION FairSpec
CONSTANTS
  Worker = {w1, w2}
  Looping = {w2}
  Queue = {q1, q2}
  None = None
INVARIANTS SleepersCounted
PROPERTIES NoLostWork ShutsDown
