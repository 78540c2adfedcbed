SPECIFICATION Spec
CONSTANTS
  Launcher = {t1, t2}
  Ctx = {a, b, c}
  Name = {1, 2, 3}
  DEFAULT_SLOT_SIZE = 1
  HANDLE_MASK = 3
  MAX_SLOT_SIZE = 4
  MaxLaunch = 4
  None = None
SYMMETRY Alike
INVARIANTS Reachable AssertionsHold SearchFinds
PROPERTIES NotReissued RetireAllComplete
CHECK_DEADLOCK FALSE
