CONSTANTS
  Launch = launch
  Resumer = {r1}
  Cleaner = {}
  None = None
  Inputs = 0
SPECIFICATION Spec
INVARIANT PreparedOnce
CHECK_DEADLOCK FALSE
