SPECIFICATION Spec
CONSTANTS
  N = 3
  HiddenSize <- MCHiddenSize
  MaxValues = 2
  Positions = {0, 1}
  Widths = {1}
  Faults = {"deadline"}
  None = None
  MaxRuns = 3
  MaxNext = 2
INVARIANTS
  NeverWedged
CHECK_DEADLOCK FALSE
