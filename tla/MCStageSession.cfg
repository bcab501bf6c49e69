SPECIFICATION Spec
CONSTANTS
  N = 3
  HiddenSize <- MCHiddenSize
  MaxValues = 2
  Positions = {0, 1}
  Widths = {0, 1, 2, 3}
  Faults = {"network", "timeout", "deadline", "execute", "restart"}
  None = None
  MaxRuns = 3
  MaxNext = 2
INVARIANTS
  TypeOK
  HistoryAgrees
PROPERTIES
  ImplementsPipeline
  WedgedForever
  RunReturns
CHECK_DEADLOCK FALSE
