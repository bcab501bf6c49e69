SPECIFICATION Spec
CONSTANTS
  MiB = 2
  Inputs <- MCInputs
INVARIANTS
  StageFitsMemory
CHECK_DEADLOCK FALSE
