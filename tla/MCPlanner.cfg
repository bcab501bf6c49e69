SPECIFICATION Spec
CONSTANTS
  MiB = 2
  Inputs <- MCInputs
INVARIANTS
  TypeOK
  LayersPartitioned
  EveryByteOnce
  PlanMeetsContract
PROPERTIES
  Terminates
CHECK_DEADLOCK FALSE
