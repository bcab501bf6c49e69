SPECIFICATION Spec
CONSTANTS
  Chat = {c1, c2}
  Model = {m1, m2}
  Group = {g1, g2}
  None = None
  Hold = 3
  RenewPeriod = 1
  StartLimit = 1
  Faults = {"network", "cancel", "process", "control", "exit"}
INVARIANTS
  TypeOK
  NoStrayServer
  GroupKept
PROPERTIES
  OrphansExpire
  EnsureReturns
