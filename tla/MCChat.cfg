SPECIFICATION Spec
CONSTANTS
  h1 = h1
  h2 = h2
  c1 = c1
  c2 = c2
  m1 = m1
  m2 = m2
  Node = {h1, h2}
  Chats = {c1, c2}
  Id = {1, 2}
  Model = {m1, m2}
  Plain = plain
  None = None
  MaxConcurrency <- MCConcurrency
  Asks <- MCAsks
  Reachable = {h1}
  Attempts = 2
  MaxFaults = 1
INVARIANTS
  TypeOK
  SlotsAccounted
  TasksCounted
  ServedByOwnModel
PROPERTIES
  ChatReturns
  TasksDrain
