SPECIFICATION Spec
CONSTANTS
  p1 = p1
  p2 = p2
  p3 = p3
  Proxy = {p1, p2, p3}
  Worlds <- MCWorlds
  ChunkLimit = 2
  NoFile = NoFile
  Idle = Idle
INVARIANTS
  TypeOK
  CacheIsGenuine
  AcknowledgedKept
PROPERTIES
  ImplementsDigestStore
  EventuallyCached
