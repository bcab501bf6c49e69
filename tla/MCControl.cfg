SPECIFICATION Spec
CONSTANTS
  MiB = 1
  Node = {1, 2}
  i1 = i1
  i2 = i2
  i3 = i3
  g1 = g1
  g2 = g2
  Id <- MCIds
  GroupId <- MCGroupIds
  NoGroup = NoGroup
  Reports <- MCReports
  LeaseRequests <- MCLeaseRequests
  GroupRequests <- MCGroupRequests
  HostSecret = "host"
  Credentials <- MCCredentials
  SeenWindow = 1
  Ttl = 1
  HoldTTL = 2
  UploadRate = 1
  UploadMargin = 2
  UploadCap = 72
  MaxClock = 3
  MaxWaiting = 1
SYMMETRY Sym
INVARIANTS
  TypeOK
  ReservationsBacked
  HoldBounded
PROPERTIES
  RevivedOnlyInTime
  GroupKeepsStages
  ImplementsSlotPool
