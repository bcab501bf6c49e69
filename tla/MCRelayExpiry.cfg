SPECIFICATION Spec
CONSTANTS
  pair = pair
  s1 = s1
  s2 = s2
  Pair = {pair}
  Stream = {s1, s2}
  Forward <- MCForward
  IP <- MCIP
  MaxConnections = 3
  MaxConnectionsPerIP = 2
  MaxConnectionsPerPair = 3
  MaxPendingPerPair = 2
  Nobody = Nobody
  MaxDials = 3
PROPERTIES
  PlacesComeBack
CHECK_DEADLOCK FALSE
