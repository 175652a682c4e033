SPECIFICATION MCSpec
CONSTANTS
  a = a
  b = b
  web = web
  dns = dns
  GateNames = {web, dns}
  GateLists <- MCGateLists
  Versions <- MCVersions
  Halves <- MCHalves
  Broken = Broken
  Absent = Absent
  MaxSaves = 4
  Gates = {web, dns}
  HttpGates = {web}
  Bounds <- MCBounds
  Loads <- MCLoads
  MaxServed = 2
  Interval = 2
  Threshold = 998
INVARIANTS WatcherTypeOK InstalledIsCurrent
INVARIANTS OracleTypeOK P95Share NoRequestHidden
PROPERTIES EditsTakeEffect CallsAreSpaced KeepsAsking
