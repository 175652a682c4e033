SPECIFICATION OracleSpec
CONSTANTS
  Gates = {web, dns}
  HttpGates = {web}
  Bounds <- MCBounds
  Loads <- MCLoads
  MaxServed = 2
  Interval = 2
  Threshold = 998
INVARIANTS RateOverLastInterval
