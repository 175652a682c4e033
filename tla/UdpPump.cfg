SPECIFICATION UdpFairSpec
CONSTANTS
  x = x
  Clients = {x}
  NoSession = NoSession
  Dgrams = {d1, d2, d3}
  From <- MCFrom
INVARIANT PumpLivesWithSession
