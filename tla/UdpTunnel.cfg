SPECIFICATION UdpFairSpec
CONSTANTS
  x = x
  Clients = {x}
  NoSession = NoSession
  Dgrams = {d1, d2, d3}
  From <- MCFrom
INVARIANTS UdpTypeOK NoSocketLeak
PROPERTIES Sticky IdleEvicted
