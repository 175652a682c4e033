SPECIFICATION Spec
CONSTANTS
  a = a
  b = b
  None = None
  Addrs = {a, b}
  Conns = {c1, c2}
  Lists <- MCLists
  MaxSets = 0
  MaxAborts = 1
  MaxUpgrades = 0
INVARIANT CountsInFlight
