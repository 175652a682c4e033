SPECIFICATION FairSpec
CONSTANTS
  a = a
  b = b
  None = None
  Addrs = {a, b}
  Conns = {c1, c2}
  Lists <- MCLists
  MaxSets = 1
INVARIANTS TypeOK CountsHolders
PROPERTIES LeastLoaded NoEarlyClose EndPassedOn EventuallyReleased SetBackendsReturns
