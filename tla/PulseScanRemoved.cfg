SPECIFICATION FairSpec
CONSTANTS
  a = a
  b = b
  Addrs = {a, b}
  Junk = Junk
  Lists <- MCLists
  MaxReloads = 1
PROPERTY RemovedLeavesRotation
