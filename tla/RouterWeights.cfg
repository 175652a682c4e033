SPECIFICATION RouterSpec
CONSTANTS
  a = a
  b = b
  c = c
  None = None
  Addrs = {a, b, c}
  Lists <- MCLists
  MaxSets = 3
  Wrap = 8
  Weightings <- MCWeightings
INVARIANT ConfiguredWeightKept
